----------------------------- MODULE MCTransfer -----------------------------
(* Instances of Transfer for TLC.                                           *)
EXTENDS Transfer, TLC

Symmetry == Permutations(Publishers) \cup Permutations(Topics)
=============================================================================
