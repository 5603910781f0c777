----------------------------- MODULE MCExplorer -----------------------------
(* Instances of Explorer for TLC: constants and symmetry.                   *)
EXTENDS Explorer, TLC

Symmetry == Permutations(Keys) \cup Permutations(Selectors)
=============================================================================
