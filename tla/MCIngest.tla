------------------------------ MODULE MCIngest ------------------------------
(* Instances of Ingest for TLC.                                             *)
EXTENDS Ingest, TLC

CONSTANTS small, large, topic, chunk

Sizes == small :> 1 @@ large :> 2

Sent == [key : {topic}, content : {small, large}]
            \cup [key : {chunk}, content : {large}]

Symmetry == Permutations(Sources)
=============================================================================
