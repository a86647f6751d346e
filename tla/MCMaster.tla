------------------------------ MODULE MCMaster ------------------------------
(***************************************************************************)
(* Instances of Master for TLC: c1, c2 and c3 are processes of one slave,  *)
(* which follow or compete with each other, c4 is another slave.           *)
(***************************************************************************)
EXTENDS Master

CONSTANTS c1, c2, c3, c4

MCNameOf == [c \in Conns |-> IF c = c4 THEN 2 ELSE 1]
=============================================================================
