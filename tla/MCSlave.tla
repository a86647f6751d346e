------------------------------ MODULE MCSlave -------------------------------
(***************************************************************************)
(* Instances of Slave for TLC: two hosts of one process, a program that    *)
(* wants both, one that wants one of them under a name of the first, and   *)
(* others that want nothing.                                               *)
(***************************************************************************)
EXTENDS Slave

CONSTANTS h1, h2

MCProcessOf == [h \in Clients |-> "basic"]

Basic(n) == [process |-> "basic", name |-> n]

MCWantedBy == [p \in ProgramNames |->
                 CASE p = "both" -> <<Basic("one"), Basic("two")>>
                   [] p = "second" -> <<Basic("two")>>
                   [] OTHER -> << >>]

MCPrograms == {MCWantedBy[p] : p \in ProgramNames}
=============================================================================
