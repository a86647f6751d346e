----------------------------- MODULE MCHostMap ------------------------------
(***************************************************************************)
(* Instance of HostMap for TLC: three hosts of one process and one of      *)
(* another, and programs that share names, move a name to the other        *)
(* process, want more than there is, or want nothing.                      *)
(***************************************************************************)
EXTENDS HostMap

CONSTANTS c1, c2, c3, c4

MCProcessOf == [c \in Clients |-> IF c = c4 THEN "geometry" ELSE "basic"]

Basic(n) == [process |-> "basic", name |-> n]
Geometry(n) == [process |-> "geometry", name |-> n]

MCPrograms ==
    {<< >>,
     <<Basic("one"), Basic("two")>>,
     <<Basic("two"), Basic("three"), Geometry("one")>>,
     <<Basic("three"), Basic("one"), Basic("two"), Geometry("four")>>,
     <<Basic("one"), Geometry("three"), Geometry("two")>>}
=============================================================================
