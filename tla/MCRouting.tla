----------------------------- MODULE MCRouting ------------------------------
(***************************************************************************)
(* Instances of Routing for TLC: two coordinators, the first with two host *)
(* names and the second with one, for which a second host stands by.       *)
(***************************************************************************)
EXTENDS Routing

CONSTANTS a1, a2, b1, b2

MCSlaveOf == [h \in Hosts |-> IF h \in {a1, a2} THEN "A" ELSE "B"]
MCHostNames == {"A.one", "A.two", "B.one"}
MCHomeOf == [n \in HostNames |-> IF n = "B.one" THEN "B" ELSE "A"]
MCNameOf == [h \in Hosts |-> CASE h = a1 -> "A.one" [] h = a2 -> "A.two" [] OTHER -> "B.one"]
MCClientId == [s \in Slaves |-> IF s = "A" THEN "id1" ELSE "id2"]

\* The same ids are in use at both slaves.
MCMegaId == [h \in Hosts |-> IF h \in {a1, b1} THEN "id1" ELSE "id2"]
MCEgId == [h \in Hosts |-> IF h \in {a1, b1} THEN "id3" ELSE "id4"]

\* Type 4 is the second coordinator itself.  The other program has the same parts
\* under other indices.
MCPlace == [p \in Programs |->
              IF p = "p" THEN <<"A.one", "A.two", "B.one", "B">>
                         ELSE <<"B", "B.one", "A.two", "A.one">>]
=============================================================================
