------------------------------- MODULE Remap --------------------------------
(***************************************************************************)
(* How a slave gives the host names of a program to its enrolled hosts     *)
(* (the constructor of HostMap, src/src/slave/hostMap.cpp), as steps of    *)
(* its two loops.                                                          *)
(*                                                                         *)
(* A program wants host names, each run by a named process; several hosts  *)
(* may be processes of one name.  A pair keeps the host that had its name  *)
(* if that is the right process; the other pairs take hosts as they come.  *)
(***************************************************************************)
EXTENDS Naturals, Sequences, FiniteSets

CONSTANTS
    Clients,   \* the hosts, by their mega client id
    Processes, \* the names of the processes
    HostNames, \* the host names
    ProcessOf, \* the process name each client enrolls with
    Programs   \* what programs want: sequences of pairs, no name twice

NoClient == "none"

Pair == [process : Processes, name : HostNames]

ASSUME RemapAssumption ==
    /\ IsFiniteSet(Clients) /\ NoClient \notin Clients
    /\ ProcessOf \in [Clients -> Processes]
    /\ \A p \in Programs :
          /\ p \in Seq(Pair)
          /\ \A j, k \in DOMAIN p : p[j].name = p[k].name => j = k

Mapping == [HostNames -> Clients \cup {NoClient}]

NoMapping == [n \in HostNames |-> NoClient]

(***************************************************************************)
(* The state of the loops.  avail: the enrolled hosts not yet used         *)
(* (oldEnrolledHosts); new: m_hostnameMapping; used: the pairs that have   *)
(* been erased from processNameToHostNameMap.                              *)
(***************************************************************************)
RemapState == [avail : SUBSET Clients, new : Mapping, used : SUBSET Nat]

RemapStart(enrolled) == [avail |-> enrolled, new |-> NoMapping, used |-> {}]

\* The host is not erased from those that are left.
Use_Bug(r, p, k, c) ==
    [r EXCEPT !.new[p[k].name] = c, !.used = @ \cup {k}]

\* The k-th pair of program p gets client c.
Use(r, p, k, c) ==
    [r EXCEPT !.avail = @ \ {c}, !.new[p[k].name] = c, !.used = @ \cup {k}]

\* Whoever had the name is taken, whatever its process.
Reusable_Bug(r, p, k, old) == old[p[k].name] \in r.avail

\* The client that had the name is still there, and the right process.
Reusable(r, p, k, old) ==
    LET c == old[p[k].name]
    IN  c \in r.avail /\ ProcessOf[c] = p[k].process

\* The hosts' names are forgotten.
Reuse_Bug(r, p, k, old) == r

\* A turn of the first loop.
Reuse(r, p, k, old) ==
    IF Reusable(r, p, k, old) THEN Use(r, p, k, old[p[k].name]) ELSE r

\* The hosts a turn of the second loop finds.
Candidates(r, p, k) == {c \in r.avail : ProcessOf[c] = p[k].process}

\* lower_bound: a multimap keeps equal keys in the order they were inserted.
Earliest(C, arrived) == CHOOSE c \in C : \A d \in C : arrived[c] <= arrived[d]
=============================================================================
