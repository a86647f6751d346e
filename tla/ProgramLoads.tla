---------------------------- MODULE ProgramLoads ----------------------------
(***************************************************************************)
(* What a slave promises of program loads, without queues, activities,     *)
(* jobs or messages: what its hosts run changes only between the request   *)
(* of a load and its answer, and only to a part of that program which no   *)
(* other host runs.  Slave implements it.                                  *)
(***************************************************************************)
CONSTANTS
    Hosts,
    Names,    \* the host names
    Programs, \* the programs, Unloaded among them
    Unloaded, \* the program of a "stop": hosts unload
    Readable  \* the programs with a project tree that can be read

Nothing == [name |-> "", program |-> ""]

VARIABLES
    loading, \* the program of the load under way, if there is one: a set
    active,  \* the slave's active program
    outcome, \* "none", "enrolled", then "yes" or "no" as the last load was answered
    runs     \* what each host runs

vars == <<loading, active, outcome, runs>>

Parts(p) == {[name |-> n, program |-> p] : n \in Names}

Init ==
    /\ loading = {}
    /\ active = Unloaded
    /\ outcome = "none"
    /\ runs = [h \in Hosts |-> Nothing]

\* The master answers the enrollment with its active program.  No host is asked to
\* load it: until the first success the hosts may run less than what is active.
Enroll(p) ==
    /\ outcome = "none"
    /\ outcome' = "enrolled"
    /\ active' = p
    /\ UNCHANGED <<loading, runs>>

Request(p) ==
    /\ outcome # "none"
    /\ loading = {}
    /\ loading' = {p}
    /\ UNCHANGED <<active, outcome, runs>>

\* A host loads a part, or unloads.
Change(h) ==
    /\ \E p \in loading : \E part \in {Nothing} \cup Parts(p) :
          /\ part # Nothing => \A g \in Hosts : runs[g] # part
          /\ runs' = [runs EXCEPT ![h] = part]
    /\ UNCHANGED <<loading, active, outcome>>

\* The load is answered.  If it succeeded its program is the active one, whether or
\* not it was before, and no host runs anything else; but a load of a program that
\* cannot be read succeeds without any host being asked.
Reply ==
    /\ loading # {}
    /\ loading' = {}
    /\ \/ outcome' = "no" /\ UNCHANGED active
       \/ \E p \in loading :
             /\ outcome' = "yes"
             /\ active' = p
             /\ p \in Readable \cup {Unloaded} =>
                   \A h \in Hosts : runs[h] \in {Nothing} \cup Parts(p)
    /\ UNCHANGED runs

\* A host's process ends.
End(h) ==
    /\ runs' = [runs EXCEPT ![h] = Nothing]
    /\ UNCHANGED <<loading, active, outcome>>

Next ==
    \/ \E p \in Programs : Enroll(p) \/ Request(p)
    \/ \E h \in Hosts : Change(h) \/ End(h)
    \/ Reply

Spec == Init /\ [][Next]_vars
=============================================================================
