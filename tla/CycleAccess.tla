---------------------------- MODULE CycleAccess -----------------------------
(***************************************************************************)
(* What a component's simulation lock promises, without queues, tables or  *)
(* messages: the component's data is either BUSY, worked on by the         *)
(* component's own cycle, or OPEN to other hosts, who read it together or  *)
(* write it alone.  The component's clock moves only while it is busy, and *)
(* hosts let go of their access one at a time, never in a batch.           *)
(***************************************************************************)
CONSTANTS Hosts, Cycle

VARIABLES
    phase,  \* "busy" or "open"
    clock,  \* the component's cycle
    access  \* what each host may do: "none", "read" or "write"

accessVars == <<phase, clock, access>>

Nobody == [h \in Hosts |-> "none"]

Exclusive(a) == \A g, h \in Hosts : a[g] = "write" /\ a[h] # "none" => g = h

AccessTypeOK ==
    /\ phase \in {"busy", "open"}
    /\ clock \in Cycle
    /\ access \in [Hosts -> {"none", "read", "write"}]

AccessInit ==
    /\ phase = "busy"
    /\ clock \in Cycle
    /\ access = Nobody

\* The component works on its own data.
Work ==
    /\ phase = "busy"
    /\ clock' \in Cycle
    /\ UNCHANGED <<phase, access>>

Open ==
    /\ phase = "busy"
    /\ phase' = "open"
    /\ UNCHANGED <<clock, access>>

\* At most one host lets go, and hosts without access get it.
Serve ==
    /\ phase = "open"
    /\ access' \in [Hosts -> {"none", "read", "write"}]
    /\ Exclusive(access')
    /\ \A g, h \in Hosts : /\ access[g] # "none" /\ access'[g] # access[g]
                           /\ access[h] # "none" /\ access'[h] # access[h]
                           => g = h
    /\ UNCHANGED <<phase, clock>>

\* The last host lets go and the component gets its data back.
Close ==
    /\ phase = "open"
    /\ phase' = "busy"
    /\ access' = Nobody
    /\ \A g, h \in Hosts : access[g] # "none" /\ access[h] # "none" => g = h
    /\ UNCHANGED clock

AccessNext == Work \/ Open \/ Serve \/ Close

AccessSpec == AccessInit /\ [][AccessNext]_accessVars
=============================================================================
