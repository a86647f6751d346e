------------------------- MODULE SimulationLockInv --------------------------
(***************************************************************************)
(* The inductive invariant behind the promises of SimulationLock, for      *)
(* clients that do not read after they wrote (~ReadAfterWrite).            *)
(*                                                                         *)
(* A client runs through a protocol: it is idle, has asked for a lock,     *)
(* holds it, fetches data under it, or upgrades it.  Each phase fixes what *)
(* is in the client's two channels and what the owner's tables say of it.  *)
(***************************************************************************)
EXTENDS SimulationLock

\* What the client still has on its way to the owner is last, or last behind the
\* unlock of an earlier cycle, with or without a write set before that.
Closing(h, last) ==
    \/ /\ inbox[h] = last
       /\ cur.state[h] \in {"None", "Finished"}
       /\ cur.state[h] = "Finished" => cur.cycle[h] # hostCycle[h]
    \/ /\ cur.cycle[h] # hostCycle[h]
       /\ cur.state[h] \in {"Reading", "Writing"}
       /\ \E d \in Cycle : d # hostCycle[h] /\ inbox[h] = Ask("unlock", d) \o last
    \/ /\ cur.cycle[h] # hostCycle[h]
       /\ cur.state[h] = "Writing"
       /\ \E d \in Cycle : /\ d # hostCycle[h]
                           /\ inbox[h] = Ask("write", d) \o (Ask("unlock", d) \o last)

GrantReply == Ask("lock", ownerCycle)

Idle(h) ==
    /\ hostPc[h] = "cycle"
    /\ locks[h] = {}
    /\ reply[h] = << >>
    /\ fut.state[h] = "None"
    /\ Closing(h, << >>)

\* Asking for a lock with nothing held: the request is on its way, or waits in
\* the current table, or in the future table, or has been granted.
Asking(h, kind, waiting, granted) ==
    /\ locks[h] = {}
    /\ \/ /\ reply[h] = << >>
          /\ fut.state[h] = "None"
          /\ Closing(h, Ask(kind, hostCycle[h]))
       \/ /\ inbox[h] = << >>
          /\ reply[h] = << >>
          /\ cur.state[h] = waiting
          /\ cur.cycle[h] = hostCycle[h]
          /\ fut.state[h] = "None"
       \/ /\ inbox[h] = << >>
          /\ reply[h] = << >>
          /\ cur.state[h] = "Finished"
          /\ cur.cycle[h] # hostCycle[h]
          /\ fut.state[h] = waiting
          /\ fut.cycle[h] = hostCycle[h]
       \/ /\ inbox[h] = << >>
          /\ reply[h] = GrantReply
          /\ cur.state[h] = granted
          /\ cur.cycle[h] = hostCycle[h]
          /\ fut.state[h] = "None"

\* A client that holds a lock, as the owner sees it.
Held(h) ==
    /\ locks[h] # {}
    /\ stamp[h] = ownerCycle
    /\ cur.cycle[h] = hostCycle[h]
    /\ fut.state[h] = "None"

HeldState(h) == IF HoldsWrite(h) THEN "Writing" ELSE "Reading"

Working(h) ==
    /\ Held(h)
    /\ cur.state[h] = HeldState(h)
    /\ inbox[h] = << >>
    /\ reply[h] = << >>

\* Waiting for data: the last alternative but one is a client whose read was
\* answered by an error.
Fetching(h) ==
    /\ Held(h)
    /\ cur.state[h] = HeldState(h)
    /\ \/ /\ inbox[h] = Ask("read", hostCycle[h])
          /\ reply[h] = << >>
       \/ inbox[h] = << >> /\ reply[h] = << >>
       \/ /\ inbox[h] = << >>
          /\ \E k \in {"data", "error"} :
                reply[h] = Ask(k, hostCycle[h])

Upgrading(h) ==
    /\ Held(h)
    /\ ~HoldsWrite(h)
    /\ \/ /\ inbox[h] = Ask("writelock", hostCycle[h])
          /\ reply[h] = << >>
          /\ cur.state[h] = "Reading"
       \/ /\ inbox[h] = << >>
          /\ reply[h] = << >>
          /\ cur.state[h] = "Write"
       \/ /\ inbox[h] = << >>
          /\ reply[h] = GrantReply
          /\ cur.state[h] = "Writing"

Protocol(h) ==
    \/ Idle(h)
    \/ hostPc[h] = "awaitRead" /\ Asking(h, "readlock", "Read", "Reading")
    \/ hostPc[h] = "awaitWrite" /\ Asking(h, "writelock", "Write", "Writing")
    \/ hostPc[h] = "cycle" /\ Working(h)
    \/ hostPc[h] = "awaitData" /\ Fetching(h)
    \/ hostPc[h] = "awaitWrite" /\ Upgrading(h)

\* The owner is parked and its queue thread has started the current table.
Serving == simPc = "parked" /\ ~released /\ ~startPosted

\* The table says that the client may read or write.
Granted(h) == cur.state[h] \in {"Reading", "Writing"}

TableExclusion ==
    \A g, h \in Hosts : cur.state[g] = "Writing" /\ Granted(h) => g = h

\* Until the table is started its entries only wait.
StartedWhileParked ==
    /\ ~Serving => \A h \in Hosts : cur.state[h] \in {"None", "Read", "Write"}
    /\ startPosted => simPc = "parked" /\ ~released /\ cur # NoLock
    /\ \A h \in Hosts : locks[h] # {} => Serving

\* A table exists exactly when it has an entry, and its order names them all.
WellFormed(lock) ==
    /\ lock = NoLock \/ \E h \in Hosts : HasEntry(lock, h)
    /\ \A h \in Hosts : HasEntry(lock, h) =>
          \E i \in 1 .. Len(lock.order) : lock.order[i] = h

ReadsUnderLock == \A h \in Hosts : reads[h] # {} => locks[h] # {}

IInv ==
    /\ TypeOK
    /\ NoAbort
    /\ \A h \in Hosts : Protocol(h)
    /\ TableExclusion
    /\ StartedWhileParked
    /\ WellFormed(cur)
    /\ WellFormed(fut)
    /\ ReadsUnderLock
    /\ FetchedDataStable
=============================================================================
