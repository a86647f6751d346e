--------------------------- MODULE SimulationLock ---------------------------
(***************************************************************************)
(* The distributed simulation lock of one component (src/src/component).   *)
(*                                                                         *)
(* A component (the OWNER) runs its simulation one cycle at a time on its  *)
(* simulation thread.  Other hosts (the CLIENTS, elements of Hosts) read   *)
(* and write the owner's data under read and write locks that they ask for *)
(* by messages and hold until the end of their own cycle.  The owner's     *)
(* queue thread keeps the lock table; it starts no lock before the         *)
(* simulation thread has parked between two cycles (Component::runCycle),  *)
(* and lets the thread go on when every lock of the table is finished.  A  *)
(* client that is done and asks again for its next cycle goes into a       *)
(* second, future, table.                                                  *)
(*                                                                         *)
(* Three kinds of process interleave: the owner's simulation thread        *)
(* (RunJobs, Park, Resume, RunProgram), the owner's queue thread (the On*  *)
(* handlers, one message each), and every client's simulation thread.  The *)
(* slaves and the master between them only relay: a client's requests      *)
(* reach the owner in the order it sent them, those of different clients   *)
(* in any order.                                                           *)
(*                                                                         *)
(* A definition whose name ends in _Bug is a deliberate fault: the         *)
(* definition after it, got wrong the way its comment says.  No            *)
(* specification uses one; each property is known to be able to fail       *)
(* because one of them, put in its place, makes it fail.                   *)
(***************************************************************************)
EXTENDS Naturals, Sequences

CONSTANTS
    Hosts,          \* the client hosts: the ids HostCycleState::uiHost
    Instances,      \* the instances of the owner's data a client may touch
    CycleMod,       \* the width of the cycle counters: 2^32 in the code
    ReadAfterWrite, \* may a client's cycle read after it wrote (see ReadLock)
    LoadMayFail     \* may a program load leave the owner without a program

ASSUME CycleModAssumption == CycleMod \in Nat /\ CycleMod >= 2

ASSUME SwitchAssumption == ReadAfterWrite \in BOOLEAN /\ LoadMayFail \in BOOLEAN

(***************************************************************************)
(* SimulationLock: the vector of HostCycleStates.  setHostCycleState keeps *)
(* at most one entry per host, so the vector is a function of the host,    *)
(* "None" for a host without an entry, and the order of the entries.       *)
(***************************************************************************)
State == {"None", "Read", "Reading", "Write", "Writing", "Finished"}

Cycle == 0 .. CycleMod - 1

Lock == [state : [Hosts -> State], cycle : [Hosts -> Cycle], order : Seq(Hosts)]

\* The null SimulationLock::Ptr, and also a table just made and still empty.
NoLock == [state |-> [h \in Hosts |-> "None"],
           cycle |-> [h \in Hosts |-> 0],
           order |-> << >>]

InState(lock, s) == {h \in Hosts : lock.state[h] = s}

\* An entry that is finished is taken for no entry.
HasEntry_Bug(lock, h) == lock.state[h] \notin {"None", "Finished"}

HasEntry(lock, h) == lock.state[h] # "None"

\* The loop returns at the first entry instead of going on.
IsReading_Bug(lock) == lock.order # << >> /\ lock.state[lock.order[1]] = "Reading"

IsReading(lock) == InState(lock, "Reading") # {}

\* eReading falls through to the next entry instead of answering no.
AllFinished_Bug(lock) ==
    \A h \in Hosts : lock.state[h] \in {"None", "Reading", "Finished"}

AllFinished(lock) == \A h \in Hosts : lock.state[h] \in {"None", "Finished"}

\* setHostCycleState: overwrite the host's entry or append a new one.
SetHostCycleState(lock, h, c, s) ==
    [state |-> [lock.state EXCEPT ![h] = s],
     cycle |-> [lock.cycle EXCEPT ![h] = c],
     order |-> IF HasEntry(lock, h) THEN lock.order ELSE Append(lock.order, h)]

\* The entries of the hosts in S are moved to state s.
Restate(lock, S, s) ==
    [state |-> [h \in Hosts |-> IF h \in S THEN s ELSE lock.state[h]],
     cycle |-> lock.cycle,
     order |-> lock.order]

\* The loop over the writers has no break.
IsFirstWriter_Bug(lock, h) == lock.state[h] = "Write"

\* h is the first entry of the vector that waits to write.
IsFirstWriter(lock, h) ==
    /\ lock.state[h] = "Write"
    /\ \E i \in 1 .. Len(lock.order) :
          /\ lock.order[i] = h
          /\ \A j \in 1 .. i - 1 : lock.state[lock.order[j]] # "Write"

(***************************************************************************)
(* Messages.  A reply is the answer to a lock request (stamped with the    *)
(* owner's cycle), the data of a read request, or the error the owner      *)
(* sends when it has no program.                                           *)
(***************************************************************************)
Request == [kind : {"readlock", "writelock", "read", "write", "unlock"}, cycle : Cycle]

Reply == [kind : {"lock", "data", "error"}, cycle : Cycle]

VARIABLES
    cur,        \* m_pCurrentSimLock
    fut,        \* m_pFutureSimLock
    released,   \* m_bCurrentLockReleased
    startPosted,\* an OnSimulationLockStarted waits in the owner's queue
    simPc,      \* where the owner's simulation thread is in runCycle
    loaded,     \* the owner has a program (m_pProgram)
    ownerCycle, \* the owner's getCurrentCycle, 0 without a program
    aborted,    \* the owner's queue thread called std::abort
    inbox,      \* the requests of each client on their way to the owner
    reply,      \* the replies on their way to each client
    hostPc,     \* what the client's simulation thread is doing
    hostCycle,  \* the client's clock::cycle(0)
    locks,      \* the client's g_hostLocks: its _read and _write bits
    stamp,      \* the client's g_hostCycles: the owner's cycle it was told
    reads,      \* the client's g_reads
    stale       \* history: clients whose fetched data was overwritten since

ownerVars == <<cur, fut, released, startPosted, simPc, loaded, ownerCycle, aborted>>
clientVars == <<hostPc, hostCycle, locks, stamp, reads>>
vars == <<cur, fut, released, startPosted, simPc, loaded, ownerCycle, aborted,
          inbox, reply, hostPc, hostCycle, locks, stamp, reads, stale>>

TypeOK ==
    /\ cur \in Lock
    /\ fut \in Lock
    /\ released \in BOOLEAN
    /\ startPosted \in BOOLEAN
    /\ simPc \in {"jobs", "check", "parked", "run"}
    /\ loaded \in BOOLEAN
    /\ ownerCycle \in Cycle
    /\ aborted \in BOOLEAN
    /\ inbox \in [Hosts -> Seq(Request)]
    /\ reply \in [Hosts -> Seq(Reply)]
    /\ hostPc \in [Hosts -> {"cycle", "awaitRead", "awaitWrite", "awaitData"}]
    /\ hostCycle \in [Hosts -> Cycle]
    /\ locks \in [Hosts -> SUBSET {"read", "write"}]
    /\ stamp \in [Hosts -> Cycle]
    /\ reads \in [Hosts -> SUBSET Instances]
    /\ stale \in SUBSET Hosts

Init ==
    /\ cur = NoLock
    /\ fut = NoLock
    /\ released = FALSE
    /\ startPosted = FALSE
    /\ simPc = "jobs"
    /\ loaded = ~LoadMayFail
    /\ ownerCycle = 0
    /\ aborted = FALSE
    /\ inbox = [h \in Hosts |-> << >>]
    /\ reply = [h \in Hosts |-> << >>]
    /\ hostPc = [h \in Hosts |-> "cycle"]
    /\ hostCycle = [h \in Hosts |-> 0]
    /\ locks = [h \in Hosts |-> {}]
    /\ stamp = [h \in Hosts |-> 0]
    /\ reads = [h \in Hosts |-> {}]
    /\ stale = {}

\* The counter does not wrap.
Tick_Bug(c) == c + 1

Tick(c) == (c + 1) % CycleMod

-----------------------------------------------------------------------------
(***************************************************************************)
(* The owner's simulation thread: Component::runCycle.  A call to abort()  *)
(* on the queue thread stops it too.                                       *)
(***************************************************************************)

\* runAllJobs.  The only job that matters here is LoadProgramJob::run: a new
\* program starts its clock afresh; a failed load leaves no program.
RunJobs ==
    /\ ~aborted
    /\ simPc = "jobs"
    /\ simPc' = "check"
    /\ \/ UNCHANGED <<loaded, ownerCycle>>
       \/ /\ LoadMayFail
          /\ loaded' \in BOOLEAN
          /\ ownerCycle' = 0
    /\ UNCHANGED <<cur, fut, released, startPosted, aborted, inbox, reply, clientVars, stale>>

\* A current lock exists: post OnSimulationLockStarted and wait, all of it
\* under m_simulationMutex.
Park ==
    /\ ~aborted
    /\ simPc = "check"
    /\ cur # NoLock
    /\ simPc' = "parked"
    /\ startPosted' = TRUE
    /\ released' = FALSE
    /\ UNCHANGED <<cur, fut, loaded, ownerCycle, aborted, inbox, reply, clientVars, stale>>

\* No current lock: go straight to the program.
PassBy ==
    /\ ~aborted
    /\ simPc = "check"
    /\ cur = NoLock
    /\ simPc' = "run"
    /\ UNCHANGED <<cur, fut, released, startPosted, loaded, ownerCycle, aborted,
                   inbox, reply, clientVars, stale>>

\* The wait on m_simJobCondition ends.
Resume ==
    /\ ~aborted
    /\ simPc = "parked"
    /\ released
    /\ simPc' = "run"
    /\ UNCHANGED <<cur, fut, released, startPosted, loaded, ownerCycle, aborted,
                   inbox, reply, clientVars, stale>>

\* Program::run, if there is a program: one cycle of the owner's own scripts,
\* at the end of which its clock advances.
RunProgram ==
    /\ ~aborted
    /\ simPc = "run"
    /\ simPc' = "jobs"
    /\ ownerCycle' = IF loaded THEN Tick(ownerCycle) ELSE ownerCycle
    /\ UNCHANGED <<cur, fut, released, startPosted, loaded, aborted,
                   inbox, reply, clientVars, stale>>

-----------------------------------------------------------------------------
(***************************************************************************)
(* The owner's queue thread: EGRequestManagerActivity.  A handler that     *)
(* throws (THROW_RTE, VERIFY_RTE) ends in std::abort, see queue.cpp.       *)
(***************************************************************************)

Take(h, kind) ==
    /\ ~aborted
    /\ inbox[h] # << >>
    /\ Head(inbox[h]).kind = kind
    /\ inbox' = [inbox EXCEPT ![h] = Tail(@)]

Abort ==
    /\ aborted' = TRUE
    /\ UNCHANGED <<cur, fut, released, reply>>

\* Hosts that already hold the lock are answered again.
IssueLockResponse_Bug(S) ==
    reply' = [h \in Hosts |-> IF h \in S \cup InState(cur, "Reading")
                              THEN Append(reply[h], [kind |-> "lock", cycle |-> ownerCycle])
                              ELSE reply[h]]

\* issueLockResponse to every host of S, stamped with getCurrentCycle.
IssueLockResponse(S) ==
    reply' = [h \in Hosts |-> IF h \in S
                              THEN Append(reply[h], [kind |-> "lock", cycle |-> ownerCycle])
                              ELSE reply[h]]

\* Start every waiting reader of lock, or, if there is none, its first waiting
\* writer; VERIFY_RTE( bFoundFirst ) if there is none either.
StartWaiting(lock) ==
    LET readers == InState(lock, "Read")
        writers == {h \in Hosts : IsFirstWriter(lock, h)}
    IN  \/ /\ readers # {}
           /\ cur' = Restate(lock, readers, "Reading")
           /\ IssueLockResponse(readers)
           /\ UNCHANGED <<fut, released, aborted>>
        \/ /\ readers = {} /\ writers # {}
           /\ cur' = Restate(lock, writers, "Writing")
           /\ IssueLockResponse(writers)
           /\ UNCHANGED <<fut, released, aborted>>
        \/ /\ readers = {} /\ writers = {}
           /\ Abort

\* OnSimulationLockStarted: simulationLockStarted, VERIFY_RTE( pCurrentLock ).
SimulationLockStarted ==
    /\ ~aborted
    /\ startPosted
    /\ startPosted' = FALSE
    /\ IF cur = NoLock THEN Abort ELSE StartWaiting(cur)
    /\ UNCHANGED <<simPc, loaded, ownerCycle, inbox, clientVars, stale>>

\* getOrCreateCurrentLock: a future table becomes the current one.
CurrentLock == IF cur = NoLock /\ fut # NoLock THEN fut ELSE cur
FutureLock == IF cur = NoLock THEN NoLock ELSE fut

\* OnLockRequest for a read lock.
OnReadLockRequest(h) ==
    /\ Take(h, "readlock")
    /\ LET c == Head(inbox[h]).cycle
           lock == CurrentLock
           next == FutureLock
       IN  \/ /\ HasEntry(lock, h) /\ lock.cycle[h] = c
              /\ Abort
           \/ /\ HasEntry(lock, h) /\ lock.cycle[h] # c
              /\ HasEntry(next, h)
              /\ Abort
           \/ /\ HasEntry(lock, h) /\ lock.cycle[h] # c
              /\ ~HasEntry(next, h)
              /\ cur' = lock
              /\ fut' = SetHostCycleState(next, h, c, "Read")
              /\ UNCHANGED <<released, reply, aborted>>
           \/ /\ ~HasEntry(lock, h)
              /\ IsReading(lock)
              /\ cur' = SetHostCycleState(lock, h, c, "Reading")
              /\ fut' = next
              /\ IssueLockResponse({h})
              /\ UNCHANGED <<released, aborted>>
           \/ /\ ~HasEntry(lock, h)
              /\ ~IsReading(lock)
              /\ cur' = SetHostCycleState(lock, h, c, "Read")
              /\ fut' = next
              /\ UNCHANGED <<released, reply, aborted>>
    /\ UNCHANGED <<simPc, startPosted, loaded, ownerCycle, clientVars, stale>>

\* OnLockRequest for a write lock: a new entry, or an upgrade of a read lock.
\* A reader that upgrades stops reading at once and waits like any writer,
\* unless it was the only reader.
OnWriteLockRequest(h) ==
    /\ Take(h, "writelock")
    /\ LET c == Head(inbox[h]).cycle
           lock == CurrentLock
           next == FutureLock
           upgraded == SetHostCycleState(lock, h, c, "Write")
       IN  \/ /\ HasEntry(lock, h) /\ lock.cycle[h] = c
              /\ lock.state[h] \notin {"Read", "Reading"}
              /\ Abort
           \/ /\ HasEntry(lock, h) /\ lock.cycle[h] = c
              /\ \/ lock.state[h] = "Read"
                 \/ lock.state[h] = "Reading" /\ IsReading(upgraded)
              /\ cur' = upgraded
              /\ fut' = next
              /\ UNCHANGED <<released, reply, aborted>>
           \/ /\ HasEntry(lock, h) /\ lock.cycle[h] = c
              /\ lock.state[h] = "Reading"
              /\ ~IsReading(upgraded)
              /\ cur' = SetHostCycleState(upgraded, h, c, "Writing")
              /\ fut' = next
              /\ IssueLockResponse({h})
              /\ UNCHANGED <<released, aborted>>
           \/ /\ HasEntry(lock, h) /\ lock.cycle[h] # c
              /\ \/ ~HasEntry(next, h)
                 \/ next.cycle[h] = c /\ next.state[h] = "Read"
              /\ cur' = lock
              /\ fut' = SetHostCycleState(next, h, c, "Write")
              /\ UNCHANGED <<released, reply, aborted>>
           \/ /\ HasEntry(lock, h) /\ lock.cycle[h] # c
              /\ HasEntry(next, h)
              /\ ~(next.cycle[h] = c /\ next.state[h] = "Read")
              /\ Abort
           \/ /\ ~HasEntry(lock, h)
              /\ cur' = SetHostCycleState(lock, h, c, "Write")
              /\ fut' = next
              /\ UNCHANGED <<released, reply, aborted>>
    /\ UNCHANGED <<simPc, startPosted, loaded, ownerCycle, clientVars, stale>>

\* OnReadRequest: answered with the data, or with an error if no program is
\* loaded, to a host that holds a lock; anybody else aborts the owner.
OnReadRequest(h) ==
    /\ Take(h, "read")
    /\ IF CurrentLock.state[h] \in {"Reading", "Writing"}
       THEN /\ reply' = [reply EXCEPT ![h] =
                           Append(@, [kind |-> IF loaded THEN "data" ELSE "error",
                                      cycle |-> Head(inbox[h]).cycle])]
            /\ cur' = CurrentLock
            /\ fut' = FutureLock
            /\ UNCHANGED <<released, aborted>>
       ELSE Abort
    /\ UNCHANGED <<simPc, startPosted, loaded, ownerCycle, clientVars, stale>>

\* OnWriteRequest: the owner's data is overwritten if a program is loaded.
OnWriteRequest(h) ==
    /\ Take(h, "write")
    /\ IF CurrentLock.state[h] = "Writing"
       THEN /\ cur' = CurrentLock
            /\ fut' = FutureLock
            /\ stale' = IF loaded
                        THEN stale \cup {g \in Hosts \ {h} : reads[g] # {}}
                        ELSE stale
            /\ UNCHANGED <<released, reply, aborted>>
       ELSE Abort /\ UNCHANGED stale
    /\ UNCHANGED <<simPc, startPosted, loaded, ownerCycle, clientVars>>

\* The future table is copied, not swapped out.
ReleaseCurrentLock_CopyBug ==
    /\ cur' = fut
    /\ released' = TRUE
    /\ UNCHANGED <<fut, reply, aborted>>

\* The future table is dropped with the current one.
ReleaseCurrentLock_DropBug ==
    /\ cur' = NoLock
    /\ fut' = NoLock
    /\ released' = TRUE
    /\ UNCHANGED <<reply, aborted>>

\* The simulation thread is not notified.
ReleaseCurrentLock_SilentBug ==
    /\ cur' = fut
    /\ fut' = NoLock
    /\ UNCHANGED <<released, reply, aborted>>

\* releaseCurrentLock: the future table takes over, the simulation thread is
\* notified.
ReleaseCurrentLock ==
    /\ cur' = fut
    /\ fut' = NoLock
    /\ released' = TRUE
    /\ UNCHANGED <<reply, aborted>>

\* OnUnlockRequest.
OnUnlockRequest(h) ==
    /\ Take(h, "unlock")
    /\ LET done == SetHostCycleState(cur, h, Head(inbox[h]).cycle, "Finished")
       IN  \/ ~HasEntry(cur, h) /\ Abort
           \/ /\ HasEntry(cur, h)
              /\ AllFinished(done)
              /\ ReleaseCurrentLock
           \/ /\ HasEntry(cur, h)
              /\ ~AllFinished(done)
              /\ IsReading(done)
              /\ cur' = done
              /\ UNCHANGED <<fut, released, reply, aborted>>
           \/ /\ HasEntry(cur, h)
              /\ ~AllFinished(done)
              /\ ~IsReading(done)
              /\ StartWaiting(done)
    /\ UNCHANGED <<simPc, startPosted, loaded, ownerCycle, clientVars, stale>>

-----------------------------------------------------------------------------
(***************************************************************************)
(* A client: the generated accessors (eg::readlock, eg::writelock), the    *)
(* Program calls behind them, and the end of its cycle.  A call sends its  *)
(* request and blocks in readegSync until any reply arrives; an error      *)
(* reply is logged and the call goes on waiting.                           *)
(***************************************************************************)

Ask(kind, c) == <<[kind |-> kind, cycle |-> c]>>

\* The locks are released before the write set is sent.
FinalRequests_Bug(h) ==
    Ask("unlock", hostCycle[h])
    \o (IF "write" \in locks[h] THEN Ask("write", hostCycle[h]) ELSE << >>)

\* What the end of a cycle sends: completeSimulationLocks the write set, if the
\* _write bit is set, then releaseLocks the unlock.
FinalRequests(h) ==
    (IF "write" \in locks[h] THEN Ask("write", hostCycle[h]) ELSE << >>)
    \o Ask("unlock", hostCycle[h])

Send(h, msgs) == inbox' = [inbox EXCEPT ![h] = @ \o msgs]

\* eg::readlock when the _read bit is not set.  The bit says nothing of the
\* write lock: a cycle that reads after it wrote asks for a read lock on top
\* of its write lock.  ReadAfterWrite = FALSE leaves such cycles out.
ReadLock(h) ==
    /\ hostPc[h] = "cycle"
    /\ "read" \notin locks[h]
    /\ ReadAfterWrite \/ "write" \notin locks[h]
    /\ Send(h, Ask("readlock", hostCycle[h]))
    /\ hostPc' = [hostPc EXCEPT ![h] = "awaitRead"]
    /\ UNCHANGED <<ownerVars, reply, hostCycle, locks, stamp, reads, stale>>

\* eg::readlock with the bit set, for an instance not read in this cycle.
Fetch(h, i) ==
    /\ hostPc[h] = "cycle"
    /\ "read" \in locks[h]
    /\ i \notin reads[h]
    /\ Send(h, Ask("read", hostCycle[h]))
    /\ hostPc' = [hostPc EXCEPT ![h] = "awaitData"]
    /\ reads' = [reads EXCEPT ![h] = @ \cup {i}]
    /\ UNCHANGED <<ownerVars, reply, hostCycle, locks, stamp, stale>>

\* eg::writelock when the _write bit is not set.
WriteLock(h) ==
    /\ hostPc[h] = "cycle"
    /\ "write" \notin locks[h]
    /\ Send(h, Ask("writelock", hostCycle[h]))
    /\ hostPc' = [hostPc EXCEPT ![h] = "awaitWrite"]
    /\ UNCHANGED <<ownerVars, reply, hostCycle, locks, stamp, reads, stale>>

\* eg::writelock with the bit set: the instance goes into the write set and
\* counts as read.
Modify(h, i) ==
    /\ hostPc[h] = "cycle"
    /\ "write" \in locks[h]
    /\ i \notin reads[h]
    /\ reads' = [reads EXCEPT ![h] = @ \cup {i}]
    /\ UNCHANGED <<ownerVars, inbox, reply, hostPc, hostCycle, locks, stamp, stale>>

\* A reply ends the wait, whichever request it answers: readlock and writelock
\* set their bit and keep the cycle they are told, read decodes the data.
ReceiveResponse(h) ==
    /\ reply[h] # << >>
    /\ hostPc[h] # "cycle"
    /\ Head(reply[h]).kind # "error"
    /\ reply' = [reply EXCEPT ![h] = Tail(@)]
    /\ hostPc' = [hostPc EXCEPT ![h] = "cycle"]
    /\ locks' = [locks EXCEPT ![h] = @ \cup (CASE hostPc[h] = "awaitRead" -> {"read"}
                                               [] hostPc[h] = "awaitWrite" -> {"write"}
                                               [] OTHER -> {})]
    /\ stamp' = IF hostPc[h] = "awaitData" THEN stamp
                ELSE [stamp EXCEPT ![h] = Head(reply[h]).cycle]
    /\ UNCHANGED <<ownerVars, inbox, hostCycle, reads, stale>>

\* An error reply: readlock, read and writelock log it and keep waiting.
ReceiveError(h) ==
    /\ reply[h] # << >>
    /\ hostPc[h] # "cycle"
    /\ Head(reply[h]).kind = "error"
    /\ reply' = [reply EXCEPT ![h] = Tail(@)]
    /\ UNCHANGED <<ownerVars, inbox, clientVars, stale>>

\* The end of a cycle that used the lock: completeSimulationLocks sends the
\* write set if the _write bit is set and resets the bits, clock::next, and
\* releaseLocks sends the unlock, with the cycle of the lock request.  A cycle
\* that did not touch this owner leaves no trace here: cycle numbers count
\* only the cycles that did (the owner compares two of one host, never more).
EndCycle(h) ==
    /\ hostPc[h] = "cycle"
    /\ locks[h] # {}
    /\ Send(h, FinalRequests(h))
    /\ hostCycle' = [hostCycle EXCEPT ![h] = Tick(@)]
    /\ locks' = [locks EXCEPT ![h] = {}]
    /\ stamp' = [stamp EXCEPT ![h] = 0]
    /\ reads' = [reads EXCEPT ![h] = {}]
    /\ stale' = stale \ {h}
    /\ UNCHANGED <<ownerVars, reply, hostPc>>

-----------------------------------------------------------------------------
SimThread == RunJobs \/ Park \/ PassBy \/ Resume \/ RunProgram

Handle(h) ==
    \/ OnReadLockRequest(h)
    \/ OnWriteLockRequest(h)
    \/ OnReadRequest(h)
    \/ OnWriteRequest(h)
    \/ OnUnlockRequest(h)

Client(h) ==
    \/ ReadLock(h)
    \/ WriteLock(h)
    \/ \E i \in Instances : Fetch(h, i) \/ Modify(h, i)
    \/ ReceiveResponse(h)
    \/ ReceiveError(h)
    \/ EndCycle(h)

Next ==
    \/ SimThread
    \/ SimulationLockStarted
    \/ \E h \in Hosts : Handle(h) \/ Client(h)

Spec == Init /\ [][Next]_vars

\* Fairness: the owner's simulation thread and its queue thread (an io_context
\* that runs whatever is posted) never stop; a client's scripts end their cycle
\* once every call they make has returned, and a reply that came is read.
Fairness ==
    /\ WF_vars(SimThread)
    /\ WF_vars(SimulationLockStarted)
    /\ \A h \in Hosts :
          /\ WF_vars(Handle(h))
          /\ WF_vars(ReceiveResponse(h))
          /\ WF_vars(EndCycle(h))

FairSpec == Spec /\ Fairness

-----------------------------------------------------------------------------
(***************************************************************************)
(* What the lock promises.  The first three are stated from the clients'   *)
(* side: what a client may rely on between the reply that grants its lock  *)
(* and the end of its cycle, while replies, requests and unlocks of the    *)
(* others are on their way.                                                *)
(***************************************************************************)

\* The client may write the owner's data.
HoldsWrite(h) == "write" \in locks[h]

\* The client may read it: a reader that asked to upgrade has given up reading.
HoldsRead(h) == "read" \in locks[h] /\ ~HoldsWrite(h) /\ hostPc[h] # "awaitWrite"

\* No two clients hold the lock in conflicting modes (OnLockRequest,
\* OnUnlockRequest, simulationLockStarted).
MutualExclusion ==
    \A g, h \in Hosts : g # h /\ HoldsWrite(g) => ~HoldsWrite(h) /\ ~HoldsRead(h)

\* A client that holds the lock finds the owner parked between two cycles, at
\* the very cycle its lock reply named ("all importand - get the current clock
\* cycle for THIS component", issueLockResponse), so the owner's own scripts
\* never run under it (runCycle).
OwnerStandsStill ==
    \A h \in Hosts : locks[h] # {} => /\ simPc = "parked"
                                      /\ ~released
                                      /\ stamp[h] = ownerCycle

\* What a client fetched in its cycle is overwritten under it by nobody, unless
\* it gave up its read lock by asking for the upgrade (OnWriteLockRequest lets
\* other writers in first).
FetchedDataStable ==
    \A h \in stale : HoldsWrite(h) \/ hostPc[h] = "awaitWrite"

\* None of the handlers' THROW_RTE and VERIFY_RTE checks ever fires: they end in
\* std::abort of the owner's process (queue.cpp, PRINTEXCEPTION_AND_ABORT).
NoAbort == ~aborted

\* Replies carry no request id: a client takes the next one for the answer to
\* what it asked last (Program::readlock, read, writelock).  It is.
RepliesMatch ==
    \A h \in Hosts : reply[h] # << >> =>
        /\ Len(reply[h]) = 1
        /\ \/ hostPc[h] \in {"awaitRead", "awaitWrite"} /\ Head(reply[h]).kind = "lock"
           \/ hostPc[h] = "awaitData" /\ Head(reply[h]).kind \in {"data", "error"}

\* The future table holds only requests nobody has granted yet, of clients that
\* are done with the current table (getOrCreateFutureLock, releaseCurrentLock).
FutureWaits ==
    \A h \in Hosts : HasEntry(fut, h) =>
        fut.state[h] \in {"Read", "Write"} /\ cur.state[h] = "Finished"

\* A client that finished is let into no table twice: it comes back only with
\* the table after it, so it cannot overtake one that still waits.
NoReentry ==
    [][\A h \in Hosts : cur.state[h] = "Finished" =>
           cur'.state[h] = "Finished" \/ cur' = fut]_cur

\* The lock table seen as the access it gives: the component's data is open
\* while its simulation thread is parked and not yet released.
Phase == IF simPc = "parked" /\ ~released THEN "open" ELSE "busy"

Grants == [h \in Hosts |-> CASE cur.state[h] = "Reading" -> "read"
                             [] cur.state[h] = "Writing" -> "write"
                             [] OTHER -> "none"]

Access == INSTANCE CycleAccess WITH phase <- Phase, clock <- ownerCycle, access <- Grants

\* The protocol implements the access specification.
ImplementsAccess == Access!AccessSpec

\* Every lock request is granted in the end, of readers and of writers.
LockGranted ==
    \A h \in Hosts : hostPc[h] \in {"awaitRead", "awaitWrite"} ~> hostPc[h] = "cycle"

\* The clients never stop the owner's simulation for good.
OwnerResumes == simPc = "parked" ~> simPc = "run"
=============================================================================
