------------------------ MODULE SimulationLockProofs ------------------------
(***************************************************************************)
(* TLAPS proofs about the simulation lock.                                 *)
(***************************************************************************)
EXTENDS SimulationLockInv, SequenceTheorems, WellFoundedInduction, TLAPS

-----------------------------------------------------------------------------
(***************************************************************************)
(* Messages, channels and lock tables.                                     *)
(***************************************************************************)

\* One message in front of a channel's content is taken off it first.
LEMMA ConsProperties ==
    ASSUME NEW S, NEW m \in S, NEW s \in Seq(S)
    PROVE  /\ <<m>> \o s \in Seq(S)
           /\ <<m>> \o s # << >>
           /\ Head(<<m>> \o s) = m
           /\ Tail(<<m>> \o s) = s
<1>1. <<m>> \in Seq(S)
  OBVIOUS
<1>2. <<m>> \o s \in Seq(S)
  BY <1>1
<1>3. Len(<<m>> \o s) = 1 + Len(s)
  BY <1>1
<1>4. <<m>> \o s # << >>
  BY <1>3
<1>5. Head(<<m>> \o s) = m
  BY <1>1
<1>6. Tail(<<m>> \o s) = s
  <2>1. Tail(<<m>> \o s) \in Seq(S) /\ Len(Tail(<<m>> \o s)) = Len(s)
    BY <1>2, <1>3, <1>4
  <2>2. \A i \in 1 .. Len(s) : Tail(<<m>> \o s)[i] = s[i]
    BY <1>1, <1>2, <1>3, <1>4
  <2>. QED
    BY <2>1, <2>2, SeqEqual
<1>. QED
  BY <1>2, <1>4, <1>5, <1>6

\* The clock wraps to another value of Cycle.
LEMMA TickProperties ==
    ASSUME NEW c \in Cycle
    PROVE  Tick(c) \in Cycle /\ Tick(c) # c
<1>1. CASE c = CycleMod - 1
  BY <1>1, CycleModAssumption DEF Tick, Cycle
<1>2. CASE c # CycleMod - 1
  BY <1>2, CycleModAssumption DEF Tick, Cycle
<1>. QED
  BY <1>1, <1>2

\* The missing table is a table.
LEMMA NoLockType == NoLock \in Lock
BY CycleModAssumption DEF NoLock, Lock, State, Cycle

\* What setHostCycleState does to a table.
LEMMA SetEntryProperties ==
    ASSUME NEW lock \in Lock, NEW h \in Hosts, NEW c \in Cycle, NEW s \in State
    PROVE  /\ SetHostCycleState(lock, h, c, s) \in Lock
           /\ SetHostCycleState(lock, h, c, s).state = [lock.state EXCEPT ![h] = s]
           /\ SetHostCycleState(lock, h, c, s).cycle = [lock.cycle EXCEPT ![h] = c]
           /\ SetHostCycleState(lock, h, c, s).order =
                 IF HasEntry(lock, h) THEN lock.order ELSE Append(lock.order, h)
<1>. DEFINE order == IF HasEntry(lock, h) THEN lock.order ELSE Append(lock.order, h)
<1>1. /\ lock.state \in [Hosts -> State]
      /\ lock.cycle \in [Hosts -> Cycle]
      /\ lock.order \in Seq(Hosts)
  BY DEF Lock
<1>2. order \in Seq(Hosts)
  BY <1>1
<1>3. /\ [lock.state EXCEPT ![h] = s] \in [Hosts -> State]
      /\ [lock.cycle EXCEPT ![h] = c] \in [Hosts -> Cycle]
  BY <1>1
<1>4. SetHostCycleState(lock, h, c, s) =
        [state |-> [lock.state EXCEPT ![h] = s],
         cycle |-> [lock.cycle EXCEPT ![h] = c],
         order |-> order]
  BY DEF SetHostCycleState
<1>. HIDE DEF order
<1>5. SetHostCycleState(lock, h, c, s) \in Lock
  BY <1>2, <1>3, <1>4 DEF Lock
<1>6. SetHostCycleState(lock, h, c, s).order = order
  BY <1>4
<1>7. /\ SetHostCycleState(lock, h, c, s).state = [lock.state EXCEPT ![h] = s]
      /\ SetHostCycleState(lock, h, c, s).cycle = [lock.cycle EXCEPT ![h] = c]
  BY <1>4
<1>. QED
  BY <1>5, <1>6, <1>7 DEF order

\* Moving the entries of some hosts leaves cycles and order alone.
LEMMA RestateProperties ==
    ASSUME NEW lock \in Lock, NEW S \in SUBSET Hosts, NEW s \in State
    PROVE  /\ Restate(lock, S, s) \in Lock
           /\ Restate(lock, S, s).cycle = lock.cycle
           /\ Restate(lock, S, s).order = lock.order
           /\ \A h \in Hosts : Restate(lock, S, s).state[h] =
                                  IF h \in S THEN s ELSE lock.state[h]
<1>1. /\ lock.state \in [Hosts -> State]
      /\ lock.cycle \in [Hosts -> Cycle]
      /\ lock.order \in Seq(Hosts)
  BY DEF Lock
<1>2. [h \in Hosts |-> IF h \in S THEN s ELSE lock.state[h]] \in [Hosts -> State]
  BY <1>1
<1>. QED
  BY <1>1, <1>2 DEF Restate, Lock

\* An entry moved by setHostCycleState.
LEMMA SetEntryStates ==
    ASSUME NEW lock \in Lock, NEW h \in Hosts, NEW c \in Cycle, NEW s \in State
    PROVE  /\ SetHostCycleState(lock, h, c, s).state[h] = s
           /\ SetHostCycleState(lock, h, c, s).cycle[h] = c
           /\ \A g \in Hosts \ {h} :
                 /\ SetHostCycleState(lock, h, c, s).state[g] = lock.state[g]
                 /\ SetHostCycleState(lock, h, c, s).cycle[g] = lock.cycle[g]
<1>1. lock.state \in [Hosts -> State] /\ lock.cycle \in [Hosts -> Cycle]
  BY DEF Lock
<1>2. /\ SetHostCycleState(lock, h, c, s).state = [lock.state EXCEPT ![h] = s]
      /\ SetHostCycleState(lock, h, c, s).cycle = [lock.cycle EXCEPT ![h] = c]
  BY SetEntryProperties
<1>. QED
  BY <1>1, <1>2, Zenon

\* A request in front of others.
LEMMA AskProperties ==
    ASSUME NEW k \in {"readlock", "writelock", "read", "write", "unlock"},
           NEW c \in Cycle, NEW s \in Seq(Request)
    PROVE  /\ Ask(k, c) \o s \in Seq(Request)
           /\ Ask(k, c) \o s # << >>
           /\ Head(Ask(k, c) \o s).kind = k
           /\ Head(Ask(k, c) \o s).cycle = c
           /\ Tail(Ask(k, c) \o s) = s
<1>. DEFINE m == [kind |-> k, cycle |-> c]
<1>1. m \in Request /\ m.kind = k /\ m.cycle = c
  BY DEF Request
<1>2. Ask(k, c) = <<m>>
  BY DEF Ask
<1>. HIDE DEF m
<1>3. /\ <<m>> \o s \in Seq(Request)
      /\ <<m>> \o s # << >>
      /\ Head(<<m>> \o s) = m
      /\ Tail(<<m>> \o s) = s
  BY <1>1, ConsProperties
<1>. QED
  BY <1>1, <1>2, <1>3

\* A request in a channel of its own.
LEMMA AskAlone ==
    ASSUME NEW k \in {"readlock", "writelock", "read", "write", "unlock"}, NEW c \in Cycle
    PROVE  /\ Ask(k, c) \in Seq(Request)
           /\ Ask(k, c) # << >>
           /\ Head(Ask(k, c)).kind = k
           /\ Head(Ask(k, c)).cycle = c
           /\ Tail(Ask(k, c)) = << >>
<1>. DEFINE m == [kind |-> k, cycle |-> c]
<1>1. m \in Request /\ m.kind = k /\ m.cycle = c
  BY DEF Request
<1>2. Ask(k, c) = <<m>>
  BY DEF Ask
<1>. HIDE DEF m
<1>3. <<m>> \in Seq(Request) /\ <<m>> # << >> /\ Head(<<m>>) = m /\ Tail(<<m>>) = << >>
  BY <1>1
<1>. QED
  BY <1>1, <1>2, <1>3

-----------------------------------------------------------------------------
(***************************************************************************)
(* Type correctness.                                                       *)
(***************************************************************************)

\* What the owner takes from a channel, and what is left.
LEMMA TakeType ==
    ASSUME TypeOK, NEW h \in Hosts, NEW kind, Take(h, kind)
    PROVE  /\ Head(inbox[h]).cycle \in Cycle
           /\ inbox' \in [Hosts -> Seq(Request)]
<1>1. inbox[h] \in Seq(Request) /\ inbox[h] # << >>
  BY DEF TypeOK, Take
<1>2. Head(inbox[h]) \in Request /\ Tail(inbox[h]) \in Seq(Request)
  BY <1>1
<1>3. Head(inbox[h]).cycle \in Cycle
  BY <1>2 DEF Request
<1>. QED
  BY <1>2, <1>3 DEF TypeOK, Take

\* issueLockResponse sends replies.
LEMMA ResponseType ==
    ASSUME TypeOK, NEW S \in SUBSET Hosts, IssueLockResponse(S)
    PROVE  reply' \in [Hosts -> Seq(Reply)]
<1>1. [kind |-> "lock", cycle |-> ownerCycle] \in Reply
  BY DEF TypeOK, Reply
<1>2. \A h \in Hosts : reply[h] \in Seq(Reply)
  BY DEF TypeOK
<1>3. \A h \in Hosts : Append(reply[h], [kind |-> "lock", cycle |-> ownerCycle]) \in Seq(Reply)
  BY <1>1, <1>2, AppendProperties
<1>. QED
  BY <1>2, <1>3 DEF IssueLockResponse

\* getOrCreateCurrentLock and getOrCreateFutureLock return tables.
LEMMA CurrentLockType ==
    ASSUME TypeOK
    PROVE  CurrentLock \in Lock /\ FutureLock \in Lock
BY NoLockType DEF TypeOK, CurrentLock, FutureLock

\* Starting those that wait leaves tables in place, whoever is started.
LEMMA StartWaitingType ==
    ASSUME TypeOK, NEW lock \in Lock, StartWaiting(lock)
    PROVE  /\ cur' \in Lock
           /\ fut' \in Lock
           /\ released' \in BOOLEAN
           /\ aborted' \in BOOLEAN
           /\ reply' \in [Hosts -> Seq(Reply)]
<1>. DEFINE readers == InState(lock, "Read")
            writers == {h \in Hosts : IsFirstWriter(lock, h)}
<1>1. readers \in SUBSET Hosts /\ writers \in SUBSET Hosts
  BY DEF InState
<1>2. {"Reading", "Writing"} \subseteq State
  BY DEF State
<1>. HIDE DEF readers, writers
<1>3. CASE /\ cur' = Restate(lock, readers, "Reading")
           /\ IssueLockResponse(readers)
           /\ UNCHANGED <<fut, released, aborted>>
  <2>1. Restate(lock, readers, "Reading") \in Lock
    BY <1>1, <1>2, RestateProperties
  <2>. QED
    BY <1>1, <1>3, <2>1, ResponseType DEF TypeOK
<1>4. CASE /\ cur' = Restate(lock, writers, "Writing")
           /\ IssueLockResponse(writers)
           /\ UNCHANGED <<fut, released, aborted>>
  <2>1. Restate(lock, writers, "Writing") \in Lock
    BY <1>1, <1>2, RestateProperties
  <2>. QED
    BY <1>1, <1>4, <2>1, ResponseType DEF TypeOK
<1>5. CASE Abort
  BY <1>5 DEF Abort, TypeOK
<1>. QED
  BY <1>3, <1>4, <1>5 DEF StartWaiting, readers, writers

\* Every step keeps the types, whatever the clients do.
LEMMA TypeStep ==
    ASSUME TypeOK, [Next]_vars
    PROVE  TypeOK'
<1>. USE DEF ownerVars, clientVars
<1>0. \A k \in {"readlock", "writelock", "read", "write", "unlock"}, c \in Cycle :
         Ask(k, c) \in Seq(Request)
  BY AskAlone
<1>1. 0 \in Cycle /\ \A c \in Cycle : Tick(c) \in Cycle
  BY CycleModAssumption, TickProperties DEF Cycle
<1>2. CurrentLock \in Lock /\ FutureLock \in Lock /\ NoLock \in Lock
  BY CurrentLockType, NoLockType
<1>3. ASSUME NEW h \in Hosts, NEW s \in {"Read", "Reading", "Write", "Writing", "Finished"},
             NEW c \in Cycle, NEW lock \in Lock
      PROVE  SetHostCycleState(lock, h, c, s) \in Lock
  BY SetEntryProperties DEF State
<1>4. CASE SimThread
  BY <1>1, <1>4 DEF TypeOK, SimThread, RunJobs, Park, PassBy, Resume, RunProgram
<1>5. CASE SimulationLockStarted
  <2>1. CASE Abort
    BY <1>5, <2>1 DEF SimulationLockStarted, Abort, TypeOK
  <2>2. CASE StartWaiting(cur)
    <3>1. cur \in Lock
      BY DEF TypeOK
    <3>2. cur' \in Lock /\ fut' \in Lock /\ released' \in BOOLEAN /\ aborted' \in BOOLEAN
          /\ reply' \in [Hosts -> Seq(Reply)]
      BY <2>2, <3>1, StartWaitingType
    <3>. QED
      BY <1>5, <3>2 DEF SimulationLockStarted, TypeOK
  <2>. QED
    BY <1>5, <2>1, <2>2 DEF SimulationLockStarted
<1>6. ASSUME NEW h \in Hosts, OnReadLockRequest(h)
      PROVE  TypeOK'
  <2>1. Head(inbox[h]).cycle \in Cycle /\ inbox' \in [Hosts -> Seq(Request)]
    BY <1>6, TakeType DEF OnReadLockRequest
  <2>2. /\ cur' \in Lock /\ fut' \in Lock
        /\ released' \in BOOLEAN /\ aborted' \in BOOLEAN
        /\ reply' \in [Hosts -> Seq(Reply)]
    <3>1. {h} \in SUBSET Hosts
      OBVIOUS
    <3>2. UNCHANGED reply \/ IssueLockResponse({h})
      BY <1>6 DEF OnReadLockRequest, Abort
    <3>3. reply' \in [Hosts -> Seq(Reply)]
      BY <3>1, <3>2, ResponseType DEF TypeOK
    <3>4. \A lock \in Lock, s \in {"Read", "Reading", "Write", "Writing"} :
             SetHostCycleState(lock, h, Head(inbox[h]).cycle, s) \in Lock
      BY <1>3, <2>1
    <3>5. cur' \in Lock /\ fut' \in Lock /\ released' \in BOOLEAN /\ aborted' \in BOOLEAN
      BY <1>2, <1>6, <3>4 DEF OnReadLockRequest, Abort, TypeOK
    <3>. QED
      BY <3>3, <3>5
  <2>. QED
    BY <1>6, <2>1, <2>2 DEF OnReadLockRequest, TypeOK
<1>7. ASSUME NEW h \in Hosts, OnWriteLockRequest(h)
      PROVE  TypeOK'
  <2>1. Head(inbox[h]).cycle \in Cycle /\ inbox' \in [Hosts -> Seq(Request)]
    BY <1>7, TakeType DEF OnWriteLockRequest
  <2>2. /\ cur' \in Lock /\ fut' \in Lock
        /\ released' \in BOOLEAN /\ aborted' \in BOOLEAN
        /\ reply' \in [Hosts -> Seq(Reply)]
    <3>1. {h} \in SUBSET Hosts
      OBVIOUS
    <3>2. UNCHANGED reply \/ IssueLockResponse({h})
      BY <1>7 DEF OnWriteLockRequest, Abort
    <3>3. reply' \in [Hosts -> Seq(Reply)]
      BY <3>1, <3>2, ResponseType DEF TypeOK
    <3>4. \A lock \in Lock, s \in {"Read", "Reading", "Write", "Writing"} :
             SetHostCycleState(lock, h, Head(inbox[h]).cycle, s) \in Lock
      BY <1>3, <2>1
    <3>5. cur' \in Lock /\ fut' \in Lock /\ released' \in BOOLEAN /\ aborted' \in BOOLEAN
      BY <1>2, <1>7, <3>4 DEF OnWriteLockRequest, Abort, TypeOK
    <3>. QED
      BY <3>3, <3>5
  <2>. QED
    BY <1>7, <2>1, <2>2 DEF OnWriteLockRequest, TypeOK
<1>8. ASSUME NEW h \in Hosts, OnReadRequest(h)
      PROVE  TypeOK'
  <2>1. Head(inbox[h]).cycle \in Cycle /\ inbox' \in [Hosts -> Seq(Request)]
    BY <1>8, TakeType DEF OnReadRequest
  <2>2. [kind |-> IF loaded THEN "data" ELSE "error", cycle |-> Head(inbox[h]).cycle] \in Reply
    BY <2>1 DEF Reply
  <2>3. Append(reply[h], [kind |-> IF loaded THEN "data" ELSE "error",
                          cycle |-> Head(inbox[h]).cycle]) \in Seq(Reply)
    BY <2>2, AppendProperties DEF TypeOK
  <2>4. reply' \in [Hosts -> Seq(Reply)]
    BY <1>8, <2>3 DEF OnReadRequest, Abort, TypeOK
  <2>. QED
    BY <1>2, <1>8, <2>1, <2>4 DEF OnReadRequest, Abort, TypeOK
<1>9. ASSUME NEW h \in Hosts, OnWriteRequest(h)
      PROVE  TypeOK'
  <2>1. inbox' \in [Hosts -> Seq(Request)]
    BY <1>9, TakeType DEF OnWriteRequest
  <2>. QED
    BY <1>2, <1>9, <2>1 DEF OnWriteRequest, Abort, TypeOK
<1>10. ASSUME NEW h \in Hosts, OnUnlockRequest(h)
       PROVE  TypeOK'
  <2>. DEFINE done == SetHostCycleState(cur, h, Head(inbox[h]).cycle, "Finished")
  <2>1. Head(inbox[h]).cycle \in Cycle /\ inbox' \in [Hosts -> Seq(Request)]
    BY <1>10, TakeType DEF OnUnlockRequest
  <2>2. done \in Lock
    BY <1>3, <2>1 DEF TypeOK
  <2>3. /\ cur' \in Lock /\ fut' \in Lock
        /\ released' \in BOOLEAN /\ aborted' \in BOOLEAN
        /\ reply' \in [Hosts -> Seq(Reply)]
    <3>. HIDE DEF done
    <3>1. \/ StartWaiting(done)
          \/ Abort
          \/ ReleaseCurrentLock
          \/ cur' = done /\ UNCHANGED <<fut, released, reply, aborted>>
      BY <1>10 DEF OnUnlockRequest, done
    <3>2. CASE StartWaiting(done)
      BY <2>2, <3>2, StartWaitingType
    <3>. QED
      BY <1>2, <2>2, <3>1, <3>2 DEF Abort, ReleaseCurrentLock, TypeOK
  <2>. QED
    BY <1>10, <2>1, <2>3 DEF OnUnlockRequest, TypeOK
<1>11. ASSUME NEW h \in Hosts, Client(h)
       PROVE  TypeOK'
  <2>1. inbox[h] \in Seq(Request) /\ hostCycle[h] \in Cycle /\ reply[h] \in Seq(Reply)
    BY DEF TypeOK
  <2>2. CASE ReadLock(h)
    BY <1>0, <2>1, <2>2, ConcatProperties DEF ReadLock, Send, TypeOK
  <2>3. CASE WriteLock(h)
    BY <1>0, <2>1, <2>3, ConcatProperties DEF WriteLock, Send, TypeOK
  <2>4. ASSUME NEW i \in Instances, Fetch(h, i)
        PROVE  TypeOK'
    BY <1>0, <2>1, <2>4, ConcatProperties DEF Fetch, Send, TypeOK
  <2>5. ASSUME NEW i \in Instances, Modify(h, i)
        PROVE  TypeOK'
    BY <2>5 DEF Modify, TypeOK
  <2>6. CASE ReceiveResponse(h)
    <3>1. Head(reply[h]).cycle \in Cycle /\ Tail(reply[h]) \in Seq(Reply)
      <4>1. reply[h] # << >>
        BY <2>6 DEF ReceiveResponse
      <4>2. Head(reply[h]) \in Reply /\ Tail(reply[h]) \in Seq(Reply)
        BY <2>1, <4>1
      <4>. QED
        BY <4>2 DEF Reply
    <3>. QED
      BY <2>6, <3>1 DEF ReceiveResponse, TypeOK
  <2>7. CASE ReceiveError(h)
    <3>1. Tail(reply[h]) \in Seq(Reply)
      BY <2>1, <2>7 DEF ReceiveError
    <3>. QED
      BY <2>7, <3>1 DEF ReceiveError, TypeOK
  <2>8. CASE EndCycle(h)
    <3>1. FinalRequests(h) \in Seq(Request)
      BY <1>0, <2>1, ConcatProperties, EmptySeq DEF FinalRequests
    <3>2. inbox[h] \o FinalRequests(h) \in Seq(Request)
      BY <2>1, <3>1, ConcatProperties
    <3>. QED
      BY <1>1, <2>1, <2>8, <3>2 DEF EndCycle, Send, TypeOK
  <2>. QED
    BY <1>11, <2>2, <2>3, <2>4, <2>5, <2>6, <2>7, <2>8 DEF Client
<1>12. CASE UNCHANGED vars
  BY <1>12 DEF vars, TypeOK
<1>. QED
  BY <1>4, <1>5, <1>6, <1>7, <1>8, <1>9, <1>10, <1>11, <1>12 DEF Next, Handle

\* The types hold initially.
LEMMA TypeInit == Init => TypeOK
<1>1. 0 \in Cycle
  BY CycleModAssumption DEF Cycle
<1>2. << >> \in Seq(Request) /\ << >> \in Seq(Reply)
  OBVIOUS
<1>3. Init => /\ inbox \in [Hosts -> Seq(Request)]
              /\ reply \in [Hosts -> Seq(Reply)]
              /\ loaded \in BOOLEAN
  BY <1>2 DEF Init
<1>4. Init => /\ hostCycle \in [Hosts -> Cycle]
              /\ stamp \in [Hosts -> Cycle]
              /\ ownerCycle \in Cycle
  BY <1>1 DEF Init
<1>. QED
  BY <1>3, <1>4, NoLockType DEF Init, TypeOK

\* Every variable keeps its type, in every execution, whatever the clients do.
THEOREM TypeCorrect == Spec => []TypeOK
BY TypeInit, TypeStep, PTL DEF Spec

-----------------------------------------------------------------------------
(***************************************************************************)
(* Facts about the tables.                                                 *)
(***************************************************************************)

\* Every set of positions has a first one.
LEMMA FirstPosition ==
    ASSUME NEW T \in SUBSET Nat, T # {}
    PROVE  \E i \in T : \A j \in T : ~(j < i)
<1>1. \E i \in T : \A j \in T : ~(<<j, i>> \in OpToRel(<, Nat))
  BY NatLessThanWellFounded, WFMin
<1>2. \A i, j \in T : j < i => <<j, i>> \in OpToRel(<, Nat)
  BY DEF OpToRel
<1>. QED
  BY <1>1, <1>2

\* The scan for the first writer finds one if anybody waits to write, and one
\* only.
LEMMA FirstWriterExists ==
    ASSUME NEW lock \in Lock, WellFormed(lock), NEW h \in Hosts, lock.state[h] = "Write"
    PROVE  \E g \in Hosts : IsFirstWriter(lock, g)
<1>. DEFINE T == {i \in 1 .. Len(lock.order) : lock.state[lock.order[i]] = "Write"}
<1>1. lock.order \in Seq(Hosts) /\ Len(lock.order) \in Nat
  BY DEF Lock
<1>2. T \in SUBSET Nat
  BY <1>1
<1>3. T # {}
  BY DEF WellFormed, HasEntry
<1>4. PICK i \in T : \A j \in T : ~(j < i)
  BY <1>2, <1>3, FirstPosition
<1>5. lock.order[i] \in Hosts
  BY <1>1, ElementOfSeq
<1>6. \A j \in 1 .. i - 1 : j \in 1 .. Len(lock.order) /\ j < i
  BY <1>1, <1>2
<1>7. \A j \in 1 .. i - 1 : lock.state[lock.order[j]] # "Write"
  BY <1>4, <1>6
<1>. QED
  BY <1>5, <1>7 DEF IsFirstWriter

\* At most one client is the first writer: the scan starts one write lock.
LEMMA FirstWriterUnique ==
    ASSUME NEW lock \in Lock, NEW g \in Hosts, NEW h \in Hosts,
           IsFirstWriter(lock, g), IsFirstWriter(lock, h)
    PROVE  g = h
<1>1. lock.order \in Seq(Hosts) /\ Len(lock.order) \in Nat
  BY DEF Lock
<1>2. PICK i \in 1 .. Len(lock.order) :
         /\ lock.order[i] = g
         /\ \A k \in 1 .. i - 1 : lock.state[lock.order[k]] # "Write"
  BY DEF IsFirstWriter
<1>3. PICK j \in 1 .. Len(lock.order) :
         /\ lock.order[j] = h
         /\ \A k \in 1 .. j - 1 : lock.state[lock.order[k]] # "Write"
  BY DEF IsFirstWriter
<1>4. lock.state[g] = "Write" /\ lock.state[h] = "Write"
  BY DEF IsFirstWriter
<1>5. ~(i < j)
  <2>1. i < j => i \in 1 .. j - 1
    BY <1>1
  <2>. QED
    BY <1>2, <1>3, <1>4, <2>1
<1>6. ~(j < i)
  <2>1. j < i => j \in 1 .. i - 1
    BY <1>1
  <2>. QED
    BY <1>2, <1>3, <1>4, <2>1
<1>7. i = j
  BY <1>1, <1>5, <1>6
<1>. QED
  BY <1>2, <1>3, <1>7

\* A table with a new or moved entry has one, and names it.
LEMMA SetEntryWellFormed ==
    ASSUME NEW lock \in Lock, WellFormed(lock),
           NEW h \in Hosts, NEW c \in Cycle, NEW s \in State, s # "None"
    PROVE  WellFormed(SetHostCycleState(lock, h, c, s))
<1>. DEFINE new == SetHostCycleState(lock, h, c, s)
<1>1. /\ new.state[h] = s
      /\ \A g \in Hosts \ {h} : new.state[g] = lock.state[g]
  BY SetEntryStates
<1>2. new.order = IF HasEntry(lock, h) THEN lock.order ELSE Append(lock.order, h)
  BY DEF SetHostCycleState
<1>. HIDE DEF new
<1>3. lock.order \in Seq(Hosts) /\ Len(lock.order) \in Nat
  BY DEF Lock
<1>4. CASE HasEntry(lock, h)
  BY <1>1, <1>2, <1>4 DEF WellFormed, HasEntry, new
<1>5. CASE ~HasEntry(lock, h)
  <2>1. /\ Len(new.order) = Len(lock.order) + 1
        /\ new.order[Len(lock.order) + 1] = h
        /\ \A i \in 1 .. Len(lock.order) : new.order[i] = lock.order[i]
    BY <1>2, <1>3, <1>5, AppendProperties
  <2>2. ASSUME NEW g \in Hosts, HasEntry(new, g)
        PROVE  \E i \in 1 .. Len(new.order) : new.order[i] = g
    <3>1. CASE g = h
      <4>1. Len(lock.order) + 1 \in 1 .. Len(new.order)
        BY <1>3, <2>1
      <4>. QED
        BY <2>1, <3>1, <4>1
    <3>2. CASE g # h
      <4>1. HasEntry(lock, g)
        BY <1>1, <2>2, <3>2 DEF HasEntry
      <4>2. PICK i \in 1 .. Len(lock.order) : lock.order[i] = g
        BY <4>1 DEF WellFormed
      <4>3. i \in 1 .. Len(new.order)
        BY <1>3, <2>1
      <4>. QED
        BY <2>1, <4>2, <4>3
    <3>. QED
      BY <3>1, <3>2
  <2>3. HasEntry(new, h)
    BY <1>1 DEF HasEntry
  <2>. QED
    BY <2>2, <2>3 DEF WellFormed, new
<1>. QED
  BY <1>4, <1>5

\* A table whose entries are moved is still well formed.
LEMMA RestateWellFormed ==
    ASSUME NEW lock \in Lock, WellFormed(lock), NEW S \in SUBSET Hosts, NEW s \in State,
           s # "None", \A h \in S : HasEntry(lock, h), \E h \in S : TRUE
    PROVE  WellFormed(Restate(lock, S, s))
<1>. DEFINE new == Restate(lock, S, s)
<1>1. /\ new.order = lock.order
      /\ \A h \in Hosts : new.state[h] = IF h \in S THEN s ELSE lock.state[h]
  BY RestateProperties
<1>. HIDE DEF new
<1>2. \A h \in Hosts : HasEntry(new, h) => HasEntry(lock, h)
  BY <1>1 DEF HasEntry
<1>3. \E h \in Hosts : HasEntry(new, h)
  BY <1>1 DEF HasEntry
<1>. QED
  BY <1>1, <1>2, <1>3 DEF WellFormed, new

-----------------------------------------------------------------------------
(***************************************************************************)
(* Facts about one client's phase.                                         *)
(***************************************************************************)

\* The request a client without a lock waits for, if any.
Pending(h) == IF hostPc[h] = "cycle" THEN << >>
              ELSE IF hostPc[h] = "awaitRead" THEN Ask("readlock", hostCycle[h])
              ELSE Ask("writelock", hostCycle[h])

\* The client has no lock and what it last sent is still under way.
Underway(h) ==
    /\ hostPc[h] # "awaitData"
    /\ locks[h] = {}
    /\ reply[h] = << >>
    /\ fut.state[h] = "None"
    /\ Closing(h, Pending(h))

\* What a client waits to hear of is a channel content.
LEMMA PendingType ==
    ASSUME TypeOK, NEW h \in Hosts
    PROVE  Pending(h) \in Seq(Request)
<1>1. hostCycle[h] \in Cycle
  BY DEF TypeOK
<1>2. /\ << >> \in Seq(Request)
      /\ Ask("readlock", hostCycle[h]) \in Seq(Request)
      /\ Ask("writelock", hostCycle[h]) \in Seq(Request)
  BY <1>1, EmptySeq, AskAlone
<1>. QED
  BY <1>2 DEF Pending

\* What is at the head of a client's channel while it sends.
LEMMA ClosingTake ==
    ASSUME TypeOK, NEW h \in Hosts, NEW last \in Seq(Request),
           Closing(h, last), inbox[h] # << >>
    PROVE  \/ /\ inbox[h] = last
              /\ cur.state[h] \in {"None", "Finished"}
              /\ cur.state[h] = "Finished" => cur.cycle[h] # hostCycle[h]
           \/ /\ Head(inbox[h]).kind = "unlock"
              /\ Head(inbox[h]).cycle # hostCycle[h]
              /\ Tail(inbox[h]) = last
              /\ Granted(h)
              /\ cur.cycle[h] # hostCycle[h]
           \/ /\ Head(inbox[h]).kind = "write"
              /\ \E d \in Cycle : /\ d # hostCycle[h]
                                  /\ Tail(inbox[h]) = Ask("unlock", d) \o last
              /\ cur.state[h] = "Writing"
              /\ cur.cycle[h] # hostCycle[h]
<1>1. CASE /\ inbox[h] = last
           /\ cur.state[h] \in {"None", "Finished"}
           /\ cur.state[h] = "Finished" => cur.cycle[h] # hostCycle[h]
  BY <1>1
<1>2. ASSUME cur.cycle[h] # hostCycle[h],
             cur.state[h] \in {"Reading", "Writing"},
             NEW d \in Cycle, d # hostCycle[h],
             inbox[h] = Ask("unlock", d) \o last
      PROVE  /\ Head(inbox[h]).kind = "unlock"
             /\ Head(inbox[h]).cycle # hostCycle[h]
             /\ Tail(inbox[h]) = last
             /\ Granted(h)
  <2>1. /\ Head(inbox[h]).kind = "unlock"
        /\ Head(inbox[h]).cycle = d
        /\ Tail(inbox[h]) = last
    <3>1. /\ Head(Ask("unlock", d) \o last).kind = "unlock"
          /\ Head(Ask("unlock", d) \o last).cycle = d
          /\ Tail(Ask("unlock", d) \o last) = last
      BY AskProperties, ZenonT(60)
    <3>. QED
      BY <1>2, <3>1
  <2>. QED
    BY <1>2, <2>1 DEF Granted
<1>3. ASSUME NEW d \in Cycle, inbox[h] = Ask("write", d) \o (Ask("unlock", d) \o last)
      PROVE  /\ Head(inbox[h]).kind = "write"
             /\ Tail(inbox[h]) = Ask("unlock", d) \o last
  <2>. DEFINE rest == Ask("unlock", d) \o last
  <2>1. rest \in Seq(Request)
    BY AskProperties
  <2>. HIDE DEF rest
  <2>2. Head(Ask("write", d) \o rest).kind = "write" /\ Tail(Ask("write", d) \o rest) = rest
    BY <2>1, AskProperties, ZenonT(60)
  <2>. QED
    BY <1>3, <2>2 DEF rest
<1>. QED
  BY <1>1, <1>2, <1>3 DEF Closing

\* Idle clients and those whose request is under way, in one form.
LEMMA UnderwayPhases ==
    ASSUME TypeOK, NEW h \in Hosts
    PROVE  /\ Underway(h) => Protocol(h)
           /\ Idle(h) => Underway(h)
           /\ /\ hostPc[h] = "awaitRead"
              /\ locks[h] = {} /\ reply[h] = << >> /\ fut.state[h] = "None"
              /\ Closing(h, Ask("readlock", hostCycle[h]))
              => Underway(h)
           /\ /\ hostPc[h] = "awaitWrite"
              /\ locks[h] = {} /\ reply[h] = << >> /\ fut.state[h] = "None"
              /\ Closing(h, Ask("writelock", hostCycle[h]))
              => Underway(h)
BY DEF Underway, Pending, Protocol, Idle, Asking, TypeOK

\* What a request at the head of a channel says about its client.
LEMMA RequestPhase ==
    ASSUME TypeOK, NEW h \in Hosts, Protocol(h), inbox[h] # << >>
    PROVE  \/ /\ Head(inbox[h]).kind \in {"readlock", "writelock"}
              /\ hostPc[h] = IF Head(inbox[h]).kind = "readlock" THEN "awaitRead" ELSE "awaitWrite"
              /\ Head(inbox[h]).cycle = hostCycle[h]
              /\ Tail(inbox[h]) = << >>
              /\ locks[h] = {} /\ reply[h] = << >> /\ fut.state[h] = "None"
              /\ cur.state[h] \in {"None", "Finished"}
              /\ cur.state[h] = "Finished" => cur.cycle[h] # hostCycle[h]
           \/ /\ Head(inbox[h]).kind = "writelock"
              /\ hostPc[h] = "awaitWrite"
              /\ Head(inbox[h]).cycle = hostCycle[h]
              /\ Tail(inbox[h]) = << >>
              /\ Held(h) /\ ~HoldsWrite(h) /\ reply[h] = << >>
              /\ cur.state[h] = "Reading"
           \/ /\ Head(inbox[h]).kind = "read"
              /\ hostPc[h] = "awaitData"
              /\ Head(inbox[h]).cycle = hostCycle[h]
              /\ Tail(inbox[h]) = << >>
              /\ Held(h) /\ reply[h] = << >>
              /\ cur.state[h] = HeldState(h)
           \/ /\ Head(inbox[h]).kind = "unlock"
              /\ Underway(h)
              /\ Head(inbox[h]).cycle # hostCycle[h]
              /\ Tail(inbox[h]) = Pending(h)
              /\ Granted(h)
           \/ /\ Head(inbox[h]).kind = "write"
              /\ Underway(h)
              /\ \E d \in Cycle : /\ d # hostCycle[h]
                                  /\ Tail(inbox[h]) = Ask("unlock", d) \o Pending(h)
              /\ cur.state[h] = "Writing"
              /\ cur.cycle[h] # hostCycle[h]
<1>1. hostCycle[h] \in Cycle
  BY DEF TypeOK
<1>2. \A k \in {"readlock", "writelock", "read"} :
         /\ Head(Ask(k, hostCycle[h])).kind = k
         /\ Head(Ask(k, hostCycle[h])).cycle = hostCycle[h]
         /\ Tail(Ask(k, hostCycle[h])) = << >>
  BY <1>1, AskAlone
<1>3. CASE Underway(h)
  <2>1. Closing(h, Pending(h)) /\ Pending(h) \in Seq(Request)
    BY <1>3, PendingType DEF Underway
  <2>2. CASE /\ inbox[h] = Pending(h)
             /\ cur.state[h] \in {"None", "Finished"}
             /\ cur.state[h] = "Finished" => cur.cycle[h] # hostCycle[h]
    <3>1. CASE hostPc[h] = "awaitRead"
      BY <1>2, <1>3, <2>2, <3>1 DEF Underway, Pending
    <3>2. CASE hostPc[h] = "awaitWrite"
      BY <1>2, <1>3, <2>2, <3>2 DEF Underway, Pending
    <3>3. hostPc[h] # "cycle"
      BY <2>2 DEF Pending
    <3>. QED
      BY <1>3, <3>1, <3>2, <3>3 DEF Underway, TypeOK
  <2>3. CASE /\ Head(inbox[h]).kind = "unlock"
             /\ Head(inbox[h]).cycle # hostCycle[h]
             /\ Tail(inbox[h]) = Pending(h)
             /\ Granted(h)
    BY <1>3, <2>3
  <2>4. CASE /\ Head(inbox[h]).kind = "write"
             /\ \E d \in Cycle : /\ d # hostCycle[h]
                                 /\ Tail(inbox[h]) = Ask("unlock", d) \o Pending(h)
             /\ cur.state[h] = "Writing"
             /\ cur.cycle[h] # hostCycle[h]
    BY <1>3, <2>4
  <2>. HIDE DEF Pending
  <2>. QED
    BY <2>1, <2>2, <2>3, <2>4, ClosingTake
<1>4. CASE hostPc[h] = "awaitData" /\ Fetching(h)
  <2>1. inbox[h] = Ask("read", hostCycle[h]) /\ reply[h] = << >>
    BY <1>4 DEF Fetching
  <2>. QED
    BY <1>2, <1>4, <2>1 DEF Fetching
<1>5. CASE hostPc[h] = "awaitWrite" /\ Upgrading(h)
  <2>1. inbox[h] = Ask("writelock", hostCycle[h]) /\ reply[h] = << >> /\ cur.state[h] = "Reading"
    BY <1>5 DEF Upgrading
  <2>. QED
    BY <1>2, <1>5, <2>1 DEF Upgrading
<1>6. \/ Underway(h)
      \/ hostPc[h] = "awaitData" /\ Fetching(h)
      \/ hostPc[h] = "awaitWrite" /\ Upgrading(h)
  BY UnderwayPhases DEF Protocol, Asking, Working
<1>. QED
  BY <1>3, <1>4, <1>5, <1>6

\* A client with an entry that waits in the current table.
Waits(h) ==
    /\ inbox[h] = << >>
    /\ reply[h] = << >>
    /\ cur.cycle[h] = hostCycle[h]
    /\ fut.state[h] = "None"
    /\ \/ /\ cur.state[h] = "Read"
          /\ hostPc[h] = "awaitRead"
          /\ locks[h] = {}
       \/ /\ cur.state[h] = "Write"
          /\ hostPc[h] = "awaitWrite"
          /\ locks[h] = {} \/ (Held(h) /\ ~HoldsWrite(h))

\* A client with a waiting entry in the current table is one that asked for it.
LEMMA WaitingPhase ==
    ASSUME NEW h \in Hosts
    PROVE  /\ Protocol(h) /\ cur.state[h] \in {"Read", "Write"} => Waits(h)
           /\ Waits(h) => Protocol(h)
BY DEF Waits, Protocol, Idle, Asking, Working, Fetching, Upgrading, Held, HeldState,
       HoldsWrite, Closing

\* What the tables say of any client.
LEMMA TablePhase ==
    ASSUME TypeOK, NEW h \in Hosts, Protocol(h)
    PROVE  /\ fut.state[h] \in {"None", "Read", "Write"}
           /\ fut.state[h] # "None" => cur.state[h] = "Finished"
           /\ locks[h] # {} => /\ Held(h)
                               /\ cur.state[h] \in {"Reading", "Writing", "Write"}
                               /\ cur.state[h] # HeldState(h) => hostPc[h] = "awaitWrite"
                               /\ HoldsWrite(h) => cur.state[h] = "Writing"
BY DEF TypeOK, Protocol, Idle, Asking, Working, Fetching, Upgrading, Held, HeldState,
       HoldsWrite

-----------------------------------------------------------------------------
(***************************************************************************)
(* Steps.                                                                  *)
(***************************************************************************)

\* A client nothing happened to stays in its phase.
LEMMA ProtocolFrame ==
    ASSUME NEW g \in Hosts, Protocol(g),
           inbox'[g] = inbox[g], reply'[g] = reply[g], hostPc'[g] = hostPc[g],
           hostCycle'[g] = hostCycle[g], locks'[g] = locks[g], stamp'[g] = stamp[g],
           cur'.state[g] = cur.state[g], cur'.cycle[g] = cur.cycle[g],
           fut'.state[g] = fut.state[g], fut'.cycle[g] = fut.cycle[g],
           ownerCycle' = ownerCycle
    PROVE  Protocol(g)'
<1>1. \A last : Closing(g, last) => Closing(g, last)'
  BY DEF Closing
<1>2. Held(g) => Held(g)'
  BY DEF Held
<1>3. HeldState(g)' = HeldState(g) /\ HoldsWrite(g)' = HoldsWrite(g)
  BY DEF HeldState, HoldsWrite
<1>4. GrantReply' = GrantReply
  BY DEF GrantReply
<1>5. Idle(g) => Idle(g)'
  BY <1>1 DEF Idle
<1>6. ASSUME NEW kind, NEW waiting, NEW granted
      PROVE  Asking(g, kind, waiting, granted) => Asking(g, kind, waiting, granted)'
  BY <1>1, <1>4 DEF Asking
<1>7. (Working(g) => Working(g)') /\ (Fetching(g) => Fetching(g)') /\ (Upgrading(g) => Upgrading(g)')
  BY <1>2, <1>3, <1>4 DEF Working, Fetching, Upgrading
<1>. QED
  BY <1>5, <1>6, <1>7 DEF Protocol

\* A client that waits and is granted its lock.
LEMMA GrantStep ==
    ASSUME NEW g \in Hosts, Waits(g), ownerCycle \in Cycle,
           cur.state[g] = "Read" => cur'.state[g] = "Reading",
           cur.state[g] = "Write" => cur'.state[g] = "Writing",
           reply'[g] = Append(reply[g], [kind |-> "lock", cycle |-> ownerCycle]),
           inbox'[g] = inbox[g], hostPc'[g] = hostPc[g],
           hostCycle'[g] = hostCycle[g], locks'[g] = locks[g], stamp'[g] = stamp[g],
           cur'.cycle[g] = cur.cycle[g], fut'.state[g] = fut.state[g],
           ownerCycle' = ownerCycle
    PROVE  Protocol(g)'
<1>1. reply'[g] = GrantReply'
  BY DEF Waits, GrantReply, Ask
<1>. QED
  BY <1>1 DEF Waits, Protocol, Asking, Upgrading, Held, HoldsWrite

\* StartWaiting finds somebody to start and starts only readers or one writer.
LEMMA StartWaitingStep ==
    ASSUME TypeOK, NEW lock \in Lock, WellFormed(lock),
           \A g \in Hosts : lock.state[g] \in {"None", "Read", "Write", "Finished"},
           \E g \in Hosts : lock.state[g] \in {"Read", "Write"},
           StartWaiting(lock)
    PROVE  /\ UNCHANGED <<fut, released, aborted>>
           /\ WellFormed(cur')
           /\ \A g \in Hosts :
                 /\ cur'.cycle[g] = lock.cycle[g]
                 /\ \/ /\ cur'.state[g] = lock.state[g]
                       /\ reply'[g] = reply[g]
                    \/ /\ \/ lock.state[g] = "Read" /\ cur'.state[g] = "Reading"
                          \/ lock.state[g] = "Write" /\ cur'.state[g] = "Writing"
                       /\ reply'[g] = Append(reply[g], [kind |-> "lock", cycle |-> ownerCycle])
           /\ \A g, h \in Hosts :
                 cur'.state[g] = "Writing" /\ cur'.state[h] \in {"Reading", "Writing"} => g = h
<1>. DEFINE readers == InState(lock, "Read")
            writers == {h \in Hosts : IsFirstWriter(lock, h)}
<1>1. readers \in SUBSET Hosts /\ writers \in SUBSET Hosts
  BY DEF InState
<1>2. {"Reading", "Writing"} \subseteq State
  BY DEF State
<1>3. \A g \in readers : lock.state[g] = "Read"
  BY DEF InState
<1>4. \A g \in writers : lock.state[g] = "Write"
  BY DEF IsFirstWriter
<1>5. \A g, h \in writers : g = h
  BY FirstWriterUnique
<1>6. readers = {} => writers # {}
  BY FirstWriterExists DEF InState
<1>7. \/ /\ readers # {}
         /\ cur' = Restate(lock, readers, "Reading")
         /\ IssueLockResponse(readers)
         /\ UNCHANGED <<fut, released, aborted>>
      \/ /\ readers = {} /\ writers # {}
         /\ cur' = Restate(lock, writers, "Writing")
         /\ IssueLockResponse(writers)
         /\ UNCHANGED <<fut, released, aborted>>
  BY <1>6 DEF StartWaiting
<1>. HIDE DEF readers, writers
<1>8. CASE /\ readers # {}
           /\ cur' = Restate(lock, readers, "Reading")
           /\ IssueLockResponse(readers)
           /\ UNCHANGED <<fut, released, aborted>>
  <2>1. /\ cur'.cycle = lock.cycle
        /\ \A g \in Hosts : cur'.state[g] = IF g \in readers THEN "Reading" ELSE lock.state[g]
    BY <1>1, <1>2, <1>8, RestateProperties
  <2>2. \A g \in Hosts : reply'[g] = IF g \in readers
                                     THEN Append(reply[g], [kind |-> "lock", cycle |-> ownerCycle])
                                     ELSE reply[g]
    BY <1>8 DEF IssueLockResponse
  <2>3. WellFormed(cur')
    <3>1. (\A g \in readers : HasEntry(lock, g)) /\ (\E g \in readers : TRUE)
      BY <1>3, <1>8 DEF HasEntry
    <3>2. WellFormed(Restate(lock, readers, "Reading"))
      BY <1>1, <1>2, <3>1, RestateWellFormed
    <3>. QED
      BY <1>8, <3>2
  <2>. QED
    BY <1>3, <1>8, <2>1, <2>2, <2>3
<1>9. CASE /\ readers = {} /\ writers # {}
           /\ cur' = Restate(lock, writers, "Writing")
           /\ IssueLockResponse(writers)
           /\ UNCHANGED <<fut, released, aborted>>
  <2>1. /\ cur'.cycle = lock.cycle
        /\ \A g \in Hosts : cur'.state[g] = IF g \in writers THEN "Writing" ELSE lock.state[g]
    BY <1>1, <1>2, <1>9, RestateProperties
  <2>2. \A g \in Hosts : reply'[g] = IF g \in writers
                                     THEN Append(reply[g], [kind |-> "lock", cycle |-> ownerCycle])
                                     ELSE reply[g]
    BY <1>9 DEF IssueLockResponse
  <2>3. WellFormed(cur')
    <3>1. (\A g \in writers : HasEntry(lock, g)) /\ (\E g \in writers : TRUE)
      BY <1>4, <1>9 DEF HasEntry
    <3>2. WellFormed(Restate(lock, writers, "Writing"))
      BY <1>1, <1>2, <3>1, RestateWellFormed
    <3>. QED
      BY <1>9, <3>2
  <2>. QED
    BY <1>4, <1>5, <1>9, <2>1, <2>2, <2>3
<1>. QED
  BY <1>7, <1>8, <1>9

\* The owner's clock moves only while nobody was granted anything.
LEMMA ClockFrame ==
    ASSUME NEW g \in Hosts, Protocol(g), locks[g] = {},
           cur.state[g] \in {"None", "Read", "Write"},
           UNCHANGED <<cur, fut, inbox, reply, hostPc, hostCycle, locks, stamp>>
    PROVE  Protocol(g)'
<1>1. \A last : Closing(g, last) => Closing(g, last)'
  BY DEF Closing
<1>2. Idle(g) => Idle(g)'
  BY <1>1 DEF Idle
<1>3. ASSUME NEW kind, NEW waiting, NEW granted \in {"Reading", "Writing"}
      PROVE  Asking(g, kind, waiting, granted) => Asking(g, kind, waiting, granted)'
  BY <1>1 DEF Asking
<1>. QED
  BY <1>2, <1>3 DEF Protocol, Working, Fetching, Upgrading, Held

\* Parts of the invariant that only read the clients' own variables.
LEMMA ClientFrame ==
    ASSUME ReadsUnderLock, FetchedDataStable, UNCHANGED <<clientVars, stale>>
    PROVE  ReadsUnderLock' /\ FetchedDataStable'
BY DEF ReadsUnderLock, FetchedDataStable, HoldsWrite, clientVars

\* The owner's simulation thread keeps the invariant.
LEMMA SimThreadStep ==
    ASSUME IInv, SimThread
    PROVE  IInv'
<1>. USE DEF clientVars
<1>1. TypeOK'
  BY TypeStep DEF IInv, Next
<1>2. UNCHANGED <<cur, fut, aborted, inbox, reply, clientVars, stale>>
  BY DEF SimThread, RunJobs, Park, PassBy, Resume, RunProgram
<1>3. ReadsUnderLock' /\ FetchedDataStable'
  BY <1>2, ClientFrame DEF IInv
<1>4. ASSUME NEW g \in Hosts
      PROVE  Protocol(g)'
  <2>1. CASE ownerCycle' = ownerCycle
    BY <1>2, <2>1, ProtocolFrame DEF IInv
  <2>2. CASE ownerCycle' # ownerCycle
    <3>1. simPc \in {"jobs", "run"}
      BY <2>2 DEF SimThread, RunJobs, Park, PassBy, Resume, RunProgram
    <3>2. locks[g] = {} /\ cur.state[g] \in {"None", "Read", "Write"}
      BY <3>1 DEF IInv, StartedWhileParked, Serving
    <3>. QED
      BY <1>2, <3>2, ClockFrame DEF IInv
  <2>. QED
    BY <2>1, <2>2
<1>5. StartedWhileParked'
  <2>1. CASE RunJobs \/ PassBy \/ Resume \/ RunProgram
    <3>1. ~Serving /\ ~startPosted /\ UNCHANGED startPosted
      BY <2>1 DEF RunJobs, PassBy, Resume, RunProgram, IInv, StartedWhileParked, Serving
    <3>. QED
      BY <1>2, <3>1 DEF IInv, StartedWhileParked
  <2>2. CASE Park
    <3>1. ~Serving /\ simPc' = "parked" /\ startPosted' /\ ~released' /\ cur # NoLock
      BY <2>2 DEF Park, Serving
    <3>. QED
      BY <1>2, <3>1 DEF IInv, StartedWhileParked
  <2>. QED
    BY <2>1, <2>2 DEF SimThread
<1>6. NoAbort' /\ TableExclusion' /\ WellFormed(cur)' /\ WellFormed(fut)'
  BY <1>2 DEF IInv, NoAbort, TableExclusion, Granted, WellFormed, HasEntry
<1>. QED
  BY <1>1, <1>3, <1>4, <1>5, <1>6 DEF IInv

\* OnSimulationLockStarted keeps the invariant.
LEMMA StartedStep ==
    ASSUME IInv, SimulationLockStarted
    PROVE  IInv'
<1>. USE DEF clientVars
<1>1. TypeOK'
  BY TypeStep DEF IInv, Next
<1>2. /\ startPosted /\ ~startPosted'
      /\ UNCHANGED <<simPc, ownerCycle, inbox, clientVars, stale>>
  BY DEF SimulationLockStarted
<1>3. simPc = "parked" /\ ~released /\ cur # NoLock /\ ~Serving
  BY <1>2 DEF IInv, StartedWhileParked, Serving
<1>4. StartWaiting(cur)
  BY <1>3 DEF SimulationLockStarted
<1>5. \A g \in Hosts : cur.state[g] \in {"None", "Read", "Write"} /\ locks[g] = {}
  BY <1>3 DEF IInv, StartedWhileParked
<1>6. \E g \in Hosts : cur.state[g] \in {"Read", "Write"}
  BY <1>3, <1>5 DEF IInv, WellFormed, HasEntry
<1>7. /\ UNCHANGED <<fut, released, aborted>>
      /\ WellFormed(cur')
      /\ \A g \in Hosts :
            /\ cur'.cycle[g] = cur.cycle[g]
            /\ \/ /\ cur'.state[g] = cur.state[g]
                  /\ reply'[g] = reply[g]
               \/ /\ \/ cur.state[g] = "Read" /\ cur'.state[g] = "Reading"
                     \/ cur.state[g] = "Write" /\ cur'.state[g] = "Writing"
                  /\ reply'[g] = Append(reply[g], [kind |-> "lock", cycle |-> ownerCycle])
      /\ \A g, h \in Hosts :
            cur'.state[g] = "Writing" /\ cur'.state[h] \in {"Reading", "Writing"} => g = h
  <2>1. TypeOK /\ cur \in Lock /\ WellFormed(cur)
    BY DEF IInv, TypeOK
  <2>2. \A g \in Hosts : cur.state[g] \in {"None", "Read", "Write", "Finished"}
    BY <1>5
  <2>. QED
    BY <1>4, <1>6, <2>1, <2>2, StartWaitingStep
<1>8. ASSUME NEW g \in Hosts
      PROVE  Protocol(g)'
  <2>1. CASE cur'.state[g] = cur.state[g] /\ reply'[g] = reply[g]
    BY <1>2, <1>7, <2>1, ProtocolFrame DEF IInv
  <2>2. CASE /\ \/ cur.state[g] = "Read" /\ cur'.state[g] = "Reading"
                \/ cur.state[g] = "Write" /\ cur'.state[g] = "Writing"
             /\ reply'[g] = Append(reply[g], [kind |-> "lock", cycle |-> ownerCycle])
    <3>1. Waits(g)
      BY <2>2, WaitingPhase DEF IInv
    <3>2. ownerCycle \in Cycle
      BY DEF IInv, TypeOK
    <3>. QED
      BY <1>2, <1>7, <2>2, <3>1, <3>2, GrantStep
  <2>. QED
    BY <1>7, <2>1, <2>2
<1>9. ReadsUnderLock' /\ FetchedDataStable'
  BY <1>2, ClientFrame DEF IInv
<1>10. StartedWhileParked' /\ NoAbort' /\ TableExclusion' /\ WellFormed(cur)' /\ WellFormed(fut)'
  <2>1. Serving'
    BY <1>2, <1>3, <1>7 DEF Serving
  <2>2. WellFormed(cur)' /\ WellFormed(fut)'
    BY <1>7 DEF IInv, WellFormed, HasEntry
  <2>. QED
    BY <1>2, <1>7, <2>1, <2>2 DEF IInv, StartedWhileParked, NoAbort, TableExclusion, Granted
<1>. QED
  BY <1>1, <1>8, <1>9, <1>10 DEF IInv

\* The future table never waits without a current one, so getOrCreateCurrentLock
\* never has to move it.
LEMMA TablesStand ==
    ASSUME IInv
    PROVE  CurrentLock = cur /\ FutureLock = fut
<1>1. ASSUME cur = NoLock, fut # NoLock
      PROVE  FALSE
  <2>1. PICK h \in Hosts : fut.state[h] # "None"
    BY <1>1 DEF IInv, WellFormed, HasEntry
  <2>2. cur.state[h] = "Finished"
    BY <2>1, TablePhase DEF IInv
  <2>3. cur.state[h] = "None"
    BY <1>1 DEF NoLock
  <2>. QED
    BY <2>2, <2>3
<1>. QED
  BY <1>1 DEF CurrentLock, FutureLock

\* A table with more than waiting entries is being served.
LEMMA ServingTable ==
    ASSUME IInv, NEW h \in Hosts, cur.state[h] \notin {"None", "Read", "Write"}
    PROVE  Serving
BY DEF IInv, StartedWhileParked

\* The owner takes a message of h and touches only what belongs to h.
LEMMA OthersFrame ==
    ASSUME NEW h \in Hosts, NEW g \in Hosts \ {h}, IInv,
           UNCHANGED <<ownerCycle, clientVars>>,
           inbox' = [inbox EXCEPT ![h] = Tail(@)],
           reply'[g] = reply[g],
           cur'.state[g] = cur.state[g], cur'.cycle[g] = cur.cycle[g],
           fut'.state[g] = fut.state[g], fut'.cycle[g] = fut.cycle[g]
    PROVE  Protocol(g)'
<1>1. inbox'[g] = inbox[g]
  BY DEF IInv, TypeOK
<1>. QED
  BY <1>1, ProtocolFrame DEF IInv, clientVars

\* A read lock request is granted, or waits in one of the tables.
LEMMA OnReadLockStep ==
    ASSUME IInv, NEW h \in Hosts, OnReadLockRequest(h)
    PROVE  IInv'
<1>1. TypeOK'
  BY TypeStep DEF IInv, Next, Handle
<1>2. /\ inbox[h] # << >> /\ Head(inbox[h]).kind = "readlock"
      /\ inbox' = [inbox EXCEPT ![h] = Tail(@)]
      /\ UNCHANGED <<simPc, startPosted, ownerCycle, clientVars, stale>>
  BY DEF OnReadLockRequest, Take
<1>3. /\ hostPc[h] = "awaitRead"
      /\ Head(inbox[h]).cycle = hostCycle[h]
      /\ Tail(inbox[h]) = << >>
      /\ locks[h] = {} /\ reply[h] = << >> /\ fut.state[h] = "None"
      /\ cur.state[h] \in {"None", "Finished"}
      /\ cur.state[h] = "Finished" => cur.cycle[h] # hostCycle[h]
  BY <1>2, RequestPhase DEF IInv
<1>4. inbox'[h] = << >>
  BY <1>2, <1>3 DEF IInv, TypeOK
<1>5. cur \in Lock /\ fut \in Lock /\ hostCycle[h] \in Cycle /\ ownerCycle \in Cycle
      /\ {"Read", "Reading"} \subseteq State
  BY DEF IInv, TypeOK, State
<1>6. \/ /\ cur.state[h] = "Finished"
         /\ cur' = cur
         /\ fut' = SetHostCycleState(fut, h, hostCycle[h], "Read")
         /\ UNCHANGED <<released, reply, aborted>>
      \/ /\ cur.state[h] = "None"
         /\ IsReading(cur)
         /\ cur' = SetHostCycleState(cur, h, hostCycle[h], "Reading")
         /\ fut' = fut
         /\ IssueLockResponse({h})
         /\ UNCHANGED <<released, aborted>>
      \/ /\ cur.state[h] = "None"
         /\ cur' = SetHostCycleState(cur, h, hostCycle[h], "Read")
         /\ fut' = fut
         /\ UNCHANGED <<released, reply, aborted>>
  BY <1>3, TablesStand DEF OnReadLockRequest, HasEntry
<1>7. CASE /\ cur.state[h] = "Finished"
           /\ cur' = cur
           /\ fut' = SetHostCycleState(fut, h, hostCycle[h], "Read")
           /\ UNCHANGED <<released, reply, aborted>>
  <2>1. /\ fut'.state[h] = "Read" /\ fut'.cycle[h] = hostCycle[h]
        /\ \A g \in Hosts \ {h} : /\ fut'.state[g] = fut.state[g]
                                  /\ fut'.cycle[g] = fut.cycle[g]
    BY <1>5, <1>7, SetEntryStates
  <2>2. WellFormed(fut')
    BY <1>5, <1>7, SetEntryWellFormed DEF IInv
  <2>3. Protocol(h)'
    BY <1>2, <1>3, <1>4, <1>7, <2>1 DEF clientVars, Protocol, Asking
  <2>4. \A g \in Hosts \ {h} : Protocol(g)'
    BY <1>2, <1>7, <2>1, OthersFrame
  <2>5. StartedWhileParked' /\ NoAbort' /\ TableExclusion'
    BY <1>2, <1>7 DEF IInv, clientVars, StartedWhileParked, Serving, NoAbort, TableExclusion, Granted
  <2>6. ReadsUnderLock' /\ FetchedDataStable'
    BY <1>2, ClientFrame DEF IInv
  <2>. QED
    BY <1>1, <1>7, <2>2, <2>3, <2>4, <2>5, <2>6 DEF IInv
<1>8. CASE /\ cur.state[h] = "None"
           /\ IsReading(cur)
           /\ cur' = SetHostCycleState(cur, h, hostCycle[h], "Reading")
           /\ fut' = fut
           /\ IssueLockResponse({h})
           /\ UNCHANGED <<released, aborted>>
  <2>1. /\ cur'.state[h] = "Reading" /\ cur'.cycle[h] = hostCycle[h]
        /\ \A g \in Hosts \ {h} : /\ cur'.state[g] = cur.state[g]
                                  /\ cur'.cycle[g] = cur.cycle[g]
    BY <1>5, <1>8, SetEntryStates
  <2>2. WellFormed(cur')
    BY <1>5, <1>8, SetEntryWellFormed DEF IInv
  <2>3. PICK r \in Hosts : cur.state[r] = "Reading"
    BY <1>8 DEF IsReading, InState
  <2>4. Serving /\ \A g \in Hosts : cur.state[g] # "Writing"
    BY <2>3, ServingTable DEF IInv, TableExclusion, Granted
  <2>5. /\ reply'[h] = Append(reply[h], [kind |-> "lock", cycle |-> ownerCycle])
        /\ \A g \in Hosts \ {h} : reply'[g] = reply[g]
    BY <1>8 DEF IssueLockResponse
  <2>6. Protocol(h)'
    <3>1. reply'[h] = GrantReply'
      BY <1>2, <1>3, <1>5, <2>5 DEF GrantReply, Ask
    <3>. QED
      BY <1>2, <1>3, <1>4, <1>8, <2>1, <3>1 DEF clientVars, Protocol, Asking
  <2>7. \A g \in Hosts \ {h} : Protocol(g)'
    BY <1>2, <1>8, <2>1, <2>5, OthersFrame
  <2>8. Serving' /\ ~startPosted'
    BY <1>2, <1>8, <2>4 DEF Serving
  <2>9. StartedWhileParked' /\ NoAbort' /\ TableExclusion'
    BY <1>8, <2>1, <2>4, <2>8 DEF IInv, StartedWhileParked, NoAbort, TableExclusion, Granted
  <2>10. ReadsUnderLock' /\ FetchedDataStable'
    BY <1>2, ClientFrame DEF IInv
  <2>. QED
    BY <1>1, <1>8, <2>2, <2>6, <2>7, <2>9, <2>10 DEF IInv
<1>9. CASE /\ cur.state[h] = "None"
           /\ cur' = SetHostCycleState(cur, h, hostCycle[h], "Read")
           /\ fut' = fut
           /\ UNCHANGED <<released, reply, aborted>>
  <2>1. /\ cur'.state[h] = "Read" /\ cur'.cycle[h] = hostCycle[h]
        /\ \A g \in Hosts \ {h} : /\ cur'.state[g] = cur.state[g]
                                  /\ cur'.cycle[g] = cur.cycle[g]
    BY <1>5, <1>9, SetEntryStates
  <2>2. WellFormed(cur')
    BY <1>5, <1>9, SetEntryWellFormed DEF IInv
  <2>3. Protocol(h)'
    BY <1>2, <1>3, <1>4, <1>9, <2>1 DEF clientVars, Protocol, Asking
  <2>4. \A g \in Hosts \ {h} : Protocol(g)'
    BY <1>2, <1>9, <2>1, OthersFrame
  <2>5. StartedWhileParked' /\ NoAbort' /\ TableExclusion'
    <3>1. cur' # NoLock
      BY <2>1 DEF NoLock
    <3>. QED
      BY <1>2, <1>9, <2>1, <3>1 DEF IInv, clientVars, StartedWhileParked, Serving, NoAbort,
                                    TableExclusion, Granted
  <2>6. ReadsUnderLock' /\ FetchedDataStable'
    BY <1>2, ClientFrame DEF IInv
  <2>. QED
    BY <1>1, <1>9, <2>2, <2>3, <2>4, <2>5, <2>6 DEF IInv
<1>. QED
  BY <1>6, <1>7, <1>8, <1>9

\* A write lock request waits in one of the tables; an upgrade of the only read
\* lock is granted.
LEMMA OnWriteLockStep ==
    ASSUME IInv, NEW h \in Hosts, OnWriteLockRequest(h)
    PROVE  IInv'
<1>1. TypeOK'
  BY TypeStep DEF IInv, Next, Handle
<1>2. /\ inbox[h] # << >> /\ Head(inbox[h]).kind = "writelock"
      /\ inbox' = [inbox EXCEPT ![h] = Tail(@)]
      /\ UNCHANGED <<simPc, startPosted, ownerCycle, clientVars, stale>>
  BY DEF OnWriteLockRequest, Take
<1>3. /\ hostPc[h] = "awaitWrite"
      /\ Head(inbox[h]).cycle = hostCycle[h]
      /\ Tail(inbox[h]) = << >>
      /\ reply[h] = << >> /\ fut.state[h] = "None"
      /\ \/ /\ locks[h] = {}
            /\ cur.state[h] \in {"None", "Finished"}
            /\ cur.state[h] = "Finished" => cur.cycle[h] # hostCycle[h]
         \/ /\ Held(h) /\ ~HoldsWrite(h)
            /\ cur.state[h] = "Reading"
            /\ cur.cycle[h] = hostCycle[h]
  BY <1>2, RequestPhase DEF IInv, Held
<1>4. inbox'[h] = << >>
  BY <1>2, <1>3 DEF IInv, TypeOK
<1>5. cur \in Lock /\ fut \in Lock /\ hostCycle[h] \in Cycle /\ ownerCycle \in Cycle
      /\ {"Write", "Writing"} \subseteq State
  BY DEF IInv, TypeOK, State
<1>. DEFINE upgraded == SetHostCycleState(cur, h, hostCycle[h], "Write")
<1>6. /\ upgraded \in Lock /\ WellFormed(upgraded)
      /\ upgraded.state[h] = "Write" /\ upgraded.cycle[h] = hostCycle[h]
      /\ \A g \in Hosts \ {h} : /\ upgraded.state[g] = cur.state[g]
                                /\ upgraded.cycle[g] = cur.cycle[g]
  <2>1. upgraded \in Lock
    BY <1>5, SetEntryProperties
  <2>2. WellFormed(upgraded)
    BY <1>5, SetEntryWellFormed DEF IInv
  <2>3. /\ upgraded.state[h] = "Write" /\ upgraded.cycle[h] = hostCycle[h]
        /\ \A g \in Hosts \ {h} : /\ upgraded.state[g] = cur.state[g]
                                  /\ upgraded.cycle[g] = cur.cycle[g]
    BY <1>5, SetEntryStates
  <2>. QED
    BY <2>1, <2>2, <2>3
<1>7. \/ /\ cur.state[h] # "Finished"
         /\ cur' = upgraded
         /\ fut' = fut
         /\ UNCHANGED <<released, reply, aborted>>
      \/ /\ cur.state[h] = "Reading"
         /\ ~IsReading(upgraded)
         /\ cur' = SetHostCycleState(upgraded, h, hostCycle[h], "Writing")
         /\ fut' = fut
         /\ IssueLockResponse({h})
         /\ UNCHANGED <<released, aborted>>
      \/ /\ cur.state[h] = "Finished"
         /\ cur' = cur
         /\ fut' = SetHostCycleState(fut, h, hostCycle[h], "Write")
         /\ UNCHANGED <<released, reply, aborted>>
  BY <1>3, TablesStand DEF OnWriteLockRequest, HasEntry
<1>. HIDE DEF upgraded
<1>8. ReadsUnderLock' /\ FetchedDataStable'
  BY <1>2, ClientFrame DEF IInv
<1>9. CASE /\ cur.state[h] # "Finished"
           /\ cur' = upgraded
           /\ fut' = fut
           /\ UNCHANGED <<released, reply, aborted>>
  <2>1. Waits(h)'
    BY <1>2, <1>3, <1>4, <1>6, <1>9 DEF clientVars, Waits, Held, HoldsWrite
  <2>2. Protocol(h)'
    BY <2>1 DEF Waits, Protocol, Asking, Upgrading
  <2>3. \A g \in Hosts \ {h} : Protocol(g)'
    BY <1>2, <1>6, <1>9, OthersFrame
  <2>4. StartedWhileParked' /\ NoAbort' /\ TableExclusion'
    <3>1. cur' # NoLock
      BY <1>6, <1>9 DEF NoLock
    <3>. QED
      BY <1>2, <1>6, <1>9, <3>1 DEF IInv, clientVars, StartedWhileParked, Serving, NoAbort,
                                    TableExclusion, Granted
  <2>. QED
    BY <1>1, <1>6, <1>8, <1>9, <2>2, <2>3, <2>4 DEF IInv
<1>10. CASE /\ cur.state[h] = "Reading"
            /\ ~IsReading(upgraded)
            /\ cur' = SetHostCycleState(upgraded, h, hostCycle[h], "Writing")
            /\ fut' = fut
            /\ IssueLockResponse({h})
            /\ UNCHANGED <<released, aborted>>
  <2>1. /\ cur'.state[h] = "Writing" /\ cur'.cycle[h] = hostCycle[h]
        /\ \A g \in Hosts \ {h} : /\ cur'.state[g] = cur.state[g]
                                  /\ cur'.cycle[g] = cur.cycle[g]
    <3>1. /\ cur'.state[h] = "Writing" /\ cur'.cycle[h] = hostCycle[h]
          /\ \A g \in Hosts \ {h} : /\ cur'.state[g] = upgraded.state[g]
                                    /\ cur'.cycle[g] = upgraded.cycle[g]
      BY <1>5, <1>6, <1>10, SetEntryStates
    <3>. QED
      BY <1>6, <3>1
  <2>2. WellFormed(cur')
    BY <1>5, <1>6, <1>10, SetEntryWellFormed
  <2>3. \A g \in Hosts \ {h} : cur.state[g] \notin {"Reading", "Writing"}
    BY <1>6, <1>10 DEF IsReading, InState, IInv, TableExclusion, Granted
  <2>4. Serving
    BY <1>10, ServingTable
  <2>5. /\ reply'[h] = Append(reply[h], [kind |-> "lock", cycle |-> ownerCycle])
        /\ \A g \in Hosts \ {h} : reply'[g] = reply[g]
    BY <1>10 DEF IssueLockResponse
  <2>6. Protocol(h)'
    <3>1. reply'[h] = GrantReply'
      BY <1>2, <1>3, <1>5, <2>5 DEF GrantReply, Ask
    <3>2. Upgrading(h)'
      BY <1>2, <1>3, <1>4, <1>10, <2>1, <3>1 DEF clientVars, Upgrading, Held, HoldsWrite
    <3>. QED
      BY <1>2, <1>3, <3>2 DEF clientVars, Protocol
  <2>7. \A g \in Hosts \ {h} : Protocol(g)'
    BY <1>2, <1>10, <2>1, <2>5, OthersFrame
  <2>8. Serving' /\ ~startPosted'
    BY <1>2, <1>10, <2>4 DEF Serving
  <2>9. StartedWhileParked' /\ NoAbort' /\ TableExclusion'
    BY <1>10, <2>1, <2>3, <2>8 DEF IInv, StartedWhileParked, NoAbort, TableExclusion, Granted
  <2>. QED
    BY <1>1, <1>8, <1>10, <2>2, <2>6, <2>7, <2>9 DEF IInv
<1>11. CASE /\ cur.state[h] = "Finished"
            /\ cur' = cur
            /\ fut' = SetHostCycleState(fut, h, hostCycle[h], "Write")
            /\ UNCHANGED <<released, reply, aborted>>
  <2>1. /\ fut'.state[h] = "Write" /\ fut'.cycle[h] = hostCycle[h]
        /\ \A g \in Hosts \ {h} : /\ fut'.state[g] = fut.state[g]
                                  /\ fut'.cycle[g] = fut.cycle[g]
    BY <1>5, <1>11, SetEntryStates
  <2>2. WellFormed(fut')
    BY <1>5, <1>11, SetEntryWellFormed DEF IInv
  <2>3. Protocol(h)'
    BY <1>2, <1>3, <1>4, <1>11, <2>1 DEF clientVars, Protocol, Asking
  <2>4. \A g \in Hosts \ {h} : Protocol(g)'
    BY <1>2, <1>11, <2>1, OthersFrame
  <2>5. StartedWhileParked' /\ NoAbort' /\ TableExclusion'
    BY <1>2, <1>11 DEF IInv, clientVars, StartedWhileParked, Serving, NoAbort, TableExclusion, Granted
  <2>. QED
    BY <1>1, <1>8, <1>11, <2>2, <2>3, <2>4, <2>5 DEF IInv
<1>. QED
  BY <1>7, <1>9, <1>10, <1>11

\* A read request comes from a client that holds a lock and is answered.
LEMMA OnReadStep ==
    ASSUME IInv, NEW h \in Hosts, OnReadRequest(h)
    PROVE  IInv'
<1>1. TypeOK'
  BY TypeStep DEF IInv, Next, Handle
<1>2. /\ inbox[h] # << >> /\ Head(inbox[h]).kind = "read"
      /\ inbox' = [inbox EXCEPT ![h] = Tail(@)]
      /\ UNCHANGED <<simPc, startPosted, ownerCycle, clientVars, stale>>
  BY DEF OnReadRequest, Take
<1>3. /\ hostPc[h] = "awaitData"
      /\ Head(inbox[h]).cycle = hostCycle[h]
      /\ Tail(inbox[h]) = << >>
      /\ Held(h) /\ reply[h] = << >>
      /\ cur.state[h] = HeldState(h)
  BY <1>2, RequestPhase DEF IInv
<1>4. inbox'[h] = << >>
  BY <1>2, <1>3 DEF IInv, TypeOK
<1>5. PICK k \in {"data", "error"} :
         reply' = [reply EXCEPT ![h] = Append(@, [kind |-> k, cycle |-> hostCycle[h]])]
  BY <1>3, TablesStand DEF OnReadRequest, HeldState
<1>6. UNCHANGED <<cur, fut, released, aborted>>
  BY <1>3, TablesStand DEF OnReadRequest, HeldState
<1>7. /\ reply'[h] = Ask(k, hostCycle[h])
      /\ \A g \in Hosts \ {h} : reply'[g] = reply[g]
  BY <1>3, <1>5 DEF IInv, TypeOK, Ask
<1>8. Protocol(h)'
  <2>1. Fetching(h)'
    BY <1>2, <1>3, <1>4, <1>6, <1>7 DEF clientVars, Fetching, Held, HeldState, HoldsWrite
  <2>. QED
    BY <1>2, <1>3, <2>1 DEF clientVars, Protocol
<1>9. \A g \in Hosts \ {h} : Protocol(g)'
  BY <1>2, <1>6, <1>7, OthersFrame
<1>10. StartedWhileParked' /\ NoAbort' /\ TableExclusion' /\ WellFormed(cur)' /\ WellFormed(fut)'
  BY <1>2, <1>6 DEF IInv, clientVars, StartedWhileParked, Serving, NoAbort, TableExclusion,
                    Granted, WellFormed, HasEntry
<1>11. ReadsUnderLock' /\ FetchedDataStable'
  BY <1>2, ClientFrame DEF IInv
<1>. QED
  BY <1>1, <1>8, <1>9, <1>10, <1>11 DEF IInv

\* A write set overwrites nothing that a client that still reads has fetched.
LEMMA OnWriteStep ==
    ASSUME IInv, NEW h \in Hosts, OnWriteRequest(h)
    PROVE  IInv'
<1>1. TypeOK'
  BY TypeStep DEF IInv, Next, Handle
<1>2. /\ inbox[h] # << >> /\ Head(inbox[h]).kind = "write"
      /\ inbox' = [inbox EXCEPT ![h] = Tail(@)]
      /\ UNCHANGED <<simPc, startPosted, ownerCycle, clientVars>>
  BY DEF OnWriteRequest, Take
<1>3. /\ Underway(h)
      /\ \E d \in Cycle : /\ d # hostCycle[h]
                          /\ Tail(inbox[h]) = Ask("unlock", d) \o Pending(h)
      /\ cur.state[h] = "Writing"
      /\ cur.cycle[h] # hostCycle[h]
  BY <1>2, RequestPhase DEF IInv
<1>4. inbox'[h] = Tail(inbox[h])
  BY <1>2 DEF IInv, TypeOK
<1>5. UNCHANGED <<cur, fut, released, reply, aborted>>
  BY <1>3, TablesStand DEF OnWriteRequest
<1>6. Protocol(h)'
  <2>1. Pending(h)' = Pending(h)
    BY <1>2 DEF clientVars, Pending
  <2>2. Closing(h, Pending(h))'
    BY <1>2, <1>3, <1>4, <1>5, <2>1 DEF clientVars, Closing
  <2>3. Underway(h)'
    BY <1>2, <1>3, <1>5, <2>2 DEF clientVars, Underway
  <2>. QED
    BY <1>1, <2>3 DEF TypeOK, Underway, Pending, Protocol, Idle, Asking
<1>7. \A g \in Hosts \ {h} : Protocol(g)'
  BY <1>2, <1>5, OthersFrame
<1>8. StartedWhileParked' /\ NoAbort' /\ TableExclusion' /\ WellFormed(cur)' /\ WellFormed(fut)'
  BY <1>2, <1>5 DEF IInv, clientVars, StartedWhileParked, Serving, NoAbort, TableExclusion,
                    Granted, WellFormed, HasEntry
<1>9. ReadsUnderLock'
  BY <1>2 DEF IInv, clientVars, ReadsUnderLock
<1>10. FetchedDataStable'
  <2>1. ASSUME NEW g \in Hosts \ {h}, reads[g] # {}
        PROVE  hostPc[g] = "awaitWrite"
    <3>1. locks[g] # {}
      BY <2>1 DEF IInv, ReadsUnderLock
    <3>2. cur.state[g] \notin {"Reading", "Writing"}
      BY <1>3 DEF IInv, TableExclusion, Granted
    <3>. QED
      BY <3>1, <3>2, TablePhase DEF IInv, HeldState
  <2>2. stale' \subseteq stale \cup {g \in Hosts \ {h} : reads[g] # {}}
    BY <1>3, TablesStand DEF OnWriteRequest
  <2>. QED
    BY <1>2, <2>1, <2>2 DEF IInv, clientVars, FetchedDataStable, HoldsWrite
<1>. QED
  BY <1>1, <1>6, <1>7, <1>8, <1>9, <1>10 DEF IInv

\* A client that was done before its lock was given back is ready for the next
\* table, or already in it.
LEMMA ReleaseStep ==
    ASSUME TypeOK, NEW g \in Hosts, Protocol(g), cur.state[g] \in {"None", "Finished"},
           ReleaseCurrentLock, inbox'[g] = inbox[g], UNCHANGED <<ownerCycle, clientVars>>
    PROVE  Protocol(g)'
<1>1. cur' = fut /\ reply' = reply
  BY DEF ReleaseCurrentLock
<1>2. fut'.state[g] = "None"
  BY DEF ReleaseCurrentLock, NoLock
<1>3. ASSUME fut.state[g] = "None", NEW last, Closing(g, last)
      PROVE  Closing(g, last)'
  BY <1>1, <1>3 DEF Closing, clientVars
<1>4. CASE Idle(g)
  BY <1>1, <1>2, <1>3, <1>4 DEF Idle, Protocol, clientVars
<1>5. CASE hostPc[g] = "awaitRead" /\ Asking(g, "readlock", "Read", "Reading")
  BY <1>1, <1>2, <1>3, <1>5 DEF Asking, Protocol, clientVars
<1>6. CASE hostPc[g] = "awaitWrite" /\ Asking(g, "writelock", "Write", "Writing")
  BY <1>1, <1>2, <1>3, <1>6 DEF Asking, Protocol, clientVars
<1>. QED
  BY <1>4, <1>5, <1>6 DEF Protocol, Working, Fetching, Upgrading, HeldState

\* An unlock ends a lock; the last one ends the table, the last reader's or the
\* writer's starts those who wait.
LEMMA OnUnlockStep ==
    ASSUME IInv, NEW h \in Hosts, OnUnlockRequest(h)
    PROVE  IInv'
<1>. DEFINE done == SetHostCycleState(cur, h, Head(inbox[h]).cycle, "Finished")
<1>1. TypeOK'
  BY TypeStep DEF IInv, Next, Handle
<1>2. /\ inbox[h] # << >> /\ Head(inbox[h]).kind = "unlock"
      /\ inbox' = [inbox EXCEPT ![h] = Tail(@)]
      /\ UNCHANGED <<simPc, startPosted, ownerCycle, clientVars, stale>>
  BY DEF OnUnlockRequest, Take
<1>3. /\ Underway(h)
      /\ Head(inbox[h]).cycle # hostCycle[h]
      /\ Tail(inbox[h]) = Pending(h)
      /\ Granted(h)
  BY <1>2, RequestPhase DEF IInv
<1>4. inbox'[h] = Pending(h) /\ \A g \in Hosts \ {h} : inbox'[g] = inbox[g]
  BY <1>2, <1>3 DEF IInv, TypeOK
<1>5. Serving
  BY <1>3, ServingTable DEF Granted
<1>6. cur \in Lock /\ Head(inbox[h]).cycle \in Cycle /\ "Finished" \in State
  BY TakeType DEF OnUnlockRequest, IInv, TypeOK, State
<1>7. done \in Lock /\ WellFormed(done)
  <2>1. done \in Lock
    BY <1>6, SetEntryProperties
  <2>2. WellFormed(done)
    BY <1>6, SetEntryWellFormed DEF IInv
  <2>. QED
    BY <2>1, <2>2
<1>8. /\ done.state[h] = "Finished" /\ done.cycle[h] = Head(inbox[h]).cycle
      /\ \A g \in Hosts \ {h} : done.state[g] = cur.state[g] /\ done.cycle[g] = cur.cycle[g]
  BY <1>6, SetEntryStates
<1>9. \/ AllFinished(done) /\ ReleaseCurrentLock
      \/ cur' = done /\ UNCHANGED <<fut, released, reply, aborted>>
      \/ ~AllFinished(done) /\ ~IsReading(done) /\ StartWaiting(done)
  BY <1>3 DEF OnUnlockRequest, Granted, HasEntry
<1>. HIDE DEF done
<1>10. ReadsUnderLock' /\ FetchedDataStable'
  BY <1>2, ClientFrame DEF IInv
<1>11. ASSUME reply'[h] = reply[h], fut'.state[h] = "None",
              \/ cur'.state[h] = "None"
              \/ cur'.state[h] = "Finished" /\ cur'.cycle[h] # hostCycle[h]
       PROVE  Protocol(h)'
  <2>1. Pending(h)' = Pending(h)
    BY <1>2 DEF clientVars, Pending
  <2>2. Closing(h, Pending(h))'
    BY <1>2, <1>4, <1>11, <2>1 DEF clientVars, Closing
  <2>3. Underway(h)'
    BY <1>2, <1>3, <1>11, <2>2 DEF clientVars, Underway
  <2>. QED
    BY <1>1, <2>3 DEF TypeOK, Underway, Pending, Protocol, Idle, Asking
<1>12. CASE AllFinished(done) /\ ReleaseCurrentLock
  <2>1. \A g \in Hosts \ {h} : cur.state[g] \in {"None", "Finished"}
    BY <1>8, <1>12 DEF AllFinished
  <2>2. \A g \in Hosts \ {h} : Protocol(g)'
    BY <1>2, <1>4, <1>12, <2>1, ReleaseStep DEF IInv
  <2>3. /\ cur' = fut /\ fut' = NoLock /\ reply' = reply /\ aborted' = aborted
        /\ released' = TRUE
    BY <1>12 DEF ReleaseCurrentLock
  <2>4. Protocol(h)'
    BY <1>3, <1>11, <2>3 DEF Underway, NoLock
  <2>5. \A g \in Hosts : locks[g] = {}
    <3>1. ASSUME NEW g \in Hosts \ {h}
          PROVE  locks[g] = {}
      BY <2>1, TablePhase DEF IInv
    <3>. QED
      BY <1>3, <3>1 DEF Underway
  <2>6. \A g \in Hosts : fut.state[g] \in {"None", "Read", "Write"}
    BY TablePhase DEF IInv
  <2>7. StartedWhileParked' /\ NoAbort' /\ TableExclusion'
    BY <1>2, <1>5, <2>3, <2>5, <2>6 DEF IInv, clientVars, StartedWhileParked, Serving, NoAbort,
                                        TableExclusion, Granted
  <2>8. WellFormed(cur)' /\ WellFormed(fut)'
    BY <2>3 DEF IInv, WellFormed, HasEntry, NoLock
  <2>. QED
    BY <1>1, <1>10, <2>2, <2>4, <2>7, <2>8 DEF IInv
<1>13. CASE cur' = done /\ UNCHANGED <<fut, released, reply, aborted>>
  <2>1. Protocol(h)'
    BY <1>3, <1>8, <1>11, <1>13 DEF Underway
  <2>2. \A g \in Hosts \ {h} : Protocol(g)'
    BY <1>2, <1>8, <1>13, OthersFrame
  <2>3. Serving' /\ ~startPosted'
    BY <1>2, <1>5, <1>13 DEF Serving
  <2>4. StartedWhileParked' /\ NoAbort' /\ TableExclusion'
    BY <1>8, <1>13, <2>3 DEF IInv, StartedWhileParked, NoAbort, TableExclusion, Granted
  <2>. QED
    BY <1>1, <1>7, <1>10, <1>13, <2>1, <2>2, <2>4 DEF IInv
<1>14. CASE ~AllFinished(done) /\ ~IsReading(done) /\ StartWaiting(done)
  <2>1. \A g \in Hosts : done.state[g] \in {"None", "Read", "Write", "Finished"}
    <3>1. \A g \in Hosts \ {h} : done.state[g] # "Writing"
      BY <1>3, <1>8 DEF IInv, TableExclusion, Granted
    <3>2. \A g \in Hosts : done.state[g] # "Reading"
      BY <1>14 DEF IsReading, InState
    <3>3. \A g \in Hosts : done.state[g] \in State
      BY <1>7 DEF Lock
    <3>. QED
      BY <1>8, <3>1, <3>2, <3>3 DEF State
  <2>2. \E g \in Hosts : done.state[g] \in {"Read", "Write"}
    BY <1>14, <2>1 DEF AllFinished
  <2>3. /\ UNCHANGED <<fut, released, aborted>>
        /\ WellFormed(cur')
        /\ \A g \in Hosts :
              /\ cur'.cycle[g] = done.cycle[g]
              /\ \/ /\ cur'.state[g] = done.state[g]
                    /\ reply'[g] = reply[g]
                 \/ /\ \/ done.state[g] = "Read" /\ cur'.state[g] = "Reading"
                       \/ done.state[g] = "Write" /\ cur'.state[g] = "Writing"
                    /\ reply'[g] = Append(reply[g], [kind |-> "lock", cycle |-> ownerCycle])
        /\ \A g, k \in Hosts :
              cur'.state[g] = "Writing" /\ cur'.state[k] \in {"Reading", "Writing"} => g = k
    BY <1>7, <1>14, <2>1, <2>2, StartWaitingStep DEF IInv
  <2>4. Protocol(h)'
    BY <1>3, <1>8, <1>11, <2>3 DEF Underway
  <2>5. ASSUME NEW g \in Hosts \ {h}
        PROVE  Protocol(g)'
    <3>1. CASE cur'.state[g] = cur.state[g] /\ reply'[g] = reply[g]
      BY <1>2, <1>8, <2>3, <3>1, OthersFrame, ZenonT(60)
    <3>2. CASE /\ \/ cur.state[g] = "Read" /\ cur'.state[g] = "Reading"
                  \/ cur.state[g] = "Write" /\ cur'.state[g] = "Writing"
               /\ reply'[g] = Append(reply[g], [kind |-> "lock", cycle |-> ownerCycle])
      <4>1. Waits(g)
        BY <3>2, WaitingPhase DEF IInv
      <4>2. ownerCycle \in Cycle
        BY DEF IInv, TypeOK
      <4>. QED
        BY <1>2, <1>4, <1>8, <2>3, <3>2, <4>1, <4>2, GrantStep DEF clientVars
    <3>. QED
      BY <1>8, <2>3, <3>1, <3>2
  <2>6. Serving' /\ ~startPosted'
    BY <1>2, <1>5, <2>3 DEF Serving
  <2>7. StartedWhileParked' /\ NoAbort' /\ TableExclusion' /\ WellFormed(cur)' /\ WellFormed(fut)'
    BY <2>3, <2>6 DEF IInv, StartedWhileParked, NoAbort, TableExclusion, Granted
  <2>. QED
    BY <1>1, <1>10, <2>4, <2>5, <2>7 DEF IInv
<1>. QED
  BY <1>9, <1>12, <1>13, <1>14

\* A client's step touches nothing of another client, and nothing of the owner.
LEMMA ClientOthersFrame ==
    ASSUME NEW h \in Hosts, NEW g \in Hosts \ {h}, IInv, Client(h)
    PROVE  Protocol(g)'
<1>1. /\ inbox'[g] = inbox[g] /\ reply'[g] = reply[g] /\ hostPc'[g] = hostPc[g]
      /\ hostCycle'[g] = hostCycle[g] /\ locks'[g] = locks[g] /\ stamp'[g] = stamp[g]
      /\ UNCHANGED ownerVars
  BY DEF IInv, TypeOK, Client, ReadLock, WriteLock, Fetch, Modify, ReceiveResponse,
         ReceiveError, EndCycle, Send, clientVars
<1>. QED
  BY <1>1, ProtocolFrame DEF IInv, ownerVars

\* A new request goes behind what the last cycle sent.
LEMMA RequestStep ==
    ASSUME TypeOK, NEW h \in Hosts, NEW k \in {"readlock", "writelock"},
           Closing(h, << >>),
           inbox' = [inbox EXCEPT ![h] = @ \o Ask(k, hostCycle[h])],
           UNCHANGED <<cur, hostCycle>>
    PROVE  Closing(h, Ask(k, hostCycle[h]))'
<1>. DEFINE last == Ask(k, hostCycle[h])
<1>1. hostCycle[h] \in Cycle /\ inbox'[h] = inbox[h] \o last
  BY DEF TypeOK
<1>2. last \in Seq(Request)
  BY <1>1, AskAlone
<1>3. last' = last
  OBVIOUS
<1>. HIDE DEF last
<1>4. inbox[h] = << >> => inbox'[h] = last
  BY <1>1, <1>2, ConcatEmptySeq
<1>5. ASSUME NEW d \in Cycle, inbox[h] = Ask("unlock", d) \o << >>
      PROVE  inbox'[h] = Ask("unlock", d) \o last
  <2>1. Ask("unlock", d) \in Seq(Request)
    BY AskAlone
  <2>. QED
    BY <1>1, <1>5, <2>1, ConcatEmptySeq
<1>6. ASSUME NEW d \in Cycle, inbox[h] = Ask("write", d) \o (Ask("unlock", d) \o << >>)
      PROVE  inbox'[h] = Ask("write", d) \o (Ask("unlock", d) \o last)
  <2>1. Ask("unlock", d) \in Seq(Request) /\ Ask("write", d) \in Seq(Request)
    BY AskAlone
  <2>2. inbox[h] = Ask("write", d) \o Ask("unlock", d)
    BY <1>6, <2>1, ConcatEmptySeq
  <2>3. (Ask("write", d) \o Ask("unlock", d)) \o last
          = Ask("write", d) \o (Ask("unlock", d) \o last)
    BY <1>2, <2>1, ConcatAssociative
  <2>. QED
    BY <1>1, <2>2, <2>3
<1>7. Closing(h, last)'
  BY <1>3, <1>4, <1>5, <1>6 DEF Closing
<1>. QED
  BY <1>7 DEF last

\* A client's steps keep the invariant, if it does not read after it wrote.
LEMMA ClientStep ==
    ASSUME ~ReadAfterWrite, IInv, NEW h \in Hosts, Client(h)
    PROVE  IInv'
<1>. USE DEF ownerVars
<1>1. TypeOK'
  BY TypeStep DEF IInv, Next
<1>2. UNCHANGED ownerVars
  BY DEF Client, ReadLock, WriteLock, Fetch, Modify, ReceiveResponse, ReceiveError, EndCycle,
         clientVars
<1>3. NoAbort' /\ TableExclusion' /\ WellFormed(cur)' /\ WellFormed(fut)'
  BY <1>2 DEF IInv, NoAbort, TableExclusion, Granted, WellFormed, HasEntry
<1>4. \A g \in Hosts \ {h} : Protocol(g)'
  BY ClientOthersFrame
<1>5. ASSUME Protocol(h)', ReadsUnderLock', FetchedDataStable',
             \A g \in Hosts : locks'[g] # {} => Serving
      PROVE  IInv'
  BY <1>5, <1>1, <1>2, <1>3, <1>4 DEF IInv, StartedWhileParked, Serving
<1>6. \A g \in Hosts : locks[g] # {} => Serving
  BY DEF IInv, StartedWhileParked
<1>7. /\ hostCycle[h] \in Cycle /\ ownerCycle \in Cycle
      /\ locks[h] \subseteq {"read", "write"} /\ locks \in [Hosts -> SUBSET {"read", "write"}]
      /\ hostPc \in [Hosts -> {"cycle", "awaitRead", "awaitWrite", "awaitData"}]
      /\ reads \in [Hosts -> SUBSET Instances]
      /\ inbox \in [Hosts -> Seq(Request)]
      /\ stale \in SUBSET Hosts
  BY DEF IInv, TypeOK
<1>8. ASSUME UNCHANGED <<locks, reads, stale>>,
             \A g \in Hosts : hostPc[g] = "awaitWrite" => hostPc'[g] = "awaitWrite"
      PROVE  ReadsUnderLock' /\ FetchedDataStable'
  BY <1>7, <1>8 DEF IInv, ReadsUnderLock, FetchedDataStable, HoldsWrite
<1>9. hostPc[h] = "cycle" => Idle(h) \/ Working(h)
  BY DEF IInv, Protocol
<1>10. CASE ReadLock(h)
  <2>1. Idle(h)
    BY <1>7, <1>9, <1>10 DEF ReadLock, Working, Held
  <2>2. Closing(h, Ask("readlock", hostCycle[h]))'
    BY <1>2, <1>10, <2>1, RequestStep DEF IInv, ReadLock, Send, Idle
  <2>3. Protocol(h)'
    BY <1>2, <1>7, <1>10, <2>1, <2>2 DEF ReadLock, Idle, Protocol, Asking
  <2>. QED
    BY <1>5, <1>6, <1>7, <1>8, <1>10, <2>3 DEF ReadLock
<1>11. CASE WriteLock(h)
  <2>1. ASSUME Idle(h)
        PROVE  Protocol(h)'
    <3>1. Closing(h, Ask("writelock", hostCycle[h]))'
      BY <1>2, <1>11, <2>1, RequestStep DEF IInv, WriteLock, Send, Idle
    <3>. QED
      BY <1>2, <1>7, <1>11, <2>1, <3>1 DEF WriteLock, Idle, Protocol, Asking
  <2>2. ASSUME Working(h)
        PROVE  Protocol(h)'
    <3>1. inbox'[h] = Ask("writelock", hostCycle[h])
      <4>1. Ask("writelock", hostCycle[h]) \in Seq(Request)
        BY <1>7, AskAlone
      <4>. QED
        BY <1>7, <1>11, <2>2, <4>1, ConcatEmptySeq DEF WriteLock, Send, Working
    <3>2. Upgrading(h)'
      BY <1>2, <1>11, <2>2, <3>1
      DEF WriteLock, Working, Upgrading, Held, HeldState, HoldsWrite
    <3>. QED
      BY <1>7, <1>11, <3>2 DEF WriteLock, Protocol
  <2>3. Protocol(h)'
    BY <1>9, <1>11, <2>1, <2>2 DEF WriteLock
  <2>. QED
    BY <1>5, <1>6, <1>7, <1>8, <1>11, <2>3 DEF WriteLock
<1>12. ASSUME NEW i \in Instances, Fetch(h, i)
       PROVE  IInv'
  <2>1. Working(h)
    BY <1>9, <1>12 DEF Fetch, Idle
  <2>2. inbox'[h] = Ask("read", hostCycle[h])
    <3>1. Ask("read", hostCycle[h]) \in Seq(Request)
      BY <1>7, AskAlone
    <3>. QED
      BY <1>7, <1>12, <2>1, <3>1, ConcatEmptySeq DEF Fetch, Send, Working
  <2>3. Fetching(h)'
    BY <1>2, <1>12, <2>1, <2>2 DEF Fetch, Working, Fetching, Held, HeldState, HoldsWrite
  <2>4. Protocol(h)'
    BY <1>7, <1>12, <2>3 DEF Fetch, Protocol
  <2>5. ReadsUnderLock' /\ FetchedDataStable'
    <3>1. /\ locks[h] # {} /\ UNCHANGED <<locks, stale>>
          /\ \A g \in Hosts \ {h} : reads'[g] = reads[g] /\ hostPc'[g] = hostPc[g]
          /\ hostPc[h] # "awaitWrite"
      BY <1>7, <1>12, <2>1 DEF Fetch, Working, Held
    <3>2. ReadsUnderLock'
      BY <3>1 DEF IInv, ReadsUnderLock
    <3>. QED
      BY <1>7, <3>1, <3>2 DEF IInv, FetchedDataStable, HoldsWrite
  <2>. QED
    BY <1>5, <1>6, <1>12, <2>4, <2>5 DEF Fetch
<1>13. ASSUME NEW i \in Instances, Modify(h, i)
       PROVE  IInv'
  <2>1. Protocol(h)'
    BY <1>2, <1>13, ProtocolFrame DEF Modify, IInv
  <2>2. ReadsUnderLock' /\ FetchedDataStable'
    BY <1>7, <1>13 DEF Modify, IInv, ReadsUnderLock, FetchedDataStable, HoldsWrite
  <2>. QED
    BY <1>5, <1>6, <1>13, <2>1, <2>2 DEF Modify
<1>14. CASE ReceiveResponse(h)
  <2>1. /\ hostPc[h] # "cycle" /\ reply[h] # << >> /\ Head(reply[h]).kind # "error"
        /\ hostPc'[h] = "cycle" /\ reply'[h] = Tail(reply[h])
        /\ inbox' = inbox /\ hostCycle' = hostCycle
        /\ stamp'[h] = IF hostPc[h] = "awaitData" THEN stamp[h] ELSE Head(reply[h]).cycle
        /\ locks'[h] = locks[h] \cup (IF hostPc[h] = "awaitRead" THEN {"read"}
                                      ELSE IF hostPc[h] = "awaitWrite" THEN {"write"} ELSE {})
    BY <1>14 DEF ReceiveResponse, IInv, TypeOK
  <2>2. /\ GrantReply # << >> /\ Head(GrantReply).cycle = ownerCycle /\ Tail(GrantReply) = << >>
    BY <1>7 DEF GrantReply, Ask
  <2>3. \A k \in {"data", "error"} : Tail(Ask(k, hostCycle[h])) = << >>
    BY <1>7 DEF Ask
  <2>4. Working(h)'
    <3>1. CASE hostPc[h] = "awaitRead"
      <4>1. /\ reply[h] = GrantReply /\ inbox[h] = << >> /\ locks[h] = {}
            /\ cur.state[h] = "Reading" /\ cur.cycle[h] = hostCycle[h] /\ fut.state[h] = "None"
        BY <2>1, <3>1 DEF IInv, Protocol, Idle, Asking
      <4>2. locks'[h] = {"read"} /\ stamp'[h] = ownerCycle /\ reply'[h] = << >>
        BY <2>1, <2>2, <3>1, <4>1
      <4>. QED
        BY <1>2, <2>1, <4>1, <4>2 DEF Working, Held, HeldState, HoldsWrite
    <3>2. CASE hostPc[h] = "awaitWrite"
      <4>1. /\ reply[h] = GrantReply /\ inbox[h] = << >>
            /\ cur.state[h] = "Writing" /\ cur.cycle[h] = hostCycle[h] /\ fut.state[h] = "None"
        BY <2>1, <3>2 DEF IInv, Protocol, Idle, Asking, Upgrading, Held
      <4>2. "write" \in locks'[h] /\ stamp'[h] = ownerCycle /\ reply'[h] = << >>
        BY <2>1, <2>2, <3>2, <4>1
      <4>. QED
        BY <1>2, <2>1, <4>1, <4>2 DEF Working, Held, HeldState, HoldsWrite
    <3>3. CASE hostPc[h] = "awaitData"
      <4>1. /\ Held(h) /\ cur.state[h] = HeldState(h) /\ inbox[h] = << >>
            /\ \E k \in {"data", "error"} : reply[h] = Ask(k, hostCycle[h])
        BY <2>1, <3>3 DEF IInv, Protocol, Idle, Fetching
      <4>2. locks'[h] = locks[h] /\ stamp'[h] = stamp[h] /\ reply'[h] = << >>
        BY <2>1, <2>3, <3>3, <4>1
      <4>. QED
        BY <1>2, <2>1, <4>1, <4>2 DEF Working, Held, HeldState, HoldsWrite
    <3>. QED
      BY <1>7, <2>1, <3>1, <3>2, <3>3
  <2>5. Protocol(h)'
    BY <2>1, <2>4 DEF Protocol
  <2>6. \A g \in Hosts : locks'[g] # {} => Serving
    <3>1. cur.state[h] \in {"Reading", "Writing"}
      BY <1>2, <2>4 DEF Working, HeldState
    <3>2. Serving
      BY <3>1, ServingTable
    <3>. QED
      BY <3>2
  <2>7. ReadsUnderLock' /\ FetchedDataStable'
    <3>1. /\ \A g \in Hosts \ {h} : locks'[g] = locks[g] /\ hostPc'[g] = hostPc[g]
          /\ UNCHANGED <<reads, stale>>
      BY <1>7, <1>14 DEF ReceiveResponse
    <3>2. locks[h] \subseteq locks'[h] /\ (hostPc[h] = "awaitWrite" => "write" \in locks'[h])
      BY <2>1
    <3>. QED
      BY <1>7, <3>1, <3>2 DEF IInv, ReadsUnderLock, FetchedDataStable, HoldsWrite
  <2>. QED
    BY <1>5, <2>5, <2>6, <2>7
<1>15. CASE ReceiveError(h)
  <2>1. /\ hostPc[h] # "cycle" /\ reply[h] # << >> /\ Head(reply[h]).kind = "error"
        /\ reply'[h] = Tail(reply[h])
        /\ UNCHANGED <<inbox, hostPc, hostCycle, locks, stamp, reads, stale>>
    BY <1>15 DEF ReceiveError, IInv, TypeOK, clientVars
  <2>2. Head(GrantReply).kind = "lock"
    BY DEF GrantReply, Ask
  <2>3. \A k \in {"data", "error"} : Tail(Ask(k, hostCycle[h])) = << >>
    BY <1>7 DEF Ask
  <2>4. hostPc[h] = "awaitData" /\ Fetching(h)
    BY <2>1, <2>2 DEF IInv, Protocol, Idle, Asking, Working, Upgrading
  <2>5. inbox[h] = << >> /\ reply'[h] = << >>
    BY <2>1, <2>3, <2>4 DEF Fetching
  <2>6. Protocol(h)'
    BY <1>2, <2>1, <2>4, <2>5 DEF Protocol, Fetching, Held, HeldState, HoldsWrite
  <2>. QED
    BY <1>5, <1>6, <1>8, <2>1, <2>6
<1>16. CASE EndCycle(h)
  <2>1. /\ hostPc[h] = "cycle" /\ locks[h] # {}
        /\ inbox' = [inbox EXCEPT ![h] = @ \o FinalRequests(h)]
        /\ hostCycle'[h] = Tick(hostCycle[h])
        /\ locks' = [locks EXCEPT ![h] = {}]
        /\ reads' = [reads EXCEPT ![h] = {}]
        /\ stale' = stale \ {h}
        /\ UNCHANGED <<reply, hostPc>>
    BY <1>7, <1>16 DEF EndCycle, Send, IInv, TypeOK
  <2>2. Working(h)
    BY <1>9, <2>1 DEF Idle
  <2>3. hostCycle'[h] \in Cycle /\ hostCycle'[h] # hostCycle[h]
    BY <1>7, <2>1, TickProperties
  <2>4. LET c == hostCycle[h] IN
        inbox'[h] = IF HoldsWrite(h) THEN Ask("write", c) \o (Ask("unlock", c) \o << >>)
                    ELSE Ask("unlock", c) \o << >>
    <3>1. Ask("write", hostCycle[h]) \in Seq(Request) /\ Ask("unlock", hostCycle[h]) \in Seq(Request)
      BY <1>7, AskAlone
    <3>2. FinalRequests(h) = IF HoldsWrite(h)
                             THEN Ask("write", hostCycle[h]) \o Ask("unlock", hostCycle[h])
                             ELSE Ask("unlock", hostCycle[h])
      BY <3>1, ConcatEmptySeq DEF FinalRequests, HoldsWrite
    <3>3. FinalRequests(h) \in Seq(Request)
      BY <3>1, <3>2, ConcatProperties
    <3>4. inbox'[h] = FinalRequests(h)
      BY <1>7, <2>1, <2>2, <3>3, ConcatEmptySeq DEF Working
    <3>5. Ask("unlock", hostCycle[h]) \o << >> = Ask("unlock", hostCycle[h])
      BY <3>1, ConcatEmptySeq
    <3>. QED
      BY <3>2, <3>4, <3>5
  <2>5. Closing(h, << >>)'
    <3>1. CASE HoldsWrite(h)
      BY <1>2, <1>7, <2>2, <2>3, <2>4, <3>1 DEF Working, Held, HeldState, Closing
    <3>2. CASE ~HoldsWrite(h)
      BY <1>2, <1>7, <2>2, <2>3, <2>4, <3>2 DEF Working, Held, HeldState, Closing
    <3>. QED
      BY <3>1, <3>2
  <2>6. Protocol(h)'
    BY <1>2, <1>7, <2>1, <2>2, <2>5 DEF Working, Held, Protocol, Idle
  <2>7. \A g \in Hosts : locks'[g] # {} => Serving
    BY <1>6, <1>7, <2>1
  <2>8. ReadsUnderLock' /\ FetchedDataStable'
    BY <1>7, <2>1 DEF IInv, ReadsUnderLock, FetchedDataStable, HoldsWrite
  <2>. QED
    BY <1>5, <2>6, <2>7, <2>8
<1>. QED
  BY <1>10, <1>11, <1>12, <1>13, <1>14, <1>15, <1>16 DEF Client

\* Without clients that read after they wrote, the invariant holds throughout.
LEMMA InvInit == Init => IInv
<1>. SUFFICES ASSUME Init PROVE IInv
  OBVIOUS
<1>1. TypeOK
  BY TypeInit
<1>2. /\ cur = NoLock /\ fut = NoLock /\ ~startPosted /\ ~aborted
      /\ \A h \in Hosts : /\ locks[h] = {} /\ reads[h] = {} /\ hostPc[h] = "cycle"
                          /\ inbox[h] = << >> /\ reply[h] = << >>
      /\ stale = {}
  BY DEF Init
<1>3. \A h \in Hosts : cur.state[h] = "None" /\ fut.state[h] = "None"
  BY <1>2 DEF NoLock
<1>4. \A h \in Hosts : Protocol(h)
  BY <1>2, <1>3 DEF Protocol, Idle, Closing
<1>5. StartedWhileParked /\ TableExclusion
  BY <1>2, <1>3 DEF StartedWhileParked, TableExclusion
<1>6. WellFormed(cur) /\ WellFormed(fut)
  BY <1>2, <1>3 DEF WellFormed, HasEntry
<1>. QED
  BY <1>1, <1>2, <1>4, <1>5, <1>6 DEF IInv, NoAbort, ReadsUnderLock, FetchedDataStable

\* Every step keeps the inductive invariant.
LEMMA InvStep ==
    ASSUME ~ReadAfterWrite, IInv, [Next]_vars
    PROVE  IInv'
<1>1. CASE SimThread
  BY <1>1, SimThreadStep
<1>2. CASE SimulationLockStarted
  BY <1>2, StartedStep
<1>3. ASSUME NEW h \in Hosts, Handle(h)
      PROVE  IInv'
  BY <1>3, OnReadLockStep, OnWriteLockStep, OnReadStep, OnWriteStep, OnUnlockStep DEF Handle
<1>4. ASSUME NEW h \in Hosts, Client(h)
      PROVE  IInv'
  BY <1>4, ClientStep
<1>5. CASE UNCHANGED vars
  <2>1. TypeOK'
    BY <1>5, TypeStep DEF IInv
  <2>2. \A h \in Hosts : Protocol(h)'
    BY <1>5, ProtocolFrame DEF IInv, vars
  <2>. QED
    BY <1>5, <2>1, <2>2 DEF vars, IInv, NoAbort, TableExclusion, Granted, StartedWhileParked, Serving,
          WellFormed, HasEntry, ReadsUnderLock, FetchedDataStable, HoldsWrite
<1>. QED
  BY <1>1, <1>2, <1>3, <1>4, <1>5 DEF Next

-----------------------------------------------------------------------------
(***************************************************************************)
(* The promises.                                                           *)
(***************************************************************************)

\* The inductive invariant of the protocol: every client is in one of its
\* phases, and the owner's tables say so (all handlers of activities.cpp,
\* runCycle), if no client reads after it wrote in one cycle.
THEOREM ProtocolInvariant ==
    ASSUME ~ReadAfterWrite
    PROVE  Spec => []IInv
<1>1. Init => IInv
  BY InvInit
<1>2. IInv /\ [Next]_vars => IInv'
  BY InvStep
<1>. QED
  BY <1>1, <1>2, PTL DEF Spec

\* What a client holds is what the table grants it, unless it asked to upgrade.
LEMMA HeldIsGranted ==
    ASSUME IInv, NEW h \in Hosts
    PROVE  /\ HoldsWrite(h) => cur.state[h] = "Writing"
           /\ HoldsRead(h) => cur.state[h] = "Reading"
<1>1. /\ Protocol(h)
      /\ locks[h] # {} => /\ Held(h)
                          /\ cur.state[h] # HeldState(h) => hostPc[h] = "awaitWrite"
                          /\ HoldsWrite(h) => cur.state[h] = "Writing"
  BY TablePhase DEF IInv
<1>. QED
  BY <1>1 DEF HoldsRead, HoldsWrite, HeldState

\* No two clients hold the lock in conflicting modes, whatever is in transit
\* (OnLockRequest, OnUnlockRequest, simulationLockStarted).
THEOREM Exclusion ==
    ASSUME ~ReadAfterWrite
    PROVE  Spec => []MutualExclusion
<1>1. IInv => MutualExclusion
  BY HeldIsGranted DEF IInv, TableExclusion, Granted, MutualExclusion
<1>. QED
  BY <1>1, ProtocolInvariant, PTL

\* A client with a lock finds the owner parked at the cycle its reply named
\* (runCycle, issueLockResponse).
THEOREM StandsStill ==
    ASSUME ~ReadAfterWrite
    PROVE  Spec => []OwnerStandsStill
<1>1. IInv => OwnerStandsStill
  BY TablePhase DEF IInv, StartedWhileParked, Serving, Held, OwnerStandsStill
<1>. QED
  BY <1>1, ProtocolInvariant, PTL

\* Nobody overwrites what a client fetched before it asked for the upgrade
\* (OnWriteRequest, OnWriteLockRequest).
THEOREM FetchedStable ==
    ASSUME ~ReadAfterWrite
    PROVE  Spec => []FetchedDataStable
<1>1. IInv => FetchedDataStable
  BY DEF IInv
<1>. QED
  BY <1>1, ProtocolInvariant, PTL

\* No handler's check fires: the owner's process is never aborted by the lock
\* protocol (every THROW_RTE and VERIFY_RTE of activities.cpp 169-568).
THEOREM NeverAborts ==
    ASSUME ~ReadAfterWrite
    PROVE  Spec => []NoAbort
<1>1. IInv => NoAbort
  BY DEF IInv
<1>. QED
  BY <1>1, ProtocolInvariant, PTL

\* The next reply is the answer to the last request (Program::readlock, read,
\* writelock, which match replies to requests by their order alone).
THEOREM RepliesAreAnswers ==
    ASSUME ~ReadAfterWrite
    PROVE  Spec => []RepliesMatch
<1>1. ASSUME IInv, NEW h \in Hosts, reply[h] # << >>
      PROVE  /\ Len(reply[h]) = 1
             /\ \/ hostPc[h] \in {"awaitRead", "awaitWrite"} /\ Head(reply[h]).kind = "lock"
                \/ hostPc[h] = "awaitData" /\ Head(reply[h]).kind \in {"data", "error"}
  <2>1. \/ hostPc[h] \in {"awaitRead", "awaitWrite"} /\ reply[h] = GrantReply
        \/ hostPc[h] = "awaitData" /\ \E k \in {"data", "error"} : reply[h] = Ask(k, hostCycle[h])
    BY <1>1 DEF IInv, Protocol, Idle, Asking, Working, Fetching, Upgrading
  <2>. QED
    BY <2>1 DEF GrantReply, Ask
<1>2. IInv => RepliesMatch
  BY <1>1 DEF RepliesMatch
<1>. QED
  BY <1>2, ProtocolInvariant, PTL

\* Only clients that are done with the current table wait in the future one
\* (getOrCreateFutureLock, releaseCurrentLock).
THEOREM FutureOnlyWaits ==
    ASSUME ~ReadAfterWrite
    PROVE  Spec => []FutureWaits
<1>1. IInv => FutureWaits
  BY TablePhase DEF IInv, HasEntry, FutureWaits
<1>. QED
  BY <1>1, ProtocolInvariant, PTL

-----------------------------------------------------------------------------
(***************************************************************************)
(* The protocol implements CycleAccess.                                    *)
(***************************************************************************)

\* The abstract access, read off the state of an entry.
LEMMA GrantsOf ==
    ASSUME NEW h \in Hosts
    PROVE  /\ Grants[h] = "read" <=> cur.state[h] = "Reading"
           /\ Grants[h] = "write" <=> cur.state[h] = "Writing"
           /\ Grants[h] = "none" <=> ~Granted(h)
           /\ Grants[h] \in {"none", "read", "write"}
BY DEF Grants, Granted

\* The same after a step.
LEMMA GrantsOfNext ==
    ASSUME NEW h \in Hosts
    PROVE  /\ Grants'[h] = "read" <=> cur'.state[h] = "Reading"
           /\ Grants'[h] = "write" <=> cur'.state[h] = "Writing"
           /\ Grants'[h] = "none" <=> ~Granted(h)'
           /\ Grants'[h] \in {"none", "read", "write"}
BY DEF Grants, Granted

\* While the data is open, a step that takes access from one client at most is a
\* Serve step.
LEMMA ServeStep ==
    ASSUME IInv', Phase = "open", Phase' = "open", ownerCycle' = ownerCycle,
           \A g, h \in Hosts : /\ Granted(g) /\ cur'.state[g] # cur.state[g]
                               /\ Granted(h) /\ cur'.state[h] # cur.state[h]
                               => g = h
    PROVE  Access!Serve
<1>1. Grants' \in [Hosts -> {"none", "read", "write"}]
  BY GrantsOfNext DEF Grants
<1>2. Access!Exclusive(Grants')
  BY GrantsOfNext DEF IInv, TableExclusion, Access!Exclusive, Granted
<1>3. \A h \in Hosts : Grants[h] # "none" /\ Grants'[h] # Grants[h]
                       => Granted(h) /\ cur'.state[h] # cur.state[h]
  BY GrantsOf, GrantsOfNext DEF Granted
<1>. QED
  BY <1>1, <1>2, <1>3 DEF Access!Serve

\* A step that moves neither thread nor table nor clock is a stutter.
LEMMA SameAccess ==
    ASSUME Phase' = Phase, UNCHANGED <<cur, ownerCycle>>
    PROVE  UNCHANGED Access!accessVars
BY DEF Access!accessVars, Grants

\* Every step is a step of the access specification, or a stutter.
LEMMA AccessStep ==
    ASSUME IInv, IInv', [Next]_vars
    PROVE  [Access!AccessNext]_(Access!accessVars)
<1>. USE DEF Access!AccessNext
<1>1. CASE SimThread
  <2>1. UNCHANGED cur /\ Grants' = Grants
    BY <1>1 DEF SimThread, RunJobs, Park, PassBy, Resume, RunProgram, Grants
  <2>2. CASE RunJobs \/ RunProgram
    <3>1. Phase = "busy" /\ Phase' = "busy"
      BY <2>2 DEF RunJobs, RunProgram, Phase
    <3>2. ownerCycle' \in Cycle
      BY DEF IInv, TypeOK
    <3>. QED
      BY <2>1, <3>1, <3>2 DEF Access!Work
  <2>3. CASE Park
    <3>1. Phase = "busy" /\ Phase' = "open" /\ UNCHANGED ownerCycle
      BY <2>3 DEF Park, Phase
    <3>. QED
      BY <2>1, <3>1 DEF Access!Open
  <2>4. CASE PassBy \/ Resume
    <3>1. Phase' = Phase /\ UNCHANGED ownerCycle
      BY <2>4 DEF PassBy, Resume, Phase
    <3>. QED
      BY <2>1, <3>1, SameAccess
  <2>. QED
    BY <1>1, <2>2, <2>3, <2>4 DEF SimThread
<1>2. CASE SimulationLockStarted
  <2>1. startPosted /\ UNCHANGED <<simPc, ownerCycle>>
    BY <1>2 DEF SimulationLockStarted
  <2>2. simPc = "parked" /\ ~released /\ cur # NoLock /\ ~Serving
    BY <2>1 DEF IInv, StartedWhileParked, Serving
  <2>3. released' = released
    BY <1>2, <2>2 DEF SimulationLockStarted, StartWaiting, Abort
  <2>4. \A g \in Hosts : ~Granted(g)
    BY <2>2 DEF IInv, StartedWhileParked, Granted
  <2>5. Phase = "open" /\ Phase' = "open"
    BY <2>1, <2>2, <2>3 DEF Phase
  <2>. QED
    BY <2>1, <2>4, <2>5, ServeStep
<1>3. ASSUME NEW h \in Hosts, OnReadLockRequest(h)
      PROVE  [Access!AccessNext]_(Access!accessVars)
  <2>1. UNCHANGED <<simPc, ownerCycle, released>> /\ Phase' = Phase
    BY <1>3 DEF OnReadLockRequest, Abort, Phase
  <2>2. Head(inbox[h]).cycle \in Cycle /\ cur \in Lock /\ {"Read", "Reading"} \subseteq State
    BY <1>3, TakeType DEF OnReadLockRequest, IInv, TypeOK, State
  <2>3. \/ cur' = cur
        \/ /\ ~HasEntry(cur, h)
           /\ \E s \in {"Read", "Reading"} :
                 /\ cur' = SetHostCycleState(cur, h, Head(inbox[h]).cycle, s)
                 /\ s = "Reading" => IsReading(cur)
    BY <1>3, TablesStand DEF OnReadLockRequest, Abort
  <2>4. CASE cur' = cur
    BY <2>1, <2>4, SameAccess
  <2>5. ASSUME ~HasEntry(cur, h), NEW s \in {"Read", "Reading"},
               cur' = SetHostCycleState(cur, h, Head(inbox[h]).cycle, s),
               s = "Reading" => IsReading(cur)
        PROVE  [Access!AccessNext]_(Access!accessVars)
    <3>1. /\ cur'.state[h] = s
          /\ \A g \in Hosts \ {h} : cur'.state[g] = cur.state[g]
      BY <2>2, <2>5, SetEntryStates
    <3>2. ~Granted(h)
      BY <2>5 DEF HasEntry, Granted
    <3>3. CASE s = "Read"
      <4>1. Grants' = Grants
        BY <3>1, <3>2, <3>3 DEF Grants, Granted
      <4>. QED
        BY <2>1, <4>1 DEF Access!accessVars
    <3>4. CASE s = "Reading"
      <4>1. PICK r \in Hosts : cur.state[r] = "Reading"
        BY <2>5, <3>4 DEF IsReading, InState
      <4>2. Phase = "open"
        BY <4>1, ServingTable DEF Serving, Phase
      <4>. QED
        BY <2>1, <3>1, <3>2, <4>2, ServeStep
    <3>. QED
      BY <3>3, <3>4
  <2>. QED
    BY <2>3, <2>4, <2>5
<1>4. ASSUME NEW h \in Hosts, OnWriteLockRequest(h)
      PROVE  [Access!AccessNext]_(Access!accessVars)
  <2>1. UNCHANGED <<simPc, ownerCycle, released>> /\ Phase' = Phase
    BY <1>4 DEF OnWriteLockRequest, Abort, Phase
  <2>2. Head(inbox[h]).cycle \in Cycle /\ cur \in Lock /\ {"Write", "Writing"} \subseteq State
    BY <1>4, TakeType DEF OnWriteLockRequest, IInv, TypeOK, State
  <2>. DEFINE upgraded == SetHostCycleState(cur, h, Head(inbox[h]).cycle, "Write")
  <2>3. \/ cur' = cur
        \/ /\ cur.state[h] \in {"None", "Read", "Reading"}
           /\ cur' = upgraded
        \/ /\ cur.state[h] = "Reading"
           /\ cur' = SetHostCycleState(upgraded, h, Head(inbox[h]).cycle, "Writing")
    BY <1>4, TablesStand DEF OnWriteLockRequest, Abort, HasEntry
  <2>4. upgraded \in Lock /\ \A g \in Hosts \ {h} : upgraded.state[g] = cur.state[g]
    <3>1. upgraded \in Lock
      BY <2>2, SetEntryProperties
    <3>2. \A g \in Hosts \ {h} : upgraded.state[g] = cur.state[g]
      BY <2>2, SetEntryStates
    <3>. QED
      BY <3>1, <3>2
  <2>5. upgraded.state[h] = "Write"
    BY <2>2, SetEntryStates
  <2>. HIDE DEF upgraded
  <2>6. \A g \in Hosts \ {h} : cur'.state[g] = cur.state[g]
    <3>1. CASE cur' = SetHostCycleState(upgraded, h, Head(inbox[h]).cycle, "Writing")
      BY <2>2, <2>4, <3>1, SetEntryStates
    <3>. QED
      BY <2>3, <2>4, <3>1
  <2>7. CASE cur' = cur
    BY <2>1, <2>7, SameAccess
  <2>8. CASE cur.state[h] # "Reading" /\ cur' = upgraded /\ ~Granted(h)
    <3>1. Grants' = Grants
      BY <2>5, <2>6, <2>8 DEF Grants, Granted
    <3>. QED
      BY <2>1, <3>1 DEF Access!accessVars
  <2>9. CASE cur.state[h] = "Reading"
    <3>1. Phase = "open"
      BY <2>9, ServingTable DEF Serving, Phase
    <3>. QED
      BY <2>1, <2>6, <3>1, ServeStep
  <2>. QED
    BY <2>3, <2>7, <2>8, <2>9 DEF Granted
<1>5. ASSUME NEW h \in Hosts, OnReadRequest(h) \/ OnWriteRequest(h)
      PROVE  [Access!AccessNext]_(Access!accessVars)
  <2>1. UNCHANGED <<cur, simPc, ownerCycle, released>>
    BY <1>5, TablesStand DEF OnReadRequest, OnWriteRequest, Abort
  <2>. QED
    BY <2>1, SameAccess DEF Phase
<1>6. ASSUME NEW h \in Hosts, OnUnlockRequest(h)
      PROVE  [Access!AccessNext]_(Access!accessVars)
  <2>. DEFINE done == SetHostCycleState(cur, h, Head(inbox[h]).cycle, "Finished")
  <2>1. UNCHANGED <<simPc, ownerCycle>>
    BY <1>6 DEF OnUnlockRequest
  <2>2. Head(inbox[h]).cycle \in Cycle /\ cur \in Lock /\ "Finished" \in State
    BY <1>6, TakeType DEF OnUnlockRequest, IInv, TypeOK, State
  <2>3. Granted(h)
    BY <1>6, RequestPhase DEF OnUnlockRequest, Take, IInv
  <2>4. Phase = "open"
    BY <2>3, ServingTable DEF Granted, Serving, Phase
  <2>5. /\ done.state[h] = "Finished"
        /\ \A g \in Hosts \ {h} : done.state[g] = cur.state[g]
    BY <2>2, SetEntryStates
  <2>6. \/ AllFinished(done) /\ ReleaseCurrentLock
        \/ UNCHANGED released /\ \A g \in Hosts \ {h} : Granted(g) => cur'.state[g] = cur.state[g]
    <3>1. \/ AllFinished(done) /\ ReleaseCurrentLock
          \/ cur' = done /\ UNCHANGED released
          \/ StartWaiting(done)
      BY <1>6, <2>3 DEF OnUnlockRequest, Granted, HasEntry
    <3>2. CASE StartWaiting(done)
      <4>1. done \in Lock
        BY <2>2, SetEntryProperties
      <4>. HIDE DEF done
      <4>2. \/ /\ cur' = Restate(done, InState(done, "Read"), "Reading")
               /\ UNCHANGED released
            \/ /\ cur' = Restate(done, {g \in Hosts : IsFirstWriter(done, g)}, "Writing")
               /\ UNCHANGED released
            \/ UNCHANGED <<cur, released>>
        BY <3>2 DEF StartWaiting, Abort
      <4>3. \A g \in Hosts : done.state[g] \in {"Reading", "Writing"} =>
               g \notin InState(done, "Read") /\ g \notin {k \in Hosts : IsFirstWriter(done, k)}
        BY DEF InState, IsFirstWriter
      <4>4. \A S \in SUBSET Hosts, s \in {"Reading", "Writing"}, g \in Hosts :
               Restate(done, S, s).state[g] = IF g \in S THEN s ELSE done.state[g]
        BY <4>1, RestateProperties DEF State
      <4>5. InState(done, "Read") \in SUBSET Hosts /\ {g \in Hosts : IsFirstWriter(done, g)} \in SUBSET Hosts
        BY DEF InState
      <4>. QED
        BY <2>5, <4>2, <4>3, <4>4, <4>5 DEF Granted
    <3>. HIDE DEF done
    <3>. QED
      BY <2>5, <3>1, <3>2
  <2>. HIDE DEF done
  <2>7. CASE AllFinished(done) /\ ReleaseCurrentLock
    <3>1. \A g \in Hosts : Granted(g) => g = h
      BY <2>5, <2>7 DEF AllFinished, Granted
    <3>2. Phase' = "busy"
      BY <2>7 DEF ReleaseCurrentLock, Phase
    <3>3. \A g \in Hosts : ~Granted(g)'
      BY <2>7, TablePhase DEF ReleaseCurrentLock, Granted, IInv
    <3>4. Grants' = Access!Nobody
      BY <3>3 DEF Grants, Granted, Access!Nobody
    <3>. QED
      BY <2>1, <2>4, <3>1, <3>2, <3>4, GrantsOf DEF Access!Close
  <2>8. CASE UNCHANGED released /\ \A g \in Hosts \ {h} : Granted(g) => cur'.state[g] = cur.state[g]
    <3>1. Phase' = "open"
      BY <2>1, <2>4, <2>8 DEF Phase
    <3>. QED
      BY <2>1, <2>4, <2>8, <3>1, ServeStep
  <2>. QED
    BY <2>6, <2>7, <2>8
<1>7. ASSUME NEW h \in Hosts, Client(h)
      PROVE  [Access!AccessNext]_(Access!accessVars)
  <2>1. UNCHANGED ownerVars
    BY <1>7 DEF Client, ReadLock, WriteLock, Fetch, Modify, ReceiveResponse, ReceiveError, EndCycle
  <2>. QED
    BY <2>1, SameAccess DEF ownerVars, Phase
<1>8. CASE UNCHANGED vars
  BY <1>8, SameAccess DEF vars, Phase
<1>. QED
  BY <1>1, <1>2, <1>3, <1>4, <1>5, <1>6, <1>7, <1>8 DEF Next, Handle

\* The initial states are initial states of the access specification.
LEMMA AccessInitial == Init => Access!AccessInit
<1>. SUFFICES ASSUME Init PROVE Access!AccessInit
  OBVIOUS
<1>1. Phase = "busy"
  BY DEF Init, Phase
<1>2. ownerCycle \in Cycle
  BY TypeInit DEF TypeOK
<1>3. Grants = Access!Nobody
  BY DEF Init, NoLock, Grants, Access!Nobody
<1>. QED
  BY <1>1, <1>2, <1>3 DEF Access!AccessInit

\* The message protocol implements the access specification: seen from outside,
\* the component's data is worked on by the component alone, or read by many or
\* written by one of the other hosts.
THEOREM AccessImplemented ==
    ASSUME ~ReadAfterWrite
    PROVE  Spec => ImplementsAccess
<1>1. IInv /\ IInv' /\ [Next]_vars => [Access!AccessNext]_(Access!accessVars)
  BY AccessStep
<1>. QED
  BY <1>1, AccessInitial, ProtocolInvariant, PTL DEF Spec, ImplementsAccess, Access!AccessSpec

-----------------------------------------------------------------------------
(***************************************************************************)
(* Re-entry: nothing but a release takes a finished client's entry away.   *)
(***************************************************************************)

\* With a finished entry the current table is there.
LEMMA FinishedTable ==
    ASSUME NEW k \in Hosts, cur.state[k] = "Finished"
    PROVE  cur # NoLock /\ CurrentLock = cur /\ FutureLock = fut
BY DEF NoLock, CurrentLock, FutureLock

\* Another client's entry does not touch it.
LEMMA FinishedEntry ==
    ASSUME NEW lock \in Lock, NEW h \in Hosts, NEW c \in Cycle, NEW s \in State,
           NEW k \in Hosts, lock.state[k] = "Finished", h # k \/ s = "Finished"
    PROVE  /\ SetHostCycleState(lock, h, c, s) \in Lock
           /\ SetHostCycleState(lock, h, c, s).state[k] = "Finished"
<1>1. SetHostCycleState(lock, h, c, s) \in Lock
  BY SetEntryProperties
<1>2. /\ SetHostCycleState(lock, h, c, s).state[h] = s
      /\ \A g \in Hosts \ {h} :
            SetHostCycleState(lock, h, c, s).state[g] = lock.state[g]
  BY SetEntryStates
<1>3. SetHostCycleState(lock, h, c, s).state[k] = "Finished"
  <2>1. CASE h = k
    BY <1>2, <2>1
  <2>2. CASE h # k
    BY <1>2, <2>2
  <2>. QED
    BY <2>1, <2>2
<1>. QED
  BY <1>1, <1>3

\* StartWaiting moves only entries that wait.
LEMMA FinishedStarts ==
    ASSUME NEW lock \in Lock, NEW k \in Hosts, lock.state[k] = "Finished",
           cur.state[k] = "Finished", StartWaiting(lock)
    PROVE  cur'.state[k] = "Finished"
BY DEF StartWaiting, Restate, InState, IsFirstWriter, Abort

\* A finished entry stays so until the future table takes over.
LEMMA FinishedStep ==
    ASSUME TypeOK, Next, NEW k \in Hosts, cur.state[k] = "Finished"
    PROVE  cur'.state[k] = "Finished" \/ cur' = fut
<1>0. cur \in Lock
  BY DEF TypeOK
<1>1. cur # NoLock /\ CurrentLock = cur /\ FutureLock = fut
  BY FinishedTable
<1>3. CASE SimThread
  BY <1>3 DEF SimThread, RunJobs, Park, PassBy, Resume, RunProgram
<1>4. CASE SimulationLockStarted
  BY <1>0, <1>1, <1>4, FinishedStarts DEF Abort, SimulationLockStarted
<1>5. ASSUME NEW h \in Hosts, Handle(h)
      PROVE  cur'.state[k] = "Finished" \/ cur' = fut
  <2>. DEFINE c == Head(inbox[h]).cycle
  <2>1. c \in Cycle
    BY <1>5, TakeType DEF Handle, OnReadLockRequest, OnWriteLockRequest, OnReadRequest,
                          OnWriteRequest, OnUnlockRequest
  <2>2. CASE OnReadLockRequest(h)
    <3>1. ~HasEntry(cur, h) => h # k
      BY DEF HasEntry
    <3>2. \/ cur' = cur
          \/ ~HasEntry(cur, h) /\ cur' = SetHostCycleState(cur, h, c, "Reading")
          \/ ~HasEntry(cur, h) /\ cur' = SetHostCycleState(cur, h, c, "Read")
      BY <1>1, <2>2 DEF OnReadLockRequest, Abort
    <3>. QED
      BY <1>0, <2>1, <3>1, <3>2, FinishedEntry DEF State
  <2>3. CASE OnWriteLockRequest(h)
    <3>. DEFINE upgraded == SetHostCycleState(cur, h, c, "Write")
    <3>1. \/ cur' = cur
          \/ /\ h # k
             /\ cur' \in {upgraded, SetHostCycleState(upgraded, h, c, "Writing")}
      BY <1>1, <2>3 DEF OnWriteLockRequest, Abort, HasEntry
    <3>2. h # k => upgraded.state[k] = "Finished" /\ upgraded \in Lock
      BY <1>0, <2>1, FinishedEntry DEF State
    <3>. HIDE DEF upgraded
    <3>3. h # k => SetHostCycleState(upgraded, h, c, "Writing").state[k] = "Finished"
      BY <2>1, <3>2, FinishedEntry DEF State
    <3>. QED
      BY <3>1, <3>2, <3>3
  <2>4. CASE OnReadRequest(h) \/ OnWriteRequest(h)
    BY <1>1, <2>4 DEF OnReadRequest, OnWriteRequest, Abort
  <2>5. CASE OnUnlockRequest(h)
    <3>. DEFINE done == SetHostCycleState(cur, h, c, "Finished")
    <3>1. done \in Lock /\ done.state[k] = "Finished"
      BY <1>0, <2>1, FinishedEntry DEF State
    <3>2. cur' = cur \/ cur' = fut \/ cur' = done \/ StartWaiting(done)
      BY <2>5 DEF OnUnlockRequest, Abort, ReleaseCurrentLock
    <3>. HIDE DEF done
    <3>. QED
      BY <3>1, <3>2, FinishedStarts
  <2>. QED
    BY <1>5, <2>2, <2>3, <2>4, <2>5 DEF Handle
<1>6. ASSUME NEW h \in Hosts, Client(h)
      PROVE  cur' = cur
  BY <1>6 DEF Client, ReadLock, WriteLock, Fetch, Modify, ReceiveResponse, ReceiveError,
              EndCycle, ownerVars
<1>. QED
  BY <1>3, <1>4, <1>5, <1>6 DEF Next

\* A client that finished is let into no table twice (releaseCurrentLock).
THEOREM NeverReenters == Spec => NoReentry
<1>1. TypeOK /\ [Next]_vars
      => [\A h \in Hosts : cur.state[h] = "Finished" =>
             cur'.state[h] = "Finished" \/ cur' = fut]_cur
  BY FinishedStep DEF vars
<1>. QED
  BY <1>1, TypeCorrect, PTL DEF Spec, NoReentry

=============================================================================
