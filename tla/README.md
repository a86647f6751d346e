# Verification of the megastructure

TLA+ models, TLC runs and TLAPS proofs for the distributed part of the
megastructure: the simulation lock by which components share data cycle by
cycle, the activity queues with which the master enrolls, tests and loads its
slaves and a slave its hosts, the map from host names to hosts, and the routing
of requests between hosts.

Paths below are relative to the root of the repository (`src/component/...` is
the component's code, `api/...` its headers).

## 1. The system

    Master  <=>  Slave (coordinator, one per machine)  <=>  Hosts
                                                        (processes with a Component:
                                                         basic, geometry, python,
                                                         hostdll, unreal)

All connections are ZMQ sockets that carry protobuf `Message`s. Every process
has one queue thread (an `io_context`): whatever arrives, and whatever an
activity does to other activities, is posted to it and handled one at a time in
the order of posting. A host has a second thread, its simulation thread, that
runs cycles of the loaded program. There is no timeout anywhere: the
`keepAlive` timer only re-arms itself. An exception in a handler ends in
`std::abort` of the process (`src/core/queue.cpp:30`).

| Component | State | Operations | Talks to | What is hard | What makes it correct |
|---|---|---|---|---|---|
| Simulation lock (`component/component.cpp`, `component/activities.cpp`, `api/megastructure/component.hpp`) | current and future table of host entries, released flag | lock, unlock, read and write requests; start and release of a table | clients by messages; simulation thread by mutex, condition and a posted event | three kinds of thread, requests of several hosts in any order, a second table for those who are early | exclusion; the owner stands still under a lock; every request is granted; no handler aborts |
| Client side of the lock (`component/program.cpp`, `api/egcomponent/traits.hpp`, `generators/generator.cpp`) | lock bits, the owner's cycle, values read and written in the cycle | accessors that lock, fetch and modify; end of cycle | the owner | replies without request ids; order of write set and unlock | the next reply is the answer; fetched data stays valid |
| Activity queue (`core/queue.cpp`, `core/activity.cpp`, `api/megastructure/queue.hpp`) | active and pending activities, posted handlers | start, message, complete, promote | all of Master, Slave and Component are activities | an activity that is done stays active until its completion is handled; everything pends behind a pending one | parents hear of their children; nothing completes twice; what can start starts |
| Master (`master/`) | map of client names, tests and whom they are for, loads under way | enroll, test, list, load, load and save of config, routing table | slaves; operator | enrollment under a taken name, crashed slaves, answers without ids | one process to a name; every enrollment answered once; a load done only when all slaves are |
| Slave, towards the master (`slave/activitiesMaster.cpp`) | the load under way | enroll, alive test, load, config | master, its hosts | a second request while one is under way | every request answered once |
| Slave, towards the hosts (`slave/activitiesHost.cpp`, `slave/hostMap.cpp`) | host map: name, process id, two socket ids | enroll on two sockets, test, load, remap | hosts | the two sockets race; remap renames hosts | a host keeps one identity on both sockets |
| Config protocol (all of the above) | requests that wait | load, save | master to component | requests dropped when one is under way; answers consumed by the other kind | every request answered |
| EG routing (`slave/activitiesEG.cpp`, `core/networkAddressTable.cpp`, `master/activities.cpp`) | address table | relay of requests, replies, errors; table request | hosts, slaves, master | ids of different sockets, stale tables | a reply reaches the host that asked |
| Component enrollment and jobs (`component/activities.cpp`, `component/jobs.cpp`) | job queue, program | enroll, load program | slave, simulation thread | work handed between two threads | each job completes once |
| Shared buffers (`core/buffer.cpp`) | shared memory by name and size | create, grow | component, slave | growth under a reader | name determines contents |
| Transport (`core/clientServer.cpp`) | sockets | send, receive, poll | operating system | which send errors mean a lost client | |
| Build driver (`driver/`) | task graph, stash by file hashes | build, clean, run | compilers, file system | stale stash, order of tasks | a build gives what a clean build would |
| Schema and environment (`schema/`) | project tree | read XML, expand variables | driver | | |
| Generators, bindings, host programs | | print code; wrap accessors; call `runCycle` | | | |

The hazards found in this code are listed with their lines in `PROJECT.json`.

## 2. The modules

| Module | What it is |
|---|---|
| `SimulationLock` | the owner's two threads and all its clients, message by message, and its properties |
| `CycleAccess` | abstract specification: who may touch a component's data, without queues, tables or messages |
| `SimulationLockInv`, `SimulationLockProofs` | the inductive invariant `IInv` of the lock; the proofs |
| `MCSimulationLock` | symmetry for TLC |
| `Activities`, `ActivityQueue` | what activities and posted handlers are; the queue's own code (`core/queue.cpp`), instantiated by `Master` and `Slave` with their activities as parameters |
| `Master` | the master, its slaves as it sees them, and its properties |
| `QueueFacts` | lemmas about sequences as the queues use them: what of a sequence holds of its tail, of one that grew and of one with an element removed |
| `MasterProofs` | the inductive invariant of the master and the proofs |
| `MCMaster` | who enrolls under which name |
| `Slave` | a slave and its hosts: enrollment, tests, loads, configs, jobs, and its properties |
| `ProgramLoads` | abstract specification: what hosts run while programs are loaded, without queues, activities or messages; `Slave` implements it, which is checked and proved |
| `SlaveQueueProofs`, `SlaveProofs`, `SlaveNameProofs` | the inductive invariant of the slave and its hosts, in three layers, and the proofs |
| `MCSlave` | two hosts and the programs |
| `Remap` | the state and the turns of the two loops that remap host names, as operators; used by `HostMap` and `Slave` |
| `HostMap` | the host map, one turn of a loop at a time, and what a remap promises |
| `HostMapProofs`, `MCHostMap` | the proofs; hosts, processes and programs |
| `Routing` | requests and answers through slaves and master while tables are replaced |
| `RoutingProofs`, `MCRouting` | the proofs; two coordinators and their ids |

How they fit together: `Master` and `Slave` are two instances of `ActivityQueue`.
`Slave` computes a remap in one step with the operators that `HostMap` takes turn
by turn, so what is proved of the turns is what the slave does. `Routing` takes
of `Master`, `Slave` and `HostMap` only what decides the address tables, and of
`SimulationLock` only that an owner answers in the end.

Definitions whose name ends in `_Bug` are deliberate faults. No specification
uses one; each shows that a property can fail if the code were wrong in that
way.

### SimulationLock

One owner, any set `Hosts` of clients. Correspondence of state:

| Variable | Code |
|---|---|
| `cur`, `fut`, `released` | `m_pCurrentSimLock`, `m_pFutureSimLock`, `m_bCurrentLockReleased` (`api/megastructure/component.hpp`) |
| `startPosted` | an `OnSimulationLockStarted` posted by `runCycle` |
| `simPc` | where the simulation thread is: `runAllJobs`, the check of the current lock, the condition wait, the program |
| `loaded`, `ownerCycle` | `m_pProgram` and its `getCurrentCycle` |
| `aborted` | a handler threw, which ends in `std::abort` |
| `inbox`, `reply` | the requests and replies of each client on their way |
| `hostPc`, `hostCycle`, `locks`, `stamp`, `reads` | the client's thread, clock and generated `g_hostLocks`, `g_hostCycles`, `g_reads` |
| `stale` | history: the clients under whom data they had fetched was overwritten |

Actions: `RunJobs`, `Park`, `PassBy`, `Resume`, `RunProgram` are the segments of
`Component::runCycle` between two accesses to what it shares;
`SimulationLockStarted` and the five `On...Request` are one handler of
`EGRequestManagerActivity` each, with every path that throws; `ReadLock`,
`WriteLock`, `Fetch`, `Modify`, `ReceiveResponse`, `ReceiveError`, `EndCycle` are
the client's accessors, its wait for a reply, and the end of its cycle.

Abstractions. The vector of lock entries is a function of the host with the
order of the entries (`setHostCycleState` keeps one entry for a host). The
relays between client and owner keep the order of one client's requests, and
nothing else; a client waits for each reply, so it has at most a write set, an
unlock and its next request on the way. Values are left out; that a write
happens while another client holds a fetched value is kept in `stale`. A
client's cycle counter counts only the cycles that use this owner: the owner
only compares two cycle numbers of one host. `CycleMod` stands for the 2^32 of
the counters; 2 is the least at which a finished entry and the next request
differ, and wrapping then happens all the time.

`ReadAfterWrite` and `LoadMayFail` are switches. With `ReadAfterWrite` a
client's cycle may read after it wrote, which aborts the owner (finding 1), so
the passing runs, and all theorems but `TypeCorrect` and `NeverReenters`,
exclude it. With `LoadMayFail` the owner may be without a program, at the start
and after any load.

### Master

The master's own state is one record, `master`; every handler maps it to its
next value (or, for undefined behaviour, to a set of them).

| Field or variable | Code |
|---|---|
| `process` | the constructor is running, done, or how the process ended: `unfound` is the failed `VERIFY_RTE_MSG` in `OnActivityComplete`, `undefined` what undefined behaviour led to |
| `active`, `pending`, `posted` | `m_active`, `m_pending` and the handlers posted to the `io_context` |
| `acts` | every activity ever made: its kind, the client it tests, its `m_bSuccess`, the tests or clients it waits for |
| `clients`, `testsMap`, `program` | `ClientMap`, the `m_testsMap` of `EnrollActivity`, and whether `m_strActiveProgramName` has a name |
| `out`, `link` | messages on their way to each slave; the slave's process and whether its loss was noticed |
| `loading`, `config`, `told` | slaves at work on a load; the `m_activityType` of their `ConfigActivity`; what a slave knows of its enrollment |

Actions: `OnStartActivity`, `OnClientMessage`, `OnActivityComplete` are the
queue's three handlers, each with the whole code of the activities it calls
(`start`, `clientMessage`, `activityComplete` of `EnrollActivity`,
`TestClientActivity`, `TestClientsActivity`, `ListClientsActivity`,
`LoadProgram`, `LoadConfig`, `SaveConfig`). `StartMaster` and `Command` are the
main thread with its six commands; `StartSlave`, `ReceiveEnrollment`,
`ReceiveAlive`, `ReceiveLoad`, `FinishLoad` and their counterparts for configs
are the slaves; `Crash` and `Detect` the loss of one.

Choices that a reader of the code may ask about:

- The `break` in `OnClientMessage` stands inside a macro of an external header
  (`DO_STUFF_AND_REQUIRE_SEMI_COLON`). It is modelled as it is written: it leaves
  the loop at the first activity that takes the message.
- `Server::send` returns false for a lost connection (`EHOSTUNREACH`) and throws
  for other errors; the others are left out.
- `LoadProgram::start`, and those of `LoadConfig` and `SaveConfig`, erase the map
  element their loop stands on when a send fails. The model lets the process
  end, or lets the loop go on up to any later client (`StartAsking`).
- The answer to a load or to a config names neither the request nor the program;
  it is credited as the code does (`AskedAnswer`). `LoadsAccounted` shows that it
  is credited to the right load. A config answer is taken by whichever config
  command is first in the queue, and a slave drops a second config request while
  it works on one.
- The slave's alive test compares the name in the request with its own. The
  master always asks by the name the client enrolled under, so the answer is
  always yes.
- `RouteEGProtocolActivity` is always active too; it takes none of the messages
  modelled here and never completes, so it is left out of `active`.
- Program names and test results of the slaves' hosts are left out: a load is
  the request to every client and its answer, success and failure alike. What a
  slave does with the program it is told at its enrollment is in `Slave`.
- A client of an earlier connection is not reused: a process that crashed and
  starts again is another element of `Conns` with the same name.

### Slave

One slave and any set `Clients` of host processes. Its state is one record again,
`slave`; a host's is `host[h]`.

| Field | Code |
|---|---|
| `process`, `active`, `pending`, `posted`, `acts` | as in `Master`; `unfound` is the failed `VERIFY_RTE_MSG` in `OnActivityComplete`, `unknown` the one of a host that enrolls on its second socket after it was removed from the map |
| `enrolled`, `arrived`, `known`, `mapping` | the two maps of `HostMap`, in which order the hosts connected, and who enrolled on the second socket |
| `program`, `loading`, `loadTests`, `loadHosts` | `m_strActiveProgramName`; `m_currentlyLoadingProgramName`, `m_pTestHosts`, `m_pLoadHosts` of `LoadProgramActivity` |
| `config`, `configTests`, `configHosts` | the same of `ConfigActivity` |
| `out` | messages on their way to each host |
| `loadsAnswered`, `configsAnswered` | history: answers given to the master |
| `outcome` | `m_masterEnrollPromise`, and then, as history, the success the last load was answered with |
| `host[h].link`, `.workspace`, `.eg` | the process; whether `setSlaveWorkspacePath` was called; whether its enrollment on the second socket is on the way |
| `host[h].runs`, `.load`, `.config`, `.jobs` | `m_pProgram`, `m_pLoadProgramJob`, `m_pConfigJob`, `m_jobs` of the `Component` |

The queue's handlers are `OnStartActivity`, `OnServerMessage`,
`OnClientMessage`, `OnActivityComplete`. The master is `OnEnrollment`, its
answer to the enrollment with its active program, `AskLoad` and `AskConfig`, the
operator's command `Test`. A host is two threads: `HostQueue` (every message and
job completion handled at once) and `SimThread` (`RunLoadJob` and `RunConfigJob`
between two cycles); a load job that needs a buffer stays in the stage "buffer",
with the simulation thread blocked, until the slave's answer is read.

Choices:

- The seven activities that the constructor starts are active in front of all
  others; they are one, number `Permanent`. All but `MasterEnrollActivity` stay, and
  when that one ends nothing pends that could start. The way of the slave's
  enrollment to the master and its alive test are modelled in `Master`, its routing
  in `Routing`; the command "list" only prints.
- The enrollment sets the slave's active program (`MasterEnrollActivity`) without
  asking any host to load it. Which one it is is left open (`ActiveAtMaster`); no
  handler reads it. A denied slave's main returns, so it does nothing.
- A program may have a host name with no or several projects or commands
  (`Malformed`): `LoadHostsProgramActivity::start` then ends the slave.
- The master asks for a load only when no other is under way, since the model of
  the master shows so: `LoadProgram` is exclusive and `LoadsAccounted` holds.
  Configs come whenever the master likes.
- `m_egClientID` is uninitialised until the host enrolls on its second socket.
  With `GarbageIds` an uninitialised id may be equal to any id that is looked for.
- The map has hosts sorted by the names of their processes and, within one
  process, as they connected (`std::multimap`), and host names sorted by name
  (`std::map`). How names sort is left open: hosts are told to load in any order,
  and tested or told to unload in any order that keeps that of one process.
- What a load or a config does in a host may succeed or fail (`MayFail`). Names
  and sizes of buffers are left out: a load may ask for one or not, and for one at
  most. It may fail before and after.

### Remap and HostMap

`mapping` is `m_hostnameMapping` from names to clients, `enrolled` the keys of
`m_hostProcessNameMap`. A program is the sequence of pairs of process and host
name that its project tree wants. The `HostMap` constructor has two loops, the
first keeping names, the second giving out what is left, each with vectors of
unused clients and pairs that shrink as they go; `remap` is their state and
`ReusePair`, `AssignPair` are one turn. `Enroll` and `RemoveClient` come between
two remaps, as all of them run on the slave's queue thread.

### Routing

Any slaves, hosts, host names and programs. A type is an index in a program's
database, `Place` the host name or coordinator whose part it is.

| Variable | Code |
|---|---|
| `stable`, `mtable` | `m_pNetworkAddressTableRequests` of each slave, `m_pNetworkAddressTable` of the master |
| `load` | which slaves and hosts have not taken up the load or the stop under way, and which hosts have a name in it |
| `runs`, `asks` | the program a host runs, and whether its simulation thread waits for an answer; "routable" or "early" says whether all tables on the way were set when it asked, "failed" that it was answered by an error |
| `msgs` | requests, responses and errors by link, with the ids they have collected |
| `exposed` | history: whoever asked, and then a table on the way was taken away, or the request or its answer met a host that had ended |
| `aborted` | the processes that a failed `VERIFY_RTE` or a `THROW_RTE` ended |

`RouteHostRequest`, `RouteHostAnswer`, `RouteMasterRequest`, `RouteMasterAnswer` are
the slave's `RouteEGProtocolActivity` by where a message comes from, `RouteRequest`
and `RouteAnswer` the master's. `SlaveLoads` and `MasterLoaded` are the two places
where a table is replaced, or reset if the program has no database (`Database`): a
stop, which is a load of the program "", never has one, and another may have lost
its own, which a build makes anew, at one process and not at the next. A host's
load waits for the end of its cycle, and thus for its answers; if it fails
(`Faulty`) the slave removes the host.

A stop takes the tables away before the hosts are asked to unload. A request that a
host in the middle of a cycle has on its way is then dropped without an answer, the
host never reaches the end of its cycle, and the stop, which waits for every host,
never ends. `RequestsKept` excuses exactly these hosts, and those whose request or
answer meets a host that has ended (`exposed`): its claim is that nothing else loses
a request whose way was set up.

Choices: messages are a set, since the order on one link matters to no property
here. A host enrolls only while nothing is loaded (a late one has no part in the
load, and no program to ask from). The owner answers in the end, with an error
if it has no program. Each host is fit for exactly one host name, which other
hosts may be fit for as well. Every host name has a type and every program's
project tree can be read. Slaves do not crash. A lost host takes along only what
it has not received. Writes and unlocks, which are not answered, take the way of
a request; events are only forwarded, and the code of no host sends one.

## 3. The runs

| Run | Instance | States | Shows |
|---|---|---|---|
| `lock_safety` | 3 hosts, 1 instance, loads may fail, symmetry | 240,658 | type invariant, the inductive invariant, exclusion, the owner stands still, fetched data stays, no abort, replies match, the future table, no re-entry, refinement of `CycleAccess` |
| `lock_liveness` | 2 hosts | 10,782, fair | every lock request is granted; the owner always resumes |
| `lock_read_after_write` | 2 hosts, reads after writes | finding 1 | `NoAbort` is violated |
| `master_safety` | 4 processes under 2 names, one may crash, 2 loads, slaves before the first activities | 1,324,532 | order of activities, what is awaited is still to come, loads are accounted for, completion means done, one live process to a name, one answer to an enrollment |
| `master_liveness` | 2 processes, none crashes, any 2 of the six commands | 43,517, fair | every enrollment is answered; every command gets done |
| `master_double_completion` | 2 processes, two tests | finding 2 | `CompletesOnce` is violated |
| `master_pending_stalls` | one process that lives, 4 commands | finding 3, fair | `ViableIsStarted` is violated |
| `hostmap_remap` | 4 hosts of 2 processes, 4 names, 5 programs | 314,431 | the map is sound, names go to the right processes, are kept if they can be, and no fitting host stays unused |
| `slave_safety` | 2 hosts, one may crash and one may fail; 3 programs, one of which cannot be read and one of which is active when the slave enrolls; 2 loads; garbage ids | 3,097,068 | no two hosts run one part, answers of hosts are accounted for, a load is answered last, and with success only when the hosts run what the map says, nothing ever pends, refinement of `ProgramLoads` |
| `slave_liveness` | 1 host that may fail; 2 programs, one malformed; any two of a load, a config and a test | 103,909, fair | every load and every config taken up is answered |
| `routing_safety` | 2 slaves, 4 hosts, one enrolls late, one may end, one may fail to load; 1 program, 2 loads or stops, 2 waiting hosts | 2,212,348 | answers return to who asked, requests reach the owner and are kept while their tables are, nobody aborts |
| `routing_reload` | the same slaves, two programs | finding 4 | `NoAbort` is violated |

**Why the bounds are enough.** *Lock*: three hosts give every relation the lock
table makes a difference for: two readers and a writer, two writers and a
reader that upgrades, one host in the future table while two are in the current
one. Names of instances matter only as "fetched" or not, so one is enough to
fetch and one that is fetched to overwrite. *Master*: three processes under one
name give the one that has the name, one that waits for its test and one that
comes between; the second name gives a load more than one client. Two loads are
enough for an answer to be credited to the wrong one; the lost client makes the
erasing loop happen. *Host map*: programs that share names, move a name to the
other process, want more than there is, or nothing; three hosts of one process,
so that a name can be kept while others are given out. *Slave*: two hosts are
enough to exchange names, to lose one while the other answers, and for the
second socket of one to be mistaken for another's; two loads after each
other give every pair of programs, the "" program, the unreadable one and the one
that was active from the enrollment included; no handler reads the active program,
so one that is told at the enrollment stands for all.
*Routing*: requests within a slave and over the master, two hosts that stand by
for one name, ids that are the same at both slaves, two loads so that every table
is replaced under a request, or taken away by a stop. In the run the program always
has its database: without one the tables are reset as by a stop, and the theorems
are about any programs (with `Analysed = {}` the run holds as well, in 6.3 million
states). The ids of a slave's two sockets are disjoint in the runs, so that the
wrong host removed by `sendHostEG`, and an asker taken for its own target, never
occur there; `AnswersAreReturned` is proved for any ids, and `NobodyAborts` has to
assume they are disjoint.

`MaxCommands`, `MaxLoads`, `MaxConfigs`, `MaxTests`, `MaxAsked`, `MaxAsks` bound what
the operator and the hosts ask for; they stand in the guards of the actions that
ask. Lengths of queues are bounded by these alone.

**Deadlock.** Only `lock_liveness` checks it: without failed loads and without
reads after writes nobody ever gets stuck. `lock_safety` and
`lock_read_after_write` do not, because the system can really stop: a read under
a lock that is answered by an error, since the owner has no program, leaves the
client waiting for ever (`Program::read` logs the error and reads on), and the
owner parked with it; and an owner that aborted stops. The other runs do not
because requests are finite in number, processes may end, and a host whose
request was dropped or answered by an error waits for ever.

**Fairness.** Only what the code schedules by itself is fair. An `io_context`
runs whatever is posted, and the thread that reads a socket posts what it
reads (`Handle`, `SimulationLockStarted`, `Queue`, `HostQueue`); the simulation loop
of a host never ends (`SimThread`); a client whose calls return reaches the end of
its cycle (`EndCycle`) and reads a reply that came; a slave that lives reads its
messages and ends a load; the operating system notices a lost connection. No
client has to ask for a lock, no slave or host has to start, no command has to be
given, nobody has to crash. All of it is weak fairness: none of these actions
is ever disabled by another actor except by an end of the process. In `Slave` the
fairness of `SimThread` assumes that a host's cycles end, which `lock_liveness`
shows of a cycle that uses one owner.

**How far liveness goes.** `CommandsGetDone` holds with two commands and nobody
crashing. It fails beyond that (finding 3), and with a crash, and
`EnrollmentAnswered` needs that the tested client answers or is known to be
lost, since no test has a timeout. In `master_liveness` slaves start only when
the master's first activity is posted: one that comes before is dropped
unanswered (`EarlySlaves`; see the hazards); `master_safety` has them earlier
too. The slave's two liveness properties excuse a slave that ended and the loss
of a host: a host that is lost after it was asked leaves the load waiting for
it. `ConfigAnswered` is about a request the slave took up; one that comes while
another is under way is dropped.

## 4. What the runs found

1. **A cycle that writes and then reads aborts the owner** (run
   `lock_read_after_write`). `eg::readlock` looks only at the `_read` bit, and
   `eg::writelock` sets only `_write`, so the client asks for a read lock on top
   of its own write lock, which the owner takes for a protocol error. Read, then
   write is handled as an upgrade.
2. **Two tests of one client can end the master** (run
   `master_double_completion`). A test that posted its completion is still
   active and takes the answer to the other test too; it completes twice, and
   the second completion is not found.
3. **The pending list can stall** (run `master_pending_stalls`). One pending
   activity is promoted for each completion; if that is a "test" command its
   tests go to the end of the pending list, and nothing active is left to
   complete. For the same reason "test", of which the help says that it drops
   inactive connections, may never do so: a client's loss leaves a load waiting
   for ever, a second load pends behind it, and everything after that pends
   behind the second load.
4. **A request asked during a reload of another program ends a slave or the
   master** (run `routing_reload`). A slave replaces its table when it begins the
   load, while its hosts are still in a cycle of the old program. Their requests
   carry indices of the old program's types, which the new table may map to the
   asker's own side. The code takes that for impossible and throws. With one
   program it is impossible, which is proved (`NobodyAborts`).

## 5. The proofs

### The lock

`SimulationLockProofs` proves, for every set of hosts and instances, every width
of the counters from 2 on, and loads that may or may not fail:

- `TypeCorrect`: `Spec => []TypeOK`, and `NeverReenters`: `Spec => NoReentry`, with
  no further assumption;
- under `~ReadAfterWrite` (the case of finding 1 violates it): `ProtocolInvariant`
  (`IInv`), `Exclusion`, `StandsStill`, `FetchedStable`, `NeverAborts`,
  `RepliesAreAnswers`, `FutureOnlyWaits`, and
- `AccessImplemented`: the lock implements `CycleAccess`.

**The argument.** None of the properties is inductive: exclusion on the clients'
side depends on what replies and unlocks are still on the way. `IInv` gives each
client a phase (`Protocol`): idle, asking, working, fetching or upgrading. A
phase says at once what is in the client's two channels, which entry it has in
the current table and which in the future one, and what its own bits are:
for instance a client that asks has its request on the way (perhaps behind the
write set and unlock of its last cycle), or waiting in the current table, or
waiting in the future table while its old entry is finished, or granted with
the reply on the way. To this `IInv` adds exclusion in the table
(`TableExclusion`), that entries only wait until the parked owner has started the
table (`StartedWhileParked`), and that the tables are well formed. The proof has
one lemma per action, which moves the acting client from phase to phase, and
lemmas that carry the phases of the others over. That a lock reply cannot be
overtaken by the owner's clock follows from `StartedWhileParked`: a granted
entry keeps the owner parked. The refinement then maps `cur.state` to the
granted access and `simPc`, `released` to the phase.

`NeverReenters` needs only types: no handler but the release of the table
touches an entry that is finished.

### The host map

`HostMapProofs` proves, for any clients, processes, names and programs in which a
host name is wanted once (`RemapAssumption`): `TypeCorrect`, `MapIsSound`,
`OnlyRightProcesses`, `NamesAreKept` and `AllHostsAreUsed`. None of the last three can be
seen from the last turn of a remap alone. The invariant is
`IInv == TypeOK /\ MappingSound /\ Remapping`, and `Remapping` says how far the loops
are: every enrolled client is either left or used, once (`Split`); a pair is used
exactly if its name is given, and to its process (`Given`); a pair whose client can
keep its name has it, or will find the client still there (`Kept`); and a pair
that the second loop left without a client finds none among those that are left
(`Exhausted`), for ever, since clients are only ever taken from them.

### The routing

`RoutingProofs` proves, for any slaves, hosts, names and programs and any ids that
are distinct at one socket: `TypeCorrect`, and `AnswersAreReturned`, through any number
of programs and loads, lost hosts and aborted slaves. Its invariant adds to
`TypeOK`, of every message, which ids it has collected on which link (`Way`), that
whoever it is delivered to lives (`Ends`), that its asker, if it lives, waits for
it (`Asked`), and that no two messages are one asker's.

`NobodyAborts`, `OwnersAreReached` and `RequestsAreKept` assume `OneProgram(p)`:
the same program is loaded again and again, and at a slave no id of a second
socket is also the id of a first one. The former excludes finding 4. The
invariant `Sound(p)` adds that all tables are those of `p` for some mapping of
names (`Tables`), that every message is where these tables send it (`Right`),
and that nobody has aborted.

Stops, programs without a database and hosts that fail to load are part of all of
this: what `OneProgram(p)` fixes is which tables there are when there are any.

`RequestsAreKept` (`RequestsKept`) adds two parts to `Sound(p)`. `Ready`: no table
names a host that has not started, and no such host is enrolled, so whoever a table
names is there or has ended (`OwnerOrEnded`). `Kept(p)`: of every host whose request
could be routed when it asked, and that is not `exposed`, there is a message that
still can go its way, with all tables on its way set (`Goes`). Every handler
consumes the message and must be seen to send another one, which is where a table
that is not set, or an id that nobody has, would lose it; and a table may be reset
only under hosts that become `exposed` by it (`Uses`).

### The master

`MasterProofs` proves, for any processes, names, commands and number of them,
any processes that may crash, and whether or not slaves come before the master's
first activity: `TypeCorrect`, `OrderKept` (`InOrder`), `AwaitedCanBeTold`
(`AwaitedIsBehind`), `LoadsMatch` (`LoadsAccounted`), `DoneWhenComplete`
(`CompleteMeansDone`), `OwnersKeepNames` (`NameOwned`) and `OneAnswer`
(`AnsweredOnce`). They hold of each other's help only: that a test is told to who
waits for it needs the order of activities, that an answer to a load is taken by
the right one needs that loads are exclusive, and both need that nothing
completes before it is done. All are parts or consequences of one invariant,
`IInv == TypeOK /\ Queued(master) /\ Served(master)`.

`Queued(m)` is about the queue:

| Part | Says | Needed for |
|---|---|---|
| `Line` | active, pending and posted activities, in this order, are in the order of their making | `InOrder`; that a parent is before its children |
| `Foremost` | the `EnrollActivity` is number 1 and the only one of its kind; before the constructor has run there is nothing else; who is in `m_testsMap` waits for an active `EnrollActivity` | that an enrollment is told of its test |
| `Fresh` | an activity that has not started waits for nothing | a load finds all its answers still to come |
| `Ends` | a completion is posted only of an activity that has started, is idle, and is not the `EnrollActivity` | `CompleteMeansDone` |
| `Awaits` | what is awaited is a test, made after who awaits it, and not complete; nobody else awaits it | `AwaitedIsBehind`; that a parent hears of its child |
| `Exclusion` | no two activities of one exclusive kind are active | one load to take an answer |

`Served(m)` is about the slaves: the master has nothing to do with one that has
not started (`Unknown`); a load is at most in one of the places request, work and
answer, and is then awaited by an active load, and if the slave lives the other
way round (`Loads`); an enrollment is in one place (`Enrolls`); and names go to those
that were told so (`Owners`).

Both are predicates of a state of the master, since one handler makes several
changes: `OnActivityComplete` tells a parent, which may answer an enrollment or
post its own completion, removes the activity and starts a pending one, which
may make tests or ask every slave. `Good(m)` (`m \in MasterState`, `Queued(m)` and
`Served(m)`) holds between these changes, with one lemma for each (`GoodComplete`,
`GoodTests`, `GoodVisit`, `GoodNotify` and so on); the handlers follow by composing them.
That a completion is posted twice (finding 2) does not disturb the invariant:
the second ends the master.

### The slave

`SlaveQueueProofs`, `SlaveProofs` and `SlaveNameProofs` prove, for any hosts,
processes, names and programs, any hosts that may crash or fail, and any number of
loads, configs and tests: `TypeCorrect`, `NeverPending` (`NothingPends`),
`LoadsAccounted` (`HostLoadsAccounted`), `NotTooEarly` (`AnsweredLast`),
`OneRunnerOfAName` (`OneRunner`), `HostsRunAsMapped` (`RunsAsMapped`) and
`LoadsImplemented` (`ImplementsLoads`: the slave implements `ProgramLoads`). The
invariant has three layers.

`IQueued` is about the slave's queue, as `Queued` is for the master: nothing pends
(`Line`); an activity's children are of one kind, of a host each, and have no other
parent, which stays active until the last one is complete (`Family`); a completion
is posted only of an activity that waits for nothing and is nobody's next stage
(`Ends`); a load, and a config, is in one of its stages at a time, test or hosts
(`Fronted`); and it is under way only if the master waits for its answer (`Asked`).
That the two exclusive kinds are never started twice, and so nothing ever pends,
is a consequence of the last two: the guards of `LoadRequest` and `ConfigRequest`
look at one field, and it must be seen that no activity outlives what it says.

`ILoaded` adds the hosts. A load of a host is in one place, an order on its way, the
host's `m_pLoadProgramJob`, or an answer on its way, and is then awaited by an active
`LoadHostProgramActivity` of this host, and if the host lives the other way round
(`Accounts`); a request for a buffer or its answer is on its way only while the
host's load waits for one (`Buffers`); the slave has nothing to do with a host that
has not started (`Absent`); and the jobs of a host are what its two activities say
(`Works`). So `HostBufferActivity` and the denials of a second load, which could
answer in place of another, never meet the wrong load. Most steps of the slave are
*calm*: they leave all of this as it is for every host (`Calm`); only the start of a
`LoadHostProgramActivity`, a host's answer and an answered request for a buffer are
not, and have lemmas of their own.

`INamed` adds the names (`AllNamed`). The map has only enrolled hosts and no host
twice (`Mapped`). Of each host whose process has not ended, `Named` says what it is
asked and what it runs. Whatever it is asked, in an activity that is about to start,
in an order on its way or in its job, is to run the program that loads under its
name in the map, or nothing if it has none (`Asks`). What it runs is a name that its
process may have in that program, and the map has it under this name, unless the
host has yet to do what it is asked and what it runs is of an older program; and as
long as the hosts load, one that is done runs the program, or nothing without a name
or after a failure (`Runs`). So a new map may contradict what hosts still run, as it
does when `HostMap` gives a name to another host, but only in programs that are not
loading: since a host that loads takes a name the map gives it alone, `OneRunner`
holds. It would not if the slave took the same program as two loads that overlap,
or a failed host were left in the map while it runs its old program: this is where
the proof needs that a failed load leaves nothing running, and that a host keeps its
name when the program it runs is loaded again (`Reuse`). `HostsRunAsMapped` is the
third part of `Runs` at the moment when no host is left to ask, whatever program was
active before.

`LoadsImplemented` is the refinement of `ProgramLoads`, step by step. In the
mapping the load under way is the one requested in the queue, or the one that is
loading, until the master is answered (`LoadUnderWay`), and a host runs nothing
once its process has ended (`Shown`). The request is `Request` (`LoadsAsked`); a
host that takes another part makes `Change`, and one that ends `End`
(`LoadsHostStep`); the enrollment is `Enroll`; the answer is `Reply`, a success
or not as the slave's `outcome` says; all else stutters, also the step that
moves the request from the queue to the field (`LoadsSlaveStep`). `Change` needs
that a load is under way while a host has one (`HostLoading`, from `Accounts`
and `Asked`), and that no other host runs the part (from `Named`); `Reply` needs
that every host has finished (`SpreadRuns`). One step could still break it: a
request that comes before the slave listens is lost, and no step of
`ProgramLoads` loses one. `Opening` excludes it: until the first activities are
active only hosts have posted anything, or the start of these activities is in
the queue before it.

**Only model-checked.** `LockGranted`, `OwnerResumes` and the other liveness
properties, since liveness under fairness is beyond the prover.

## 6. What is not modelled, and the plan

Next, in this order:

1. `LockNetwork`: several components that are owners and clients of each other,
   composed of the lock's handlers: the deadlock of two hosts that lock each
   other in mid-cycle, a host that ends while it holds a lock, and liveness when
   the lock order is acyclic.
2. `Master` composed with several of `Slave`: a slave that enrolls during a load,
   and config requests that overlap through all three levels.
3. `Routing` with `Slave`'s loads in full, with slaves that crash, and with the lock
   at the end of a request.
5. The build driver's stash: targets, hashes and what a change of a file makes
   stale. Environment strings as a function.

Not planned, and why:

- **Generated and vendored code.** `megastructure.pb.cc`, two copies of
  `megastructure.pb.h` and the xsde parsers and serializers under
  `src/schema/megaxml` are most of the repository's C++ lines. They are
  conversions without state; the messages appear here as records. What the
  models stand for is therefore a small share of all lines, though most of the
  lines of `src/component`, `src/core`, `src/master` and `src/slave`.
- **Generators and bindings** print text or wrap accessors; what the generated
  lock code does is modelled in `SimulationLock`.
- **Driver commands, project schema, host programs**: command lines, files, XML
  and rendering, which keep no protocol state. The driver's tasks run compilers
  under a scheduler that is not part of the repository.
- **Sockets and shared memory** of the operating system; of `Server::send` only
  success and a lost connection.
- **Contents**: of configs, buffers and of what components read and write.
