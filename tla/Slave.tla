------------------------------- MODULE Slave --------------------------------
(***************************************************************************)
(* A slave and its hosts (src/src/slave, src/src/component): hosts enroll  *)
(* on two sockets, the master asks for loads of programs and of configs,   *)
(* and the slave asks every host, all of it as activities of its event     *)
(* queue (ActivityQueue).                                                  *)
(*                                                                         *)
(* A host is an event queue as well, and a simulation thread that runs the *)
(* jobs the queue gives it.  It handles each message of the slave at once; *)
(* messages, jobs and the slave's handlers interleave.                     *)
(*                                                                         *)
(* A definition whose name ends in _Bug is a deliberate fault in the one   *)
(* after it, used by no specification.                                     *)
(***************************************************************************)
EXTENDS Activities, Remap

CONSTANTS
    ProgramNames, \* the programs the master may load
    WantedBy,     \* the pairs of process and host name of each
    Readable,     \* those whose project tree can be read
    Malformed,    \* readable, but a host name has not one project and one command
    ActiveAtMaster, \* what the master may have loaded when the slave enrolls
    Mortal,       \* the hosts that may crash
    MayFail,      \* the hosts whose jobs may fail
    GarbageIds,   \* may an eg client id that was never set match another
    MaxLoads,     \* bounds on what the master and the operator ask for
    MaxConfigs,
    MaxTests,
    MaxAsked      \* and on all of it together

NoName == ""
NoProgram == "" \* the program of the master's "stop"

ASSUME SlaveAssumption ==
    /\ NoProgram \notin ProgramNames /\ NoName \notin HostNames
    /\ WantedBy \in [ProgramNames -> Programs]
    /\ Readable \subseteq ProgramNames /\ Malformed \subseteq Readable
    /\ ActiveAtMaster \subseteq ProgramNames \cup {NoProgram}
    /\ Mortal \subseteq Clients /\ MayFail \subseteq Clients
    /\ GarbageIds \in BOOLEAN
    /\ MaxLoads \in Nat /\ MaxConfigs \in Nat /\ MaxTests \in Nat
    /\ MaxAsked \in Nat

Program == ProgramNames \cup {NoProgram}
Loadable == Readable \ Malformed
Config == {"loadConfig", "saveConfig"}

(***************************************************************************)
(* Activities, by their number in slave.acts.  Number 1 stands for those   *)
(* the constructor starts, which are in front of all others:               *)
(* HostEnrollActivity, LoadProgramActivity, HostBufferActivity and         *)
(* ConfigActivity, which stay active, are the ones that matter here, and   *)
(* MasterEnrollActivity, which ends with the enrollment: none of the       *)
(* others is told, and no activity pends that could start then.            *)
(***************************************************************************)
Permanent == 1

Activity ==
    {act \in [kind : {"front", "testHosts", "testHost", "loadHosts", "loadHost",
                      "hostsConfig", "hostConfig"},
              host : Clients \cup {NoClient}, name : HostNames \cup {NoName},
              program : Program, config : Config \cup {"none"},
              children : SUBSET Nat, success : BOOLEAN] :
        act.kind \in {"hostsConfig", "hostConfig"} => act.config # "none"}

NewActivity(kind) ==
    [kind |-> kind, host |-> NoClient, name |-> NoName, program |-> NoProgram,
     config |-> "none", children |-> {}, success |-> TRUE]

TestHost(h) == [NewActivity("testHost") EXCEPT !.host = h]
LoadHosts(p) == [NewActivity("loadHosts") EXCEPT !.program = p]
LoadHost(h, n, p) ==
    [NewActivity("loadHost") EXCEPT !.host = h, !.name = n, !.program = p]
HostsConfig(type) == [NewActivity("hostsConfig") EXCEPT !.config = type]
HostConfig(h, type) == [NewActivity("hostConfig") EXCEPT !.host = h, !.config = type]

\* What the slave sends a host; what the master and the hosts post to the slave.
Order ==
    [msg : {"enrolled", "egenrolled", "alive", "buffer"} \cup Config]
    \cup [msg : {"load"}, name : HostNames \cup {NoName}, program : Program]

ServerEvent(msg, p) == [type |-> "server", msg |-> msg, program |-> p]
ClientEvent(h, msg, ok) == [type |-> "client", from |-> h, msg |-> msg, success |-> ok]

Event ==
    [type : {"start", "complete"}, act : Nat]
    \cup [type : {"server"}, msg : {"load"} \cup Config, program : Program]
    \cup [type : {"client"}, from : Clients, success : BOOLEAN,
          msg : {"enroll", "enrolleg", "alive", "load", "buffer"} \cup Config]

VARIABLES
    slave, \* the slave's state, see SlaveState
    host,  \* each host's state, see HostState
    asked  \* how many loads, configs and tests were asked for

vars == <<slave, host, asked>>

\* process: how far the constructor is, or how the process ended; the queue;
\* m_hostMap with when a host enrolled and who enrolled on the eg socket too;
\* m_strActiveProgramName; LoadProgramActivity's m_currentlyLoadingProgramName,
\* m_pTestHosts and m_pLoadHosts, 0 for none; the same of ConfigActivity; the
\* messages on their way to each host; how many loads and configs were answered;
\* what it came to last: no answer of the master yet, enrolled (main waits for
\* m_masterEnrollPromise), and then how the last load was answered.
SlaveState ==
    [process : {"starting", "up", "unfound", "unknown", "malformed"},
     active : Seq(Nat), pending : Seq(Nat), posted : Seq(Event), acts : Seq(Activity),
     enrolled : SUBSET Clients, arrived : [Clients -> Nat], known : SUBSET Clients,
     mapping : Mapping, program : Program,
     loading : Program, loadTests : Nat, loadHosts : Nat,
     config : Config \cup {"none"}, configTests : Nat, configHosts : Nat,
     out : [Clients -> Seq(Order)], loadsAnswered : Nat, configsAnswered : Nat,
     outcome : {"none", "enrolled", "yes", "no"}]

Nothing == [name |-> NoName, program |-> NoProgram]

\* link: the process; workspace: whether setSlaveWorkspacePath was called; eg:
\* its message on the eg socket is on the way; runs: m_pProgram; load: the
\* m_pLoadProgramJob; config: the m_pConfigJob; jobs: m_jobs.
HostState ==
    LET What == [name : HostNames \cup {NoName}, program : Program]
        Stage == {"none", "queued", "buffer", "succeeded", "failed"}
    IN  [link : {"off", "up", "dead", "gone"}, workspace : BOOLEAN, eg : BOOLEAN,
         runs : What, load : [stage : Stage, what : What],
         config : [stage : Stage, type : Config \cup {"none"}], jobs : Seq({"load", "config"})]

TypeOK ==
    /\ slave \in SlaveState
    /\ host \in [Clients -> HostState]
    /\ asked \in [loads : 0 .. MaxLoads, configs : 0 .. MaxConfigs, tests : 0 .. MaxTests]

Init ==
    /\ slave = [process |-> "starting", active |-> << >>, pending |-> << >>,
                posted |-> << >>, acts |-> <<NewActivity("front")>>,
                enrolled |-> {}, arrived |-> [c \in Clients |-> 0], known |-> {},
                mapping |-> NoMapping, program |-> NoProgram,
                loading |-> NoProgram, loadTests |-> 0, loadHosts |-> 0,
                config |-> "none", configTests |-> 0, configHosts |-> 0,
                out |-> [c \in Clients |-> << >>],
                loadsAnswered |-> 0, configsAnswered |-> 0, outcome |-> "none"]
    /\ host = [c \in Clients |->
                 [link |-> "off", workspace |-> FALSE, eg |-> FALSE, runs |-> Nothing,
                  load |-> [stage |-> "none", what |-> Nothing],
                  config |-> [stage |-> "none", type |-> "none"], jobs |-> << >>]]
    /\ asked = [loads |-> 0, configs |-> 0, tests |-> 0]

-----------------------------------------------------------------------------
(***************************************************************************)
(* What the handlers are made of.                                          *)
(***************************************************************************)

\* Server::send returns false once the connection is known to be lost.
Sendable(h) == host[h].link # "gone"

Send(m, h, order) ==
    IF host[h].link = "up" THEN [m EXCEPT !.out[h] = Append(@, order)] ELSE m

\* The names of the host are set to no name.
RemoveClient_Bug(m, h) ==
    [m EXCEPT !.enrolled = @ \ {h}, !.known = @ \ {h},
              !.mapping = [n \in HostNames |-> IF @[n] = h THEN NoName ELSE @[n]]]

\* HostMap::removeClient.
RemoveClient(m, h) ==
    [m EXCEPT !.enrolled = @ \ {h}, !.known = @ \ {h},
              !.mapping = [n \in HostNames |-> IF @[n] = h THEN NoClient ELSE @[n]]]

\* Slave::sendHost.
SendHost(m, h, order) == IF Sendable(h) THEN Send(m, h, order) ELSE RemoveClient(m, h)

\* TestHostActivity, LoadHostProgramActivity and HostConfigActivity are complete
\* if their host cannot be asked.
AskHost(m, a, order) ==
    LET h == m.acts[a].host
    IN  IF Sendable(h) THEN Send(m, h, order) ELSE Complete(RemoveClient(m, h), a)

Orders(S) ==
    {s \in [1 .. Cardinality(S) -> S] : \A i, j \in DOMAIN s : s[i] = s[j] => i = j}

\* The orders in which the map may give the hosts in S: those of one process as
\* they enrolled; how the processes' names sort is left open.
Visits(S, m) ==
    {s \in Orders(S) :
        \A i, j \in DOMAIN s : i < j /\ ProcessOf[s[i]] = ProcessOf[s[j]] =>
            m.arrived[s[i]] < m.arrived[s[j]]}

\* It is not looked at whether there is none.
StartChildren_Bug(m, a, new) ==
    StartActivities([m EXCEPT !.acts[a].children = {Len(m.acts) + i : i \in DOMAIN new}], new)

\* An activity starts one for each of its hosts; complete if there is none.
StartChildren(m, a, new) ==
    IF new = << >> THEN Complete(m, a)
    ELSE StartActivities([m EXCEPT !.acts[a].children = {Len(m.acts) + i : i \in DOMAIN new}],
                         new)

\* What program p wants, and the constructor of HostMap for it.
Wanted(p) == IF p = NoProgram THEN << >> ELSE WantedBy[p]

Assign(r, w, k, arrived) ==
    IF k \in r.used \/ Candidates(r, w, k) = {} THEN r
    ELSE Use(r, w, k, Earliest(Candidates(r, w, k), arrived))

Reused(m, w) ==
    LET r[k \in 0 .. Len(w)] ==
            IF k = 0 THEN RemapStart(m.enrolled) ELSE Reuse(r[k - 1], w, k, m.mapping)
    IN  r[Len(w)]

Remapped(m, w) ==
    LET r[k \in 0 .. Len(w)] ==
            IF k = 0 THEN Reused(m, w) ELSE Assign(r[k - 1], w, k, m.arrived)
    IN  r[Len(w)]

-----------------------------------------------------------------------------
(***************************************************************************)
(* Activity::start.                                                        *)
(***************************************************************************)

\* TestHostsActivity::start and HostsConfigActivity::start.
StartTestHosts(m, a) ==
    {StartChildren(m, a, [i \in DOMAIN s |-> TestHost(s[i])]) : s \in Visits(m.enrolled, m)}

StartHostsConfig(m, a) ==
    {StartChildren(m, a, [i \in DOMAIN s |-> HostConfig(s[i], m.acts[a].config)]) :
        s \in Visits(m.enrolled, m)}

\* LoadHostsProgramActivity::start: a host name with no or several projects or
\* commands ends the process (VERIFY_RTE_MSG).  The hosts that are left without a
\* name unload, the others load, as their names sort, which is left open.
NameOf(c, mapping) == CHOOSE n \in HostNames : mapping[n] = c

UnloadAll(s) == [i \in DOMAIN s |-> LoadHost(s[i], NoName, NoProgram)]

LoadAll(s, mapping, p) == [i \in DOMAIN s |-> LoadHost(s[i], NameOf(s[i], mapping), p)]

LoadEach(m, a, r) ==
    {StartChildren([m EXCEPT !.mapping = r.new], a,
                   UnloadAll(s[1]) \o LoadAll(s[2], r.new, m.acts[a].program)) :
        s \in Visits(r.avail, m) \X Orders(m.enrolled \ r.avail)}

StartLoadHosts(m, a) ==
    IF m.acts[a].program \in ProgramNames \ Readable THEN {Complete(m, a)}
    ELSE IF m.acts[a].program \in Malformed THEN {[m EXCEPT !.process = "malformed"]}
    ELSE LoadEach(m, a, Remapped(m, Wanted(m.acts[a].program)))

Start(m, a) ==
    LET act == m.acts[a]
    IN  CASE act.kind = "testHosts" -> StartTestHosts(m, a)
          [] act.kind = "hostsConfig" -> StartHostsConfig(m, a)
          [] act.kind = "loadHosts" -> StartLoadHosts(m, a)
          [] act.kind = "testHost" -> {AskHost(m, a, [msg |-> "alive"])}
          [] act.kind = "hostConfig" -> {AskHost(m, a, [msg |-> act.config])}
          [] act.kind = "loadHost" ->
                 {AskHost(m, a, [msg |-> "load", name |-> act.name, program |-> act.program])}
          [] OTHER -> {m}

-----------------------------------------------------------------------------
(***************************************************************************)
(* Activity::serverMessage and clientMessage.                              *)
(***************************************************************************)

\* LoadProgramActivity: test the hosts first; m_pLoadHosts is started when the
\* test is complete.  A load of "" does not look as if anything was loading.
LoadRequest(m, p) ==
    IF m.loading # NoProgram THEN [m EXCEPT !.loadsAnswered = @ + 1, !.outcome = "no"]
    ELSE LET a == Len(m.acts) + 1
         IN  [StartActivities(m, <<NewActivity("testHosts")>>)
                 EXCEPT !.acts = Append(@, LoadHosts(p)),
                        !.loading = p, !.loadTests = a, !.loadHosts = a + 1]

\* ConfigActivity: as a load, but a request while there is one is dropped.
ConfigRequest(m, type) ==
    IF m.config # "none" THEN m
    ELSE LET a == Len(m.acts) + 1
         IN  [StartActivities(m, <<NewActivity("testHosts")>>)
                 EXCEPT !.acts = Append(@, HostsConfig(type)),
                        !.config = type, !.configTests = a, !.configHosts = a + 1]

\* HostEnrollActivity, on the hosts' first socket.
EnrollRequest(m, h) ==
    SendHost([m EXCEPT !.enrolled = @ \cup {h},
                       !.arrived[h] = 1 + Cardinality({c \in Clients : m.arrived[c] # 0})],
             h, [msg |-> "enrolled"])

\* HostEnrollActivity, on the eg socket.  Slave::enrolleg is always true, but a
\* host that is not enrolled any more is not found by its new id, so
\* getMegaClientForEGClient returns 0, which VERIFY_RTE takes for an error; unless
\* it comes upon an m_egClientID that was never set and happens to be the same.
EnrollEGRequest(m, h) ==
    LET met == [m EXCEPT !.known = @ \cup ({h} \cap m.enrolled)]
        unset == IF GarbageIds THEN met.enrolled \ met.known ELSE {}
    IN  {SendHost(met, c, [msg |-> "egenrolled"]) : c \in unset \cup ({h} \cap met.enrolled)}
        \cup (IF h \in met.enrolled THEN {} ELSE {[met EXCEPT !.process = "unknown"]})

\* HostBufferActivity.  The name and size of a buffer are left out.
BufferRequest(m, h) == SendHost(m, h, [msg |-> "buffer"])

\* TestHostActivity, LoadHostProgramActivity and HostConfigActivity: complete.  A
\* host that fails to load is removed.
HostAnswer(m, a, ok) ==
    LET act == m.acts[a]
        left == IF act.kind = "loadHost" /\ ~ok THEN RemoveClient(m, act.host) ELSE m
    IN  Complete([left EXCEPT !.acts[a].success = ok], a)

\* Whose answer it is is not looked at.
Handles_Bug(m, a, e) ==
    LET act == m.acts[a]
    IN  \/ act.kind = "testHost" /\ e.msg = "alive"
        \/ act.kind = "loadHost" /\ e.msg = "load"
        \/ act.kind = "hostConfig" /\ e.msg = act.config

Handles(m, a, e) ==
    LET act == m.acts[a]
    IN  /\ act.host = e.from
        /\ \/ act.kind = "testHost" /\ e.msg = "alive"
           \/ act.kind = "loadHost" /\ e.msg = "load"
           \/ act.kind = "hostConfig" /\ e.msg = act.config

-----------------------------------------------------------------------------
(***************************************************************************)
(* Activity::activityComplete, told to the activities before the one that  *)
(* is complete.                                                            *)
(***************************************************************************)

\* Complete with the first child.
ChildDone_Bug(m, p, a) ==
    Complete([m EXCEPT !.acts[p].children = {},
                       !.acts[p].success = @ /\ m.acts[a].success], p)

\* TestHostsActivity, LoadHostsProgramActivity, HostsConfigActivity: complete with
\* the last child, which may have failed.
ChildDone(m, p, a) ==
    LET left == m.acts[p].children \ {a}
        erased == [m EXCEPT !.acts[p].children = left,
                            !.acts[p].success = @ /\ m.acts[a].success]
    IN  IF left = {} THEN Complete(erased, p) ELSE erased

PostStart(m, a) == Post(m, <<StartEvent(a)>>)

\* LoadProgramActivity answers when it begins to ask the hosts.
LoadStep_Bug(m, a) ==
    IF a = m.loadTests
    THEN [PostStart(m, m.loadHosts) EXCEPT !.loadsAnswered = @ + 1, !.loading = NoProgram,
                                           !.outcome = "yes"]
    ELSE m

\* LoadProgramActivity: after the test the load, after the load the answer.
LoadStep(m, a) ==
    IF a = m.loadTests THEN PostStart(m, m.loadHosts)
    ELSE [m EXCEPT !.loadsAnswered = @ + 1, !.loading = NoProgram,
                   !.program = IF m.acts[a].success THEN m.loading ELSE @,
                   !.outcome = IF m.acts[a].success THEN "yes" ELSE "no"]

\* m_activityType is not reset.
ConfigStep_Bug(m, a) ==
    IF a = m.configTests THEN PostStart(m, m.configHosts)
    ELSE [m EXCEPT !.configsAnswered = @ + 1]

\* ConfigActivity.
ConfigStep(m, a) ==
    IF a = m.configTests THEN PostStart(m, m.configHosts)
    ELSE [m EXCEPT !.configsAnswered = @ + 1, !.config = "none"]

Notify(m, a) ==
    LET parents == {p \in Told(m, a) : a \in m.acts[p].children}
        fronted == IF Permanent \notin Told(m, a) THEN m
                   ELSE IF a \in {m.loadTests, m.loadHosts} THEN LoadStep(m, a)
                   ELSE IF a \in {m.configTests, m.configHosts} THEN ConfigStep(m, a)
                   ELSE m
    IN  IF parents = {} THEN fronted ELSE ChildDone(fronted, CHOOSE p \in parents : TRUE, a)

-----------------------------------------------------------------------------
(***************************************************************************)
(* The queue thread of the slave.                                          *)
(***************************************************************************)
AQ == INSTANCE ActivityQueue
          WITH Exclusive <- {"loadHosts", "hostsConfig"}, Start <- Start, Notify <- Notify

Running == slave.process \in {"starting", "up"}

NextHandler(type) ==
    /\ Running
    /\ slave.posted # << >>
    /\ Head(slave.posted).type = type

Taken == [slave EXCEPT !.posted = Tail(@)]

OnStartActivity ==
    /\ NextHandler("start")
    /\ slave' \in AQ!Starts(Taken, Head(slave.posted).act)
    /\ UNCHANGED <<host, asked>>

\* The first activities come with the constructor; before, nobody listens.
OnServerMessage ==
    /\ NextHandler("server")
    /\ LET e == Head(slave.posted)
       IN  slave' = CASE Permanent \notin ToSet(slave.active) -> Taken
                      [] Permanent \in ToSet(slave.active) /\ e.msg = "load" ->
                             LoadRequest(Taken, e.program)
                      [] Permanent \in ToSet(slave.active) /\ e.msg \in Config ->
                             ConfigRequest(Taken, e.msg)
    /\ UNCHANGED <<host, asked>>

OnClientMessage ==
    /\ NextHandler("client")
    /\ LET e == Head(slave.posted)
           takers == {i \in DOMAIN slave.active : Handles(slave, slave.active[i], e)}
           first == slave.active[CHOOSE i \in takers : \A j \in takers : i <= j]
       IN  slave' \in
               IF Permanent \notin ToSet(slave.active) THEN {Taken}
               ELSE CASE e.msg = "enroll" -> {EnrollRequest(Taken, e.from)}
                      [] e.msg = "enrolleg" -> EnrollEGRequest(Taken, e.from)
                      [] e.msg = "buffer" -> {BufferRequest(Taken, e.from)}
                      [] e.msg \in {"alive", "load"} \cup Config ->
                             {IF takers = {} THEN Taken ELSE HostAnswer(Taken, first, e.success)}
    /\ UNCHANGED <<host, asked>>

\* VERIFY_RTE_MSG( bFound, "Failed to find activity" ) ends the process.
OnActivityComplete ==
    /\ NextHandler("complete")
    /\ LET a == Head(slave.posted).act
       IN  slave' \in IF a \in ToSet(slave.active) THEN AQ!Completed(Taken, a)
                      ELSE {[Taken EXCEPT !.process = "unfound"]}
    /\ UNCHANGED <<host, asked>>

-----------------------------------------------------------------------------
(***************************************************************************)
(* The slave's main thread: the constructor, and the "test" command; and   *)
(* the master, which has one load under way at most (Master.LoadsAccounted)*)
(* but may ask for a config at any time.  The slave asked for enrollment   *)
(* with its first start handler, and the master answers once               *)
(* (Master.AnsweredOnce), on the connection that its orders then come on.  *)
(***************************************************************************)
StartSlave ==
    /\ slave.process = "starting"
    /\ slave' = PostStart([slave EXCEPT !.process = "up"], Permanent)
    /\ UNCHANGED <<host, asked>>

AskedLess == asked.loads + asked.configs + asked.tests < MaxAsked

\* MasterEnrollActivity::serverMessage.  No handler that is posted meanwhile reads
\* what this one writes, so the answer has no place among them.  Main returns if it
\* is a denial: such a slave does nothing.
OnEnrollment(p) ==
    /\ slave.process = "up"
    /\ Permanent \in ToSet(slave.active)
    /\ slave.outcome = "none"
    /\ slave' = [slave EXCEPT !.outcome = "enrolled", !.program = p]
    /\ UNCHANGED <<host, asked>>

Enrolled == slave.process = "up" /\ slave.outcome # "none"

Test ==
    /\ Enrolled
    /\ AskedLess
    /\ asked.tests < MaxTests
    /\ slave' = StartActivities(slave, <<NewActivity("testHosts")>>)
    /\ asked' = [asked EXCEPT !.tests = @ + 1]
    /\ UNCHANGED host

AskLoad(p) ==
    /\ Enrolled
    /\ AskedLess
    /\ asked.loads < MaxLoads
    /\ asked.loads = slave.loadsAnswered
    /\ slave' = Post(slave, <<ServerEvent("load", p)>>)
    /\ asked' = [asked EXCEPT !.loads = @ + 1]
    /\ UNCHANGED host

AskConfig(type) ==
    /\ Enrolled
    /\ AskedLess
    /\ asked.configs < MaxConfigs
    /\ slave' = Post(slave, <<ServerEvent(type, NoProgram)>>)
    /\ asked' = [asked EXCEPT !.configs = @ + 1]
    /\ UNCHANGED host

-----------------------------------------------------------------------------
(***************************************************************************)
(* The hosts: the queue thread.                                            *)
(***************************************************************************)
Receive(h, msg) ==
    /\ Running
    /\ host[h].link = "up"
    /\ slave.out[h] # << >>
    /\ Head(slave.out[h]).msg = msg

Read(h) == [slave EXCEPT !.out[h] = Tail(@)]

\* What host h reads and answers.
Answered(h, msg, ok) == Post(Read(h), <<ClientEvent(h, msg, ok)>>)

\* EnrollHostActivity::start.
StartHost(h) ==
    /\ Running
    /\ host[h].link = "off"
    /\ host' = [host EXCEPT ![h].link = "up"]
    /\ slave' = Post(slave, <<ClientEvent(h, "enroll", TRUE)>>)
    /\ UNCHANGED asked

\* EnrollHostActivity::serverMessage: on to the eg socket.
ReceiveEnrolled(h) ==
    /\ Receive(h, "enrolled")
    /\ host' = [host EXCEPT ![h].eg = TRUE]
    /\ slave' = Read(h)
    /\ UNCHANGED asked

\* The eg socket's message arrives, whatever the other socket does.
ArriveEG(h) ==
    /\ Running
    /\ host[h].link = "up"
    /\ host[h].eg
    /\ host' = [host EXCEPT ![h].eg = FALSE]
    /\ slave' = Post(slave, <<ClientEvent(h, "enrolleg", TRUE)>>)
    /\ UNCHANGED asked

\* EnrollHostActivity::serverMessage.
ReceiveEGEnrolled(h) ==
    /\ Receive(h, "egenrolled")
    /\ host' = [host EXCEPT ![h].workspace = TRUE]
    /\ slave' = Read(h)
    /\ UNCHANGED asked

\* AliveTestActivity::serverMessage.
ReceiveAlive(h) ==
    /\ Receive(h, "alive")
    /\ slave' = Answered(h, "alive", TRUE)
    /\ UNCHANGED <<host, asked>>

\* LoadProgramActivity::serverMessage: a second load is denied.
ReceiveLoad(h) ==
    /\ Receive(h, "load")
    /\ LET order == Head(slave.out[h])
           what == [name |-> order.name, program |-> order.program]
       IN  IF host[h].load.stage # "none"
           THEN slave' = Answered(h, "load", FALSE) /\ UNCHANGED host
           ELSE /\ slave' = Read(h)
                /\ host' = [host EXCEPT ![h].load = [stage |-> "queued", what |-> what],
                                        ![h].jobs = Append(@, "load")]
    /\ UNCHANGED asked

\* ConfigActivity::serverMessage: a second config is denied.
ReceiveConfig(h, type) ==
    /\ Receive(h, type)
    /\ IF host[h].config.stage # "none"
       THEN slave' = Answered(h, type, FALSE) /\ UNCHANGED host
       ELSE /\ slave' = Read(h)
            /\ host' = [host EXCEPT ![h].config = [stage |-> "queued", type |-> type],
                                    ![h].jobs = Append(@, "config")]
    /\ UNCHANGED asked

\* LoadProgramActivity::jobComplete.
LoadJobComplete(h) ==
    /\ Running
    /\ host[h].link = "up"
    /\ host[h].load.stage \in {"succeeded", "failed"}
    /\ slave' = Post(slave, <<ClientEvent(h, "load", host[h].load.stage = "succeeded")>>)
    /\ host' = [host EXCEPT ![h].load = [stage |-> "none", what |-> Nothing]]
    /\ UNCHANGED asked

\* ConfigActivity::jobComplete.
ConfigJobComplete(h) ==
    /\ Running
    /\ host[h].link = "up"
    /\ host[h].config.stage \in {"succeeded", "failed"}
    /\ slave' = Post(slave, <<ClientEvent(h, host[h].config.type,
                                          host[h].config.stage = "succeeded")>>)
    /\ host' = [host EXCEPT ![h].config = [stage |-> "none", type |-> "none"]]
    /\ UNCHANGED asked

-----------------------------------------------------------------------------
(***************************************************************************)
(* The hosts: the simulation thread, which runs the jobs one by one.       *)
(***************************************************************************)
NextJob(h, job) ==
    /\ Running
    /\ host[h].link = "up"
    /\ host[h].jobs # << >>
    /\ Head(host[h].jobs) = job

\* The program is set, whether or not it failed.
Loaded_Bug(h, ok) ==
    [host EXCEPT ![h].runs = host[h].load.what,
                 ![h].load.stage = IF ok THEN "succeeded" ELSE "failed",
                 ![h].jobs = Tail(@)]

\* LoadProgramJob::run ends: setProgram, and jobComplete is posted.
Loaded(h, ok) ==
    [host EXCEPT ![h].runs = IF ok THEN host[h].load.what ELSE Nothing,
                 ![h].load.stage = IF ok THEN "succeeded" ELSE "failed",
                 ![h].jobs = Tail(@)]

\* LoadProgramJob::run: a program is found in the workspace, if that is known,
\* and may ask the slave for a buffer as it is initialised.
RunLoadJob(h) ==
    /\ NextJob(h, "load")
    /\ host[h].load.stage = "queued"
    /\ \/ /\ host[h].load.what = Nothing
          /\ host' = Loaded(h, TRUE)
          /\ UNCHANGED slave
       \/ /\ host[h].load.what # Nothing
          /\ ~host[h].workspace \/ h \in MayFail
          /\ host' = Loaded(h, FALSE)
          /\ UNCHANGED slave
       \/ /\ host[h].load.what # Nothing
          /\ host[h].workspace
          /\ \/ host' = Loaded(h, TRUE) /\ UNCHANGED slave
             \/ /\ host' = [host EXCEPT ![h].load.stage = "buffer"]
                /\ slave' = Post(slave, <<ClientEvent(h, "buffer", TRUE)>>)
    /\ UNCHANGED asked

\* BufferActivity::serverMessage, which the simulation thread waits for; what comes
\* after it (Program's constructor) may fail.
ReceiveBuffer(h) ==
    /\ Receive(h, "buffer")
    /\ \E ok \in IF h \in MayFail THEN BOOLEAN ELSE {TRUE} : host' = Loaded(h, ok)
    /\ slave' = Read(h)
    /\ UNCHANGED asked

\* ConfigJob::run.
RunConfigJob(h) ==
    /\ NextJob(h, "config")
    /\ \E ok \in IF h \in MayFail THEN BOOLEAN ELSE {TRUE} :
          host' = [host EXCEPT ![h].config.stage = IF ok THEN "succeeded" ELSE "failed",
                               ![h].jobs = Tail(@)]
    /\ UNCHANGED <<slave, asked>>

\* A host's process ends; later the slave's socket notices.
Crash(h) ==
    /\ Running
    /\ h \in Mortal
    /\ host[h].link = "up"
    /\ host' = [host EXCEPT ![h].link = "dead"]
    /\ slave' = [slave EXCEPT !.out[h] = << >>]
    /\ UNCHANGED asked

Detect(h) ==
    /\ Running
    /\ host[h].link = "dead"
    /\ host' = [host EXCEPT ![h].link = "gone"]
    /\ UNCHANGED <<slave, asked>>

-----------------------------------------------------------------------------
Queue == OnStartActivity \/ OnServerMessage \/ OnClientMessage \/ OnActivityComplete

HostQueue(h) ==
    \/ ReceiveEnrolled(h) \/ ReceiveEGEnrolled(h) \/ ReceiveAlive(h) \/ ReceiveLoad(h)
    \/ \E type \in Config : ReceiveConfig(h, type)
    \/ ReceiveBuffer(h) \/ LoadJobComplete(h) \/ ConfigJobComplete(h)

SimThread(h) == RunLoadJob(h) \/ RunConfigJob(h)

Next ==
    \/ Queue \/ StartSlave \/ Test
    \/ \E p \in ActiveAtMaster : OnEnrollment(p)
    \/ \E p \in Program : AskLoad(p)
    \/ \E type \in Config : AskConfig(type)
    \/ \E h \in Clients :
          \/ StartHost(h) \/ HostQueue(h) \/ ArriveEG(h) \/ SimThread(h)
          \/ Crash(h) \/ Detect(h)

Spec == Init /\ [][Next]_vars

\* Fairness: both threads of a host and those of the slave run what they have,
\* messages arrive, a lost connection is noticed.
Fairness ==
    /\ WF_vars(Queue \/ StartSlave)
    /\ \A h \in Clients : /\ WF_vars(HostQueue(h)) /\ WF_vars(SimThread(h))
                          /\ WF_vars(ArriveEG(h)) /\ WF_vars(Detect(h))

FairSpec == Spec /\ Fairness

-----------------------------------------------------------------------------
(***************************************************************************)
(* What the slave promises.                                                *)
(***************************************************************************)

\* No two hosts run one host name of one program (HostMap's reuse of names, and
\* that a load waits for the hosts that unload).
OneRunner ==
    \A g, h \in Clients :
        /\ host[g].link = "up" /\ host[h].link = "up"
        /\ host[g].runs = host[h].runs /\ host[g].runs # Nothing
        => g = h

LoadSucceeds == slave'.loadsAnswered # slave.loadsAnswered /\ slave'.outcome = "yes"

\* "Active program is now" (LoadProgramActivity::activityComplete): whenever the
\* slave answers that a program whose names it could read is loaded, the one that
\* was active already or "" among them, each of its hosts runs it under the name it
\* has in the map, and a host without a name, removed or not, nothing.
RunsAsMapped ==
    [][LoadSucceeds /\ slave'.program \in Loadable \cup {NoProgram} =>
         \A h \in Clients : host[h].link = "up" =>
             host[h].runs \in
                 {[name |-> n, program |-> slave'.program] :
                      n \in {n \in HostNames : slave'.mapping[n] = h}}
                 \cup (IF \E n \in HostNames : slave'.mapping[n] = h THEN {} ELSE {Nothing})]_vars

\* Requests to load, and answers to one, on their way between slave and host.
LoadsUnderWay(h) ==
    {<<"out", i>> : i \in {j \in DOMAIN slave.out[h] : slave.out[h][j].msg = "load"}}
    \cup {<<"job", 0>> : g \in {c \in Clients : c = h /\ host[c].load.stage # "none"}}
    \cup {<<"posted", i>> : i \in {j \in DOMAIN slave.posted :
             slave.posted[j].type = "client" /\ slave.posted[j].from = h
             /\ slave.posted[j].msg = "load"}}

Awaiting(h) ==
    {a \in ToSet(slave.active) : slave.acts[a].kind = "loadHost" /\ slave.acts[a].host = h
                                 /\ CompleteEvent(a) \notin ToSet(slave.posted)}

\* An answer to a load names neither the program nor the request.  It is taken for
\* the right one: a host works on one load at most, and it is the load that the
\* active LoadHostProgramActivity of this host waits for, so none is denied either.
HostLoadsAccounted ==
    \A h \in Clients :
        /\ Cardinality(Awaiting(h)) <= 1
        /\ host[h].link = "up" => Cardinality(LoadsUnderWay(h)) = Cardinality(Awaiting(h))

\* While nothing is asked of the slave no host still loads: the master is not
\* answered too early.
AnsweredLast ==
    asked.loads = slave.loadsAnswered =>
        \A h \in Clients : host[h].link = "up" => LoadsUnderWay(h) = {}

\* No activity of a slave ever pends, since the two exclusive kinds are never
\* started twice; so the stall of a queue with pending activities stays away.
NothingPends == slave.pending = << >>

\* The program of the load under way, if there is one: still in the queue, or taken up.
LoadUnderWay ==
    LET requests == {p \in Program : ServerEvent("load", p) \in ToSet(slave.posted)}
    IN  IF asked.loads = slave.loadsAnswered THEN {}
        ELSE IF requests # {} THEN requests ELSE {slave.loading}

Loads == INSTANCE ProgramLoads
             WITH Hosts <- Clients, Names <- HostNames, Programs <- Program,
                  Unloaded <- NoProgram, Readable <- Loadable,
                  loading <- LoadUnderWay, active <- slave.program,
                  outcome <- slave.outcome,
                  runs <- [h \in Clients |-> IF host[h].link = "up" THEN host[h].runs
                                            ELSE Nothing]

\* The tests, loads and jobs implement ProgramLoads: hosts change what they run only
\* between a request and its one answer, never to a part that another host runs;
\* the active program changes with the enrollment and with a success only, which is
\* never answered while some host still runs another program (MasterEnrollActivity,
\* LoadProgramActivity and LoadHostsProgramActivity of the slave).
ImplementsLoads == Loads!Spec

NoneLost == \A h \in Clients : host[h].link \in {"off", "up"}

\* A load is answered, unless the slave ended or lost a host.
LoadAnswered ==
    asked.loads # slave.loadsAnswered ~>
        asked.loads = slave.loadsAnswered \/ ~Running \/ ~NoneLost

\* A config that the slave took up is answered, unless the slave ended or lost a
\* host.
ConfigAnswered == slave.config # "none" ~> slave.config = "none" \/ ~Running \/ ~NoneLost

=============================================================================
