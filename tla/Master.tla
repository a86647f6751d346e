------------------------------- MODULE Master -------------------------------
(***************************************************************************)
(* The master: slaves enroll with it under a name, it tests whether they   *)
(* are alive and has them load programs (src/src/master), all of it as     *)
(* activities of its event queue (src/src/core/queue.cpp).                 *)
(*                                                                         *)
(* The queue thread runs the posted handlers one at a time, in the order   *)
(* they were posted: start an activity, give the active ones a client's    *)
(* message, complete an activity.  An activity that is done only POSTS its *)
(* completion, and stays active until that is handled.  Slaves, operator   *)
(* commands and crashes of slaves interleave with the handlers.            *)
(*                                                                         *)
(* The master's own state is the record `master`, which a handler maps to  *)
(* its next value.  Of a program load only the request to every slave and  *)
(* the answers are kept.                                                   *)
(*                                                                         *)
(* A definition whose name ends in _Bug is a deliberate fault in the one   *)
(* after it, used by no specification.                                     *)
(***************************************************************************)
EXTENDS Activities

CONSTANTS
    Conns,       \* the connections slave processes make, one for each process
    NumNames,    \* the slave names are 1 .. NumNames, in the order of the map
    NameOf,      \* the name each process enrolls under
    Mortal,      \* the processes that may crash
    Commands,    \* the commands the operator gives
    MaxCommands, \* bound on how many of them
    EarlySlaves  \* may a slave's message come before the first activities

Names == 1 .. NumNames

ASSUME NamesAssumption == NumNames \in Nat \ {0} /\ NameOf \in [Conns -> Names]

ASSUME BoundAssumption == /\ Mortal \subseteq Conns
                          /\ Commands \subseteq {"tests", "list", "start", "stop",
                                             "loadConfig", "saveConfig"}
                          /\ MaxCommands \in Nat
                          /\ EarlySlaves \in BOOLEAN

None == "none"

ASSUME NoneAssumption == None \notin Conns

(***************************************************************************)
(* Activities.  An activity is known by its number in the sequence of all  *)
(* activities ever made; number 1 is the EnrollActivity.  client: whom a   *)
(* TestClientActivity asks; alive: its m_bSuccess; children: the tests a   *)
(* TestClientsActivity waits for; waiting: the clients that a LoadProgram, *)
(* LoadConfig or SaveConfig waits for; named: whether the program to load  *)
(* has a name, "" unloads.                                                 *)
(***************************************************************************)
Activity ==
    [kind : {"test"}, client : Conns, named : {FALSE},
     alive : BOOLEAN, children : {{}}, waiting : {{}}]
    \cup [kind : {"enroll", "tests", "list", "load", "loadConfig", "saveConfig"},
          client : {None}, named : BOOLEAN,
          alive : {FALSE}, children : SUBSET Nat, waiting : SUBSET Conns]

NewActivity(kind, c) ==
    [kind |-> kind, client |-> c, named |-> FALSE, alive |-> FALSE,
     children |-> {}, waiting |-> {}]

Enroll == 1

\* The activity of a command of main.cpp.
CommandActivity(command) ==
    CASE command = "start" -> [NewActivity("load", None) EXCEPT !.named = TRUE]
      [] command = "stop" -> NewActivity("load", None)
      [] OTHER -> NewActivity(command, None)

Asking == {"load", "loadConfig", "saveConfig"}

\* What the master sends a slave, and a slave the master.
Order == {"enrolled", "denied", "alive", "load", "loadConfig", "saveConfig"}
Answer == {"enroll", "alive", "load", "config"}

MessageEvent(c, msg) == [type |-> "message", from |-> c, msg |-> msg]

Event == [type : {"start", "complete"}, act : Nat]
         \cup [type : {"message"}, from : Conns, msg : Answer]

VARIABLES
    master,  \* the master's state, see MasterState
    link,    \* each slave process: "off", "up", "dead" and not noticed, "gone"
    loading, \* the slaves at work on a program load
    config,  \* m_activityType of each slave's ConfigActivity
    told     \* what each slave knows of its enrollment

vars == <<master, link, loading, config, told>>

\* process: the constructor is running, has run, or how the process ended;
\* m_active, m_pending and the posted handlers; all activities; m_clients; whether
\* m_strActiveProgramName has a name; the m_testsMap of the EnrollActivity, as pairs of a test and who waits for it;
\* the messages on their way to each slave; how many commands were given.
MasterState ==
    [process : {"starting", "up", "unfound", "undefined"},
     active : Seq(Nat), pending : Seq(Nat), posted : Seq(Event), acts : Seq(Activity),
     clients : [Names -> Conns \cup {None}], program : BOOLEAN,
     testsMap : SUBSET (Nat \X Conns),
     out : [Conns -> Seq(Order)], commands : 0 .. MaxCommands]

TypeOK ==
    /\ master \in MasterState
    /\ link \in [Conns -> {"off", "up", "dead", "gone"}]
    /\ loading \in SUBSET Conns
    /\ config \in [Conns -> {"none", "loadConfig", "saveConfig"}]
    /\ told \in [Conns -> {"nothing", "enrolled", "denied"}]

Init ==
    /\ master = [process |-> "starting", active |-> << >>, pending |-> << >>,
                 posted |-> << >>, acts |-> <<NewActivity("enroll", None)>>,
                 clients |-> [n \in Names |-> None], program |-> FALSE, testsMap |-> {},
                 out |-> [c \in Conns |-> << >>], commands |-> 0]
    /\ link = [c \in Conns |-> "off"]
    /\ loading = {}
    /\ config = [c \in Conns |-> "none"]
    /\ told = [c \in Conns |-> "nothing"]

-----------------------------------------------------------------------------
(***************************************************************************)
(* What the handlers are made of.                                          *)
(***************************************************************************)
\* Server::send returns false once the connection is known to be lost; before
\* that it succeeds, whether or not the process lives to read the message.
Sendable(c) == link[c] # "gone"

Send(m, S, msg) ==
    [m EXCEPT !.out = [c \in Conns |-> IF c \in S /\ link[c] = "up"
                                       THEN Append(@[c], msg) ELSE @[c]]]

\* ClientMap::removeClient.
RemoveClients(m, S) ==
    [m EXCEPT !.clients = [n \in Names |-> IF @[n] \in S THEN None ELSE @[n]]]

SendOrRemove(m, c, msg) ==
    IF Sendable(c) THEN Send(m, {c}, msg) ELSE RemoveClients(m, {c})

\* ClientMap::enroll overwrites the entry.
EnrollAs_Bug(m, n, c) ==
    SendOrRemove([m EXCEPT !.clients[n] = c], c, "enrolled")

\* ClientMap::enroll, when the name is free, and the answer.
EnrollAs(m, n, c) ==
    IF m.clients[n] = None
    THEN SendOrRemove([m EXCEPT !.clients[n] = c], c, "enrolled")
    ELSE SendOrRemove(m, c, "denied")

-----------------------------------------------------------------------------
(***************************************************************************)
(* Activity::start, for every kind of activity: the possible next states.  *)
(***************************************************************************)

\* TestClientActivity::start.
StartTest(m, a) ==
    LET c == m.acts[a].client
    IN  IF Sendable(c) THEN Send(m, {c}, "alive")
        ELSE Complete(RemoveClients(m, {c}), a)

Registered(m) == {n \in Names : m.clients[n] # None}

\* The registered names in the map's order; there is one such sequence.
MapOrder(m) == {s \in [1 .. Cardinality(Registered(m)) -> Registered(m)] : Increasing(s)}

\* TestClientsActivity::start: a test for every client, in the map's order.
StartTests(m, a) ==
    LET Tests(s) == [i \in 1 .. Len(s) |-> NewActivity("test", m.clients[s[i]])]
        children == {Len(m.acts) + i : i \in 1 .. Cardinality(Registered(m))}
    IN  IF Registered(m) = {} THEN {Complete(m, a)}
        ELSE {StartActivities([m EXCEPT !.acts[a].children = children], Tests(s)) :
                 s \in MapOrder(m)}

\* LoadProgram::start, LoadConfig::start and SaveConfig::start visit the clients
\* in the map's order; no config is asked for without a program.  removeClient in
\* the loop erases the element the loop stands on: from the first client that
\* cannot be reached on behaviour is undefined.  The process ends, or the loop
\* goes on with the clients up to `last`.
StartAsking(m, a) ==
    LET lost == {n \in Registered(m) : ~Sendable(m.clients[n])}
        Visit(last) ==
            LET visited == {m.clients[n] : n \in 1 .. last} \ {None}
                reached == {c \in visited : Sendable(c)}
            IN  RemoveClients(Send([m EXCEPT !.acts[a].waiting = reached], reached, m.acts[a].kind),
                              visited \ reached)
    IN  IF Registered(m) = {} \/ (m.acts[a].kind # "load" /\ ~m.program)
        THEN {Complete(m, a)}
        ELSE IF lost = {} THEN {Visit(NumNames)}
        ELSE {[m EXCEPT !.process = "undefined"]}
             \cup {Visit(last) : last \in {n \in Names : \E l \in lost : l <= n}}

Start(m, a) ==
    CASE m.acts[a].kind = "test" -> {StartTest(m, a)}
      [] m.acts[a].kind = "tests" -> StartTests(m, a)
      [] m.acts[a].kind \in Asking -> StartAsking(m, a)
      [] m.acts[a].kind = "list" -> {Complete(m, a)}
      [] OTHER -> {m}

-----------------------------------------------------------------------------
(***************************************************************************)
(* Activity::clientMessage.  The reply of a slave carries no request: any  *)
(* activity that waits for one from this client takes it.                  *)
(***************************************************************************)
Handles(m, a, c, msg) ==
    \/ msg = "enroll" /\ m.acts[a].kind = "enroll"
    \/ msg = "alive" /\ m.acts[a].kind = "test" /\ m.acts[a].client = c
    \/ msg = "load" /\ m.acts[a].kind = "load"
    \/ msg = "config" /\ m.acts[a].kind \in {"loadConfig", "saveConfig"}

\* Whether the name is taken is not looked at first.
EnrollRequest_Bug(m, c) ==
    StartActivities([m EXCEPT !.testsMap = @ \cup {<<Len(m.acts) + 1, c>>}],
                    <<NewActivity("test", m.clients[NameOf[c]])>>)

\* EnrollActivity: if the name is taken, test the client that has it, and answer
\* when the test is complete.
EnrollRequest(m, c) ==
    LET existing == m.clients[NameOf[c]]
    IN  IF existing = None THEN EnrollAs(m, NameOf[c], c)
        ELSE StartActivities([m EXCEPT !.testsMap = @ \cup {<<Len(m.acts) + 1, c>>}],
                             <<NewActivity("test", existing)>>)

\* TestClientActivity.  The master asks a client by the name it enrolled under,
\* so AliveTestActivity always answers that it is alive.
AliveAnswer(m, a) == Complete([m EXCEPT !.acts[a].alive = TRUE], a)

\* LoadProgram is complete at the first answer.
AskedAnswer_Bug(m, a, c) == {Complete([m EXCEPT !.acts[a].waiting = @ \ {c}], a)}

\* LoadProgram, LoadConfig and SaveConfig: complete with the last answer,
\* failures included.  Before that LoadProgram makes its program the active one,
\* whoever failed, unless the project tree cannot be read.
AskedAnswer(m, a, c) ==
    LET left == m.acts[a].waiting \ {c}
        answered == [m EXCEPT !.acts[a].waiting = left]
    IN  IF left # {} THEN {answered}
        ELSE {Complete([answered EXCEPT !.program = p], a) :
                  p \in IF m.acts[a].kind = "load" THEN {m.program, m.acts[a].named}
                        ELSE {m.program}}

-----------------------------------------------------------------------------
(***************************************************************************)
(* Activity::activityComplete, told to the activities before the one that  *)
(* is complete.                                                            *)
(***************************************************************************)

\* A client that is not let in is not told.
EnrollTested_SilentBug(m, a) ==
    LET pair == CHOOSE p \in m.testsMap : p[1] = a
        erased == [m EXCEPT !.testsMap = @ \ {pair}]
    IN  IF m.acts[a].alive THEN erased
        ELSE EnrollAs(erased, NameOf[m.acts[a].client], pair[2])

\* The pair stays in m_testsMap.
EnrollTested_KeepBug(m, a) ==
    LET pair == CHOOSE p \in m.testsMap : p[1] = a
    IN  IF m.acts[a].alive THEN SendOrRemove(m, pair[2], "denied")
        ELSE EnrollAs(m, NameOf[m.acts[a].client], pair[2])

\* EnrollActivity: the client that waited gets the name if the one that had it
\* did not answer the test.
EnrollTested(m, a) ==
    LET pair == CHOOSE p \in m.testsMap : p[1] = a
        erased == [m EXCEPT !.testsMap = @ \ {pair}]
    IN  IF m.acts[a].alive THEN SendOrRemove(erased, pair[2], "denied")
        ELSE EnrollAs(erased, NameOf[m.acts[a].client], pair[2])

\* TestClientsActivity: complete with its last test.
ChildDone(m, p, a) ==
    LET left == m.acts[p].children \ {a}
        erased == [m EXCEPT !.acts[p].children = left]
    IN  IF left = {} THEN Complete(erased, p) ELSE erased

Notify(m, a) ==
    LET parents == {p \in Told(m, a) : a \in m.acts[p].children}
    IN  IF Enroll \in Told(m, a) /\ \E p \in m.testsMap : p[1] = a
        THEN EnrollTested(m, a)
        ELSE IF parents # {} THEN ChildDone(m, CHOOSE p \in parents : TRUE, a)
        ELSE m

-----------------------------------------------------------------------------
(***************************************************************************)
(* The queue thread.                                                       *)
(***************************************************************************)
AQ == INSTANCE ActivityQueue
          WITH Exclusive <- {"enroll", "load", "loadConfig", "saveConfig"},
               Start <- Start, Notify <- Notify

Running == master.process \in {"starting", "up"}

\* The next handler in the queue is of this type; master without it is Taken.
NextHandler(type) ==
    /\ Running
    /\ master.posted # << >>
    /\ Head(master.posted).type = type

Taken == [master EXCEPT !.posted = Tail(@)]

OnStartActivity ==
    /\ NextHandler("start")
    /\ master' \in AQ!Starts(Taken, Head(master.posted).act)
    /\ UNCHANGED <<link, loading, config, told>>

OnClientMessage ==
    /\ NextHandler("message")
    /\ LET c == Head(master.posted).from
           msg == Head(master.posted).msg
           takers == {i \in DOMAIN master.active : Handles(master, master.active[i], c, msg)}
           first == master.active[CHOOSE i \in takers : \A j \in takers : i <= j]
       IN  master' \in
               CASE takers = {} -> {Taken}
                 [] takers # {} /\ msg = "enroll" -> {EnrollRequest(Taken, c)}
                 [] takers # {} /\ msg = "alive" -> {AliveAnswer(Taken, first)}
                 [] takers # {} /\ msg \in {"load", "config"} -> AskedAnswer(Taken, first, c)
    /\ UNCHANGED <<link, loading, config, told>>

\* VERIFY_RTE_MSG( bFound, "Failed to find activity" ) ends the process.
OnActivityComplete ==
    /\ NextHandler("complete")
    /\ LET a == Head(master.posted).act
       IN  master' \in IF a \in ToSet(master.active) THEN AQ!Completed(Taken, a)
                       ELSE {[Taken EXCEPT !.process = "unfound"]}
    /\ UNCHANGED <<link, loading, config, told>>

-----------------------------------------------------------------------------
(***************************************************************************)
(* The main thread: the constructor, which starts the threads that read    *)
(* messages before it posts the first activity, and the commands.          *)
(***************************************************************************)
StartMaster ==
    /\ master.process = "starting"
    /\ master' = Post([master EXCEPT !.process = "up"], <<StartEvent(Enroll)>>)
    /\ UNCHANGED <<link, loading, config, told>>

Command(command) ==
    /\ master.process = "up"
    /\ master.commands < MaxCommands
    /\ master' = StartActivities([master EXCEPT !.commands = @ + 1],
                                 <<CommandActivity(command)>>)
    /\ UNCHANGED <<link, loading, config, told>>

-----------------------------------------------------------------------------
(***************************************************************************)
(* The slaves.  A message of the master is taken from the channel, and an  *)
(* answer is posted in the master's queue.                                 *)
(***************************************************************************)
Receive(c, msg) ==
    /\ Running
    /\ link[c] = "up"
    /\ master.out[c] # << >>
    /\ Head(master.out[c]) = msg

Read(c) == [master EXCEPT !.out[c] = Tail(@)]

\* MasterEnrollActivity::start.
StartSlave(c) ==
    /\ \/ master.process = "up"
       \/ master.process = "starting" /\ EarlySlaves
    /\ link[c] = "off"
    /\ link' = [link EXCEPT ![c] = "up"]
    /\ master' = Post(master, <<MessageEvent(c, "enroll")>>)
    /\ UNCHANGED <<loading, config, told>>

\* MasterEnrollActivity::serverMessage.  What the slave does with the program it is
\* told, which this module does not keep, is OnEnrollment of Slave.
ReceiveEnrollment(c, msg) ==
    /\ Receive(c, msg)
    /\ told' = [told EXCEPT ![c] = msg]
    /\ master' = Read(c)
    /\ UNCHANGED <<link, loading, config>>

\* AliveTestActivity::serverMessage.
ReceiveAlive(c) ==
    /\ Receive(c, "alive")
    /\ master' = Post(Read(c), <<MessageEvent(c, "alive")>>)
    /\ UNCHANGED <<link, loading, config, told>>

\* LoadProgramActivity::serverMessage: the load takes the slave some time, in
\* which it answers other messages; a second load is refused meanwhile.
ReceiveLoad(c) ==
    /\ Receive(c, "load")
    /\ loading' = loading \cup {c}
    /\ master' = IF c \in loading THEN Post(Read(c), <<MessageEvent(c, "load")>>)
                 ELSE Read(c)
    /\ UNCHANGED <<link, config, told>>

\* LoadProgramActivity::activityComplete: the load succeeded or failed.
FinishLoad(c) ==
    /\ Running
    /\ c \in loading
    /\ loading' = loading \ {c}
    /\ master' = Post(master, <<MessageEvent(c, "load")>>)
    /\ UNCHANGED <<link, config, told>>

\* ConfigActivity::serverMessage: a request while another is under way is
\* dropped.
ReceiveConfig(c, type) ==
    /\ Receive(c, type)
    /\ config' = [config EXCEPT ![c] = IF @ = "none" THEN type ELSE @]
    /\ master' = Read(c)
    /\ UNCHANGED <<link, loading, told>>

\* ConfigActivity::activityComplete: the config was loaded or saved, or not.
FinishConfig(c) ==
    /\ Running
    /\ config[c] # "none"
    /\ config' = [config EXCEPT ![c] = "none"]
    /\ master' = Post(master, <<MessageEvent(c, "config")>>)
    /\ UNCHANGED <<link, loading, told>>

\* A slave's process ends; later the master's socket notices.
Crash(c) ==
    /\ Running
    /\ c \in Mortal
    /\ link[c] = "up"
    /\ link' = [link EXCEPT ![c] = "dead"]
    /\ loading' = loading \ {c}
    /\ config' = [config EXCEPT ![c] = "none"]
    /\ master' = [master EXCEPT !.out[c] = << >>]
    /\ UNCHANGED told

Detect(c) ==
    /\ Running
    /\ link[c] = "dead"
    /\ link' = [link EXCEPT ![c] = "gone"]
    /\ UNCHANGED <<master, loading, config, told>>

-----------------------------------------------------------------------------
Queue == OnStartActivity \/ OnClientMessage \/ OnActivityComplete

Slave(c) ==
    \/ \E msg \in {"enrolled", "denied"} : ReceiveEnrollment(c, msg)
    \/ ReceiveAlive(c)
    \/ ReceiveLoad(c)
    \/ \E type \in {"loadConfig", "saveConfig"} : ReceiveConfig(c, type)

Next ==
    \/ Queue
    \/ StartMaster
    \/ \E command \in Commands : Command(command)
    \/ \E c \in Conns : \/ StartSlave(c) \/ Slave(c) \/ FinishLoad(c) \/ FinishConfig(c)
                       \/ Crash(c) \/ Detect(c)

Spec == Init /\ [][Next]_vars

\* Fairness: the queue thread runs what is posted, main posts the first
\* activity, a slave that lives reads its messages and finishes a load, and a
\* lost connection is noticed.  Nobody need start a slave or give a command.
Fairness ==
    /\ WF_vars(Queue)
    /\ WF_vars(StartMaster)
    /\ \A c \in Conns : /\ WF_vars(Slave(c)) /\ WF_vars(FinishLoad(c)) /\ WF_vars(FinishConfig(c))
                        /\ WF_vars(Detect(c))

FairSpec == Spec /\ Fairness

-----------------------------------------------------------------------------
(***************************************************************************)
(* What the master promises.                                               *)
(***************************************************************************)

\* A slave that was told that it is enrolled, or is about to be, has its name in
\* the master's map, so no two live slaves ever go by one name (ClientMap::enroll
\* and the test of the existing client before a name changes hands).
NameOwned ==
    \A c \in Conns :
        link[c] = "up" /\ (told[c] = "enrolled" \/ "enrolled" \in ToSet(master.out[c]))
            => master.clients[NameOf[c]] = c

\* Where an enrollment can be: in the queue, with a test, answered, told.
Enrollments(c) ==
    {<<"posted", i>> : i \in {j \in DOMAIN master.posted :
                                 master.posted[j] = MessageEvent(c, "enroll")}}
    \cup {<<"test", p[1]>> : p \in {q \in master.testsMap : q[2] = c}}
    \cup {<<"out", i>> : i \in {j \in DOMAIN master.out[c] :
                                   master.out[c][j] \in {"enrolled", "denied"}}}
    \cup {<<"told", 0>> : d \in {e \in Conns : e = c /\ told[e] # "nothing"}}

\* An enrollment is in one place at most: no slave is answered twice, or answered
\* and then answered again when a test completes (m_testsMap).
AnsweredOnce == \A c \in Conns : Cardinality(Enrollments(c)) <= 1

\* Activities become active in the order in which they were made, whatever was
\* kept pending by a precondition (OnStartActivity, OnActivityComplete).
InOrder ==
    /\ Increasing(master.active) /\ Increasing(master.pending)
    /\ \A i, j \in DOMAIN master.posted :
          i < j /\ master.posted[i].type = "start" /\ master.posted[j].type = "start"
          => master.posted[i].act < master.posted[j].act
    /\ \A a \in ToSet(master.active), b \in NotStarted(master) : a < b
    /\ \A a \in ToSet(master.pending), b \in StartsPosted(master) : a < b

Awaited(p) ==
    IF p = Enroll THEN {q[1] : q \in master.testsMap} ELSE master.acts[p].children

\* A test somebody waits for is still to come, or is active BEHIND the one that
\* waits: OnActivityComplete tells only the activities before the one that is
\* complete, so any other would never be told and wait forever.
AwaitedIsBehind ==
    \A i \in DOMAIN master.active : \A a \in Awaited(master.active[i]) :
        \/ a \in NotStarted(master)
        \/ \E j \in DOMAIN master.active : i < j /\ master.active[j] = a

\* Requests to load, and answers to one, on their way between master and slave.
LoadsUnderWay(c) ==
    {<<"out", i>> : i \in {j \in DOMAIN master.out[c] : master.out[c][j] = "load"}}
    \cup {<<"loading", 0>> : d \in loading \cap {c}}
    \cup {<<"posted", i>> : i \in {j \in DOMAIN master.posted :
                                      master.posted[j] = MessageEvent(c, "load")}}

Awaiting(c) == {a \in ToSet(master.active) :
                    master.acts[a].kind = "load" /\ c \in master.acts[a].waiting}

\* An answer to a load names neither the program nor the request: LoadProgram
\* takes any for its own.  It is: every load under way at a slave is one the
\* active LoadProgram waits for, and the other way round while the slave lives.
LoadsAccounted ==
    \A c \in Conns :
        /\ Cardinality(LoadsUnderWay(c)) <= Cardinality(Awaiting(c))
        /\ Cardinality(Awaiting(c)) <= 1
        /\ link[c] = "up" => Cardinality(LoadsUnderWay(c)) = Cardinality(Awaiting(c))

\* A load or a "test" command is complete only when all that it waited for is.
CompleteMeansDone ==
    \A a \in DOMAIN master.acts :
        CompleteEvent(a) \in ToSet(master.posted) =>
            master.acts[a].waiting = {} /\ master.acts[a].children = {}

\* "Failed to find activity" (queue.cpp) never ends the master: no activity
\* completes twice.
CompletesOnce == master.process # "unfound"

\* A slave that enrolls is answered, unless the master ended.
EnrollmentAnswered ==
    \A c \in Conns : link[c] = "up" ~> told[c] # "nothing" \/ ~Running

\* Every command gets done, and every test an enrollment asked for, unless the
\* master ended.
CommandsGetDone == Unfinished(master) \ {Enroll} # {} ~> Unfinished(master) \subseteq {Enroll} \/ ~Running

\* "assess whether pending now viable" (queue.cpp, OnActivityComplete): a first
\* pending activity does not stay pending for good while its precondition holds.
ViableIsStarted ==
    LET viable == master.pending # << >> /\ AQ!Precondition(master, Head(master.pending))
    IN  viable ~> ~viable \/ ~Running
=============================================================================
