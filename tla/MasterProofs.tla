---------------------------- MODULE MasterProofs ----------------------------
(***************************************************************************)
(* TLAPS proofs about the master: for any slave processes, names, commands *)
(* and crashes, whether or not slaves come before the first activity.      *)
(*                                                                         *)
(* The inductive invariant says of the master's queue that its activities  *)
(* stand in the order in which they were made (Line), that the             *)
(* EnrollActivity is the first of them (Foremost), what an activity has    *)
(* done before it starts and when it completes (Fresh, Ends), that         *)
(* whatever is awaited is still to complete (Awaits), and that no          *)
(* exclusive activity is active twice (Exclusion); and of the slaves that  *)
(* the master knows nothing of one that has not started (Unknown), that    *)
(* loads (Loads) and enrollments (Enrolls) are in one place at a time, and *)
(* who has a name (Owners).  Its parts are predicates of a state m of the  *)
(* master, since a handler goes through several such states.               *)
(***************************************************************************)
EXTENDS Master, QueueFacts

ExclusiveKinds == {"enroll", "load", "loadConfig", "saveConfig"}

Line(m) ==
    /\ Increasing(m.active) /\ Increasing(m.pending)
    /\ StartsInOrder(m.posted)
    /\ \A a \in ToSet(m.active), b \in NotStarted(m) : a < b
    /\ \A a \in ToSet(m.pending), b \in StartsPosted(m) : a < b
    /\ Unfinished(m) \subseteq DOMAIN m.acts

Foremost(m) ==
    /\ 1 \in DOMAIN m.acts
    /\ \A a \in DOMAIN m.acts : m.acts[a].kind = "enroll" <=> a = Enroll
    /\ m.process = "starting" => Unfinished(m) = {} /\ Len(m.acts) = 1
    /\ m.testsMap # {} => Enroll \in ToSet(m.active)

Idle(m, a) == m.acts[a].waiting = {} /\ m.acts[a].children = {}

Fresh(m) ==
    /\ \A a \in NotStarted(m) : Idle(m, a)
    /\ \A a \in DOMAIN m.acts : /\ m.acts[a].children # {} => m.acts[a].kind = "tests"
                                /\ m.acts[a].waiting # {} => m.acts[a].kind \in Asking

Ends(m) ==
    \A e \in ToSet(m.posted) : e.type = "complete" =>
        e.act \in DOMAIN m.acts \ (NotStarted(m) \cup {Enroll}) /\ Idle(m, e.act)

Tests(m) == {p[1] : p \in m.testsMap}

Awaits(m) ==
    /\ \A p \in m.testsMap : /\ p[1] \in DOMAIN m.acts /\ p[1] \in Unfinished(m)
                             /\ m.acts[p[1]].kind = "test"
                             /\ NameOf[m.acts[p[1]].client] = NameOf[p[2]]
    /\ \A p, q \in m.testsMap : p[1] = q[1] => p = q
    /\ \A p \in DOMAIN m.acts : \A a \in m.acts[p].children :
          /\ p < a /\ a \in DOMAIN m.acts /\ a \notin Tests(m) /\ m.acts[a].kind = "test"
          /\ \A q \in DOMAIN m.acts : a \in m.acts[q].children => p = q
    /\ \A p \in ToSet(m.active) : m.acts[p].children \subseteq Unfinished(m)

Exclusion(m) ==
    \A a, b \in ToSet(m.active) :
        m.acts[a].kind = m.acts[b].kind /\ m.acts[a].kind \in ExclusiveKinds => a = b

Queued(m) == Line(m) /\ Foremost(m) /\ Fresh(m) /\ Ends(m) /\ Awaits(m) /\ Exclusion(m)

Unknown(m) ==
    \A c \in Conns : link[c] = "off" =>
        /\ m.out[c] = << >> /\ told[c] = "nothing" /\ c \notin loading /\ config[c] = "none"
        /\ \A msg \in Answer : ~Has(m.posted, {MessageEvent(c, msg)})
        /\ \A n \in Names : m.clients[n] # c
        /\ \A p \in m.testsMap : p[2] # c
        /\ \A a \in DOMAIN m.acts : c \notin m.acts[a].waiting

Await(m, c) ==
    \E a \in ToSet(m.active) : m.acts[a].kind = "load" /\ c \in m.acts[a].waiting

\* The request to c to load, its work on it, or its answer is under way.
LoadOut(m, c) == Has(m.out[c], {"load"})
LoadDone(m, c) == Has(m.posted, {MessageEvent(c, "load")})

OneLoad(m, c) ==
    /\ Once(m.out[c], {"load"}) /\ Once(m.posted, {MessageEvent(c, "load")})
    /\ ~(LoadOut(m, c) /\ c \in loading)
    /\ ~(LoadOut(m, c) /\ LoadDone(m, c))
    /\ ~(c \in loading /\ LoadDone(m, c))

SomeLoad(m, c) == LoadOut(m, c) \/ c \in loading \/ LoadDone(m, c)

Loads(m) ==
    \A c \in Conns : /\ OneLoad(m, c)
                     /\ SomeLoad(m, c) => Await(m, c)
                     /\ link[c] = "up" /\ Await(m, c) => SomeLoad(m, c)

Replies == {"enrolled", "denied"}

Testing(m, c) == \E p \in m.testsMap : p[2] = c

Enrolls(m) ==
    \A c \in Conns :
        /\ Once(m.posted, {MessageEvent(c, "enroll")}) /\ Once(m.out[c], Replies)
        /\ \A p, q \in m.testsMap : p[2] = c /\ q[2] = c => p = q
        /\ Has(m.posted, {MessageEvent(c, "enroll")}) => ~Testing(m, c) /\ ~Has(m.out[c], Replies) /\ told[c] = "nothing"
        /\ Testing(m, c) => ~Has(m.out[c], Replies) /\ told[c] = "nothing"
        /\ Has(m.out[c], Replies) => told[c] = "nothing"

Owners(m) ==
    /\ \A n \in Names : m.clients[n] # None => NameOf[m.clients[n]] = n
    /\ \A c \in Conns : link[c] = "up" /\ (told[c] = "enrolled" \/ Has(m.out[c], {"enrolled"}))
                        => m.clients[NameOf[c]] = c

Served(m) == Unknown(m) /\ Loads(m) /\ Enrolls(m) /\ Owners(m)

IInv == TypeOK /\ Queued(master) /\ Served(master)

-----------------------------------------------------------------------------
(***************************************************************************)
(* Types.                                                                  *)
(***************************************************************************)
LEMMA Constants ==
    /\ NumNames \in Nat /\ Names \subseteq Nat \ {0} /\ IsFiniteSet(Names)
    /\ NameOf \in [Conns -> Names] /\ None \notin Conns
    /\ Enroll \in Nat
<1>1. NumNames \in Nat /\ NameOf \in [Conns -> Names]
  BY NamesAssumption
<1>2. IsFiniteSet(Names)
  BY <1>1, FS_Interval DEF Names
<1>. QED
  BY <1>1, <1>2, NoneAssumption DEF Names, Enroll

LEMMA ActivityFacts ==
    ASSUME NEW act \in Activity
    PROVE  /\ act.kind \in {"test", "enroll", "tests", "list", "load", "loadConfig", "saveConfig"}
           /\ act.named \in BOOLEAN /\ act.alive \in BOOLEAN
           /\ act.children \in SUBSET Nat /\ act.waiting \in SUBSET Conns
           /\ act.kind = "test" => /\ act.client \in Conns /\ act.children = {}
                                   /\ act.waiting = {}
           /\ act.kind = "test" => [act EXCEPT !.alive = TRUE] \in Activity
           /\ act.kind # "test" => \A S \in SUBSET Nat : [act EXCEPT !.children = S] \in Activity
           /\ act.kind # "test" => \A S \in SUBSET Conns : [act EXCEPT !.waiting = S] \in Activity
BY DEF Activity

LEMMA NewActivityFacts ==
    /\ \A c \in Conns : /\ NewActivity("test", c) \in Activity
                        /\ NewActivity("test", c).kind = "test"
                        /\ NewActivity("test", c).client = c
                        /\ NewActivity("test", c).children = {}
                        /\ NewActivity("test", c).waiting = {}
    /\ \A command \in Commands : /\ CommandActivity(command) \in Activity
                                 /\ CommandActivity(command).kind # "enroll"
                                 /\ CommandActivity(command).children = {}
                                 /\ CommandActivity(command).waiting = {}
    /\ NewActivity("enroll", None) \in Activity
<1>1. \A c \in Conns : /\ NewActivity("test", c) \in Activity
                        /\ NewActivity("test", c).kind = "test"
                        /\ NewActivity("test", c).client = c
                        /\ NewActivity("test", c).children = {}
                        /\ NewActivity("test", c).waiting = {}
  BY DEF NewActivity, Activity
<1>2. ASSUME NEW k \in {"enroll", "tests", "list", "load", "loadConfig", "saveConfig"}, NEW b \in BOOLEAN
      PROVE  [NewActivity(k, None) EXCEPT !.named = b] \in Activity /\ NewActivity(k, None) \in Activity
  BY DEF NewActivity, Activity
<1>3. ASSUME NEW command \in Commands
      PROVE  /\ CommandActivity(command) \in Activity
             /\ CommandActivity(command).kind # "enroll"
             /\ CommandActivity(command).children = {}
             /\ CommandActivity(command).waiting = {}
  <2>1. command \in {"tests", "list", "start", "stop", "loadConfig", "saveConfig"}
    BY BoundAssumption
  <2>2. CASE command = "start"
    BY <1>2, <2>2 DEF CommandActivity, NewActivity
  <2>3. CASE command = "stop"
    BY <1>2, <2>3 DEF CommandActivity, NewActivity
  <2>4. CASE command \in {"tests", "list", "loadConfig", "saveConfig"}
    <3>1. CommandActivity(command) = NewActivity(command, None)
      BY <2>4 DEF CommandActivity
    <3>2. NewActivity(command, None) \in Activity
      BY <1>2, <2>4
    <3>3. /\ NewActivity(command, None).kind = command
          /\ NewActivity(command, None).children = {}
          /\ NewActivity(command, None).waiting = {}
      BY DEF NewActivity
    <3>. QED
      BY <2>4, <3>1, <3>2, <3>3
  <2>. QED
    BY <2>1, <2>2, <2>3, <2>4
<1>. QED
  BY <1>1, <1>2, <1>3

LEMMA StateFacts ==
    ASSUME NEW m \in MasterState
    PROVE  /\ m.active \in Seq(Nat) /\ m.pending \in Seq(Nat)
           /\ m.posted \in Seq(Event) /\ m.acts \in Seq(Activity)
           /\ m.clients \in [Names -> Conns \cup {None}] /\ m.program \in BOOLEAN
           /\ m.testsMap \subseteq Nat \X Conns
           /\ m.out \in [Conns -> Seq(Order)] /\ m.commands \in 0 .. MaxCommands
           /\ m.process \in {"starting", "up", "unfound", "undefined"}
BY DEF MasterState

LEMMA UpdateFacts ==
    ASSUME NEW m \in MasterState
    PROVE  /\ \A x \in {"starting", "up", "unfound", "undefined"} :
                 [m EXCEPT !.process = x] \in MasterState
           /\ \A x \in Seq(Nat) : [m EXCEPT !.active = x] \in MasterState
           /\ \A x \in Seq(Nat) : [m EXCEPT !.pending = x] \in MasterState
           /\ \A x \in Seq(Event) : [m EXCEPT !.posted = x] \in MasterState
           /\ \A x \in Seq(Activity) : [m EXCEPT !.acts = x] \in MasterState
           /\ \A x \in [Names -> Conns \cup {None}] : [m EXCEPT !.clients = x] \in MasterState
           /\ \A x \in BOOLEAN : [m EXCEPT !.program = x] \in MasterState
           /\ \A x \in SUBSET (Nat \X Conns) : [m EXCEPT !.testsMap = x] \in MasterState
           /\ \A x \in [Conns -> Seq(Order)] : [m EXCEPT !.out = x] \in MasterState
           /\ \A x \in 0 .. MaxCommands : [m EXCEPT !.commands = x] \in MasterState
BY DEF MasterState

LEMMA EventFacts ==
    /\ \A a \in Nat : /\ StartEvent(a) \in Event /\ StartEvent(a).type = "start"
                      /\ StartEvent(a).act = a
                      /\ CompleteEvent(a) \in Event /\ CompleteEvent(a).type = "complete"
                      /\ CompleteEvent(a).act = a
    /\ \A c \in Conns, msg \in Answer : /\ MessageEvent(c, msg) \in Event
                                        /\ MessageEvent(c, msg).type = "message"
                                        /\ MessageEvent(c, msg).from = c
                                        /\ MessageEvent(c, msg).msg = msg
    /\ \A e \in Event : /\ e.type \in {"start", "complete", "message"}
                        /\ e.type \in {"start", "complete"} => e.act \in Nat
                        /\ e.type = "message" => /\ e.from \in Conns /\ e.msg \in Answer
                                                 /\ e = MessageEvent(e.from, e.msg)
                        /\ e.type = "complete" => e = CompleteEvent(e.act)
BY DEF StartEvent, CompleteEvent, MessageEvent, Event

-----------------------------------------------------------------------------
(***************************************************************************)
(* What the operators that handlers are made of do to the state.           *)
(***************************************************************************)
\* Nothing that the master's queue is about is different, or what slaves see.
SameQueue(m, n) ==
    /\ n.process = m.process /\ n.active = m.active /\ n.pending = m.pending
    /\ n.acts = m.acts /\ n.testsMap = m.testsMap

SameSlaves(m, n) == n.out = m.out /\ n.clients = m.clients

LEMMA SendFacts ==
    ASSUME NEW m \in MasterState, NEW S, NEW msg \in Order
    PROVE  /\ Send(m, S, msg) \in MasterState
           /\ SameQueue(m, Send(m, S, msg)) /\ Send(m, S, msg).posted = m.posted
           /\ Send(m, S, msg).clients = m.clients
           /\ \A c \in Conns : Send(m, S, msg).out[c] = IF c \in S /\ link[c] = "up"
                                                        THEN Append(m.out[c], msg)
                                                        ELSE m.out[c]
<1>. DEFINE out == [c \in Conns |-> IF c \in S /\ link[c] = "up"
                                    THEN Append(m.out[c], msg) ELSE m.out[c]]
<1>1. out \in [Conns -> Seq(Order)]
  BY StateFacts, AppendProperties
<1>2. Send(m, S, msg) = [m EXCEPT !.out = out]
  BY DEF Send, MasterState
<1>3. [m EXCEPT !.out = out] \in MasterState
  BY <1>1, UpdateFacts, Zenon
<1>4. [m EXCEPT !.out = out].out = out
  BY DEF MasterState
<1>. HIDE DEF out
<1>5. /\ SameQueue(m, Send(m, S, msg)) /\ Send(m, S, msg).posted = m.posted
      /\ Send(m, S, msg).clients = m.clients
  BY <1>2 DEF SameQueue, MasterState
<1>. QED
  BY <1>2, <1>3, <1>4, <1>5 DEF out

LEMMA RemoveFacts ==
    ASSUME NEW m \in MasterState, NEW S
    PROVE  /\ RemoveClients(m, S) \in MasterState
           /\ SameQueue(m, RemoveClients(m, S)) /\ RemoveClients(m, S).posted = m.posted
           /\ RemoveClients(m, S).out = m.out
           /\ \A n \in Names : RemoveClients(m, S).clients[n] =
                                  IF m.clients[n] \in S THEN None ELSE m.clients[n]
<1>. DEFINE clients == [n \in Names |-> IF m.clients[n] \in S THEN None ELSE m.clients[n]]
<1>1. clients \in [Names -> Conns \cup {None}]
  BY StateFacts
<1>2. RemoveClients(m, S) = [m EXCEPT !.clients = clients]
  BY DEF RemoveClients, MasterState
<1>3. [m EXCEPT !.clients = clients] \in MasterState
  BY <1>1, UpdateFacts, Zenon
<1>4. [m EXCEPT !.clients = clients].clients = clients
  BY DEF MasterState
<1>. HIDE DEF clients
<1>5. /\ SameQueue(m, RemoveClients(m, S)) /\ RemoveClients(m, S).posted = m.posted
      /\ RemoveClients(m, S).out = m.out
  BY <1>2 DEF SameQueue, MasterState
<1>. QED
  BY <1>2, <1>3, <1>4, <1>5 DEF clients

LEMMA PostFacts ==
    ASSUME NEW m \in MasterState, NEW es \in Seq(Event)
    PROVE  /\ Post(m, es) \in MasterState /\ SameQueue(m, Post(m, es)) /\ SameSlaves(m, Post(m, es))
           /\ Post(m, es).posted = m.posted \o es
<1>1. m.posted \o es \in Seq(Event)
  BY StateFacts, ConcatProperties
<1>2. Post(m, es) = [m EXCEPT !.posted = m.posted \o es]
  BY DEF Post
<1>3. Post(m, es) \in MasterState
  BY <1>1, <1>2, UpdateFacts, Zenon
<1>. DEFINE posted == m.posted \o es
<1>. HIDE DEF posted
<1>4. [m EXCEPT !.posted = posted].posted = posted
  BY DEF MasterState
<1>5. SameQueue(m, Post(m, es)) /\ SameSlaves(m, Post(m, es))
  BY <1>2 DEF SameQueue, SameSlaves, MasterState, posted
<1>. QED
  BY <1>2, <1>3, <1>4, <1>5 DEF posted

LEMMA CompleteFacts ==
    ASSUME NEW m \in MasterState, NEW a \in Nat
    PROVE  /\ Complete(m, a) \in MasterState /\ SameQueue(m, Complete(m, a))
           /\ SameSlaves(m, Complete(m, a))
           /\ Complete(m, a).posted = Append(m.posted, CompleteEvent(a))
<1>1. CompleteEvent(a) \in Event /\ m.posted \in Seq(Event)
  BY EventFacts, StateFacts
<1>2. <<CompleteEvent(a)>> \in Seq(Event)
      /\ Append(m.posted, CompleteEvent(a)) = m.posted \o <<CompleteEvent(a)>>
  BY <1>1, AppendFacts
<1>. QED
  BY <1>2, PostFacts DEF Complete

\* Activities are made: those before stay what they are.
LEMMA NewFacts ==
    ASSUME NEW m \in MasterState, NEW new \in Seq(Activity)
    PROVE  LET n == StartActivities(m, new)
               es == [i \in 1 .. Len(new) |-> StartEvent(Len(m.acts) + i)]
           IN  /\ n \in MasterState /\ SameSlaves(m, n) /\ n.testsMap = m.testsMap
               /\ n.process = m.process /\ n.active = m.active /\ n.pending = m.pending
               /\ n.acts = m.acts \o new
               /\ n.posted = m.posted \o es /\ es \in Seq(Event) /\ Len(es) = Len(new)
<1>. DEFINE es == [i \in 1 .. Len(new) |-> StartEvent(Len(m.acts) + i)]
            acts == m.acts \o new
            posted == m.posted \o es
<1>0. Len(new) \in Nat /\ Len(m.acts) \in Nat
  BY StateFacts, LenProperties
<1>1. es \in Seq(Event) /\ Len(es) = Len(new)
  <2>1. \A i \in 1 .. Len(new) : StartEvent(Len(m.acts) + i) \in Event
    BY <1>0, EventFacts
  <2>. QED
    BY <1>0, <2>1
<1>. HIDE DEF es
<1>2. acts \in Seq(Activity) /\ posted \in Seq(Event)
  BY <1>1, StateFacts, ConcatProperties
<1>3. StartActivities(m, new) = [m EXCEPT !.acts = acts, !.posted = posted]
  BY DEF StartActivities, es
<1>. HIDE DEF acts, posted
<1>4. /\ [m EXCEPT !.acts = acts, !.posted = posted] \in MasterState
      /\ [m EXCEPT !.acts = acts, !.posted = posted].acts = acts
      /\ [m EXCEPT !.acts = acts, !.posted = posted].posted = posted
  BY <1>2 DEF MasterState
<1>5. LET n == [m EXCEPT !.acts = acts, !.posted = posted]
      IN  /\ SameSlaves(m, n) /\ n.testsMap = m.testsMap
          /\ n.process = m.process /\ n.active = m.active /\ n.pending = m.pending
  BY DEF SameSlaves, MasterState
<1>. QED
  BY <1>1, <1>3, <1>4, <1>5 DEF acts, posted, es

-----------------------------------------------------------------------------
(***************************************************************************)
(* The queue's part of the invariant, over the changes handlers make.      *)
(***************************************************************************)
\* What may be said of an activity whose completion is posted.
CanEnd(m, a) == a \in DOMAIN m.acts \ (NotStarted(m) \cup {Enroll}) /\ Idle(m, a)

\* Nothing but what is posted changes, or tests are no longer waited for; the
\* starts stay, and a completion that is new is one that may be posted.
LEMMA QueuedFrame ==
    ASSUME NEW m \in MasterState, NEW n \in MasterState, Queued(m),
           n.process \in {m.process, "unfound", "undefined"},
           n.active = m.active, n.pending = m.pending, n.acts = m.acts,
           n.testsMap \subseteq m.testsMap,
           StartsInOrder(n.posted), StartsPosted(n) = StartsPosted(m),
           \A e \in ToSet(n.posted) :
              e.type = "complete" => e \in ToSet(m.posted) \/ CanEnd(m, e.act)
    PROVE  Queued(n)
<1>1. NotStarted(n) = NotStarted(m) /\ Unfinished(n) = Unfinished(m)
  BY DEF NotStarted, Unfinished
<1>2. Line(n)
  BY <1>1 DEF Line, Queued
<1>3. Foremost(n)
  BY <1>1 DEF Foremost, Queued
<1>4. \A a : Idle(n, a) <=> Idle(m, a)
  BY DEF Idle
<1>5. Fresh(n)
  BY <1>1, <1>4 DEF Fresh, Queued
<1>6. Ends(n)
  BY <1>1, <1>4 DEF Ends, Queued, CanEnd
<1>7. Awaits(n)
  BY <1>1 DEF Awaits, Queued, Tests
<1>8. Exclusion(n)
  BY DEF Exclusion, Queued
<1>. QED
  BY <1>2, <1>3, <1>5, <1>6, <1>7, <1>8 DEF Queued

NotEnded(m, a) == CompleteEvent(a) \notin ToSet(m.posted)

LEMMA EndedFacts ==
    ASSUME NEW m \in MasterState
    PROVE  \A e \in ToSet(m.posted) : e.type = "complete" => ~NotEnded(m, e.act)
<1>. SUFFICES ASSUME NEW e \in ToSet(m.posted), e.type = "complete"
              PROVE  e = CompleteEvent(e.act)
  BY DEF NotEnded
<1>1. e \in Event
  BY StateFacts, ToSetFacts
<1>. QED
  BY <1>1, EventFacts

\* Existing activities change.  What they wait for gets less, unless an active one
\* that has not ended starts to wait: x, if it is for other activities, for tests
\* that have not started and that nobody waits for.
LEMMA QueuedActs ==
    ASSUME NEW m \in MasterState, NEW n \in MasterState, NEW x, Queued(m),
           n.process = m.process, n.active = m.active, n.pending = m.pending,
           n.posted = m.posted, n.testsMap = m.testsMap, DOMAIN n.acts = DOMAIN m.acts,
           Len(n.acts) = Len(m.acts),
           \A b \in DOMAIN m.acts :
              /\ n.acts[b].kind = m.acts[b].kind /\ n.acts[b].client = m.acts[b].client
              /\ \/ n.acts[b].waiting \subseteq m.acts[b].waiting
                 \/ b \in ToSet(m.active) /\ m.acts[b].kind \in Asking /\ NotEnded(m, b)
              /\ \/ n.acts[b].children \subseteq m.acts[b].children
                 \/ b = x,
           \/ x \notin DOMAIN m.acts
           \/ n.acts[x].children \subseteq m.acts[x].children
           \/ /\ x \in ToSet(m.active) /\ m.acts[x].kind = "tests" /\ NotEnded(m, x)
              /\ \A a \in n.acts[x].children :
                    /\ x < a /\ a \in NotStarted(m) /\ a \notin Tests(m)
                    /\ m.acts[a].kind = "test"
                    /\ \A q \in DOMAIN m.acts : a \notin m.acts[q].children
    PROVE  Queued(n)
<1>0. /\ NotStarted(n) = NotStarted(m) /\ Unfinished(n) = Unfinished(m)
      /\ StartsPosted(n) = StartsPosted(m) /\ Tests(n) = Tests(m)
  BY DEF NotStarted, Unfinished, StartsPosted, Tests
<1>1. \A a \in ToSet(m.active), b \in NotStarted(m) : a < b
  BY DEF Queued, Line
<1>2. NotStarted(m) \subseteq DOMAIN m.acts /\ ToSet(m.active) \subseteq DOMAIN m.acts
  BY DEF Queued, Line, Unfinished
<1>3. DOMAIN m.acts \subseteq Nat
  BY StateFacts, LenProperties
<1>4. \A a \in NotStarted(m) : a \notin ToSet(m.active)
  BY <1>1, <1>2, <1>3
<1>5. \A b \in DOMAIN m.acts : Idle(m, b) /\ (b \notin ToSet(m.active) \/ ~NotEnded(m, b)) => Idle(n, b)
  BY DEF Idle
<1>6. Line(n)
  BY <1>0 DEF Line, Queued
<1>7. Foremost(n)
  BY <1>0 DEF Foremost, Queued
<1>8. Fresh(n)
  <2>1. \A a \in NotStarted(n) : Idle(n, a)
    BY <1>0, <1>2, <1>4, <1>5 DEF Fresh, Queued
  <2>2. ASSUME NEW a \in DOMAIN m.acts
        PROVE  /\ n.acts[a].children # {} => n.acts[a].kind = "tests"
               /\ n.acts[a].waiting # {} => n.acts[a].kind \in Asking
    BY DEF Fresh, Queued
  <2>. QED
    BY <2>1, <2>2 DEF Fresh
<1>9. Ends(n)
  BY <1>0, <1>5, EndedFacts DEF Ends, Queued
<1>10. Awaits(n)
  <2>1. \A p \in n.testsMap : /\ p[1] \in DOMAIN n.acts /\ p[1] \in Unfinished(n)
                              /\ n.acts[p[1]].kind = "test"
                              /\ NameOf[n.acts[p[1]].client] = NameOf[p[2]]
    BY <1>0 DEF Awaits, Queued
  <2>2. ASSUME NEW p \in DOMAIN n.acts, NEW a \in n.acts[p].children
        PROVE  /\ p < a /\ a \in DOMAIN n.acts /\ a \notin Tests(n) /\ n.acts[a].kind = "test"
               /\ \/ a \in m.acts[p].children
                  \/ p = x /\ \A q \in DOMAIN m.acts : a \notin m.acts[q].children
    <3>1. CASE a \in m.acts[p].children
      BY <1>0, <3>1 DEF Awaits, Queued
    <3>2. CASE a \notin m.acts[p].children
      BY <1>0, <1>2, <3>2
    <3>. QED
      BY <3>1, <3>2
  <2>3. ASSUME NEW p \in DOMAIN n.acts, NEW a \in n.acts[p].children,
               NEW q \in DOMAIN n.acts, a \in n.acts[q].children
        PROVE  p = q
    <3>1. CASE a \in m.acts[p].children /\ a \in m.acts[q].children
      BY <3>1 DEF Awaits, Queued
    <3>. QED
      BY <2>2, <2>3, <3>1
  <2>4. \A p \in ToSet(n.active) : n.acts[p].children \subseteq Unfinished(n)
    <3>1. NotStarted(m) \subseteq Unfinished(m)
      BY DEF Unfinished
    <3>. QED
      BY <1>0, <1>2, <3>1 DEF Awaits, Queued
  <2>. QED
    BY <2>1, <2>2, <2>3, <2>4 DEF Awaits, Queued
<1>11. Exclusion(n)
  BY <1>2 DEF Exclusion, Queued
<1>. QED
  BY <1>6, <1>7, <1>8, <1>9, <1>10, <1>11 DEF Queued

\* Activities are made, other than the EnrollActivity, that wait for nobody, and
\* their starts are posted.
LEMMA QueuedNew ==
    ASSUME NEW m \in MasterState, NEW new \in Seq(Activity), Queued(m), m.process # "starting",
           \A i \in DOMAIN new : /\ new[i].kind # "enroll" /\ new[i].waiting = {}
                                 /\ new[i].children = {}
    PROVE  LET n == StartActivities(m, new)
           IN  /\ Queued(n) /\ n.active = m.active
               /\ DOMAIN n.acts = 1 .. Len(m.acts) + Len(new)
               /\ \A a \in DOMAIN m.acts : a \in DOMAIN n.acts /\ n.acts[a] = m.acts[a]
               /\ \A i \in DOMAIN new : n.acts[Len(m.acts) + i] = new[i]
               /\ \A a \in DOMAIN n.acts \ DOMAIN m.acts :
                     /\ a \in NotStarted(n) /\ a \notin Tests(n)
                     /\ \A p \in DOMAIN m.acts : p < a
                     /\ \A p \in DOMAIN n.acts : a \notin n.acts[p].children
               /\ \A a : NotEnded(m, a) => NotEnded(n, a)
<1>. DEFINE n == StartActivities(m, new)
            k == Len(m.acts)
            es == [i \in 1 .. Len(new) |-> StartEvent(k + i)]
<1>1. /\ n \in MasterState /\ n.process = m.process /\ n.testsMap = m.testsMap
      /\ n.active = m.active /\ n.pending = m.pending
      /\ n.acts = m.acts \o new /\ n.posted = m.posted \o es /\ es \in Seq(Event) /\ Len(es) = Len(new)
  BY NewFacts, Zenon DEF SameSlaves
<1>2. /\ k \in Nat /\ DOMAIN m.acts = 1 .. k /\ Len(new) \in Nat /\ DOMAIN new = 1 .. Len(new)
      /\ m.acts \in Seq(Activity) /\ m.posted \in Seq(Event)
  BY StateFacts, LenProperties
<1>3. DOMAIN es = 1 .. Len(new) /\ \A i \in 1 .. Len(new) : es[i] = StartEvent(k + i)
  OBVIOUS
<1>. HIDE DEF n, es, k
<1>4. /\ DOMAIN n.acts = 1 .. k + Len(new) /\ Len(n.acts) = k + Len(new)
      /\ \A a \in DOMAIN m.acts : a \in DOMAIN n.acts /\ n.acts[a] = m.acts[a]
      /\ \A i \in DOMAIN new : n.acts[k + i] = new[i]
  <2>0. m.acts \in Seq(Activity) /\ new \in Seq(Activity)
    BY <1>2
  <2>1. /\ DOMAIN (m.acts \o new) = 1 .. Len(m.acts) + Len(new) /\ m.acts \o new \in Seq(Activity)
        /\ \A a \in DOMAIN m.acts : a \in DOMAIN (m.acts \o new) /\ (m.acts \o new)[a] = m.acts[a]
        /\ \A i \in DOMAIN new : (m.acts \o new)[Len(m.acts) + i] = new[i]
    BY ONLY <2>0, ConcatFacts, SMTT(30)
  <2>2. n.acts \in Seq(Activity) /\ DOMAIN n.acts = 1 .. k + Len(new)
    BY <1>1, <2>1, Zenon DEF k
  <2>3. Len(n.acts) = k + Len(new)
    <3>1. DOMAIN n.acts = 1 .. Len(n.acts) /\ Len(n.acts) \in Nat
      BY <2>2, LenProperties
    <3>2. k + Len(new) \in Nat
      BY <1>2
    <3>. QED
      BY ONLY <2>2, <3>1, <3>2
  <2>. QED
    BY <1>1, <2>1, <2>2, <2>3, Zenon DEF k
<1>5. \A a \in DOMAIN n.acts : a \notin DOMAIN m.acts =>
         /\ a > k /\ n.acts[a].kind # "enroll" /\ n.acts[a].waiting = {} /\ n.acts[a].children = {}
  <2>. SUFFICES ASSUME NEW a \in 1 .. k + Len(new), a \notin 1 .. k
                PROVE  a > k /\ n.acts[a].kind # "enroll" /\ n.acts[a].waiting = {} /\ n.acts[a].children = {}
    BY <1>2, <1>4
  <2>1. a - k \in 1 .. Len(new) /\ k + (a - k) = a /\ a > k
    BY <1>2
  <2>2. n.acts[k + (a - k)] = new[a - k]
    BY <1>2, <1>4, <2>1
  <2>. QED
    BY <1>2, <2>1, <2>2
<1>6. \A b : b \in StartsOf(es) <=> b \in DOMAIN n.acts \ DOMAIN m.acts
  <2>1. ASSUME NEW b, b \in StartsOf(es) PROVE b \in DOMAIN n.acts \ DOMAIN m.acts
    <3>1. PICK i \in DOMAIN es : es[i].type = "start" /\ b = es[i].act
      BY <2>1, InStarts
    <3>2. k + i \in Nat /\ es[i] = StartEvent(k + i)
      BY <1>2, <1>3
    <3>3. b = k + i
      BY <3>1, <3>2, EventFacts
    <3>. QED
      BY <1>2, <1>3, <1>4, <3>3
  <2>2. ASSUME NEW b \in DOMAIN n.acts, b \notin DOMAIN m.acts PROVE b \in StartsOf(es)
    <3>1. b - k \in DOMAIN es /\ es[b - k] = StartEvent(b) /\ b \in Nat
      BY <1>2, <1>3, <1>4, <2>2
    <3>. QED
      BY <3>1, InStarts, EventFacts
  <2>. QED
    BY <2>1, <2>2
<1>7. StartsInOrder(es)
  <2>1. \A i \in 1 .. Len(new) : es[i].act = k + i
    BY <1>2, <1>3, EventFacts
  <2>. QED
    BY <1>2, <1>3, <2>1 DEF StartsInOrder
<1>8. StartsPosted(m) = StartsOf(m.posted) /\ StartsPosted(n) = StartsOf(m.posted \o es)
  BY <1>1 DEF StartsPosted, StartsOf
<1>9. Unfinished(m) \subseteq DOMAIN m.acts /\ StartsPosted(m) \subseteq DOMAIN m.acts
  BY DEF Queued, Line, Unfinished, NotStarted
<1>10. /\ \A b : b \in StartsOf(m.posted \o es) <=> b \in StartsOf(m.posted) \/ b \in StartsOf(es)
       /\ /\ StartsInOrder(m.posted) /\ StartsInOrder(es)
          /\ \A a \in StartsOf(m.posted), b \in StartsOf(es) : a < b
          => StartsInOrder(m.posted \o es)
  BY <1>1, <1>2, StartsConcat, Zenon
<1>11. \A a \in DOMAIN m.acts, b \in DOMAIN n.acts \ DOMAIN m.acts : a < b
  BY <1>2, <1>4
<1>12. StartsInOrder(n.posted)
  BY <1>1, <1>6, <1>7, <1>8, <1>9, <1>10, <1>11 DEF Queued, Line
<1>13. \A b : b \in StartsPosted(n) <=> b \in StartsPosted(m) \/ b \in DOMAIN n.acts \ DOMAIN m.acts
  BY <1>6, <1>8, <1>10
<1>14. \A b : b \in NotStarted(n) <=> b \in NotStarted(m) \/ b \in DOMAIN n.acts \ DOMAIN m.acts
  BY <1>1, <1>13 DEF NotStarted
<1>15. \A b : b \in Unfinished(n) <=> b \in Unfinished(m) \/ b \in DOMAIN n.acts \ DOMAIN m.acts
  BY <1>1, <1>14 DEF Unfinished
<1>16. \A e \in ToSet(n.posted) : e.type = "complete" => e \in ToSet(m.posted)
  <2>0. m.posted \in Seq(Event) /\ es \in Seq(Event)
    BY <1>1, <1>2
  <2>1. ToSet(m.posted \o es) = ToSet(m.posted) \cup ToSet(es)
    BY ONLY <2>0, ConcatFacts
  <2>2. \A e \in ToSet(es) : e.type = "start"
    <3>1. \A i \in DOMAIN es : es[i].type = "start"
      BY <1>2, <1>3, EventFacts
    <3>. QED
      BY <3>1, InToSet
  <2>. QED
    BY <1>1, <2>1, <2>2
<1>17. \A a \in DOMAIN m.acts : (Idle(n, a) <=> Idle(m, a))
  BY <1>4 DEF Idle
<1>18. \A a \in DOMAIN n.acts \ DOMAIN m.acts : Idle(n, a)
  BY <1>5 DEF Idle
<1>19. Line(n)
  <2>1. \A a \in ToSet(m.active) : a \in DOMAIN m.acts
    BY <1>9 DEF Unfinished
  <2>2. \A a \in ToSet(m.pending) : a \in DOMAIN m.acts
    BY <1>9 DEF Unfinished, NotStarted
  <2>3. \A a \in ToSet(n.active), b \in NotStarted(n) : a < b
    BY <1>1, <1>11, <1>14, <2>1 DEF Line, Queued
  <2>4. \A a \in ToSet(n.pending), b \in StartsPosted(n) : a < b
    BY <1>1, <1>11, <1>13, <2>2 DEF Line, Queued
  <2>5. Unfinished(n) \subseteq DOMAIN n.acts
    BY <1>4, <1>9, <1>15
  <2>. QED
    BY <1>1, <1>12, <2>3, <2>4, <2>5 DEF Line, Queued
<1>20. Foremost(n)
  BY <1>1, <1>2, <1>4, <1>5, SMTT(30) DEF Foremost, Queued, Enroll
<1>21. Fresh(n)
  BY <1>4, <1>5, <1>9, <1>14, <1>17, <1>18 DEF Fresh, Queued, Unfinished
<1>22. Ends(n)
  BY <1>4, <1>14, <1>16, <1>17 DEF Ends, Queued
<1>23. Tests(n) = Tests(m) /\ \A a \in Tests(m) : a \in DOMAIN m.acts
  BY <1>1 DEF Tests, Awaits, Queued
<1>24. \A p \in DOMAIN n.acts : \A a \in n.acts[p].children :
          p \in DOMAIN m.acts /\ a \in m.acts[p].children /\ a \in DOMAIN m.acts
  BY <1>4, <1>5 DEF Awaits, Queued
<1>25. Awaits(n)
  <2>1. \A p \in n.testsMap : /\ p[1] \in DOMAIN n.acts /\ p[1] \in Unfinished(n)
                              /\ n.acts[p[1]].kind = "test"
                              /\ NameOf[n.acts[p[1]].client] = NameOf[p[2]]
    BY <1>1, <1>4, <1>15 DEF Awaits, Queued
  <2>2. \A p \in DOMAIN n.acts : \A a \in n.acts[p].children :
          /\ p < a /\ a \in DOMAIN n.acts /\ a \notin Tests(n) /\ n.acts[a].kind = "test"
          /\ \A q \in DOMAIN n.acts : a \in n.acts[q].children => p = q
    BY <1>4, <1>23, <1>24 DEF Awaits, Queued
  <2>3. \A p \in ToSet(n.active) : n.acts[p].children \subseteq Unfinished(n)
    BY <1>1, <1>4, <1>9, <1>15 DEF Awaits, Queued, Unfinished
  <2>. QED
    BY <1>1, <2>1, <2>2, <2>3 DEF Awaits, Queued
<1>26. Exclusion(n)
  BY <1>1, <1>4, <1>9 DEF Exclusion, Queued, Unfinished
<1>27. \A a : NotEnded(m, a) => NotEnded(n, a)
  <2>. SUFFICES ASSUME NEW a, CompleteEvent(a) \in ToSet(n.posted)
                PROVE  CompleteEvent(a) \in ToSet(m.posted)
    BY DEF NotEnded
  <2>. QED
    BY <1>16 DEF CompleteEvent
<1>28. Queued(n)
  BY <1>19, <1>20, <1>21, <1>22, <1>25, <1>26 DEF Queued
<1>. QED
  BY <1>1, <1>4, <1>11, <1>14, <1>23, <1>24, <1>27, <1>28 DEF n, k

\* A client waits for the test of another, that nobody else waits for.
LEMMA QueuedTest ==
    ASSUME NEW m \in MasterState, NEW n \in MasterState, NEW t, NEW c, Queued(m),
           n.process = m.process, n.active = m.active, n.pending = m.pending,
           n.posted = m.posted, n.acts = m.acts, n.testsMap = m.testsMap \cup {<<t, c>>},
           Enroll \in ToSet(m.active), t \in DOMAIN m.acts \cap NotStarted(m), t \notin Tests(m),
           m.acts[t].kind = "test", NameOf[m.acts[t].client] = NameOf[c],
           \A p \in DOMAIN m.acts : t \notin m.acts[p].children
    PROVE  Queued(n)
<1>0. /\ NotStarted(n) = NotStarted(m) /\ Unfinished(n) = Unfinished(m)
      /\ StartsPosted(n) = StartsPosted(m)
  BY DEF NotStarted, Unfinished, StartsPosted
<1>1. Line(n)
  BY <1>0 DEF Line, Queued
<1>2. Foremost(n)
  <2>1. m.process # "starting"
    BY DEF Foremost, Queued, Unfinished
  <2>. QED
    BY <2>1 DEF Foremost, Queued
<1>3. Fresh(n)
  BY <1>0 DEF Fresh, Queued, Idle
<1>4. Ends(n)
  BY <1>0 DEF Ends, Queued, Idle
<1>5. Awaits(n)
  <2>1. \A p \in n.testsMap : p \in m.testsMap \/ (p = <<t, c>> /\ p[1] = t /\ p[2] = c)
    OBVIOUS
  <2>2. t \in Unfinished(m)
    BY DEF Unfinished
  <2>3. \A p \in n.testsMap : /\ p[1] \in DOMAIN n.acts /\ p[1] \in Unfinished(n)
                              /\ n.acts[p[1]].kind = "test"
                              /\ NameOf[n.acts[p[1]].client] = NameOf[p[2]]
    BY <1>0, <2>1, <2>2 DEF Awaits, Queued
  <2>4. \A p \in m.testsMap : p[1] # t
    BY DEF Tests
  <2>5. \A p, q \in n.testsMap : p[1] = q[1] => p = q
    BY <2>1, <2>4 DEF Awaits, Queued
  <2>6. \A a : a \in Tests(n) => a = t \/ a \in Tests(m)
    BY <2>1 DEF Tests
  <2>7. \A p \in DOMAIN n.acts : \A a \in n.acts[p].children :
          /\ p < a /\ a \in DOMAIN n.acts /\ a \notin Tests(n) /\ n.acts[a].kind = "test"
          /\ \A q \in DOMAIN n.acts : a \in n.acts[q].children => p = q
    BY <2>6 DEF Awaits, Queued
  <2>8. \A p \in ToSet(n.active) : n.acts[p].children \subseteq Unfinished(n)
    BY <1>0 DEF Awaits, Queued
  <2>. QED
    BY <2>3, <2>5, <2>7, <2>8 DEF Awaits
<1>6. Exclusion(n)
  BY DEF Exclusion, Queued
<1>. QED
  BY <1>1, <1>2, <1>3, <1>4, <1>5, <1>6 DEF Queued

\* The first of those that have not started becomes active, or is kept pending.
LEMMA QueuedMove ==
    ASSUME NEW m \in MasterState, NEW n \in MasterState, NEW a \in NotStarted(m), Queued(m),
           n.process = m.process, n.acts = m.acts, n.testsMap = m.testsMap,
           \/ /\ m.pending = << >> /\ m.posted # << >> /\ n.posted = Tail(m.posted)
              /\ Head(m.posted).type = "start" /\ a = Head(m.posted).act
              /\ n.pending = m.pending
           \/ /\ m.pending # << >> /\ n.pending = Tail(m.pending) /\ a = Head(m.pending)
              /\ n.posted = m.posted,
           n.active = Append(m.active, a),
           m.acts[a].kind \in ExclusiveKinds =>
              \A b \in ToSet(m.active) : m.acts[b].kind # m.acts[a].kind
    PROVE  /\ Queued(n) /\ a \in ToSet(n.active) /\ a \in DOMAIN n.acts
           /\ a \notin ToSet(m.active)
           /\ Idle(n, a) /\ NotEnded(n, a)
           /\ ToSet(n.active) = ToSet(m.active) \cup {a}
<1>0. a \in DOMAIN m.acts /\ a \in Nat /\ DOMAIN m.acts \subseteq Nat /\ m.active \in Seq(Nat)
      /\ m.pending \in Seq(Nat) /\ m.posted \in Seq(Event) /\ Unfinished(m) \subseteq DOMAIN m.acts
  <2>1. m.acts \in Seq(Activity) /\ m.active \in Seq(Nat) /\ m.pending \in Seq(Nat)
        /\ m.posted \in Seq(Event)
    BY StateFacts
  <2>2. DOMAIN m.acts \subseteq Nat
    BY <2>1
  <2>3. a \in Unfinished(m) /\ Unfinished(m) \subseteq DOMAIN m.acts
    BY DEF Queued, Line, Unfinished
  <2>. QED
    BY <2>1, <2>2, <2>3
<1>1. ToSet(n.active) = ToSet(m.active) \cup {a} /\ a \in ToSet(n.active)
  <2>0. m.active \in Seq(Nat) /\ a \in Nat
    BY <1>0
  <2>1. ToSet(Append(m.active, a)) = ToSet(m.active) \cup {a}
    BY ONLY <2>0, AppendElements
  <2>. QED
    BY <2>1
<1>2. StartsPosted(m) = StartsOf(m.posted) /\ StartsPosted(n) = StartsOf(n.posted)
  BY DEF StartsPosted, StartsOf
<1>3. /\ \A b : b \in NotStarted(n) <=> b \in NotStarted(m) /\ b # a
      /\ \A b \in NotStarted(n) : a < b
      /\ Increasing(n.pending) /\ StartsInOrder(n.posted)
      /\ \A b \in ToSet(n.pending), d \in StartsPosted(n) : b < d
      /\ \A e \in ToSet(n.posted) : e \in ToSet(m.posted)
  <2>1. CASE /\ m.pending = << >> /\ m.posted # << >> /\ n.posted = Tail(m.posted)
             /\ Head(m.posted).type = "start" /\ a = Head(m.posted).act
             /\ n.pending = m.pending
    <3>1. /\ \A b : b \in StartsOf(m.posted) <=> b = a \/ b \in StartsOf(n.posted)
          /\ StartsInOrder(n.posted) /\ \A b \in StartsOf(n.posted) : a < b
      BY <1>0, <2>1, StartsTail DEF Queued, Line
    <3>2. ToSet(n.pending) = {} /\ ToSet(m.pending) = {}
      BY <2>1, EmptyFacts
    <3>3. \A e \in ToSet(n.posted) : e \in ToSet(m.posted)
      BY <1>0, <2>1, TailFacts
    <3>4. \A b \in StartsOf(n.posted) : b \in Nat
      BY <1>0, <1>2, <3>1 DEF Unfinished, NotStarted
    <3>5. \A b \in StartsOf(n.posted) : a < b /\ a # b
      BY <1>0, <3>1, <3>4
    <3>. QED
      BY <1>2, <2>1, <3>1, <3>2, <3>3, <3>5 DEF NotStarted, Queued, Line
  <2>2. CASE /\ m.pending # << >> /\ n.pending = Tail(m.pending) /\ a = Head(m.pending)
             /\ n.posted = m.posted
    <3>1. ToSet(m.pending) = {a} \cup ToSet(n.pending)
      BY <1>0, <2>2, TailFacts
    <3>2. Increasing(n.pending) /\ \A b \in ToSet(n.pending) : a < b
      BY <1>0, <2>2, IncreasingFacts DEF Queued, Line
    <3>3. StartsPosted(n) = StartsPosted(m)
      BY <1>2, <2>2
    <3>4. \A b \in ToSet(m.pending), d \in StartsPosted(m) : b < d
      BY DEF Queued, Line
    <3>5. \A b \in NotStarted(n) : a < b /\ b \in Nat
      BY <1>0, <3>1, <3>2, <3>3, <3>4 DEF NotStarted, Unfinished
    <3>6. \A b \in NotStarted(n) : a # b
      BY <1>0, <3>5
    <3>. QED
      BY <1>2, <2>2, <3>1, <3>2, <3>3, <3>4, <3>5, <3>6 DEF NotStarted, Queued, Line
  <2>. QED
    BY <2>1, <2>2
<1>4. \A b : b \in Unfinished(n) <=> b \in Unfinished(m)
  BY <1>1, <1>3 DEF Unfinished
<1>5. \A b \in ToSet(m.active) : b < a
  BY DEF Queued, Line
<1>6. \A b : Idle(n, b) <=> Idle(m, b)
  BY DEF Idle
<1>7. Line(n)
  <2>1. Increasing(n.active)
    BY <1>0, <1>5, IncreasingFacts DEF Queued, Line
  <2>2. \A b \in ToSet(n.active), d \in NotStarted(n) : b < d
    BY <1>1, <1>3 DEF Queued, Line
  <2>. QED
    BY <1>0, <1>3, <1>4, <2>1, <2>2 DEF Line
<1>8. Foremost(n)
  <2>1. m.process # "starting"
    BY DEF Foremost, Queued, Unfinished
  <2>. QED
    BY <1>1, <2>1 DEF Foremost, Queued
<1>9. Fresh(n)
  BY <1>3, <1>6 DEF Fresh, Queued
<1>10. Ends(n)
  BY <1>3, <1>6 DEF Ends, Queued
<1>11. Awaits(n)
  <2>1. \A p \in ToSet(n.active) : n.acts[p].children \subseteq Unfinished(n)
    <3>1. n.acts[a].children = {}
      BY DEF Fresh, Queued, Idle
    <3>. QED
      BY <1>1, <1>4, <3>1 DEF Awaits, Queued
  <2>2. Tests(n) = Tests(m)
    BY DEF Tests
  <2>. QED
    BY <1>4, <2>1, <2>2 DEF Awaits, Queued
<1>12. Exclusion(n)
  BY <1>1 DEF Exclusion, Queued
<1>13. NotEnded(n, a)
  <2>. SUFFICES ASSUME CompleteEvent(a) \in ToSet(n.posted) PROVE FALSE
    BY DEF NotEnded
  <2>1. CompleteEvent(a) \in ToSet(m.posted)
    BY <1>3
  <2>2. CompleteEvent(a).type = "complete" /\ CompleteEvent(a).act = a
    BY DEF CompleteEvent
  <2>. QED
    BY <2>1, <2>2 DEF Ends, Queued
<1>14. Idle(n, a)
  BY <1>6 DEF Fresh, Queued
<1>15. a \notin ToSet(m.active)
  BY <1>0, <1>5
<1>. QED
  BY <1>0, <1>1, <1>7, <1>8, <1>9, <1>10, <1>11, <1>12, <1>13, <1>14, <1>15 DEF Queued

LEMMA QueuedPend ==
    ASSUME NEW m \in MasterState, NEW n \in MasterState, Queued(m),
           n.process = m.process, n.acts = m.acts, n.testsMap = m.testsMap,
           m.posted # << >>, n.posted = Tail(m.posted), Head(m.posted).type = "start",
           n.pending = Append(m.pending, Head(m.posted).act), n.active = m.active
    PROVE  Queued(n)
<1>. DEFINE a == Head(m.posted).act
<1>0. StartsPosted(m) = StartsOf(m.posted) /\ StartsPosted(n) = StartsOf(n.posted)
  BY DEF StartsPosted, StartsOf
<1>1. /\ \A b : b \in StartsPosted(m) <=> b = a \/ b \in StartsPosted(n)
      /\ StartsInOrder(n.posted) /\ \A b \in StartsPosted(n) : a < b
  <2>1. m.posted \in Seq(Event) /\ StartsInOrder(m.posted)
    BY StateFacts DEF Queued, Line
  <2>2. /\ \A b : b \in StartsOf(m.posted) <=> \/ Head(m.posted).type = "start" /\ b = Head(m.posted).act
                                              \/ b \in StartsOf(Tail(m.posted))
        /\ StartsInOrder(Tail(m.posted))
        /\ Head(m.posted).type = "start" =>
              \A b \in StartsOf(Tail(m.posted)) : Head(m.posted).act < b
    BY <2>1, StartsTail
  <2>. QED
    BY <1>0, <2>2
<1>2. a \in NotStarted(m) /\ a \in Nat
  <2>1. a \in StartsPosted(m) /\ a \in DOMAIN m.acts
    BY <1>1 DEF Queued, Line, Unfinished, NotStarted
  <2>. QED
    BY <2>1, StateFacts, LenProperties DEF NotStarted
<1>3. ToSet(n.pending) = ToSet(m.pending) \cup {a}
  <2>0. m.pending \in Seq(Nat) /\ a \in Nat
    BY <1>2, StateFacts
  <2>. HIDE DEF a
  <2>1. ToSet(Append(m.pending, a)) = ToSet(m.pending) \cup {a}
    BY ONLY <2>0, AppendElements
  <2>. QED
    BY <2>1 DEF a
<1>4. \A e \in ToSet(n.posted) : e \in ToSet(m.posted)
  BY StateFacts, TailFacts
<1>5. Increasing(n.pending)
  <2>1. \A b \in ToSet(m.pending) : b < a
    BY <1>1 DEF Queued, Line
  <2>. QED
    BY <1>2, <2>1, StateFacts, IncreasingFacts DEF Queued, Line
<1>. HIDE DEF a
<1>6. \A b : b \in NotStarted(n) <=> b \in NotStarted(m)
  BY <1>1, <1>3 DEF NotStarted
<1>7. NotStarted(n) = NotStarted(m) /\ Unfinished(n) = Unfinished(m)
  BY <1>6 DEF Unfinished
<1>8. \A b : Idle(n, b) <=> Idle(m, b)
  BY DEF Idle
<1>9. Line(n)
  <2>1. \A b \in ToSet(n.pending), d \in StartsPosted(n) : b < d
    BY <1>1, <1>3 DEF Queued, Line
  <2>. QED
    BY <1>1, <1>5, <1>7, <2>1 DEF Queued, Line
<1>10. Foremost(n)
  BY <1>7 DEF Foremost, Queued
<1>11. Fresh(n)
  BY <1>7, <1>8 DEF Fresh, Queued
<1>12. Ends(n)
  BY <1>4, <1>7, <1>8 DEF Ends, Queued
<1>13. Awaits(n)
  BY <1>7 DEF Awaits, Queued, Tests
<1>14. Exclusion(n)
  BY DEF Exclusion, Queued
<1>. QED
  BY <1>9, <1>10, <1>11, <1>12, <1>13, <1>14 DEF Queued

\* An active activity that nobody active waits for leaves.
LEMMA QueuedLeave ==
    ASSUME NEW m \in MasterState, NEW n \in MasterState, NEW a \in ToSet(m.active), Queued(m),
           n.process = m.process, n.acts = m.acts, n.testsMap = m.testsMap,
           n.posted = m.posted, n.pending = m.pending,
           n.active = RemoveAt(m.active, At(m, a)),
           a # Enroll, a \notin Tests(m), \A p \in ToSet(m.active) : a \notin m.acts[p].children
    PROVE  Queued(n) /\ ToSet(n.active) = ToSet(m.active) \ {a}
<1>0. m.active \in Seq(Nat) /\ Increasing(m.active)
  BY StateFacts DEF Queued, Line
<1>1. At(m, a) \in DOMAIN m.active /\ m.active[At(m, a)] = a
  <2>1. \E i \in DOMAIN m.active : m.active[i] = a
    BY InToSet
  <2>. QED
    BY <2>1, Zenon DEF At
<1>2. ToSet(n.active) = ToSet(m.active) \ {a} /\ Increasing(n.active)
  <2>1. \A i, j \in DOMAIN m.active : m.active[i] = m.active[j] => i = j
    BY <1>0, IncreasingFacts
  <2>2. ToSet(RemoveAt(m.active, At(m, a))) = ToSet(m.active) \ {m.active[At(m, a)]}
    BY <1>0, <1>1, <2>1, RemoveAtFacts
  <2>3. Increasing(RemoveAt(m.active, At(m, a)))
    BY <1>0, <1>1, IncreasingFacts
  <2>. QED
    BY <1>1, <2>2, <2>3
<1>3. NotStarted(n) = NotStarted(m) /\ StartsPosted(n) = StartsPosted(m) /\ Tests(n) = Tests(m)
  BY DEF NotStarted, StartsPosted, Tests
<1>4. \A b : b \in Unfinished(m) /\ b # a => b \in Unfinished(n)
  BY <1>2, <1>3 DEF Unfinished
<1>5. Unfinished(n) \subseteq Unfinished(m)
  BY <1>2, <1>3 DEF Unfinished
<1>6. Line(n)
  BY <1>2, <1>3, <1>5 DEF Line, Queued
<1>7. Foremost(n)
  BY <1>2, <1>5 DEF Foremost, Queued
<1>8. Fresh(n) /\ Ends(n)
  BY <1>3 DEF Fresh, Ends, Queued, Idle
<1>9. Awaits(n)
  <2>1. \A p \in n.testsMap : p[1] # a
    BY DEF Tests
  <2>. QED
    BY <1>2, <1>3, <1>4, <2>1 DEF Awaits, Queued
<1>10. Exclusion(n)
  BY <1>2 DEF Exclusion, Queued
<1>. QED
  BY <1>2, <1>6, <1>7, <1>8, <1>9, <1>10 DEF Queued

-----------------------------------------------------------------------------
(***************************************************************************)
(* The slaves' part of the invariant, over the changes handlers make.      *)
(***************************************************************************)
\* In t no message is posted, or is posted more often, than in s; the answers to
\* loads are the same.
FewerMessages(s, t) ==
    \A c \in Conns, msg \in Answer :
        /\ Has(t, {MessageEvent(c, msg)}) => Has(s, {MessageEvent(c, msg)})
        /\ msg = "load" /\ Has(s, {MessageEvent(c, msg)}) => Has(t, {MessageEvent(c, msg)})
        /\ Once(s, {MessageEvent(c, msg)}) => Once(t, {MessageEvent(c, msg)})

LEMMA MessageFacts ==
    ASSUME NEW s \in Seq(Event)
    PROVE  /\ FewerMessages(s, s)
           /\ s # << >> /\ (Head(s).type = "message" => Head(s).msg # "load")
              => FewerMessages(s, Tail(s))
           /\ \A e \in Event : e.type # "message" => FewerMessages(s, Append(s, e))
           /\ \A t \in Seq(Event) : (\A i \in DOMAIN t : t[i].type # "message")
              => FewerMessages(s, s \o t)
<1>1. FewerMessages(s, s)
  BY DEF FewerMessages
<1>2. \A c \in Conns, msg \in Answer : /\ MessageEvent(c, msg).type = "message"
                                       /\ MessageEvent(c, msg).msg = msg
  BY EventFacts
<1>3. ASSUME s # << >>, Head(s).type = "message" => Head(s).msg # "load"
      PROVE  FewerMessages(s, Tail(s))
  <2>1. ASSUME NEW c \in Conns, NEW msg \in Answer
        PROVE  LET S == {MessageEvent(c, msg)}
               IN  /\ Has(s, S) <=> Head(s) \in S \/ Has(Tail(s), S)
                   /\ Once(s, S) => Once(Tail(s), S)
    BY <1>3, HasOnceTail
  <2>. QED
    BY <1>2, <1>3, <2>1 DEF FewerMessages
<1>4. ASSUME NEW e \in Event, e.type # "message"
      PROVE  FewerMessages(s, Append(s, e))
  <2>1. ASSUME NEW c \in Conns, NEW msg \in Answer
        PROVE  LET S == {MessageEvent(c, msg)}
               IN  /\ Has(Append(s, e), S) <=> Has(s, S) \/ e \in S
                   /\ Once(s, S) /\ (e \in S => ~Has(s, S)) => Once(Append(s, e), S)
    BY <1>4, HasOnceAppend
  <2>2. \A c \in Conns, msg \in Answer : e \notin {MessageEvent(c, msg)}
    BY <1>2, <1>4
  <2>. QED
    BY <2>1, <2>2 DEF FewerMessages
<1>5. ASSUME NEW t \in Seq(Event), \A i \in DOMAIN t : t[i].type # "message"
      PROVE  FewerMessages(s, s \o t)
  <2>1. ASSUME NEW c \in Conns, NEW msg \in Answer
        PROVE  LET S == {MessageEvent(c, msg)}
               IN  /\ Has(s \o t, S) <=> Has(s, S) \/ Has(t, S)
                   /\ Once(s, S) /\ Once(t, S) /\ ~(Has(s, S) /\ Has(t, S)) => Once(s \o t, S)
    BY <1>5, HasOnceConcat
  <2>2. \A c \in Conns, msg \in Answer : /\ ~Has(t, {MessageEvent(c, msg)})
                                         /\ Once(t, {MessageEvent(c, msg)})
    BY <1>2, <1>5 DEF Has, Once
  <2>. QED
    BY <2>1, <2>2 DEF FewerMessages
<1>. QED
  BY <1>1, <1>3, <1>4, <1>5

\* Messages that are neither answers to an enrollment nor requests to load.
Others == {"alive", "loadConfig", "saveConfig"}

OutKept(m, n) ==
    \A c \in Conns : \/ n.out[c] = m.out[c]
                     \/ link[c] = "up" /\ \E msg \in Others : n.out[c] = Append(m.out[c], msg)

LEMMA OutFacts ==
    ASSUME NEW m \in MasterState, NEW n \in MasterState, OutKept(m, n), NEW c \in Conns
    PROVE  /\ \A S \in SUBSET {"load", "enrolled", "denied"} :
                 /\ Has(n.out[c], S) <=> Has(m.out[c], S)
                 /\ Once(m.out[c], S) => Once(n.out[c], S)
           /\ link[c] # "up" => n.out[c] = m.out[c]
<1>1. m.out[c] \in Seq(Order)
  BY StateFacts
<1>2. ASSUME NEW S \in SUBSET {"load", "enrolled", "denied"}, NEW msg \in Others
      PROVE  LET out == Append(m.out[c], msg)
             IN  (Has(out, S) <=> Has(m.out[c], S)) /\ (Once(m.out[c], S) => Once(out, S))
  <2>1. msg \in Order /\ msg \notin S
    BY DEF Others, Order
  <2>. QED
    BY <1>1, <2>1, HasOnceAppend
<1>. QED
  BY <1>2 DEF OutKept

\* Nothing new about enrollments, loads, or who has which name; a client that
\* cannot be reached may be removed.
LEMMA ServedFrame ==
    ASSUME NEW m \in MasterState, NEW n \in MasterState, Served(m),
           FewerMessages(m.posted, n.posted), OutKept(m, n),
           n.testsMap \subseteq m.testsMap,
           \A x \in Names : \/ n.clients[x] = m.clients[x]
                            \/ n.clients[x] = None /\ link[m.clients[x]] # "up",
           \A c \in Conns : Await(n, c) <=> Await(m, c),
           \A a \in DOMAIN n.acts : \A c \in n.acts[a].waiting :
              \/ link[c] # "off"
              \/ a \in DOMAIN m.acts /\ c \in m.acts[a].waiting
    PROVE  Served(n)
<1>1. \A c \in Conns : /\ Has(n.out[c], {"load"}) <=> Has(m.out[c], {"load"})
                       /\ Has(n.out[c], {"enrolled"}) <=> Has(m.out[c], {"enrolled"})
                       /\ Has(n.out[c], Replies) <=> Has(m.out[c], Replies)
                       /\ Once(m.out[c], {"load"}) => Once(n.out[c], {"load"})
                       /\ Once(m.out[c], Replies) => Once(n.out[c], Replies)
                       /\ link[c] # "up" => n.out[c] = m.out[c]
  <2>1. /\ {"load"} \in SUBSET {"load", "enrolled", "denied"}
        /\ {"enrolled"} \in SUBSET {"load", "enrolled", "denied"}
        /\ Replies \in SUBSET {"load", "enrolled", "denied"}
    BY DEF Replies
  <2>. QED
    BY <2>1, OutFacts
<1>2. \A c \in Conns : /\ Has(n.posted, {MessageEvent(c, "load")}) <=> Has(m.posted, {MessageEvent(c, "load")})
                       /\ Once(m.posted, {MessageEvent(c, "load")}) => Once(n.posted, {MessageEvent(c, "load")})
                       /\ Has(n.posted, {MessageEvent(c, "enroll")}) => Has(m.posted, {MessageEvent(c, "enroll")})
                       /\ Once(m.posted, {MessageEvent(c, "enroll")}) => Once(n.posted, {MessageEvent(c, "enroll")})
  BY DEF FewerMessages, Answer
<1>3. Unknown(n)
  <2>. SUFFICES ASSUME NEW c \in Conns, link[c] = "off"
                PROVE  /\ n.out[c] = << >> /\ told[c] = "nothing" /\ c \notin loading
                       /\ config[c] = "none"
                       /\ \A msg \in Answer : ~Has(n.posted, {MessageEvent(c, msg)})
                       /\ \A x \in Names : n.clients[x] # c
                       /\ \A p \in n.testsMap : p[2] # c
                       /\ \A a \in DOMAIN n.acts : c \notin n.acts[a].waiting
    BY DEF Unknown
  <2>1. /\ m.out[c] = << >> /\ told[c] = "nothing" /\ c \notin loading /\ config[c] = "none"
        /\ \A msg \in Answer : ~Has(m.posted, {MessageEvent(c, msg)})
        /\ \A x \in Names : m.clients[x] # c
        /\ \A p \in m.testsMap : p[2] # c
        /\ \A a \in DOMAIN m.acts : c \notin m.acts[a].waiting
    BY DEF Served, Unknown
  <2>2. \A x \in Names : n.clients[x] # c
    BY <2>1, Constants
  <2>3. \A msg \in Answer : ~Has(n.posted, {MessageEvent(c, msg)})
    BY <2>1 DEF FewerMessages
  <2>4. n.out[c] = << >>
    BY <1>1, <2>1
  <2>. QED
    BY <2>1, <2>2, <2>3, <2>4
<1>4. Loads(n)
  BY <1>1, <1>2 DEF Served, Loads, OneLoad, SomeLoad, LoadOut, LoadDone
<1>5. Enrolls(n)
  BY <1>1, <1>2 DEF Served, Enrolls, Testing
<1>6. Owners(n)
  BY <1>1, Constants DEF Served, Owners
<1>. QED
  BY <1>3, <1>4, <1>5, <1>6 DEF Served

\* Some clients are asked to load a program: they are reached and known, and no
\* load is active but the one that asks.
LEMMA ServedLoad ==
    ASSUME NEW m \in MasterState, NEW n \in MasterState, NEW a, NEW R \in SUBSET Conns,
           Served(m), a \in ToSet(m.active),
           \A b \in ToSet(m.active) : m.acts[b].kind = "load" => b = a,
           m.acts[a].kind = "load", m.acts[a].waiting = {},
           \A c \in R : link[c] # "off",
           n.active = m.active, n.posted = m.posted, n.clients = m.clients, n.testsMap = m.testsMap,
           \A c \in Conns : n.out[c] = IF c \in R /\ link[c] = "up" THEN Append(m.out[c], "load")
                                       ELSE m.out[c],
           DOMAIN n.acts = DOMAIN m.acts,
           \A b \in DOMAIN m.acts \cup ToSet(m.active) :
              /\ n.acts[b].kind = m.acts[b].kind
              /\ n.acts[b].waiting = IF b = a THEN R ELSE m.acts[b].waiting
    PROVE  Served(n)
<1>1. \A c \in Conns : ~Await(m, c) /\ ~SomeLoad(m, c)
  BY DEF Await, Served, Loads
<1>2. \A c \in Conns : Await(n, c) <=> c \in R
  BY DEF Await
<1>3. \A c \in Conns : m.out[c] \in Seq(Order)
  BY StateFacts
<1>4. ASSUME NEW c \in Conns
      PROVE  LET out == Append(m.out[c], "load")
             IN  /\ Has(out, {"load"}) /\ (Has(out, {"enrolled"}) <=> Has(m.out[c], {"enrolled"}))
                 /\ Has(out, Replies) <=> Has(m.out[c], Replies)
                 /\ Once(m.out[c], {"load"}) /\ ~Has(m.out[c], {"load"}) => Once(out, {"load"})
                 /\ Once(m.out[c], Replies) => Once(out, Replies)
  <2>1. "load" \in Order /\ "load" \notin Replies
    BY DEF Order, Replies
  <2>2. m.out[c] \in Seq(Order)
    BY <1>3
  <2>. QED
    BY <2>1, <2>2, HasOnceAppend
<1>5. \A c \in Conns : /\ Has(n.out[c], {"load"}) <=> Has(m.out[c], {"load"}) \/ (c \in R /\ link[c] = "up")
                       /\ Has(n.out[c], {"enrolled"}) <=> Has(m.out[c], {"enrolled"})
                       /\ Has(n.out[c], Replies) <=> Has(m.out[c], Replies)
                       /\ ~Has(m.out[c], {"load"}) /\ Once(m.out[c], {"load"}) => Once(n.out[c], {"load"})
                       /\ Once(m.out[c], Replies) => Once(n.out[c], Replies)
  BY <1>4
<1>6. Unknown(n)
  BY DEF Served, Unknown
<1>7. Loads(n)
  BY <1>1, <1>2, <1>5 DEF Served, Loads, OneLoad, SomeLoad, LoadOut, LoadDone
<1>8. Enrolls(n)
  <2>1. \A c \in Conns : Testing(n, c) <=> Testing(m, c)
    BY DEF Testing
  <2>2. \A c \in Conns : /\ Has(n.out[c], Replies) <=> Has(m.out[c], Replies)
                         /\ Once(m.out[c], Replies) => Once(n.out[c], Replies)
    BY <1>5
  <2>. QED
    BY <2>1, <2>2, ZenonT(60) DEF Served, Enrolls
<1>9. Owners(n)
  BY <1>5 DEF Served, Owners
<1>. QED
  BY <1>6, <1>7, <1>8, <1>9 DEF Served

\* c has enrolled, and is in none of the places where an enrollment can be.
Unanswered(m, c) ==
    /\ ~Has(m.posted, {MessageEvent(c, "enroll")}) /\ ~Testing(m, c)
    /\ ~Has(m.out[c], Replies) /\ told[c] = "nothing" /\ link[c] # "off"

LEMMA ServedReply ==
    ASSUME NEW m \in MasterState, NEW n \in MasterState, NEW c \in Conns, NEW reply \in Replies,
           Served(m), Unanswered(m, c),
           n.active = m.active, n.acts = m.acts, n.posted = m.posted, n.testsMap = m.testsMap,
           \A d \in Conns : n.out[d] = IF d = c /\ link[d] = "up" THEN Append(m.out[d], reply)
                                       ELSE m.out[d],
           \A x \in Names : \/ n.clients[x] = m.clients[x]
                            \/ x = NameOf[c] /\ m.clients[x] = None /\ n.clients[x] = c,
           reply = "enrolled" => n.clients[NameOf[c]] = c
    PROVE  Served(n)
<1>1. m.out[c] \in Seq(Order) /\ reply \in Order
  BY StateFacts DEF Replies, Order
<1>2. LET out == Append(m.out[c], reply)
      IN  /\ Has(out, {"load"}) <=> Has(m.out[c], {"load"})
          /\ Has(out, {"enrolled"}) => reply = "enrolled"
          /\ Once(m.out[c], {"load"}) => Once(out, {"load"})
          /\ Once(out, Replies)
  <2>1. ~Has(m.out[c], Replies) /\ ~Has(m.out[c], {"enrolled"}) /\ Once(m.out[c], Replies)
    BY DEF Unanswered, Has, Once, Replies
  <2>2. reply # "load"
    BY DEF Replies
  <2>. QED
    BY <1>1, <2>1, <2>2, HasOnceAppend
<1>3. /\ \A d \in Conns : /\ Has(n.out[d], {"load"}) <=> Has(m.out[d], {"load"})
                          /\ Once(m.out[d], {"load"}) => Once(n.out[d], {"load"})
                          /\ d # c \/ link[d] # "up" => n.out[d] = m.out[d]
      /\ link[c] = "up" => (Has(n.out[c], {"enrolled"}) => reply = "enrolled")
      /\ link[c] = "up" => Once(n.out[c], Replies)
  BY <1>2
<1>4. \A d \in Conns : Await(n, d) <=> Await(m, d)
  BY DEF Await
<1>5. \A d \in Conns : Testing(n, d) <=> Testing(m, d)
  BY DEF Testing
<1>6. Unknown(n)
  <2>1. \A x \in Names : n.clients[x] = m.clients[x] \/ n.clients[x] = c
    OBVIOUS
  <2>. QED
    BY <1>3, <2>1 DEF Served, Unknown, Unanswered
<1>7. Loads(n)
  BY <1>3, <1>4 DEF Served, Loads, OneLoad, SomeLoad, LoadOut, LoadDone
<1>8. Enrolls(n)
  BY <1>3, <1>5 DEF Served, Enrolls, Unanswered
<1>9. Owners(n)
  <2>1. \A x \in Names : n.clients[x] # None => NameOf[n.clients[x]] = x
    BY DEF Served, Owners
  <2>2. ASSUME NEW d \in Conns, link[d] = "up", told[d] = "enrolled" \/ Has(n.out[d], {"enrolled"})
        PROVE  n.clients[NameOf[d]] = d
    <3>1. CASE d = c
      BY <1>3, <2>2, <3>1 DEF Unanswered
    <3>2. CASE d # c
      <4>1. m.clients[NameOf[d]] = d
        BY <1>3, <2>2, <3>2 DEF Served, Owners
      <4>. QED
        BY <4>1, Constants
    <3>. QED
      BY <3>1, <3>2
  <2>. QED
    BY <2>1, <2>2 DEF Owners
<1>. QED
  BY <1>6, <1>7, <1>8, <1>9 DEF Served

\* A client waits for a test.
LEMMA ServedTest ==
    ASSUME NEW m \in MasterState, NEW n \in MasterState, NEW c \in Conns, NEW t,
           Served(m), Unanswered(m, c),
           n.active = m.active, n.acts = m.acts, n.posted = m.posted, n.out = m.out,
           n.clients = m.clients, n.testsMap = m.testsMap \cup {<<t, c>>}
    PROVE  Served(n)
<1>1. \A p \in n.testsMap : p \in m.testsMap \/ (p = <<t, c>> /\ p[2] = c)
  OBVIOUS
<1>2. \A p \in m.testsMap : p[2] # c
  BY DEF Unanswered, Testing
<1>3. \A d \in Conns : d # c => (Testing(n, d) <=> Testing(m, d))
  BY <1>1 DEF Testing
<1>4. \A d \in Conns : Await(n, d) <=> Await(m, d)
  BY DEF Await
<1>5. Unknown(n)
  BY <1>1 DEF Served, Unknown, Unanswered
<1>6. Loads(n)
  BY <1>4 DEF Served, Loads, OneLoad, SomeLoad, LoadOut, LoadDone
<1>7. Enrolls(n)
  <2>1. \A p, q \in n.testsMap : p[2] = q[2] => p = q
    BY <1>1, <1>2, StateFacts DEF Served, Enrolls
  <2>. QED
    BY <1>1, <1>3, <2>1 DEF Served, Enrolls, Unanswered
<1>8. Owners(n)
  BY DEF Served, Owners
<1>. QED
  BY <1>5, <1>6, <1>7, <1>8 DEF Served

LEMMA OutSame ==
    ASSUME NEW m, NEW n, n.out = m.out
    PROVE  OutKept(m, n)
BY DEF OutKept

\* The answer to an enrollment, or the client that cannot be reached is removed.
LEMMA SendOrRemoveFacts ==
    ASSUME NEW m \in MasterState, NEW c \in Conns, Served(m), Unanswered(m, c)
    PROVE  LET n == SendOrRemove(m, c, "denied")
           IN  n \in MasterState /\ SameQueue(m, n) /\ n.posted = m.posted /\ Served(n)
<1>. DEFINE n == SendOrRemove(m, c, "denied")
<1>1. CASE Sendable(c)
  <2>1. n = Send(m, {c}, "denied") /\ "denied" \in Order
    BY <1>1 DEF SendOrRemove, Order
  <2>2. /\ n \in MasterState /\ SameQueue(m, n) /\ n.posted = m.posted /\ n.clients = m.clients
        /\ \A d \in Conns : n.out[d] = IF d \in {c} /\ link[d] = "up" THEN Append(m.out[d], "denied")
                                       ELSE m.out[d]
    BY <2>1, SendFacts
  <2>. HIDE DEF n
  <2>3. "denied" \in Replies
    BY DEF Replies
  <2>4. Served(n)
    BY <2>2, <2>3, ServedReply DEF SameQueue
  <2>. QED
    BY <2>2, <2>4 DEF n
<1>2. CASE ~Sendable(c)
  <2>1. n = RemoveClients(m, {c})
    BY <1>2 DEF SendOrRemove
  <2>2. /\ n \in MasterState /\ SameQueue(m, n) /\ n.posted = m.posted /\ n.out = m.out
        /\ \A x \in Names : n.clients[x] = IF m.clients[x] \in {c} THEN None ELSE m.clients[x]
    BY <2>1, RemoveFacts
  <2>. HIDE DEF n
  <2>3. OutKept(m, n) /\ FewerMessages(m.posted, n.posted) /\ link[c] # "up"
    BY <1>2, <2>2, OutSame, StateFacts, MessageFacts DEF Sendable
  <2>4. \A d \in Conns : Await(n, d) <=> Await(m, d)
    BY <2>2 DEF Await, SameQueue
  <2>5. Served(n)
    BY <2>2, <2>3, <2>4, ServedFrame DEF SameQueue
  <2>. QED
    BY <2>2, <2>5 DEF n
<1>. QED
  BY <1>1, <1>2

LEMMA EnrollAsFacts ==
    ASSUME NEW m \in MasterState, NEW c \in Conns, Served(m), Unanswered(m, c)
    PROVE  LET n == EnrollAs(m, NameOf[c], c)
           IN  n \in MasterState /\ SameQueue(m, n) /\ n.posted = m.posted /\ Served(n)
<1>. DEFINE n == EnrollAs(m, NameOf[c], c)
            clients == [m.clients EXCEPT ![NameOf[c]] = c]
            e == [m EXCEPT !.clients = clients]
<1>1. CASE m.clients[NameOf[c]] # None
  <2>1. n = SendOrRemove(m, c, "denied")
    BY <1>1 DEF EnrollAs
  <2>. QED
    BY <2>1, SendOrRemoveFacts
<1>2. CASE m.clients[NameOf[c]] = None
  <2>1. NameOf[c] \in Names /\ m.clients \in [Names -> Conns \cup {None}]
    BY Constants, StateFacts
  <2>2. /\ clients \in [Names -> Conns \cup {None}] /\ clients[NameOf[c]] = c
        /\ \A x \in Names : x # NameOf[c] => clients[x] = m.clients[x]
    BY <2>1
  <2>3. e = [m EXCEPT !.clients[NameOf[c]] = c]
    BY DEF MasterState
  <2>. HIDE DEF clients
  <2>4. /\ e \in MasterState /\ SameQueue(m, e) /\ e.posted = m.posted /\ e.out = m.out
        /\ e.clients = clients
    <3>1. e \in MasterState
      BY <2>2, UpdateFacts, Zenon
    <3>. QED
      BY <3>1 DEF SameQueue, MasterState
  <2>5. n = SendOrRemove(e, c, "enrolled")
    BY <1>2, <2>3 DEF EnrollAs
  <2>. HIDE DEF e, n
  <2>6. CASE Sendable(c)
    <3>1. n = Send(e, {c}, "enrolled") /\ "enrolled" \in Order /\ "enrolled" \in Replies
      BY <2>5, <2>6 DEF SendOrRemove, Order, Replies
    <3>2. /\ n \in MasterState /\ SameQueue(e, n) /\ n.posted = e.posted /\ n.clients = e.clients
          /\ \A d \in Conns : n.out[d] = IF d \in {c} /\ link[d] = "up" THEN Append(e.out[d], "enrolled")
                                         ELSE e.out[d]
      BY <2>4, <3>1, SendFacts
    <3>3. Served(n)
      BY <1>2, <2>2, <2>4, <3>1, <3>2, ServedReply, SMTT(30) DEF SameQueue
    <3>. QED
      BY <2>4, <3>2, <3>3 DEF n, SameQueue
  <2>7. CASE ~Sendable(c)
    <3>1. n = RemoveClients(e, {c})
      BY <2>5, <2>7 DEF SendOrRemove
    <3>2. /\ n \in MasterState /\ SameQueue(e, n) /\ n.posted = e.posted /\ n.out = e.out
          /\ \A x \in Names : n.clients[x] = IF e.clients[x] \in {c} THEN None ELSE e.clients[x]
      BY <2>4, <3>1, RemoveFacts
    <3>3. OutKept(m, n) /\ FewerMessages(m.posted, n.posted) /\ link[c] # "up"
      BY <2>4, <2>7, <3>2, OutSame, StateFacts, MessageFacts DEF Sendable
    <3>4. \A d \in Conns : Await(n, d) <=> Await(m, d)
      BY <2>4, <3>2 DEF Await, SameQueue
    <3>5. \A x \in Names : \/ n.clients[x] = m.clients[x]
                           \/ n.clients[x] = None /\ link[m.clients[x]] # "up"
      BY <1>2, <2>2, <2>4, <3>2, <3>3
    <3>6. Served(n)
      BY <2>4, <3>2, <3>3, <3>4, <3>5, ServedFrame DEF SameQueue
    <3>. QED
      BY <2>4, <3>2, <3>6 DEF n, SameQueue
  <2>. QED
    BY <2>6, <2>7
<1>. QED
  BY <1>1, <1>2

-----------------------------------------------------------------------------
(***************************************************************************)
(* Handlers keep the invariant.                                            *)
(***************************************************************************)
Good(m) == m \in MasterState /\ Queued(m) /\ Served(m)

SameBut(m, n, acts) ==
    /\ n.process = m.process /\ n.active = m.active /\ n.pending = m.pending
    /\ n.posted = m.posted /\ n.testsMap = m.testsMap /\ n.out = m.out
    /\ n.clients = m.clients /\ n.acts = acts

\* One activity changes.
LEMMA ActsFacts ==
    ASSUME NEW m \in MasterState, NEW a \in DOMAIN m.acts, NEW act \in Activity
    PROVE  LET n == [m EXCEPT !.acts = [m.acts EXCEPT ![a] = act]]
           IN  /\ n \in MasterState /\ SameBut(m, n, [m.acts EXCEPT ![a] = act])
               /\ DOMAIN n.acts = DOMAIN m.acts /\ Len(n.acts) = Len(m.acts)
               /\ n.acts[a] = act
               /\ \A b \in DOMAIN m.acts : b # a => n.acts[b] = m.acts[b]
<1>. DEFINE acts == [m.acts EXCEPT ![a] = act]
            n == [m EXCEPT !.acts = acts]
<1>1. m.acts \in Seq(Activity)
  BY StateFacts
<1>2. /\ acts \in Seq(Activity) /\ DOMAIN acts = DOMAIN m.acts /\ Len(acts) = Len(m.acts)
      /\ acts[a] = act /\ \A b \in DOMAIN m.acts : b # a => acts[b] = m.acts[b]
  BY <1>1
<1>. HIDE DEF acts
<1>3. n \in MasterState
  BY <1>2, UpdateFacts, Zenon
<1>4. SameBut(m, n, acts)
  BY DEF SameBut, MasterState
<1>. QED
  BY <1>2, <1>3, <1>4, Zenon DEF acts, SameBut

WithChildren(m, a, S) == [m EXCEPT !.acts[a].children = S]

LEMMA ChildrenFacts ==
    ASSUME NEW m \in MasterState, NEW a \in DOMAIN m.acts, m.acts[a].kind # "test",
           NEW S \in SUBSET Nat,
           NEW n, n = WithChildren(m, a, S)
    PROVE  /\ n \in MasterState /\ SameBut(m, n, n.acts)
           /\ DOMAIN n.acts = DOMAIN m.acts /\ Len(n.acts) = Len(m.acts)
           /\ n.acts[a].kind = m.acts[a].kind /\ n.acts[a].client = m.acts[a].client
           /\ n.acts[a].children = S /\ n.acts[a].waiting = m.acts[a].waiting
           /\ \A b \in DOMAIN m.acts : b # a => n.acts[b] = m.acts[b]
<1>. DEFINE act == [m.acts[a] EXCEPT !.children = S]
<1>1. m.acts[a] \in Activity
  BY StateFacts
<1>2. act \in Activity
  BY <1>1, ActivityFacts
<1>3. [m EXCEPT !.acts[a].children = S] = [m EXCEPT !.acts = [m.acts EXCEPT ![a] = act]]
  OBVIOUS
<1>4. /\ act.kind = m.acts[a].kind /\ act.client = m.acts[a].client
      /\ act.children = S /\ act.waiting = m.acts[a].waiting
  BY <1>1 DEF Activity
<1>. HIDE DEF act
<1>. DEFINE k == [m EXCEPT !.acts = [m.acts EXCEPT ![a] = act]]
<1>5. /\ k \in MasterState /\ SameBut(m, k, [m.acts EXCEPT ![a] = act])
      /\ DOMAIN k.acts = DOMAIN m.acts /\ Len(k.acts) = Len(m.acts)
      /\ k.acts[a] = act
      /\ \A b \in DOMAIN m.acts : b # a => k.acts[b] = m.acts[b]
  BY <1>2, ActsFacts
<1>6. n = k
  BY <1>3 DEF k, WithChildren
<1>. HIDE DEF k
<1>7. SameBut(m, n, n.acts)
  BY <1>5, <1>6 DEF SameBut
<1>. QED
  BY <1>4, <1>5, <1>6, <1>7

WithWaiting(m, a, S) == [m EXCEPT !.acts[a].waiting = S]

LEMMA WaitingFacts ==
    ASSUME NEW m \in MasterState, NEW a \in DOMAIN m.acts, m.acts[a].kind # "test",
           NEW S \in SUBSET Conns,
           NEW n, n = WithWaiting(m, a, S)
    PROVE  /\ n \in MasterState /\ SameBut(m, n, n.acts)
           /\ DOMAIN n.acts = DOMAIN m.acts /\ Len(n.acts) = Len(m.acts)
           /\ n.acts[a].kind = m.acts[a].kind /\ n.acts[a].client = m.acts[a].client
           /\ n.acts[a].waiting = S /\ n.acts[a].children = m.acts[a].children
           /\ n.acts[a].named = m.acts[a].named
           /\ \A b \in DOMAIN m.acts : b # a => n.acts[b] = m.acts[b]
<1>. DEFINE act == [m.acts[a] EXCEPT !.waiting = S]
<1>1. m.acts[a] \in Activity
  BY StateFacts
<1>2. act \in Activity
  BY <1>1, ActivityFacts
<1>3. [m EXCEPT !.acts[a].waiting = S] = [m EXCEPT !.acts = [m.acts EXCEPT ![a] = act]]
  OBVIOUS
<1>4. /\ act.kind = m.acts[a].kind /\ act.client = m.acts[a].client /\ act.named = m.acts[a].named
      /\ act.waiting = S /\ act.children = m.acts[a].children
  BY <1>1 DEF Activity
<1>. HIDE DEF act
<1>. DEFINE k == [m EXCEPT !.acts = [m.acts EXCEPT ![a] = act]]
<1>5. /\ k \in MasterState /\ SameBut(m, k, [m.acts EXCEPT ![a] = act])
      /\ DOMAIN k.acts = DOMAIN m.acts /\ Len(k.acts) = Len(m.acts)
      /\ k.acts[a] = act
      /\ \A b \in DOMAIN m.acts : b # a => k.acts[b] = m.acts[b]
  BY <1>2, ActsFacts
<1>6. n = k
  BY <1>3 DEF k, WithWaiting
<1>. HIDE DEF k
<1>7. SameBut(m, n, n.acts)
  BY <1>5, <1>6 DEF SameBut
<1>. QED
  BY <1>4, <1>5, <1>6, <1>7

WithAlive(m, a) == [m EXCEPT !.acts[a].alive = TRUE]

LEMMA AliveFacts ==
    ASSUME NEW m \in MasterState, NEW a \in DOMAIN m.acts, m.acts[a].kind = "test",
           NEW n, n = WithAlive(m, a)
    PROVE  /\ n \in MasterState /\ SameBut(m, n, n.acts)
           /\ DOMAIN n.acts = DOMAIN m.acts /\ Len(n.acts) = Len(m.acts)
           /\ n.acts[a].kind = m.acts[a].kind /\ n.acts[a].client = m.acts[a].client
           /\ n.acts[a].waiting = m.acts[a].waiting
           /\ n.acts[a].children = m.acts[a].children
           /\ \A b \in DOMAIN m.acts : b # a => n.acts[b] = m.acts[b]
<1>. DEFINE act == [m.acts[a] EXCEPT !.alive = TRUE]
<1>1. m.acts[a] \in Activity
  BY StateFacts
<1>2. act \in Activity
  BY <1>1, ActivityFacts
<1>3. [m EXCEPT !.acts[a].alive = TRUE] = [m EXCEPT !.acts = [m.acts EXCEPT ![a] = act]]
  OBVIOUS
<1>4. /\ act.kind = m.acts[a].kind /\ act.client = m.acts[a].client
      /\ act.waiting = m.acts[a].waiting /\ act.children = m.acts[a].children
  BY <1>1 DEF Activity
<1>. HIDE DEF act
<1>. DEFINE k == [m EXCEPT !.acts = [m.acts EXCEPT ![a] = act]]
<1>5. /\ k \in MasterState /\ SameBut(m, k, [m.acts EXCEPT ![a] = act])
      /\ DOMAIN k.acts = DOMAIN m.acts /\ Len(k.acts) = Len(m.acts)
      /\ k.acts[a] = act
      /\ \A b \in DOMAIN m.acts : b # a => k.acts[b] = m.acts[b]
  BY <1>2, ActsFacts
<1>6. n = k
  BY <1>3 DEF k, WithAlive
<1>. HIDE DEF k
<1>7. SameBut(m, n, n.acts)
  BY <1>5, <1>6 DEF SameBut
<1>. QED
  BY <1>4, <1>5, <1>6, <1>7

\* What is posted of starts and completions.
LEMMA PostedFacts ==
    ASSUME NEW s \in Seq(Event)
    PROVE  /\ \A e \in Event : e.type # "start" =>
                 /\ StartsInOrder(s) => StartsInOrder(Append(s, e))
                 /\ StartsOf(Append(s, e)) = StartsOf(s)
                 /\ \A d \in ToSet(Append(s, e)) : d \in ToSet(s) \/ d = e
           /\ s # << >> /\ Head(s).type # "start" =>
                 /\ StartsInOrder(s) => StartsInOrder(Tail(s))
                 /\ StartsOf(Tail(s)) = StartsOf(s)
                 /\ \A d \in ToSet(Tail(s)) : d \in ToSet(s)
<1>1. ASSUME NEW e \in Event, e.type # "start"
      PROVE  /\ StartsInOrder(s) => StartsInOrder(Append(s, e))
             /\ StartsOf(Append(s, e)) = StartsOf(s)
             /\ \A d \in ToSet(Append(s, e)) : d \in ToSet(s) \/ d = e
  <2>1. /\ \A b : b \in StartsOf(Append(s, e)) <=> b \in StartsOf(s)
        /\ StartsInOrder(s) => StartsInOrder(Append(s, e))
    BY <1>1, StartsAppend
  <2>2. ToSet(Append(s, e)) = ToSet(s) \cup {e}
    BY AppendElements
  <2>. QED
    BY <2>1, <2>2
<1>2. ASSUME s # << >>, Head(s).type # "start"
      PROVE  /\ StartsInOrder(s) => StartsInOrder(Tail(s))
             /\ StartsOf(Tail(s)) = StartsOf(s)
             /\ \A d \in ToSet(Tail(s)) : d \in ToSet(s)
  <2>1. /\ \A b : b \in StartsOf(s) <=> b \in StartsOf(Tail(s))
        /\ StartsInOrder(s) => StartsInOrder(Tail(s))
    BY <1>2, StartsTail
  <2>2. ToSet(s) = {Head(s)} \cup ToSet(Tail(s))
    BY <1>2, TailFacts
  <2>. QED
    BY <2>1, <2>2
<1>. QED
  BY <1>1, <1>2

\* An activity posts its completion.
LEMMA GoodComplete ==
    ASSUME NEW m, NEW a, Good(m), CanEnd(m, a)
    PROVE  Good(Complete(m, a))
<1>. DEFINE n == Complete(m, a)
<1>0. a \in Nat /\ m \in MasterState /\ Queued(m) /\ Served(m)
  BY StateFacts, LenProperties DEF CanEnd, Good
<1>1. /\ n \in MasterState /\ SameQueue(m, n) /\ SameSlaves(m, n)
      /\ n.posted = Append(m.posted, CompleteEvent(a))
  BY <1>0, CompleteFacts
<1>. HIDE DEF n
<1>2. /\ CompleteEvent(a) \in Event /\ CompleteEvent(a).type = "complete"
      /\ CompleteEvent(a).act = a /\ m.posted \in Seq(Event)
  BY <1>0, EventFacts, StateFacts
<1>3. /\ StartsInOrder(m.posted) => StartsInOrder(n.posted)
      /\ StartsOf(n.posted) = StartsOf(m.posted)
      /\ \A d \in ToSet(n.posted) : d \in ToSet(m.posted) \/ d = CompleteEvent(a)
      /\ FewerMessages(m.posted, n.posted)
  BY <1>1, <1>2, PostedFacts, MessageFacts
<1>4. StartsPosted(n) = StartsPosted(m) /\ StartsInOrder(n.posted)
  BY <1>0, <1>3 DEF StartsPosted, StartsOf, Queued, Line
<1>5. Queued(n)
  BY <1>0, <1>1, <1>2, <1>3, <1>4, QueuedFrame DEF SameQueue
<1>6. OutKept(m, n)
  BY <1>1, OutSame DEF SameSlaves
<1>7. Served(n)
  BY <1>0, <1>1, <1>3, <1>6, ServedFrame DEF SameQueue, SameSlaves, Await
<1>. QED
  BY <1>1, <1>5, <1>7 DEF Good, n

LEMMA ActiveFacts ==
    ASSUME NEW m, NEW a \in ToSet(m.active), Good(m)
    PROVE  /\ a \in DOMAIN m.acts /\ a \notin NotStarted(m) /\ m.process # "starting"
           /\ m.acts[a] \in Activity
           /\ m.acts[a].kind # "enroll" => a # Enroll
           /\ a # Enroll /\ Idle(m, a) => CanEnd(m, a)
<1>1. a \in DOMAIN m.acts /\ m.process # "starting"
  BY DEF Good, Queued, Line, Foremost, Unfinished
<1>2. m.acts \in Seq(Activity)
  BY StateFacts DEF Good
<1>3. DOMAIN m.acts \subseteq Nat /\ m.acts[a] \in Activity
  BY <1>1, <1>2
<1>4. a \notin NotStarted(m)
  <2>1. \A b \in NotStarted(m) : a < b
    BY DEF Good, Queued, Line
  <2>. QED
    BY <1>1, <1>3, <2>1
<1>5. m.acts[a].kind # "enroll" => a # Enroll
  BY <1>1 DEF Good, Queued, Foremost
<1>. QED
  BY <1>1, <1>3, <1>4, <1>5 DEF CanEnd

\* A message to clients, other than answers to enrollments and requests to load,
\* and clients that cannot be reached are removed.
LEMMA GoodSend ==
    ASSUME NEW m, NEW S, NEW msg \in Others, Good(m)
    PROVE  /\ Good(Send(m, S, msg))
           /\ \A G : (\A c \in G : link[c] # "up") =>
                 Good(RemoveClients(Send(m, S, msg), G)) /\ Good(RemoveClients(m, G))
<1>0. m \in MasterState /\ Queued(m) /\ Served(m) /\ msg \in Order /\ m.posted \in Seq(Event)
  BY StateFacts DEF Good, Others, Order
<1>1. ASSUME NEW n \in MasterState, SameQueue(m, n), n.posted = m.posted, OutKept(m, n),
             \A x \in Names : \/ n.clients[x] = m.clients[x]
                              \/ n.clients[x] = None /\ link[m.clients[x]] # "up"
      PROVE  Good(n)
  <2>1. FewerMessages(m.posted, n.posted) /\ StartsPosted(n) = StartsPosted(m)
    BY <1>0, <1>1, MessageFacts DEF StartsPosted
  <2>2. Queued(n)
    BY <1>0, <1>1, <2>1, QueuedFrame DEF SameQueue, Queued, Line
  <2>3. Served(n)
    BY <1>0, <1>1, <2>1, ServedFrame DEF SameQueue, Await
  <2>. QED
    BY <1>1, <2>2, <2>3 DEF Good
<1>2. Good(Send(m, S, msg)) /\ OutKept(m, Send(m, S, msg))
  <2>. DEFINE n == Send(m, S, msg)
  <2>1. /\ n \in MasterState /\ SameQueue(m, n) /\ n.posted = m.posted /\ n.clients = m.clients
        /\ \A c \in Conns : n.out[c] = IF c \in S /\ link[c] = "up" THEN Append(m.out[c], msg)
                                       ELSE m.out[c]
    BY <1>0, SendFacts
  <2>. HIDE DEF n
  <2>2. OutKept(m, n)
    BY <2>1 DEF OutKept
  <2>3. Good(n)
    BY <1>1, <2>1, <2>2
  <2>. QED
    BY <2>2, <2>3 DEF n
<1>3. ASSUME NEW k \in MasterState, SameQueue(m, k), k.posted = m.posted, k.clients = m.clients,
             OutKept(m, k), NEW G, \A c \in G : link[c] # "up"
      PROVE  Good(RemoveClients(k, G))
  <2>. DEFINE n == RemoveClients(k, G)
  <2>1. /\ n \in MasterState /\ SameQueue(k, n) /\ n.posted = k.posted /\ n.out = k.out
        /\ \A x \in Names : n.clients[x] = IF k.clients[x] \in G THEN None ELSE k.clients[x]
    BY <1>3, RemoveFacts
  <2>. HIDE DEF n
  <2>2. OutKept(m, n)
    BY <1>3, <2>1 DEF OutKept
  <2>3. Good(n)
    BY <1>1, <1>3, <2>1, <2>2 DEF SameQueue
  <2>. QED
    BY <2>3 DEF n
<1>4. ASSUME NEW G, \A c \in G : link[c] # "up"
      PROVE  Good(RemoveClients(Send(m, S, msg), G)) /\ Good(RemoveClients(m, G))
  <2>1. Good(RemoveClients(m, G))
    BY <1>0, <1>3, <1>4, OutSame DEF SameQueue
  <2>. DEFINE k == Send(m, S, msg)
  <2>2. k \in MasterState /\ SameQueue(m, k) /\ k.posted = m.posted /\ k.clients = m.clients
    BY <1>0, SendFacts
  <2>3. OutKept(m, k)
    BY <1>2
  <2>. HIDE DEF k
  <2>4. Good(RemoveClients(k, G))
    BY <1>3, <1>4, <2>2, <2>3
  <2>. QED
    BY <2>1, <2>4 DEF k
<1>. QED
  BY <1>2, <1>4

LEMMA GoodTest ==
    ASSUME NEW m, NEW a \in ToSet(m.active), Good(m), Idle(m, a), m.acts[a].kind = "test"
    PROVE  Good(StartTest(m, a))
<1>. DEFINE c == m.acts[a].client
<1>1. /\ a \in DOMAIN m.acts /\ a \notin NotStarted(m) /\ c \in Conns /\ CanEnd(m, a)
  BY ActiveFacts, ActivityFacts
<1>2. CASE Sendable(c)
  <2>1. StartTest(m, a) = Send(m, {c}, "alive")
    BY <1>2 DEF StartTest
  <2>2. "alive" \in Others
    BY DEF Others
  <2>. QED
    BY <2>1, <2>2, GoodSend
<1>3. CASE ~Sendable(c)
  <2>. DEFINE n == RemoveClients(m, {c})
  <2>1. StartTest(m, a) = Complete(n, a)
    BY <1>3 DEF StartTest
  <2>2. Good(n)
    <3>1. \A d \in {c} : link[d] # "up"
      BY <1>3 DEF Sendable
    <3>2. "alive" \in Others
      BY DEF Others
    <3>. QED
      BY <3>1, <3>2, GoodSend
  <2>3. SameQueue(m, n) /\ n.posted = m.posted
    BY RemoveFacts DEF Good
  <2>. HIDE DEF n
  <2>4. CanEnd(n, a)
    BY <1>1, <2>3 DEF CanEnd, SameQueue, NotStarted, StartsPosted, Idle
  <2>. QED
    BY <2>1, <2>2, <2>4, GoodComplete
<1>. QED
  BY <1>2, <1>3

LEMMA RegisteredFacts ==
    ASSUME NEW m \in MasterState
    PROVE  /\ Cardinality(Registered(m)) \in Nat
           /\ \A s \in MapOrder(m) : /\ DOMAIN s = 1 .. Cardinality(Registered(m))
                                     /\ Len(s) = Cardinality(Registered(m))
                                     /\ \A i \in DOMAIN s : m.clients[s[i]] \in Conns
           /\ \A x \in Registered(m) : m.clients[x] \in Conns
<1>1. Cardinality(Registered(m)) \in Nat
  <2>1. Registered(m) \subseteq Names
    BY DEF Registered
  <2>2. IsFiniteSet(Registered(m))
    BY <2>1, Constants, FS_Subset
  <2>. QED
    BY <2>2, FS_CardinalityType
<1>2. \A x \in Registered(m) : m.clients[x] \in Conns
  BY StateFacts DEF Registered
<1>3. ASSUME NEW s \in MapOrder(m)
      PROVE  /\ DOMAIN s = 1 .. Cardinality(Registered(m))
             /\ Len(s) = Cardinality(Registered(m))
             /\ \A i \in DOMAIN s : m.clients[s[i]] \in Conns
  <2>1. s \in [1 .. Cardinality(Registered(m)) -> Registered(m)]
    BY DEF MapOrder
  <2>2. s \in Seq(Registered(m))
    BY <1>1, <2>1
  <2>. QED
    BY <1>1, <1>2, <2>1, <2>2
<1>. QED
  BY <1>1, <1>2, <1>3

\* A "test" command: it waits for the tests it makes.
LEMMA GoodTests ==
    ASSUME NEW m, NEW a \in ToSet(m.active), Good(m), Idle(m, a), NotEnded(m, a),
           m.acts[a].kind = "tests", NEW n \in StartTests(m, a)
    PROVE  Good(n)
<1>0. /\ a \in DOMAIN m.acts /\ a \notin NotStarted(m) /\ CanEnd(m, a) /\ m.process # "starting"
      /\ m \in MasterState /\ Queued(m) /\ Served(m)
  BY ActiveFacts DEF Good
<1>1. CASE Registered(m) = {}
  <2>1. n = Complete(m, a)
    BY <1>1 DEF StartTests
  <2>. QED
    BY <1>0, <2>1, GoodComplete
<1>2. CASE Registered(m) # {}
  <2>. DEFINE size == Cardinality(Registered(m))
              children == {Len(m.acts) + i : i \in 1 .. size}
              New(s) == [i \in 1 .. Len(s) |-> NewActivity("test", m.clients[s[i]])]
  <2>1. PICK s \in MapOrder(m) : n = StartActivities([m EXCEPT !.acts[a].children = children], New(s))
    BY <1>2 DEF StartTests
  <2>2. /\ size \in Nat /\ DOMAIN s = 1 .. size /\ Len(s) = size
        /\ \A i \in DOMAIN s : m.clients[s[i]] \in Conns
    BY <1>0, RegisteredFacts
  <2>. DEFINE new == New(s)
              m1 == [m EXCEPT !.acts[a].children = children]
              k == StartActivities(m, new)
  <2>3. /\ new \in Seq(Activity) /\ DOMAIN new = 1 .. size /\ Len(new) = size
        /\ \A i \in DOMAIN new : /\ new[i].kind = "test" /\ new[i].waiting = {}
                                 /\ new[i].children = {}
    <3>1. \A i \in 1 .. size : /\ new[i] = NewActivity("test", m.clients[s[i]])
                               /\ m.clients[s[i]] \in Conns
      BY <2>2
    <3>2. \A i \in 1 .. size : new[i] \in Activity
      BY <3>1, NewActivityFacts
    <3>3. DOMAIN new = 1 .. size
      BY <2>2
    <3>. HIDE DEF new
    <3>4. new \in Seq(Activity) /\ Len(new) = size
      BY <2>1, <2>2, <3>2, <3>3 DEF new
    <3>. QED
      BY <3>1, <3>3, <3>4, NewActivityFacts
  <2>4. Len(m.acts) \in Nat /\ DOMAIN m.acts = 1 .. Len(m.acts) /\ m.acts \in Seq(Activity)
        /\ m.posted \in Seq(Event)
    BY <1>0, StateFacts, LenProperties
  <2>5. children \in SUBSET Nat
    BY <2>2, <2>4
  <2>. HIDE DEF children, size, New
  <2>6. /\ m1 \in MasterState /\ SameBut(m, m1, m1.acts)
        /\ DOMAIN m1.acts = DOMAIN m.acts /\ Len(m1.acts) = Len(m.acts)
        /\ m1.acts[a].kind = m.acts[a].kind /\ m1.acts[a].client = m.acts[a].client
        /\ m1.acts[a].children = children /\ m1.acts[a].waiting = m.acts[a].waiting
        /\ \A b \in DOMAIN m.acts : b # a => m1.acts[b] = m.acts[b]
    <3>1. m1 = WithChildren(m, a, children)
      BY DEF WithChildren
    <3>. HIDE DEF m1
    <3>2. m \in MasterState /\ a \in DOMAIN m.acts /\ m.acts[a].kind # "test"
      BY <1>0
    <3>. QED
      BY ONLY <2>5, <3>1, <3>2, ChildrenFacts
  <2>. HIDE DEF m1, new
  <2>7. n = StartActivities(m1, new)
    BY <2>1 DEF m1, new
  <2>. DEFINE es == [i \in 1 .. Len(new) |-> StartEvent(Len(m.acts) + i)]
  <2>8. /\ k \in MasterState /\ SameSlaves(m, k) /\ k.testsMap = m.testsMap
        /\ k.process = m.process /\ k.active = m.active /\ k.pending = m.pending
        /\ k.acts = m.acts \o new /\ k.posted = m.posted \o es
    BY <1>0, <2>3, NewFacts
  <2>9. /\ n \in MasterState /\ SameSlaves(m1, n) /\ n.testsMap = m1.testsMap
        /\ n.process = m1.process /\ n.active = m1.active /\ n.pending = m1.pending
        /\ n.acts = m1.acts \o new /\ n.posted = m1.posted \o es
        /\ es \in Seq(Event) /\ Len(es) = Len(new)
    <3>. DEFINE es1 == [i \in 1 .. Len(new) |-> StartEvent(Len(m1.acts) + i)]
    <3>1. es1 = es
      BY <2>6
    <3>2. /\ n \in MasterState /\ SameSlaves(m1, n) /\ n.testsMap = m1.testsMap
          /\ n.process = m1.process /\ n.active = m1.active /\ n.pending = m1.pending
          /\ n.acts = m1.acts \o new /\ n.posted = m1.posted \o es1
          /\ es1 \in Seq(Event) /\ Len(es1) = Len(new)
      BY <2>3, <2>6, <2>7, NewFacts
    <3>. QED
      BY <3>1, <3>2
  <2>10. /\ Queued(k) /\ DOMAIN k.acts = 1 .. Len(m.acts) + Len(new)
         /\ \A b \in DOMAIN m.acts : b \in DOMAIN k.acts /\ k.acts[b] = m.acts[b]
         /\ \A i \in DOMAIN new : k.acts[Len(m.acts) + i] = new[i]
         /\ \A b \in DOMAIN k.acts \ DOMAIN m.acts :
               /\ b \in NotStarted(k) /\ b \notin Tests(k)
               /\ \A p \in DOMAIN m.acts : p < b
               /\ \A p \in DOMAIN k.acts : b \notin k.acts[p].children
         /\ NotEnded(k, a)
    <3>1. \A i \in DOMAIN new : /\ new[i].kind # "enroll" /\ new[i].waiting = {}
                                /\ new[i].children = {}
      BY <2>3
    <3>. QED
      BY <1>0, <2>3, <3>1, QueuedNew, SMTT(30)
  <2>. HIDE DEF k, es
  <2>11. /\ n.acts \in Seq(Activity) /\ k.acts \in Seq(Activity)
         /\ DOMAIN n.acts = 1 .. Len(m.acts) + Len(new)
         /\ \A b \in DOMAIN m.acts : b \in DOMAIN n.acts /\ n.acts[b] = m1.acts[b]
         /\ \A i \in DOMAIN new : n.acts[Len(m.acts) + i] = new[i]
    <3>1. m1.acts \in Seq(Activity) /\ new \in Seq(Activity)
      BY <2>3, <2>6, StateFacts
    <3>2. /\ DOMAIN (m1.acts \o new) = 1 .. Len(m1.acts) + Len(new)
          /\ \A b \in DOMAIN m1.acts : b \in DOMAIN (m1.acts \o new) /\ (m1.acts \o new)[b] = m1.acts[b]
          /\ \A i \in DOMAIN new : (m1.acts \o new)[Len(m1.acts) + i] = new[i]
      BY ONLY <3>1, ConcatFacts
    <3>3. n.acts \in Seq(Activity) /\ k.acts \in Seq(Activity)
      BY <2>8, <2>9, StateFacts
    <3>. QED
      BY <2>6, <2>9, <3>2, <3>3
  <2>12. DOMAIN n.acts = DOMAIN k.acts /\ Len(n.acts) = Len(k.acts)
    BY <2>10, <2>11, LenProperties
  <2>13. \A b \in DOMAIN k.acts : b \in DOMAIN m.acts \/
            (b \notin DOMAIN m.acts /\ n.acts[b] = k.acts[b] /\ k.acts[b].kind = "test" /\ k.acts[b].waiting = {}
             /\ k.acts[b].children = {})
    <3>. SUFFICES ASSUME NEW b \in DOMAIN k.acts, b \notin DOMAIN m.acts
                  PROVE  /\ n.acts[b] = k.acts[b] /\ k.acts[b].kind = "test"
                         /\ k.acts[b].waiting = {} /\ k.acts[b].children = {}
      OBVIOUS
    <3>1. b - Len(m.acts) \in DOMAIN new /\ Len(m.acts) + (b - Len(m.acts)) = b
      BY <2>3, <2>4, <2>10, <2>2 DEF size
    <3>2. n.acts[b] = new[b - Len(m.acts)] /\ k.acts[b] = new[b - Len(m.acts)]
      BY <2>10, <2>11, <3>1
    <3>. QED
      BY <2>3, <3>1, <3>2
  <2>14. \A b \in DOMAIN k.acts : /\ n.acts[b].kind = k.acts[b].kind
                                  /\ n.acts[b].client = k.acts[b].client
                                  /\ n.acts[b].waiting = k.acts[b].waiting
                                  /\ b # a => n.acts[b].children = k.acts[b].children
    <3>1. \A b \in DOMAIN m.acts : /\ m1.acts[b].kind = m.acts[b].kind
                                   /\ m1.acts[b].client = m.acts[b].client
                                   /\ m1.acts[b].waiting = m.acts[b].waiting
                                   /\ b # a => m1.acts[b].children = m.acts[b].children
      BY <2>6
    <3>. QED
      BY <2>10, <2>11, <2>13, <3>1
  <2>15. \A b \in children : b \in DOMAIN k.acts /\ b \notin DOMAIN m.acts
    <3>1. \A i \in 1 .. size : Len(m.acts) + i \in 1 .. Len(m.acts) + size /\ Len(m.acts) + i \notin 1 .. Len(m.acts)
      BY <2>2, <2>4 DEF size
    <3>. QED
      BY <2>3, <2>4, <2>10, <3>1 DEF children
  <2>16. Queued(n)
    <3>1. /\ n.process = k.process /\ n.active = k.active /\ n.pending = k.pending
          /\ n.posted = k.posted /\ n.testsMap = k.testsMap
      BY <2>6, <2>8, <2>9 DEF SameBut
    <3>2. /\ a \in ToSet(k.active) /\ k.acts[a].kind = "tests" /\ n.acts[a].children = children
          /\ \A b \in n.acts[a].children :
                /\ a < b /\ b \in NotStarted(k) /\ b \notin Tests(k) /\ k.acts[b].kind = "test"
                /\ \A q \in DOMAIN k.acts : b \notin k.acts[q].children
      BY <1>0, <2>6, <2>8, <2>10, <2>11, <2>13, <2>15
    <3>3. \A b \in DOMAIN k.acts :
             /\ n.acts[b].kind = k.acts[b].kind /\ n.acts[b].client = k.acts[b].client
             /\ n.acts[b].waiting \subseteq k.acts[b].waiting
             /\ n.acts[b].children \subseteq k.acts[b].children \/ b = a
      BY <2>14
    <3>4. k \in MasterState /\ n \in MasterState /\ Queued(k) /\ NotEnded(k, a)
      BY <2>8, <2>9, <2>10
    <3>. QED
      BY ONLY <2>12, <3>1, <3>2, <3>3, <3>4, QueuedActs
  <2>17. Served(n)
    <3>1. n.out = m.out /\ n.clients = m.clients /\ n.testsMap = m.testsMap /\ n.active = m.active
      BY <2>6, <2>9 DEF SameBut, SameSlaves
    <3>2. FewerMessages(m.posted, n.posted)
      <4>1. n.posted = m.posted \o es
        BY <2>6, <2>9 DEF SameBut
      <4>2. \A i \in DOMAIN es : es[i].type # "message"
        BY <2>4 DEF es, StartEvent
      <4>. QED
        BY <2>4, <2>9, <4>1, <4>2, MessageFacts
    <3>3. \A b \in DOMAIN m.acts : /\ n.acts[b].kind = m.acts[b].kind
                                   /\ n.acts[b].waiting = m.acts[b].waiting
      BY <2>10, <2>14
    <3>4. ToSet(m.active) \subseteq DOMAIN m.acts
      BY <1>0 DEF Queued, Line, Unfinished
    <3>5. \A c \in Conns : Await(n, c) <=> Await(m, c)
      BY <3>1, <3>3, <3>4 DEF Await
    <3>6. \A b \in DOMAIN n.acts : \A c \in n.acts[b].waiting : b \in DOMAIN m.acts /\ c \in m.acts[b].waiting
      BY <2>12, <2>13, <3>3
    <3>7. OutKept(m, n)
      BY <3>1, OutSame
    <3>. QED
      BY <1>0, <2>9, <3>1, <3>2, <3>5, <3>6, <3>7, ServedFrame
  <2>. QED
    BY <2>9, <2>16, <2>17 DEF Good
<1>. QED
  BY <1>1, <1>2

\* The process ends, or what is posted last is not of interest any more.
LEMMA GoodProcess ==
    ASSUME NEW m, NEW p \in {"unfound", "undefined"}, Good(m)
    PROVE  Good([m EXCEPT !.process = p])
<1>. DEFINE n == [m EXCEPT !.process = p]
<1>0. m \in MasterState /\ Queued(m) /\ Served(m) /\ m.posted \in Seq(Event)
  BY StateFacts DEF Good
<1>1. n \in MasterState
  BY <1>0, UpdateFacts
<1>2. /\ n.process = p /\ n.active = m.active /\ n.pending = m.pending /\ n.acts = m.acts
      /\ n.testsMap = m.testsMap /\ n.posted = m.posted /\ n.out = m.out /\ n.clients = m.clients
  BY <1>0 DEF MasterState
<1>. HIDE DEF n
<1>3. StartsPosted(n) = StartsPosted(m) /\ StartsInOrder(n.posted)
  BY <1>0, <1>2 DEF StartsPosted, Queued, Line
<1>4. Queued(n)
  BY <1>0, <1>1, <1>2, <1>3, QueuedFrame
<1>5. Served(n)
  BY <1>0, <1>1, <1>2, MessageFacts, OutSame, ServedFrame DEF Await
<1>. QED
  BY <1>1, <1>4, <1>5 DEF Good, n

\* The clients R that can be reached are asked to load a program, or to load or
\* save a config, and G cannot.
LEMMA GoodVisit ==
    ASSUME NEW m, NEW a \in ToSet(m.active), Good(m), Idle(m, a), NotEnded(m, a),
           m.acts[a].kind \in Asking, NEW R \in SUBSET Conns, \A c \in R : link[c] # "off",
           NEW G, \A c \in G : link[c] # "up"
    PROVE  Good(RemoveClients(Send([m EXCEPT !.acts[a].waiting = R], R, m.acts[a].kind), G))
<1>. DEFINE m1 == [m EXCEPT !.acts[a].waiting = R]
            kind == m.acts[a].kind
            k == Send(m1, R, kind)
<1>0. /\ m \in MasterState /\ Queued(m) /\ Served(m) /\ m.posted \in Seq(Event)
      /\ a \in DOMAIN m.acts /\ ToSet(m.active) \subseteq DOMAIN m.acts
      /\ m.acts[a].kind # "test" /\ kind \in Order
  BY StateFacts, ActiveFacts DEF Good, Asking, Order
<1>1. /\ m1 \in MasterState /\ SameBut(m, m1, m1.acts)
      /\ DOMAIN m1.acts = DOMAIN m.acts /\ Len(m1.acts) = Len(m.acts)
      /\ m1.acts[a].kind = kind /\ m1.acts[a].client = m.acts[a].client
      /\ m1.acts[a].waiting = R /\ m1.acts[a].children = m.acts[a].children
      /\ \A b \in DOMAIN m.acts : b # a => m1.acts[b] = m.acts[b]
  <2>1. m \in MasterState /\ a \in DOMAIN m.acts /\ m.acts[a].kind # "test" /\ R \in SUBSET Conns
    BY <1>0
  <2>2. m1 = WithWaiting(m, a, R)
    BY DEF WithWaiting
  <2>. HIDE DEF m1
  <2>. QED
    BY ONLY <2>1, <2>2, WaitingFacts
<1>. HIDE DEF m1
<1>2. Queued(m1)
  <2>1. /\ m1.process = m.process /\ m1.active = m.active /\ m1.pending = m.pending
        /\ m1.posted = m.posted /\ m1.testsMap = m.testsMap
    BY <1>1 DEF SameBut
  <2>2. \A b \in DOMAIN m.acts :
           /\ m1.acts[b].kind = m.acts[b].kind /\ m1.acts[b].client = m.acts[b].client
           /\ \/ m1.acts[b].waiting \subseteq m.acts[b].waiting
              \/ b \in ToSet(m.active) /\ m.acts[b].kind \in Asking /\ NotEnded(m, b)
           /\ m1.acts[b].children \subseteq m.acts[b].children
    BY <1>1
  <2>. QED
    BY <1>0, <1>1, <2>1, <2>2, QueuedActs
<1>3. /\ k \in MasterState /\ SameQueue(m1, k) /\ k.posted = m1.posted /\ k.clients = m1.clients
      /\ \A c \in Conns : k.out[c] = IF c \in R /\ link[c] = "up" THEN Append(m1.out[c], kind)
                                     ELSE m1.out[c]
  BY <1>0, <1>1, SendFacts
<1>4. CASE kind = "load"
  <2>. HIDE DEF k
  <2>1. Queued(k)
    <3>1. StartsPosted(k) = StartsPosted(m1) /\ StartsInOrder(k.posted)
      BY <1>2, <1>3 DEF StartsPosted, Queued, Line
    <3>. QED
      BY <1>1, <1>2, <1>3, <3>1, QueuedFrame DEF SameQueue
  <2>2. Served(k)
    <3>1. \A b \in ToSet(m.active) : m.acts[b].kind = "load" => b = a
      BY <1>0, <1>4 DEF Queued, Exclusion, ExclusiveKinds
    <3>2. /\ k.active = m.active /\ k.posted = m.posted /\ k.clients = m.clients
          /\ k.testsMap = m.testsMap /\ k.acts = m1.acts
      BY <1>1, <1>3 DEF SameBut, SameQueue
    <3>3. \A c \in Conns : k.out[c] = IF c \in R /\ link[c] = "up" THEN Append(m.out[c], "load")
                                      ELSE m.out[c]
      BY <1>1, <1>3, <1>4 DEF SameBut
    <3>4. m.acts[a].kind = "load" /\ m.acts[a].waiting = {}
      BY <1>4 DEF Idle
    <3>5. /\ DOMAIN k.acts = DOMAIN m.acts
          /\ \A b \in DOMAIN m.acts \cup ToSet(m.active) :
                /\ k.acts[b].kind = m.acts[b].kind
                /\ k.acts[b].waiting = IF b = a THEN R ELSE m.acts[b].waiting
      BY <1>0, <1>1, <3>2
    <3>6. k \in MasterState /\ m \in MasterState /\ Served(m)
      BY <1>0, <1>3
    <3>. QED
      BY ONLY <3>1, <3>2, <3>3, <3>4, <3>5, <3>6, ServedLoad, R \in SUBSET Conns,
              \A c \in R : link[c] # "off", a \in ToSet(m.active), SMTT(30)
  <2>3. Good(k) /\ "alive" \in Others
    BY <1>3, <2>1, <2>2 DEF Good, Others
  <2>4. Good(RemoveClients(k, G))
    BY <2>3, GoodSend
  <2>. QED
    BY <2>4 DEF k, m1
<1>5. CASE kind # "load"
  <2>1. Served(m1)
    <3>1. FewerMessages(m.posted, m1.posted) /\ OutKept(m, m1)
      BY <1>0, <1>1, MessageFacts, OutSame DEF SameBut
    <3>2. \A c \in Conns : Await(m1, c) <=> Await(m, c)
      BY <1>0, <1>1, <1>5 DEF Await, SameBut
    <3>. QED
      BY <1>0, <1>1, <3>1, <3>2, ServedFrame DEF SameBut
  <2>2. Good(m1) /\ kind \in Others
    BY <1>1, <1>2, <1>5, <2>1 DEF Good, Asking, Others
  <2>3. Good(RemoveClients(k, G))
    BY <2>2, GoodSend
  <2>. QED
    BY <2>3 DEF m1
<1>. QED
  BY <1>4, <1>5

LEMMA GoodAsking ==
    ASSUME NEW m, NEW a \in ToSet(m.active), Good(m), Idle(m, a), NotEnded(m, a),
           m.acts[a].kind \in Asking, NEW n \in StartAsking(m, a)
    PROVE  Good(n)
<1>. DEFINE lost == {x \in Registered(m) : ~Sendable(m.clients[x])}
            visited(last) == {m.clients[x] : x \in 1 .. last} \ {None}
            reached(last) == {c \in visited(last) : Sendable(c)}
            Visit(last) == RemoveClients(Send([m EXCEPT !.acts[a].waiting = reached(last)],
                                              reached(last), m.acts[a].kind),
                                         visited(last) \ reached(last))
<1>1. CASE n = Complete(m, a)
  <2>1. a # Enroll
    BY ActiveFacts DEF Asking
  <2>. QED
    BY <1>1, <2>1, ActiveFacts, GoodComplete
<1>2. CASE n = [m EXCEPT !.process = "undefined"]
  BY <1>2, GoodProcess
<1>3. ASSUME NEW last \in Names, n = Visit(last)
      PROVE  Good(n)
  <2>1. 1 .. last \subseteq Names
    BY <1>3, NamesAssumption DEF Names
  <2>2. visited(last) \subseteq Conns
    BY <2>1, StateFacts, SMTT(30) DEF Good
  <2>3. \A c \in visited(last) : link[c] # "off"
    <3>1. \A c \in Conns : link[c] = "off" => \A x \in Names : m.clients[x] # c
      BY DEF Good, Served, Unknown
    <3>. QED
      BY <2>1, <2>2, <3>1
  <2>4. \A c \in visited(last) \ reached(last) : link[c] # "up"
    BY DEF Sendable
  <2>5. reached(last) \in SUBSET Conns /\ \A c \in reached(last) : link[c] # "off"
    BY <2>2, <2>3
  <2>. HIDE DEF reached, visited
  <2>. QED
    BY <1>3, <2>4, <2>5, GoodVisit
<1>4. NumNames \in Names
  BY NamesAssumption DEF Names
<1>5. \/ n = Complete(m, a) \/ n = [m EXCEPT !.process = "undefined"]
      \/ \E last \in Names : n = Visit(last)
  BY <1>4 DEF StartAsking
<1>. QED
  BY <1>1, <1>2, <1>3, <1>5

\* Activity::start, for every kind of activity.
LEMMA GoodStart ==
    ASSUME NEW m, NEW a \in ToSet(m.active), Good(m), Idle(m, a), NotEnded(m, a),
           NEW n \in Start(m, a)
    PROVE  Good(n)
<1>1. CASE m.acts[a].kind = "test"
  <2>1. n = StartTest(m, a)
    BY <1>1 DEF Start, Asking
  <2>. QED
    BY <1>1, <2>1, GoodTest
<1>2. CASE m.acts[a].kind = "tests"
  <2>1. n \in StartTests(m, a)
    BY <1>2 DEF Start, Asking
  <2>. QED
    BY <1>2, <2>1, GoodTests
<1>3. CASE m.acts[a].kind \in Asking
  BY <1>3, GoodAsking DEF Start, Asking
<1>4. CASE m.acts[a].kind = "list"
  <2>1. n = Complete(m, a)
    BY <1>4 DEF Start, Asking
  <2>. QED
    BY <1>4, <2>1, ActiveFacts, GoodComplete
<1>5. CASE m.acts[a].kind \notin {"test", "tests", "list"} \cup Asking
  BY <1>5 DEF Start, Asking
<1>. QED
  BY <1>1, <1>2, <1>3, <1>4, <1>5

-----------------------------------------------------------------------------
(***************************************************************************)
(* The queue thread's handlers.  m is the state with the handler still     *)
(* posted, Rest(m) the state without it.                                   *)
(***************************************************************************)
Rest(m) == [m EXCEPT !.posted = Tail(m.posted)]

LEMMA RestFacts ==
    ASSUME NEW m \in MasterState, m.posted # << >>
    PROVE  /\ Rest(m) \in MasterState /\ SameQueue(m, Rest(m)) /\ SameSlaves(m, Rest(m))
           /\ Rest(m).posted = Tail(m.posted) /\ Rest(m).commands = m.commands
           /\ Rest(m).program = m.program
<1>. DEFINE tail == Tail(m.posted)
<1>1. tail \in Seq(Event)
  BY StateFacts, TailFacts
<1>. HIDE DEF tail
<1>2. [m EXCEPT !.posted = tail] \in MasterState
  BY <1>1, UpdateFacts
<1>3. LET n == [m EXCEPT !.posted = tail]
      IN  /\ SameQueue(m, n) /\ SameSlaves(m, n) /\ n.posted = tail /\ n.commands = m.commands
          /\ n.program = m.program
  BY DEF SameQueue, SameSlaves, MasterState
<1>. QED
  BY <1>2, <1>3 DEF Rest, tail

\* A state in which an activity is in another list, or in none, is served as it was
\* if the activity does not wait for clients.
LEMMA ServedMove ==
    ASSUME NEW m \in MasterState, NEW n \in MasterState, NEW a, Served(m),
           m.acts[a].waiting = {}, n.acts = m.acts, n.testsMap = m.testsMap,
           n.out = m.out, n.clients = m.clients, FewerMessages(m.posted, n.posted),
           \A b : b # a => (b \in ToSet(n.active) <=> b \in ToSet(m.active))
    PROVE  Served(n)
<1>1. \A c \in Conns : Await(n, c) <=> Await(m, c)
  BY DEF Await
<1>. QED
  BY <1>1, OutSame, ServedFrame

\* The first of those that have not started starts.
LEMMA GoodActivate ==
    ASSUME NEW m, NEW k, NEW a \in NotStarted(m), Good(m), k \in MasterState,
           k.process = m.process, k.acts = m.acts, k.testsMap = m.testsMap,
           k.out = m.out, k.clients = m.clients, k.active = m.active,
           \/ /\ m.pending = << >> /\ m.posted # << >> /\ k.posted = Tail(m.posted)
              /\ Head(m.posted).type = "start" /\ a = Head(m.posted).act
              /\ k.pending = m.pending
           \/ /\ m.pending # << >> /\ k.pending = Tail(m.pending) /\ a = Head(m.pending)
              /\ k.posted = m.posted,
           AQ!Precondition(k, a), NEW n \in AQ!Activate(k, a)
    PROVE  Good(n)
<1>. DEFINE active == Append(k.active, a)
            s == [k EXCEPT !.active = active]
<1>0. /\ m \in MasterState /\ Queued(m) /\ Served(m) /\ m.posted \in Seq(Event)
      /\ a \in Nat /\ k.active \in Seq(Nat)
  <2>1. a \in DOMAIN m.acts
    BY DEF Good, Queued, Line, Unfinished
  <2>. QED
    BY <2>1, StateFacts, LenProperties DEF Good
<1>1. active \in Seq(Nat)
  BY <1>0, AppendProperties
<1>2. n \in Start([k EXCEPT !.active = Append(@, a)], a)
  BY DEF AQ!Activate
<1>3. n \in Start(s, a)
  BY <1>2
<1>. HIDE DEF active
<1>4. /\ s \in MasterState /\ s.active = active
      /\ s.process = m.process /\ s.acts = m.acts /\ s.testsMap = m.testsMap
      /\ s.out = m.out /\ s.clients = m.clients /\ s.posted = k.posted /\ s.pending = k.pending
  <2>1. s \in MasterState
    BY <1>1, UpdateFacts
  <2>. QED
    BY <2>1 DEF MasterState
<1>. HIDE DEF s
<1>5. m.acts[a].kind \in ExclusiveKinds => \A b \in ToSet(m.active) : m.acts[b].kind # m.acts[a].kind
  <2>1. k.acts[a].kind \in {"enroll", "load", "loadConfig", "saveConfig"} =>
           \A b \in ToSet(k.active) : k.acts[b].kind # k.acts[a].kind
    BY DEF AQ!Precondition, AQ!ToSet, ToSet
  <2>. QED
    BY <2>1 DEF ExclusiveKinds
<1>6. /\ Queued(s) /\ a \in ToSet(s.active) /\ a \notin ToSet(m.active)
      /\ Idle(s, a) /\ NotEnded(s, a) /\ ToSet(s.active) = ToSet(m.active) \cup {a}
  <2>1. s.active = Append(m.active, a)
    BY <1>4 DEF active
  <2>2. \/ /\ m.pending = << >> /\ m.posted # << >> /\ s.posted = Tail(m.posted)
           /\ Head(m.posted).type = "start" /\ a = Head(m.posted).act
           /\ s.pending = m.pending
        \/ /\ m.pending # << >> /\ s.pending = Tail(m.pending) /\ a = Head(m.pending)
           /\ s.posted = m.posted
    BY <1>4
  <2>3. /\ m \in MasterState /\ s \in MasterState /\ Queued(m) /\ a \in NotStarted(m)
        /\ s.process = m.process /\ s.acts = m.acts /\ s.testsMap = m.testsMap
    BY <1>0, <1>4
  <2>. QED
    BY ONLY <1>5, <2>1, <2>2, <2>3, QueuedMove
<1>7. FewerMessages(m.posted, s.posted)
  <2>1. CASE m.posted # << >> /\ s.posted = Tail(m.posted) /\ Head(m.posted).type = "start"
    BY <1>0, <2>1, MessageFacts
  <2>2. CASE s.posted = m.posted
    BY <1>0, <2>2, MessageFacts
  <2>. QED
    BY <1>4, <2>1, <2>2
<1>8. Served(s)
  <2>1. m.acts[a].waiting = {}
    BY <1>4, <1>6 DEF Idle
  <2>. QED
    BY <1>0, <1>4, <1>6, <1>7, <2>1, ServedMove
<1>9. Good(s)
  BY <1>4, <1>6, <1>8 DEF Good
<1>. QED
  BY <1>3, <1>6, <1>9, GoodStart

\* OnStartActivity.
LEMMA GoodStarts ==
    ASSUME NEW m, Good(m), m.posted # << >>, Head(m.posted).type = "start",
           NEW n \in AQ!Starts(Rest(m), Head(m.posted).act)
    PROVE  Good(n)
<1>. DEFINE a == Head(m.posted).act
            k == Rest(m)
<1>0. m \in MasterState /\ Queued(m) /\ Served(m) /\ m.posted \in Seq(Event)
  BY StateFacts DEF Good
<1>1. /\ k \in MasterState /\ SameQueue(m, k) /\ SameSlaves(m, k) /\ k.posted = Tail(m.posted)
  BY <1>0, RestFacts
<1>2. a \in NotStarted(m) /\ a \in Nat
  <2>1. a \in StartsOf(m.posted)
    BY <1>0, StartsTail
  <2>2. a \in NotStarted(m) /\ a \in DOMAIN m.acts
    BY <1>0, <2>1 DEF NotStarted, StartsPosted, StartsOf, Queued, Line, Unfinished
  <2>. QED
    BY <1>0, <2>2, StateFacts, LenProperties
<1>. HIDE DEF k
<1>3. CASE k.pending = << >> /\ AQ!Precondition(k, a)
  <2>1. n \in AQ!Activate(k, a)
    BY <1>3 DEF AQ!Starts, k
  <2>. HIDE DEF a
  <2>2. /\ k.process = m.process /\ k.acts = m.acts /\ k.testsMap = m.testsMap
        /\ k.out = m.out /\ k.clients = m.clients /\ k.active = m.active
        /\ m.pending = << >> /\ k.pending = m.pending
    BY <1>1, <1>3 DEF SameQueue, SameSlaves
  <2>3. Head(m.posted).type = "start" /\ a = Head(m.posted).act
    BY DEF a
  <2>. QED
    BY <1>1, <1>2, <1>3, <2>1, <2>2, <2>3, GoodActivate
<1>4. CASE ~(k.pending = << >> /\ AQ!Precondition(k, a))
  <2>. DEFINE pending == Append(k.pending, a)
              s == [k EXCEPT !.pending = pending]
  <2>1. n = [k EXCEPT !.pending = Append(@, a)]
    BY <1>4 DEF AQ!Starts, k
  <2>2. n = s
    BY <2>1
  <2>3. pending \in Seq(Nat) /\ pending = Append(m.pending, a)
    BY <1>1, <1>2, StateFacts, AppendProperties DEF SameQueue
  <2>. HIDE DEF pending, a
  <2>4. /\ s \in MasterState /\ s.pending = pending
        /\ s.process = m.process /\ s.acts = m.acts /\ s.testsMap = m.testsMap
        /\ s.out = m.out /\ s.clients = m.clients /\ s.posted = Tail(m.posted)
        /\ s.active = m.active
    <3>1. s \in MasterState
      BY <1>1, <2>3, UpdateFacts
    <3>. QED
      BY <1>1, <3>1 DEF SameQueue, SameSlaves, MasterState
  <2>. HIDE DEF s
  <2>5. Queued(s)
    BY <1>0, <2>3, <2>4, QueuedPend DEF a
  <2>6. Served(s)
    <3>1. FewerMessages(m.posted, s.posted)
      BY <1>0, <2>4, MessageFacts
    <3>2. m.acts[a].waiting = {}
      BY <1>0, <1>2 DEF Queued, Fresh, Idle
    <3>. QED
      BY <1>0, <2>4, <3>1, <3>2, ServedMove
  <2>. QED
    BY <2>2, <2>4, <2>5, <2>6 DEF Good
<1>. QED
  BY <1>3, <1>4

\* A handler that neither starts an activity nor answers a load is taken.
LEMMA GoodRest ==
    ASSUME NEW m, Good(m), m.posted # << >>, Head(m.posted).type # "start",
           Head(m.posted).type = "message" => Head(m.posted).msg # "load"
    PROVE  Good(Rest(m))
<1>. DEFINE k == Rest(m)
<1>0. m \in MasterState /\ Queued(m) /\ Served(m) /\ m.posted \in Seq(Event)
  BY StateFacts DEF Good
<1>1. k \in MasterState /\ SameQueue(m, k) /\ SameSlaves(m, k) /\ k.posted = Tail(m.posted)
  BY <1>0, RestFacts
<1>. HIDE DEF k
<1>2. /\ StartsInOrder(k.posted) /\ StartsOf(k.posted) = StartsOf(m.posted)
      /\ \A d \in ToSet(k.posted) : d \in ToSet(m.posted)
      /\ FewerMessages(m.posted, k.posted)
  BY <1>0, <1>1, PostedFacts, MessageFacts DEF Queued, Line
<1>3. StartsPosted(k) = StartsPosted(m)
  BY <1>2 DEF StartsPosted, StartsOf
<1>4. Queued(k)
  BY <1>0, <1>1, <1>2, <1>3, QueuedFrame DEF SameQueue
<1>5. Served(k)
  BY <1>0, <1>1, <1>2, OutSame, ServedFrame DEF SameQueue, SameSlaves, Await
<1>. QED
  BY <1>1, <1>4, <1>5 DEF Good, k

LEMMA ToldFacts ==
    ASSUME NEW m, Good(m), NEW a \in ToSet(m.active)
    PROVE  /\ At(m, a) \in DOMAIN m.active /\ m.active[At(m, a)] = a
           /\ Told(m, a) \subseteq ToSet(m.active)
           /\ \A p \in ToSet(m.active) : p < a => p \in Told(m, a)
<1>1. At(m, a) \in DOMAIN m.active /\ m.active[At(m, a)] = a
  <2>1. \E i \in DOMAIN m.active : m.active[i] = a
    BY InToSet
  <2>. QED
    BY <2>1, Zenon DEF At
<1>2. /\ DOMAIN m.active = 1 .. Len(m.active) /\ Len(m.active) \in Nat
      /\ \A i \in DOMAIN m.active : m.active[i] \in Nat
      /\ Increasing(m.active)
  BY StateFacts, LenProperties DEF Good, Queued, Line
<1>. DEFINE at == At(m, a)
<1>. HIDE DEF at
<1>3. Told(m, a) = {m.active[i] : i \in 1 .. at - 1}
  BY DEF Told, at
<1>4. Told(m, a) \subseteq ToSet(m.active)
  <2>1. \A i \in 1 .. at - 1 : i \in DOMAIN m.active
    BY <1>1, <1>2 DEF at
  <2>. QED
    BY <1>3, <2>1, InToSet
<1>5. ASSUME NEW p \in ToSet(m.active), p < a
      PROVE  p \in Told(m, a)
  <2>1. PICK i \in DOMAIN m.active : p = m.active[i]
    BY InToSet
  <2>2. ~(at < i) /\ at # i
    BY <1>1, <1>2, <1>5, <2>1 DEF Increasing, at
  <2>3. i \in 1 .. at - 1
    BY <1>1, <1>2, <2>2 DEF at
  <2>. QED
    BY <1>3, <2>1, <2>3
<1>. QED
  BY <1>1, <1>4, <1>5

LEMMA EraseFacts ==
    ASSUME NEW m, Good(m), NEW pair \in m.testsMap
    PROVE  LET k == [m EXCEPT !.testsMap = @ \ {pair}]
           IN  /\ Good(k) /\ k.active = m.active /\ k.acts = m.acts
               /\ k.testsMap = m.testsMap \ {pair}
               /\ pair[2] \in Conns /\ Unanswered(k, pair[2])
<1>. DEFINE map == m.testsMap \ {pair}
            k == [m EXCEPT !.testsMap = map]
            c == pair[2]
<1>0. /\ m \in MasterState /\ Queued(m) /\ Served(m) /\ m.posted \in Seq(Event)
      /\ m.testsMap \in SUBSET (Nat \X Conns)
  BY StateFacts DEF Good
<1>1. map \in SUBSET (Nat \X Conns) /\ map \subseteq m.testsMap /\ c \in Conns
  BY <1>0
<1>2. [m EXCEPT !.testsMap = @ \ {pair}] = k
  OBVIOUS
<1>. HIDE DEF map
<1>3. k \in MasterState
  BY <1>0, <1>1, UpdateFacts
<1>4. /\ k.process = m.process /\ k.active = m.active /\ k.pending = m.pending
      /\ k.acts = m.acts /\ k.posted = m.posted /\ k.out = m.out /\ k.clients = m.clients
      /\ k.testsMap = map
  BY <1>0 DEF MasterState
<1>. HIDE DEF k
<1>5. Queued(k)
  <2>1. StartsPosted(k) = StartsPosted(m) /\ StartsInOrder(k.posted)
    BY <1>0, <1>4 DEF StartsPosted, Queued, Line
  <2>. QED
    BY <1>0, <1>1, <1>3, <1>4, <2>1, QueuedFrame
<1>6. Served(k)
  BY <1>0, <1>1, <1>3, <1>4, MessageFacts, OutSame, ServedFrame DEF Await
<1>7. Unanswered(k, c)
  <2>1. Testing(m, c)
    BY DEF Testing
  <2>2. ~Testing(k, c)
    BY <1>0, <1>1, <1>4 DEF Testing, Served, Enrolls, map
  <2>3. link[c] # "off"
    BY <1>0, <1>1 DEF Served, Unknown
  <2>4. /\ ~Has(m.out[c], Replies) /\ told[c] = "nothing"
        /\ ~Has(m.posted, {MessageEvent(c, "enroll")})
    BY <1>0, <1>1, <2>1 DEF Served, Enrolls
  <2>. QED
    BY <1>4, <2>2, <2>3, <2>4 DEF Unanswered
<1>. QED
  BY <1>1, <1>2, <1>3, <1>4, <1>5, <1>6, <1>7 DEF Good, map

\* The state after an answer to an enrollment.
LEMMA GoodAnswered ==
    ASSUME NEW m, Good(m), NEW n \in MasterState, SameQueue(m, n), n.posted = m.posted, Served(n)
    PROVE  Good(n)
<1>1. StartsPosted(n) = StartsPosted(m) /\ StartsInOrder(n.posted)
  BY DEF StartsPosted, Good, Queued, Line
<1>2. Queued(n)
  BY <1>1, QueuedFrame DEF Good, SameQueue
<1>. QED
  BY <1>2 DEF Good

\* Activity::activityComplete: those told of the end of a are, and none of them
\* waits for a any more.
LEMMA GoodNotify ==
    ASSUME NEW m, Good(m), NEW a \in ToSet(m.active), a # Enroll, Idle(m, a)
    PROVE  LET n == Notify(m, a)
           IN  /\ Good(n) /\ n.active = m.active /\ a \notin Tests(n) /\ Idle(n, a)
               /\ \A p \in ToSet(m.active) : a \notin n.acts[p].children
<1>. DEFINE n == Notify(m, a)
            parents == {p \in Told(m, a) : a \in m.acts[p].children}
<1>0. /\ m \in MasterState /\ Queued(m) /\ Served(m) /\ a \in DOMAIN m.acts /\ a \in Nat \ {0}
      /\ ToSet(m.active) \subseteq DOMAIN m.acts
      /\ Told(m, a) \subseteq ToSet(m.active)
      /\ \A p \in ToSet(m.active) : p < a => p \in Told(m, a)
  <2>1. ToSet(m.active) \subseteq DOMAIN m.acts
    BY DEF Good, Queued, Line, Unfinished
  <2>. QED
    BY <2>1, ToldFacts, StateFacts, LenProperties DEF Good
<1>1. \A p \in ToSet(m.active) : a \in m.acts[p].children => p \in parents
  BY <1>0 DEF Queued, Awaits
<1>2. CASE Enroll \in Told(m, a) /\ \E p \in m.testsMap : p[1] = a
  <2>. DEFINE pair == CHOOSE p \in m.testsMap : p[1] = a
              k == [m EXCEPT !.testsMap = @ \ {pair}]
              c == pair[2]
  <2>1. pair \in m.testsMap /\ pair[1] = a
    BY <1>2
  <2>2. n = EnrollTested(m, a)
    BY <1>2 DEF Notify
  <2>3. n = IF m.acts[a].alive THEN SendOrRemove(k, c, "denied")
            ELSE EnrollAs(k, NameOf[m.acts[a].client], c)
    BY <2>2 DEF EnrollTested
  <2>. HIDE DEF pair, n
  <2>4. /\ Good(k) /\ k.active = m.active /\ k.acts = m.acts
        /\ k.testsMap = m.testsMap \ {pair}
        /\ c \in Conns /\ Unanswered(k, c)
    BY <2>1, EraseFacts
  <2>5. NameOf[m.acts[a].client] = NameOf[c]
    BY <1>0, <2>1 DEF Queued, Awaits
  <2>. HIDE DEF k, c
  <2>6. n \in MasterState /\ SameQueue(k, n) /\ n.posted = k.posted /\ Served(n)
    BY <2>3, <2>4, <2>5, SendOrRemoveFacts, EnrollAsFacts DEF Good
  <2>7. Good(n)
    BY <2>4, <2>6, GoodAnswered
  <2>8. \A p \in m.testsMap \ {pair} : p[1] # a
    BY <1>0, <2>1 DEF Queued, Awaits
  <2>9. a \notin Tests(n)
    BY <2>4, <2>6, <2>8 DEF Tests, SameQueue
  <2>10. a \in Tests(m)
    BY <2>1 DEF Tests
  <2>11. \A p \in ToSet(m.active) : a \notin m.acts[p].children
    BY <1>0, <2>10 DEF Queued, Awaits
  <2>. QED
    BY <2>4, <2>6, <2>7, <2>9, <2>11 DEF SameQueue, n, Idle
<1>3. CASE ~(Enroll \in Told(m, a) /\ \E p \in m.testsMap : p[1] = a)
  <2>1. a \notin Tests(m)
    <3>. SUFFICES ASSUME NEW p \in m.testsMap, p[1] = a PROVE FALSE
      BY DEF Tests
    <3>1. Enroll \in ToSet(m.active) /\ Enroll < a
      BY <1>0 DEF Queued, Foremost, Enroll
    <3>. QED
      BY <1>0, <1>3, <3>1
  <2>2. CASE parents = {}
    <3>1. n = m
      BY <1>3, <2>2 DEF Notify
    <3>. QED
      BY <1>1, <2>1, <2>2, <3>1
  <2>3. CASE parents # {}
    <3>. DEFINE p == CHOOSE q \in parents : TRUE
                left == m.acts[p].children \ {a}
                k == [m EXCEPT !.acts[p].children = left]
    <3>1. p \in parents
      BY <2>3
    <3>2. n = ChildDone(m, p, a)
      BY <1>3, <2>3 DEF Notify
    <3>3. n = IF left = {} THEN Complete(k, p) ELSE k
      BY <3>2 DEF ChildDone
    <3>. HIDE DEF p, n
    <3>4. /\ p \in ToSet(m.active) /\ p \in DOMAIN m.acts /\ a \in m.acts[p].children
          /\ m.acts[p].kind = "tests" /\ m.acts[p].waiting = {} /\ m.acts[p].kind # "test"
      <4>1. p \in ToSet(m.active) /\ p \in DOMAIN m.acts /\ a \in m.acts[p].children
        BY <1>0, <3>1
      <4>. QED
        BY <1>0, <4>1 DEF Queued, Fresh, Asking
    <3>5. left \in SUBSET Nat
      <4>1. m.acts[p] \in Activity
        BY <1>0, <3>4, StateFacts
      <4>. QED
        BY <4>1, ActivityFacts
    <3>6. /\ k \in MasterState /\ SameBut(m, k, k.acts)
          /\ DOMAIN k.acts = DOMAIN m.acts /\ Len(k.acts) = Len(m.acts)
          /\ k.acts[p].kind = m.acts[p].kind /\ k.acts[p].client = m.acts[p].client
          /\ k.acts[p].children = left /\ k.acts[p].waiting = m.acts[p].waiting
          /\ \A b \in DOMAIN m.acts : b # p => k.acts[b] = m.acts[b]
      <4>. HIDE DEF left
      <4>1. /\ m \in MasterState /\ p \in DOMAIN m.acts /\ m.acts[p].kind # "test"
            /\ left \in SUBSET Nat
        BY <1>0, <3>4, <3>5
      <4>2. k = WithChildren(m, p, left)
        BY DEF WithChildren
      <4>. HIDE DEF k
      <4>. QED
        BY ONLY <4>1, <4>2, ChildrenFacts
    <3>7. left \subseteq m.acts[p].children /\ a \notin left
      OBVIOUS
    <3>. HIDE DEF k, left
    <3>8. \A b \in DOMAIN m.acts :
             /\ k.acts[b].kind = m.acts[b].kind /\ k.acts[b].client = m.acts[b].client
             /\ k.acts[b].waiting = m.acts[b].waiting
             /\ k.acts[b].children \subseteq m.acts[b].children
      BY <3>6, <3>7
    <3>9. Queued(k)
      <4>1. /\ k.process = m.process /\ k.active = m.active /\ k.pending = m.pending
            /\ k.posted = m.posted /\ k.testsMap = m.testsMap
        BY <3>6 DEF SameBut
      <4>. QED
        BY <1>0, <3>4, <3>6, <3>8, <4>1, QueuedActs
    <3>10. Served(k)
      <4>1. \A c \in Conns : Await(k, c) <=> Await(m, c)
        BY <1>0, <3>6, <3>8 DEF Await, SameBut
      <4>2. FewerMessages(m.posted, k.posted) /\ OutKept(m, k)
        BY <1>0, <3>6, StateFacts, MessageFacts, OutSame DEF SameBut
      <4>. QED
        BY <1>0, <3>6, <3>8, <4>1, <4>2, ServedFrame DEF SameBut
    <3>11. Good(k)
      BY <3>6, <3>9, <3>10 DEF Good
    <3>12. \A q \in ToSet(m.active) : a \notin k.acts[q].children
      <4>1. \A q \in DOMAIN m.acts : a \in m.acts[q].children => q = p
        BY <1>0, <3>4 DEF Queued, Awaits
      <4>. QED
        BY <1>0, <3>6, <3>7, <4>1
    <3>13. Idle(k, a) /\ k.active = m.active /\ a \notin Tests(k)
      BY <1>0, <2>1, <3>6, <3>8 DEF Idle, SameBut, Tests
    <3>14. CASE left # {}
      BY <3>3, <3>11, <3>12, <3>13, <3>14 DEF n
    <3>15. CASE left = {}
      <4>1. CanEnd(k, p)
        <5>1. p \in ToSet(k.active) /\ k.acts[p].kind # "enroll" /\ Idle(k, p)
          BY <3>4, <3>6, <3>13, <3>15 DEF Idle
        <5>. QED
          BY <3>11, <5>1, ActiveFacts
      <4>2. Good(Complete(k, p)) /\ SameQueue(k, Complete(k, p))
        <5>1. p \in Nat
          BY <1>0, <3>4, StateFacts, LenProperties
        <5>2. SameQueue(k, Complete(k, p))
          BY <3>6, <5>1, CompleteFacts
        <5>. QED
          BY <3>11, <4>1, <5>2, GoodComplete
      <4>3. n = Complete(k, p)
        BY <3>3, <3>15
      <4>. QED
        BY <3>12, <3>13, <4>2, <4>3 DEF n, SameQueue, Idle, Tests
    <3>. QED
      BY <3>14, <3>15
  <2>. QED
    BY <2>2, <2>3
<1>. QED
  BY <1>2, <1>3

\* OnActivityComplete of an active activity.
LEMMA GoodCompleted ==
    ASSUME NEW m, Good(m), NEW a \in ToSet(m.active), a # Enroll, Idle(m, a),
           NEW n \in AQ!Completed(m, a)
    PROVE  Good(n)
<1>. DEFINE t == Notify(m, a)
            active == RemoveAt(t.active, At(m, a))
            k == [t EXCEPT !.active = active]
            pending == Tail(k.pending)
            s == [k EXCEPT !.pending = pending]
            b == Head(k.pending)
<1>1. /\ Good(t) /\ t.active = m.active /\ a \notin Tests(t) /\ Idle(t, a)
      /\ \A p \in ToSet(m.active) : a \notin t.acts[p].children
  BY GoodNotify
<1>. HIDE DEF t
<1>2. t \in MasterState /\ Queued(t) /\ Served(t) /\ At(t, a) = At(m, a)
  BY <1>1 DEF Good, At
<1>3. active \in Seq(Nat)
  <2>1. t.active \in Seq(Nat) /\ Increasing(t.active)
    BY <1>2, StateFacts DEF Queued, Line
  <2>2. \A i, j \in DOMAIN t.active : t.active[i] = t.active[j] => i = j
    BY <2>1, IncreasingFacts
  <2>3. At(m, a) \in DOMAIN t.active
    BY <1>1, ToldFacts
  <2>. QED
    BY <2>1, <2>2, <2>3, RemoveAtFacts
<1>4. n \in IF k.pending # << >> /\ AQ!Precondition(k, b)
            THEN AQ!Activate([k EXCEPT !.pending = Tail(@)], b) ELSE {k}
  <2>1. k = [t EXCEPT !.active = AQ!RemoveAt(@, AQ!At(m, a))]
    BY DEF AQ!RemoveAt, RemoveAt, AQ!At, At
  <2>. QED
    BY <2>1 DEF AQ!Completed, t
<1>5. /\ k \in MasterState /\ k.active = active
      /\ k.process = t.process /\ k.acts = t.acts /\ k.testsMap = t.testsMap
      /\ k.out = t.out /\ k.clients = t.clients /\ k.posted = t.posted /\ k.pending = t.pending
  <2>. HIDE DEF active
  <2>1. k \in MasterState
    BY <1>2, <1>3, UpdateFacts
  <2>. QED
    BY <1>2, <2>1 DEF MasterState
<1>6. Queued(k) /\ ToSet(k.active) = ToSet(t.active) \ {a}
  <2>1. k.active = RemoveAt(t.active, At(t, a))
    BY <1>2, <1>5
  <2>2. a \in ToSet(t.active) /\ \A p \in ToSet(t.active) : a \notin t.acts[p].children
    BY <1>1
  <2>. HIDE DEF k, active
  <2>. QED
    BY <1>1, <1>2, <1>5, <2>1, <2>2, QueuedLeave
<1>. HIDE DEF k, active
<1>7. Served(k)
  <2>1. FewerMessages(t.posted, k.posted) /\ t.acts[a].waiting = {}
    BY <1>1, <1>2, <1>5, StateFacts, MessageFacts DEF Idle
  <2>. QED
    BY <1>2, <1>5, <1>6, <2>1, ServedMove
<1>8. Good(k)
  BY <1>5, <1>6, <1>7 DEF Good
<1>9. CASE ~(k.pending # << >> /\ AQ!Precondition(k, b))
  BY <1>4, <1>8, <1>9
<1>10. CASE k.pending # << >> /\ AQ!Precondition(k, b)
  <2>1. k.pending \in Seq(Nat)
    BY <1>5, StateFacts
  <2>2. pending \in Seq(Nat) /\ b \in ToSet(k.pending)
    BY <1>10, <2>1, TailFacts
  <2>3. n \in AQ!Activate(s, b)
    BY <1>4, <1>10
  <2>4. b \in NotStarted(k)
    BY <2>2 DEF NotStarted
  <2>. HIDE DEF pending, b
  <2>5. /\ s \in MasterState /\ s.pending = pending
        /\ s.process = k.process /\ s.acts = k.acts /\ s.testsMap = k.testsMap
        /\ s.out = k.out /\ s.clients = k.clients /\ s.active = k.active /\ s.posted = k.posted
    <3>1. s \in MasterState
      BY <1>5, <2>2, UpdateFacts
    <3>. QED
      BY <1>5, <3>1 DEF MasterState
  <2>. HIDE DEF s
  <2>6. AQ!Precondition(s, b)
    BY <1>10, <2>5 DEF AQ!Precondition
  <2>7. s.pending = Tail(k.pending) /\ b = Head(k.pending)
    BY <2>5 DEF pending, b
  <2>. QED
    BY <1>8, <1>10, <2>3, <2>4, <2>5, <2>6, <2>7, GoodActivate
<1>. QED
  BY <1>9, <1>10

\* What the invariant does not speak of changes: the program, how many commands
\* were given, and the rest of an activity.
LEMMA GoodSame ==
    ASSUME NEW m, Good(m), NEW n \in MasterState, SameBut(m, n, m.acts)
    PROVE  Good(n)
<1>0. m \in MasterState /\ Queued(m) /\ Served(m) /\ m.posted \in Seq(Event)
  BY StateFacts DEF Good
<1>1. StartsPosted(n) = StartsPosted(m) /\ StartsInOrder(n.posted)
  BY <1>0 DEF StartsPosted, Queued, Line, SameBut
<1>2. Queued(n)
  BY <1>0, <1>1, QueuedFrame DEF SameBut
<1>3. Served(n)
  BY <1>0, MessageFacts, OutSame, ServedFrame DEF SameBut, Await
<1>. QED
  BY <1>2, <1>3 DEF Good

\* Activities are made that wait for nobody.
LEMMA GoodNew ==
    ASSUME NEW m, Good(m), m.process # "starting", NEW new \in Seq(Activity),
           \A i \in DOMAIN new : /\ new[i].kind # "enroll" /\ new[i].waiting = {}
                                 /\ new[i].children = {}
    PROVE  LET n == StartActivities(m, new)
           IN  Good(n) /\ FewerMessages(m.posted, n.posted) /\ SameSlaves(m, n)
<1>. DEFINE n == StartActivities(m, new)
            es == [i \in 1 .. Len(new) |-> StartEvent(Len(m.acts) + i)]
<1>0. /\ m \in MasterState /\ Queued(m) /\ Served(m) /\ m.posted \in Seq(Event)
      /\ ToSet(m.active) \subseteq DOMAIN m.acts
  BY StateFacts DEF Good, Queued, Line, Unfinished
<1>1. /\ n \in MasterState /\ SameSlaves(m, n) /\ n.testsMap = m.testsMap
      /\ n.posted = m.posted \o es /\ es \in Seq(Event)
  BY <1>0, NewFacts
<1>2. /\ Queued(n) /\ n.active = m.active
      /\ \A a \in DOMAIN m.acts : a \in DOMAIN n.acts /\ n.acts[a] = m.acts[a]
      /\ \A a \in DOMAIN n.acts \ DOMAIN m.acts : a \in NotStarted(n)
  BY <1>0, QueuedNew
<1>3. \A i \in DOMAIN es : es[i].type # "message"
  BY DEF StartEvent
<1>. HIDE DEF n, es
<1>4. FewerMessages(m.posted, n.posted)
  BY <1>0, <1>1, <1>3, MessageFacts
<1>5. Served(n)
  <2>1. \A c \in Conns : Await(n, c) <=> Await(m, c)
    BY <1>0, <1>2 DEF Await
  <2>2. \A a \in DOMAIN n.acts : a \in DOMAIN m.acts \/ n.acts[a].waiting = {}
    BY <1>2 DEF Queued, Fresh, Idle
  <2>. QED
    BY <1>0, <1>1, <1>2, <1>4, <2>1, <2>2, OutSame, ServedFrame DEF SameSlaves
<1>. QED
  BY <1>1, <1>2, <1>4, <1>5 DEF Good, n

\* A client enrolls, and the EnrollActivity is active.
LEMMA GoodEnrollRequest ==
    ASSUME NEW m, Good(m), NEW c \in Conns, m.posted # << >>,
           Head(m.posted) = MessageEvent(c, "enroll"), Enroll \in ToSet(m.active)
    PROVE  Good(EnrollRequest(Rest(m), c))
<1>. DEFINE k == Rest(m)
            existing == k.clients[NameOf[c]]
            n == EnrollRequest(k, c)
<1>0. /\ m \in MasterState /\ Queued(m) /\ Served(m) /\ m.posted \in Seq(Event)
      /\ "enroll" \in Answer /\ Head(m.posted).type = "message" /\ Head(m.posted).msg = "enroll"
  BY StateFacts DEF Good, Answer, MessageEvent
<1>1. /\ Good(k) /\ k \in MasterState /\ SameQueue(m, k) /\ SameSlaves(m, k)
      /\ k.posted = Tail(m.posted) /\ k.posted \in Seq(Event)
  BY <1>0, GoodRest, RestFacts, StateFacts
<1>2. Unanswered(k, c)
  <2>. DEFINE e == MessageEvent(c, "enroll")
  <2>1. Has(m.posted, {e}) /\ (Once(m.posted, {e}) => ~Has(Tail(m.posted), {e}))
    BY <1>0, HasOnceTail
  <2>2. Once(m.posted, {e})
    BY <1>0 DEF Served, Enrolls
  <2>3. ~Testing(m, c) /\ ~Has(m.out[c], Replies) /\ told[c] = "nothing"
    BY <1>0, <2>1 DEF Served, Enrolls
  <2>4. link[c] # "off"
    BY <1>0, <2>1 DEF Served, Unknown
  <2>. QED
    BY <1>1, <2>1, <2>2, <2>3, <2>4 DEF Unanswered, SameQueue, SameSlaves, Testing
<1>3. k.process # "starting" /\ Enroll \in ToSet(k.active)
  BY <1>1, ActiveFacts DEF SameQueue
<1>4. NameOf[c] \in Names
  BY Constants
<1>. HIDE DEF k
<1>5. CASE existing = None
  <2>1. n = EnrollAs(k, NameOf[c], c)
    BY <1>5 DEF EnrollRequest
  <2>2. n \in MasterState /\ SameQueue(k, n) /\ n.posted = k.posted /\ Served(n)
    BY <1>1, <1>2, <2>1, EnrollAsFacts DEF Good
  <2>3. Good(n)
    BY <1>1, <2>2, GoodAnswered
  <2>. QED
    BY <2>3 DEF k
<1>6. CASE existing # None
  <2>. DEFINE t == Len(k.acts) + 1
              map == k.testsMap \cup {<<t, c>>}
              act == NewActivity("test", existing)
              new == <<act>>
              k1 == [k EXCEPT !.testsMap = map]
              j == StartActivities(k, new)
  <2>0. /\ existing \in Conns /\ NameOf[existing] = NameOf[c]
        /\ k.testsMap \in SUBSET (Nat \X Conns) /\ k.acts \in Seq(Activity)
        /\ Len(k.acts) \in Nat /\ DOMAIN k.acts = 1 .. Len(k.acts)
    <3>1. existing \in Conns
      BY <1>1, <1>4, <1>6, StateFacts
    <3>2. NameOf[existing] = NameOf[c]
      BY <1>1, <1>4, <1>6 DEF Good, Served, Owners
    <3>. QED
      BY <1>1, <3>1, <3>2, StateFacts, LenProperties
  <2>1. n = StartActivities(k1, new)
    BY <1>6 DEF EnrollRequest
  <2>2. act \in Activity /\ act.kind = "test" /\ act.client = existing
        /\ act.children = {} /\ act.waiting = {}
    BY <2>0, NewActivityFacts
  <2>3. /\ new \in Seq(Activity) /\ Len(new) = 1 /\ DOMAIN new = 1 .. 1 /\ new[1] = act
        /\ \A i \in DOMAIN new : new[i] = act
    BY <2>2
  <2>4. map \in SUBSET (Nat \X Conns)
    BY <2>0
  <2>. HIDE DEF new, act, map, n, existing
  <2>5. /\ k1 \in MasterState /\ SameSlaves(k, k1) /\ k1.testsMap = map
        /\ k1.process = k.process /\ k1.active = k.active /\ k1.pending = k.pending
        /\ k1.acts = k.acts /\ k1.posted = k.posted
    <3>1. k1 \in MasterState
      BY <1>1, <2>4, UpdateFacts
    <3>. QED
      BY <1>1, <3>1 DEF SameSlaves, MasterState
  <2>. HIDE DEF k1
  <2>. DEFINE es == [i \in 1 .. Len(new) |-> StartEvent(Len(k.acts) + i)]
  <2>6. /\ j \in MasterState /\ j.testsMap = k.testsMap
        /\ j.process = k.process /\ j.active = k.active /\ j.pending = k.pending
        /\ j.acts = k.acts \o new /\ j.posted = k.posted \o es
    BY <1>1, <2>3, NewFacts
  <2>7. /\ n \in MasterState /\ SameSlaves(k1, n) /\ n.testsMap = k1.testsMap
        /\ n.process = k1.process /\ n.active = k1.active /\ n.pending = k1.pending
        /\ n.acts = k1.acts \o new /\ n.posted = k1.posted \o es
    <3>. DEFINE es1 == [i \in 1 .. Len(new) |-> StartEvent(Len(k1.acts) + i)]
    <3>1. es1 = es
      BY <2>5
    <3>2. /\ n \in MasterState /\ SameSlaves(k1, n) /\ n.testsMap = k1.testsMap
          /\ n.process = k1.process /\ n.active = k1.active /\ n.pending = k1.pending
          /\ n.acts = k1.acts \o new /\ n.posted = k1.posted \o es1
      BY <2>1, <2>3, <2>5, NewFacts
    <3>. QED
      BY <3>1, <3>2
  <2>8. /\ Queued(j) /\ DOMAIN j.acts = 1 .. Len(k.acts) + Len(new)
        /\ \A i \in DOMAIN new : j.acts[Len(k.acts) + i] = new[i]
        /\ \A b \in DOMAIN j.acts \ DOMAIN k.acts :
              /\ b \in NotStarted(j) /\ b \notin Tests(j)
              /\ \A p \in DOMAIN j.acts : b \notin j.acts[p].children
        /\ Good(j) /\ FewerMessages(k.posted, j.posted) /\ SameSlaves(k, j)
    <3>1. \A i \in DOMAIN new : /\ new[i].kind # "enroll" /\ new[i].waiting = {}
                                /\ new[i].children = {}
      BY <2>2, <2>3
    <3>2. k \in MasterState /\ Queued(k)
      BY <1>1 DEF Good
    <3>. QED
      BY <1>1, <1>3, <2>3, <3>1, <3>2, QueuedNew, GoodNew
  <2>. HIDE DEF j, es
  <2>9. t \in DOMAIN j.acts /\ t \notin DOMAIN k.acts /\ j.acts[t] = act
    BY <2>0, <2>3, <2>8
  <2>10. /\ n.process = j.process /\ n.active = j.active /\ n.pending = j.pending
         /\ n.posted = j.posted /\ n.acts = j.acts /\ n.testsMap = j.testsMap \cup {<<t, c>>}
         /\ n.out = j.out /\ n.clients = j.clients
    BY <2>5, <2>6, <2>7, <2>8 DEF SameSlaves, map
  <2>. HIDE DEF t
  <2>11. Queued(n)
    <3>1. Enroll \in ToSet(j.active)
      BY <1>3, <2>6
    <3>2. t \in DOMAIN j.acts \cap NotStarted(j) /\ t \notin Tests(j)
          /\ \A p \in DOMAIN j.acts : t \notin j.acts[p].children
      BY <2>8, <2>9
    <3>3. j.acts[t].kind = "test" /\ NameOf[j.acts[t].client] = NameOf[c]
      BY <2>0, <2>2, <2>9
    <3>. QED
      BY <2>6, <2>7, <2>8, <2>10, <3>1, <3>2, <3>3, QueuedTest
  <2>12. Unanswered(j, c)
    BY <1>2, <2>6, <2>8 DEF Unanswered, FewerMessages, SameSlaves, Testing, Answer
  <2>13. Served(n)
    BY <2>6, <2>7, <2>8, <2>10, <2>12, ServedTest DEF Good
  <2>. QED
    BY <2>7, <2>11, <2>13 DEF Good, k, n
<1>. QED
  BY <1>5, <1>6

\* A client answers a test.
LEMMA GoodAlive ==
    ASSUME NEW m, Good(m), NEW a \in ToSet(m.active), m.acts[a].kind = "test"
    PROVE  Good(AliveAnswer(m, a))
<1>. DEFINE k == [m EXCEPT !.acts[a].alive = TRUE]
<1>0. /\ m \in MasterState /\ Queued(m) /\ Served(m) /\ m.posted \in Seq(Event)
      /\ a \in DOMAIN m.acts /\ ToSet(m.active) \subseteq DOMAIN m.acts
      /\ m.acts[a] \in Activity
  BY StateFacts, ActiveFacts DEF Good, Queued, Line, Unfinished
<1>1. /\ k \in MasterState /\ SameBut(m, k, k.acts)
      /\ DOMAIN k.acts = DOMAIN m.acts /\ Len(k.acts) = Len(m.acts)
      /\ k.acts[a].kind = m.acts[a].kind /\ k.acts[a].client = m.acts[a].client
      /\ k.acts[a].waiting = m.acts[a].waiting
      /\ k.acts[a].children = m.acts[a].children
      /\ \A b \in DOMAIN m.acts : b # a => k.acts[b] = m.acts[b]
  <2>1. k = WithAlive(m, a)
    BY DEF WithAlive
  <2>. HIDE DEF k
  <2>. QED
    BY <1>0, <2>1, AliveFacts
<1>2. AliveAnswer(m, a) = Complete(k, a)
  BY DEF AliveAnswer
<1>. HIDE DEF k
<1>3. \A b \in DOMAIN m.acts :
         /\ k.acts[b].kind = m.acts[b].kind /\ k.acts[b].client = m.acts[b].client
         /\ k.acts[b].waiting = m.acts[b].waiting
         /\ k.acts[b].children = m.acts[b].children
  BY <1>1
<1>4. Queued(k)
  <2>1. /\ k.process = m.process /\ k.active = m.active /\ k.pending = m.pending
        /\ k.posted = m.posted /\ k.testsMap = m.testsMap
    BY <1>1 DEF SameBut
  <2>. QED
    BY <1>0, <1>1, <1>3, <2>1, QueuedActs
<1>5. Served(k)
  <2>1. \A c \in Conns : Await(k, c) <=> Await(m, c)
    BY <1>0, <1>1, <1>3 DEF Await, SameBut
  <2>2. FewerMessages(m.posted, k.posted) /\ OutKept(m, k)
    BY <1>0, <1>1, MessageFacts, OutSame DEF SameBut
  <2>. QED
    BY <1>0, <1>1, <1>3, <2>1, <2>2, ServedFrame DEF SameBut
<1>6. Good(k)
  BY <1>1, <1>4, <1>5 DEF Good
<1>7. CanEnd(k, a)
  <2>1. a \in ToSet(k.active) /\ k.acts[a].kind # "enroll" /\ Idle(k, a)
    BY <1>0, <1>1, ActivityFacts DEF SameBut, Idle
  <2>. QED
    BY <1>6, <2>1, ActiveFacts
<1>. QED
  BY <1>2, <1>6, <1>7, GoodComplete

\* A client answers that it loaded a program, or loaded or saved a config, and the
\* activity that waits for such answers takes it.
LEMMA GoodAsked ==
    ASSUME NEW m, Good(m), m.posted # << >>, NEW c \in Conns, NEW msg \in {"load", "config"},
           Head(m.posted) = MessageEvent(c, msg), NEW a \in ToSet(m.active),
           m.acts[a].kind \in Asking, msg = "load" <=> m.acts[a].kind = "load",
           NEW n \in AskedAnswer(Rest(m), a, c)
    PROVE  Good(n)
<1>. DEFINE k == Rest(m)
            left == k.acts[a].waiting \ {c}
            e == [k EXCEPT !.acts[a].waiting = left]
<1>0. /\ m \in MasterState /\ Queued(m) /\ Served(m) /\ m.posted \in Seq(Event)
      /\ a \in DOMAIN m.acts /\ ToSet(m.active) \subseteq DOMAIN m.acts
      /\ m.acts[a].kind # "test" /\ m.acts[a].kind # "enroll" /\ m.acts[a] \in Activity
      /\ msg \in Answer /\ Head(m.posted).type = "message" /\ Head(m.posted).msg = msg
  BY StateFacts, ActiveFacts DEF Good, Queued, Line, Unfinished, Asking, Answer, MessageEvent
<1>1. /\ k \in MasterState /\ SameQueue(m, k) /\ SameSlaves(m, k) /\ k.posted = Tail(m.posted)
  BY <1>0, RestFacts, SMTT(30)
<1>2. n \in IF left # {} THEN {e}
            ELSE {Complete([e EXCEPT !.program = p], a) :
                     p \in IF k.acts[a].kind = "load" THEN {k.program, k.acts[a].named}
                           ELSE {k.program}}
  BY DEF AskedAnswer
<1>. HIDE DEF k
<1>3. Queued(k)
  <2>1. /\ StartsInOrder(k.posted) /\ StartsOf(k.posted) = StartsOf(m.posted)
        /\ \A d \in ToSet(k.posted) : d \in ToSet(m.posted)
    BY <1>0, <1>1, PostedFacts DEF Queued, Line
  <2>2. StartsPosted(k) = StartsPosted(m)
    BY <2>1 DEF StartsPosted, StartsOf
  <2>. QED
    BY <1>0, <1>1, <2>1, <2>2, QueuedFrame DEF SameQueue
<1>4. left \in SUBSET Conns /\ left \subseteq m.acts[a].waiting /\ c \notin left
  BY <1>0, <1>1, ActivityFacts DEF SameQueue
<1>5. left = m.acts[a].waiting \ {c}
  BY <1>1 DEF SameQueue
<1>. HIDE DEF left
<1>6. /\ e \in MasterState /\ SameBut(k, e, e.acts)
      /\ DOMAIN e.acts = DOMAIN k.acts /\ Len(e.acts) = Len(k.acts)
      /\ e.acts[a].kind = k.acts[a].kind /\ e.acts[a].client = k.acts[a].client
      /\ e.acts[a].waiting = left /\ e.acts[a].children = k.acts[a].children
      /\ e.acts[a].named = k.acts[a].named
      /\ \A b \in DOMAIN k.acts : b # a => e.acts[b] = k.acts[b]
  <2>1. k \in MasterState /\ a \in DOMAIN k.acts /\ k.acts[a].kind # "test" /\ left \in SUBSET Conns
    BY <1>0, <1>1, <1>4 DEF SameQueue
  <2>2. e = WithWaiting(k, a, left)
    BY DEF WithWaiting
  <2>. HIDE DEF e
  <2>. QED
    BY ONLY <2>1, <2>2, WaitingFacts
<1>. HIDE DEF e
<1>7. \A b \in DOMAIN m.acts :
         /\ e.acts[b].kind = m.acts[b].kind /\ e.acts[b].client = m.acts[b].client
         /\ e.acts[b].waiting \subseteq m.acts[b].waiting
         /\ e.acts[b].children = m.acts[b].children
         /\ b # a => e.acts[b].waiting = m.acts[b].waiting
  BY <1>1, <1>4, <1>6 DEF SameQueue
<1>8. Queued(e)
  <2>1. /\ e.process = k.process /\ e.active = k.active /\ e.pending = k.pending
        /\ e.posted = k.posted /\ e.testsMap = k.testsMap
    BY <1>6 DEF SameBut
  <2>2. \A b \in DOMAIN k.acts :
           /\ e.acts[b].kind = k.acts[b].kind /\ e.acts[b].client = k.acts[b].client
           /\ e.acts[b].waiting \subseteq k.acts[b].waiting
           /\ e.acts[b].children = k.acts[b].children
    BY <1>1, <1>7 DEF SameQueue
  <2>. QED
    BY <1>1, <1>3, <1>6, <2>1, <2>2, QueuedActs
<1>9. /\ e.active = m.active /\ e.testsMap = m.testsMap /\ e.posted = Tail(m.posted)
      /\ e.out = m.out /\ e.clients = m.clients /\ DOMAIN e.acts = DOMAIN m.acts
  BY <1>1, <1>6 DEF SameBut, SameQueue, SameSlaves
<1>10. Served(e)
  <2>1. CASE msg = "config"
    <3>1. FewerMessages(m.posted, e.posted) /\ OutKept(m, e)
      BY <1>0, <1>9, <2>1, MessageFacts, OutSame
    <3>2. \A d \in Conns : Await(e, d) <=> Await(m, d)
      BY <1>0, <1>7, <1>9, <2>1 DEF Await
    <3>. QED
      BY <1>0, <1>6, <1>7, <1>9, <3>1, <3>2, ServedFrame
  <2>2. CASE msg = "load"
    <3>1. \A d \in Conns, r \in Answer :
             /\ Has(e.posted, {MessageEvent(d, r)}) => Has(m.posted, {MessageEvent(d, r)})
             /\ Once(m.posted, {MessageEvent(d, r)}) => Once(e.posted, {MessageEvent(d, r)})
             /\ Has(m.posted, {MessageEvent(d, r)}) => \/ Head(m.posted) = MessageEvent(d, r)
                                                       \/ Has(e.posted, {MessageEvent(d, r)})
      <4>1. ASSUME NEW d \in Conns, NEW r \in Answer
            PROVE  LET S == {MessageEvent(d, r)}
                   IN  /\ Has(m.posted, S) <=> Head(m.posted) \in S \/ Has(Tail(m.posted), S)
                       /\ Once(m.posted, S) => Once(Tail(m.posted), S)
        BY <1>0, HasOnceTail
      <4>. QED
        BY <1>9, <4>1
    <3>2. LoadDone(m, c) /\ (Once(m.posted, {MessageEvent(c, "load")}) => ~LoadDone(e, c))
      BY <1>0, <1>9, <2>2, HasOnceTail DEF LoadDone
    <3>3. \A d \in Conns : d # c => (LoadDone(e, d) <=> LoadDone(m, d))
      <4>1. \A d \in Conns : d # c => Head(m.posted) # MessageEvent(d, "load")
        BY DEF MessageEvent
      <4>. QED
        BY <3>1, <4>1 DEF LoadDone, Answer
    <3>4. \A b \in ToSet(m.active) : m.acts[b].kind = "load" => b = a
      BY <1>0, <2>2 DEF Queued, Exclusion, ExclusiveKinds
    <3>5. \A d \in Conns : d # c => (Await(e, d) <=> Await(m, d))
      <4>1. \A d \in Conns : d # c => (d \in left <=> d \in m.acts[a].waiting)
        BY <1>5
      <4>. QED
        BY <1>0, <1>6, <1>7, <1>9, <3>4, <4>1 DEF Await
    <3>6. ~Await(e, c)
      BY <1>0, <1>4, <1>6, <1>7, <1>9, <3>4 DEF Await
    <3>7. ~LoadOut(e, c) /\ c \notin loading /\ ~LoadDone(e, c)
      BY <1>0, <1>9, <3>2 DEF Served, Loads, OneLoad, LoadOut
    <3>8. \A d \in Conns : LoadOut(e, d) <=> LoadOut(m, d)
      BY <1>9 DEF LoadOut
    <3>9. \A d \in Conns : Once(e.out[d], {"load"}) /\ Once(e.posted, {MessageEvent(d, "load")})
      BY <1>0, <1>9, <3>1 DEF Served, Loads, OneLoad, Answer
    <3>10. Loads(e)
      BY <1>0, <3>3, <3>5, <3>6, <3>7, <3>8, <3>9 DEF Served, Loads, OneLoad, SomeLoad
    <3>11. Unknown(e)
      BY <1>0, <1>7, <1>9, <3>1 DEF Served, Unknown
    <3>12. Enrolls(e)
      BY <1>0, <1>9, <3>1 DEF Served, Enrolls, Testing, Answer
    <3>13. Owners(e)
      BY <1>0, <1>9 DEF Served, Owners
    <3>. QED
      BY <3>10, <3>11, <3>12, <3>13 DEF Served
  <2>. QED
    BY <2>1, <2>2
<1>11. Good(e)
  BY <1>6, <1>8, <1>10 DEF Good
<1>12. CASE left # {}
  BY <1>2, <1>11, <1>12
<1>13. CASE left = {}
  <2>1. PICK p \in BOOLEAN : n = Complete([e EXCEPT !.program = p], a)
    <3>1. k.program \in BOOLEAN /\ k.acts[a].named \in BOOLEAN
      BY <1>0, <1>1, StateFacts, ActivityFacts DEF SameQueue
    <3>. QED
      BY <1>2, <1>13, <3>1
  <2>. DEFINE f == [e EXCEPT !.program = p]
  <2>2. f \in MasterState /\ SameBut(e, f, e.acts)
    <3>1. f \in MasterState
      BY <1>6, UpdateFacts
    <3>. QED
      BY <1>6, <3>1 DEF SameBut, MasterState
  <2>. HIDE DEF f
  <2>3. Good(f)
    BY <1>11, <2>2, GoodSame
  <2>4. a \in ToSet(f.active) /\ f.acts[a].kind # "enroll" /\ Idle(f, a)
    <3>1. f.acts = e.acts /\ f.active = m.active
      BY <1>9, <2>2 DEF SameBut
    <3>2. m.acts[a].children = {}
      BY <1>0 DEF Queued, Fresh, Asking
    <3>. QED
      BY <1>0, <1>6, <1>7, <1>13, <3>1, <3>2 DEF Idle
  <2>5. CanEnd(f, a)
    BY <2>3, <2>4, ActiveFacts
  <2>. QED
    BY <2>1, <2>3, <2>5, GoodComplete DEF f
<1>. QED
  BY <1>12, <1>13

-----------------------------------------------------------------------------
(***************************************************************************)
(* The queue thread keeps the state good.                                  *)
(***************************************************************************)
LEMMA IInvGood == IInv => Good(master)
BY DEF IInv, TypeOK, Good

LEMMA StartActivityGood ==
    ASSUME IInv, OnStartActivity
    PROVE  Good(master')
<1>1. Good(master) /\ Taken = Rest(master)
  BY IInvGood DEF Taken, Rest
<1>2. master.posted # << >> /\ Head(master.posted).type = "start"
  BY DEF OnStartActivity, NextHandler
<1>3. master' \in AQ!Starts(Rest(master), Head(master.posted).act)
  BY <1>1 DEF OnStartActivity
<1>. QED
  BY ONLY <1>1, <1>2, <1>3, GoodStarts

LEMMA CompletionGood ==
    ASSUME IInv, OnActivityComplete
    PROVE  Good(master')
<1>. DEFINE a == Head(master.posted).act
<1>1. Good(master) /\ Taken = Rest(master)
  BY IInvGood DEF Taken, Rest
<1>2. master.posted # << >> /\ Head(master.posted).type = "complete"
  BY DEF OnActivityComplete, NextHandler
<1>3. Good(Rest(master))
  BY ONLY <1>1, <1>2, GoodRest
<1>4. master \in MasterState /\ Queued(master) /\ master.posted \in Seq(Event)
  BY <1>1, StateFacts DEF Good
<1>5. Rest(master).active = master.active /\ Rest(master).acts = master.acts
  BY ONLY <1>2, <1>4, RestFacts DEF SameQueue
<1>6. Head(master.posted) \in ToSet(master.posted)
  BY ONLY <1>2, <1>4, TailFacts
<1>7. a # Enroll /\ Idle(Rest(master), a)
  BY <1>2, <1>4, <1>5, <1>6 DEF Queued, Ends, Idle
<1>. HIDE DEF a
<1>8. CASE a \in ToSet(master.active)
  <2>1. master' \in AQ!Completed(Rest(master), a)
    BY <1>1, <1>8 DEF OnActivityComplete, a
  <2>2. a \in ToSet(Rest(master).active)
    BY <1>5, <1>8
  <2>. QED
    BY ONLY <1>3, <1>7, <2>1, <2>2, GoodCompleted
<1>9. CASE a \notin ToSet(master.active)
  <2>1. master' = [Rest(master) EXCEPT !.process = "unfound"]
    BY <1>1, <1>9 DEF OnActivityComplete, a
  <2>. QED
    BY ONLY <1>3, <2>1, GoodProcess
<1>. QED
  BY <1>8, <1>9

\* A load's answer is there to be taken: an active load waits for it.
LEMMA ClientMessageGood ==
    ASSUME IInv, OnClientMessage
    PROVE  Good(master')
<1>. DEFINE c == Head(master.posted).from
            msg == Head(master.posted).msg
            takers == {i \in DOMAIN master.active : Handles(master, master.active[i], c, msg)}
            i0 == CHOOSE i \in takers : \A j \in takers : i <= j
            first == master.active[i0]
<1>1. Good(master) /\ Taken = Rest(master)
  BY IInvGood DEF Taken, Rest
<1>2. master.posted # << >> /\ Head(master.posted).type = "message"
  BY DEF OnClientMessage, NextHandler
<1>4. /\ master \in MasterState /\ Queued(master) /\ Served(master)
      /\ master.posted \in Seq(Event) /\ master.active \in Seq(Nat)
  BY <1>1, StateFacts DEF Good
<1>5. Rest(master).active = master.active /\ Rest(master).acts = master.acts
  BY ONLY <1>2, <1>4, RestFacts DEF SameQueue
<1>6. Head(master.posted) \in ToSet(master.posted) /\ Head(master.posted) \in Event
  BY ONLY <1>2, <1>4, TailFacts
<1>7. c \in Conns /\ msg \in Answer /\ Head(master.posted) = MessageEvent(c, msg)
  BY <1>2, <1>6, EventFacts, SMTT(30)
<1>8. master' \in CASE takers = {} -> {Rest(master)}
                    [] takers # {} /\ msg = "enroll" -> {EnrollRequest(Rest(master), c)}
                    [] takers # {} /\ msg = "alive" -> {AliveAnswer(Rest(master), first)}
                    [] takers # {} /\ msg \in {"load", "config"} -> AskedAnswer(Rest(master), first, c)
  BY <1>1 DEF OnClientMessage
<1>9. takers # {} => /\ first \in ToSet(master.active)
                     /\ Handles(master, first, c, msg)
  <2>1. takers \in SUBSET Nat
    BY <1>4
  <2>2. SUFFICES ASSUME takers # {} PROVE i0 \in takers
    <3>1. \A i \in takers : i \in DOMAIN master.active /\ Handles(master, master.active[i], c, msg)
      OBVIOUS
    <3>. HIDE DEF takers, i0
    <3>. QED
      BY <2>2, <3>1, IndexInToSet
  <2>3. \E i \in takers : \A j \in takers : i <= j
    <3>. HIDE DEF takers
    <3>. QED
      BY <2>1, <2>2, Least
  <2>. QED
    BY <2>3
<1>10. msg = "load" => takers # {}
  <2>. SUFFICES ASSUME msg = "load" PROVE takers # {}
    OBVIOUS
  <2>1. LoadDone(master, c)
    BY <1>2, <1>4, <1>7, HasOnceTail DEF LoadDone
  <2>2. PICK b \in ToSet(master.active) : master.acts[b].kind = "load"
    BY <1>4, <1>7, <2>1 DEF Served, Loads, SomeLoad, Await
  <2>3. PICK i \in DOMAIN master.active : master.active[i] = b
    BY <2>2, InToSet
  <2>4. Handles(master, master.active[i], c, msg)
    BY <2>2, <2>3 DEF Handles
  <2>. QED
    BY <2>4
<1>. HIDE DEF takers, i0, first
<1>11. CASE takers = {}
  <2>1. master' = Rest(master)
    BY <1>8, <1>11
  <2>2. msg # "load" /\ Head(master.posted).type # "start"
    BY <1>2, <1>10, <1>11
  <2>. QED
    BY ONLY <1>1, <1>2, <2>1, <2>2, GoodRest
<1>12. CASE takers # {} /\ msg = "enroll"
  <2>1. master' = EnrollRequest(Rest(master), c)
    BY <1>8, <1>12
  <2>2. first \in ToSet(master.active) /\ master.acts[first].kind = "enroll"
    BY <1>9, <1>12 DEF Handles
  <2>3. first \in DOMAIN master.acts
    BY ONLY <1>1, <2>2, ActiveFacts
  <2>4. Enroll \in ToSet(master.active)
    BY <1>4, <2>2, <2>3 DEF Queued, Foremost
  <2>5. Head(master.posted) = MessageEvent(c, "enroll")
    BY <1>7, <1>12
  <2>. QED
    BY ONLY <1>1, <1>2, <1>7, <2>1, <2>4, <2>5, GoodEnrollRequest
<1>13. CASE takers # {} /\ msg = "alive"
  <2>1. master' = AliveAnswer(Rest(master), first)
    BY <1>8, <1>13
  <2>2. first \in ToSet(Rest(master).active) /\ Rest(master).acts[first].kind = "test"
    BY <1>5, <1>9, <1>13 DEF Handles
  <2>3. Good(Rest(master))
    BY <1>1, <1>2, <1>13, GoodRest
  <2>. QED
    BY ONLY <2>1, <2>2, <2>3, GoodAlive
<1>14. CASE takers # {} /\ msg \in {"load", "config"}
  <2>1. master' \in AskedAnswer(Rest(master), first, c)
    BY <1>8, <1>14
  <2>2. first \in ToSet(master.active) /\ master.acts[first].kind \in Asking
        /\ (msg = "load" <=> master.acts[first].kind = "load")
    BY <1>9, <1>14 DEF Handles, Asking
  <2>. QED
    BY ONLY <1>1, <1>2, <1>7, <1>14, <2>1, <2>2, GoodAsked
<1>. QED
  BY <1>7, <1>11, <1>12, <1>13, <1>14 DEF Answer

\* The invariant after a step of the master alone.
LEMMA IInvNext ==
    ASSUME IInv, Good(master'), UNCHANGED <<link, loading, config, told>>
    PROVE  IInv'
<1>1. master' \in MasterState /\ Queued(master')
  BY DEF Good
<1>2. Served(master)'
  BY DEF Good, Served, Unknown, Loads, OneLoad, SomeLoad, LoadOut, LoadDone, Await,
         Enrolls, Testing, Owners
<1>3. TypeOK'
  BY <1>1 DEF IInv, TypeOK
<1>4. Queued(master)'
  BY <1>1 
<1>. QED
  BY <1>2, <1>3, <1>4 DEF IInv

-----------------------------------------------------------------------------
(***************************************************************************)
(* The main thread keeps the invariant.                                    *)
(***************************************************************************)
LEMMA StartMasterKeeps ==
    ASSUME IInv, StartMaster
    PROVE  IInv'
<1>. DEFINE k == [master EXCEPT !.process = "up"]
            es == <<StartEvent(Enroll)>>
            p == master.posted
            n == Post(k, es)
<1>1. /\ master \in MasterState /\ Queued(master) /\ Served(master)
      /\ p \in Seq(Event) /\ master.acts \in Seq(Activity)
      /\ master.pending \in Seq(Nat) /\ master.active \in Seq(Nat)
  BY IInvGood, StateFacts DEF Good
<1>2. k \in MasterState /\ k.posted = p /\ SameSlaves(master, k)
      /\ k.process = "up" /\ k.active = master.active /\ k.pending = master.pending
      /\ k.acts = master.acts /\ k.testsMap = master.testsMap
  <2>1. k \in MasterState
    BY <1>1, UpdateFacts
  <2>. QED
    BY <1>1, <2>1 DEF MasterState, SameSlaves
<1>3. es \in Seq(Event) /\ Len(es) = 1 /\ es[1] = StartEvent(Enroll) /\ DOMAIN es = {1}
  BY Constants, EventFacts
<1>. HIDE DEF k, es
<1>4. /\ n \in MasterState /\ SameQueue(k, n) /\ SameSlaves(k, n) /\ n.posted = p \o es
  BY ONLY <1>2, <1>3, PostFacts
<1>5. master' = n /\ UNCHANGED <<link, loading, config, told>> /\ master.process = "starting"
  BY DEF StartMaster, k, es
<1>. HIDE DEF n, p
<1>6. /\ Unfinished(master) = {} /\ Len(master.acts) = 1 /\ DOMAIN master.acts = {1}
      /\ Foremost(master) /\ Fresh(master) /\ Ends(master) /\ Awaits(master)
  BY <1>1, <1>5 DEF Queued, Foremost
<1>7. /\ master.active = << >> /\ master.pending = << >> /\ StartsOf(p) = {}
      /\ ToSet(master.active) = {} /\ ToSet(master.pending) = {}
  <2>1. ToSet(master.active) = {} /\ ToSet(master.pending) = {} /\ StartsOf(p) = {}
    BY <1>6 DEF Unfinished, NotStarted, StartsPosted, StartsOf, p
  <2>2. ASSUME NEW s \in Seq(Nat) PROVE ToSet(s) = {} => s = << >>
    BY ToSetFacts
  <2>. QED
    BY <1>1, <2>1, <2>2
<1>8. /\ StartsOf(es) = {Enroll} /\ StartsInOrder(es)
  <2>1. \A b : b \in StartsOf(es) <=> \E i \in DOMAIN es : es[i].type = "start" /\ b = es[i].act
    BY InStarts
  <2>. QED
    BY <1>3, <2>1, EventFacts, Constants DEF StartsInOrder
<1>9. /\ \A b : b \in StartsOf(p \o es) <=> b \in StartsOf(p) \/ b \in StartsOf(es)
      /\ StartsInOrder(p \o es)
  <2>1. StartsInOrder(p)
    BY <1>1 DEF Queued, Line, p
  <2>. QED
    BY ONLY <1>1, <1>3, <1>7, <1>8, <2>1, StartsConcat
<1>10. StartsPosted(n) = {Enroll} /\ NotStarted(n) = {Enroll} /\ Unfinished(n) = {Enroll}
  <2>1. StartsOf(n.posted) = {Enroll}
    BY <1>4, <1>7, <1>8, <1>9
  <2>2. StartsPosted(n) = {Enroll}
    BY <2>1 DEF StartsPosted, StartsOf
  <2>. QED
    BY <1>2, <1>4, <1>7, <2>2 DEF NotStarted, Unfinished, SameQueue
<1>11. ToSet(n.posted) = ToSet(p) \cup ToSet(es) /\ ToSet(es) = {StartEvent(Enroll)}
  <2>1. ToSet(p \o es) = ToSet(p) \cup ToSet(es)
    BY ONLY <1>1, <1>3, ConcatFacts
  <2>2. \A x : x \in ToSet(es) <=> \E i \in DOMAIN es : x = es[i]
    BY InToSet
  <2>. QED
    BY <1>3, <1>4, <2>1, <2>2
<1>12. Good(n)
  <2>0. /\ n.process = "up" /\ n.active = << >> /\ n.pending = << >> /\ n.acts = master.acts
        /\ n.testsMap = master.testsMap /\ n.out = master.out /\ n.clients = master.clients
    BY <1>2, <1>4, <1>7 DEF SameQueue, SameSlaves
  <2>1. Line(n)
    BY <1>6, <1>7, <1>9, <1>4, <1>10, <2>0, EmptyFacts DEF Line, Enroll
  <2>2. Foremost(n)
    <3>1. master.testsMap = {}
      BY <1>6, <1>7 DEF Foremost
    <3>. QED
      BY <1>6, <2>0, <3>1 DEF Foremost
  <2>3. Fresh(n)
    <3>1. Idle(n, Enroll)
      BY <1>6, <2>0 DEF Fresh, Foremost, Idle, Asking, Enroll
    <3>. QED
      BY <1>6, <1>10, <2>0, <3>1 DEF Fresh
  <2>4. Ends(n)
    <3>1. \A e \in ToSet(master.posted) : e.type # "complete"
      BY <1>6 DEF Ends, Enroll
    <3>. QED
      BY <1>11, <3>1, EventFacts, Constants DEF Ends, p
  <2>5. Awaits(n)
    <3>1. master.testsMap = {} /\ Tests(n) = {}
      BY <1>6, <1>7, <2>0 DEF Foremost, Tests
    <3>2. ToSet(n.active) = {}
      BY <1>7, <2>0
    <3>. QED
      BY <1>6, <2>0, <3>1, <3>2 DEF Awaits, Tests
  <2>6. Exclusion(n)
    BY <1>7, <2>0 DEF Exclusion
  <2>7. Served(n)
    <3>1. FewerMessages(p, n.posted)
      <4>1. \A i \in DOMAIN es : es[i].type # "message"
        BY <1>3, EventFacts, Constants
      <4>. QED
        BY ONLY <1>1, <1>3, <1>4, <4>1, MessageFacts
    <3>2. \A c \in Conns : Await(n, c) <=> Await(master, c)
      BY <1>7, <2>0 DEF Await
    <3>3. OutKept(master, n)
      BY ONLY <2>0, OutSame
    <3>. QED
      BY <1>1, <1>4, <2>0, <3>1, <3>2, <3>3, ServedFrame DEF p
  <2>. QED
    BY <1>4, <2>1, <2>2, <2>3, <2>4, <2>5, <2>6, <2>7 DEF Good, Queued
<1>. QED
  BY <1>5, <1>12, IInvNext

LEMMA CommandKeeps ==
    ASSUME IInv, NEW command \in Commands, Command(command)
    PROVE  IInv'
<1>. DEFINE k == [master EXCEPT !.commands = @ + 1]
            new == <<CommandActivity(command)>>
<1>1. /\ Good(master) /\ master \in MasterState /\ master.commands \in 0 .. MaxCommands
  BY IInvGood, StateFacts DEF Good
<1>2. k \in MasterState /\ SameBut(master, k, master.acts)
  <2>1. master.commands + 1 \in 0 .. MaxCommands
    BY <1>1, BoundAssumption DEF Command
  <2>2. [master EXCEPT !.commands = master.commands + 1] \in MasterState
    BY ONLY <1>1, <2>1, UpdateFacts
  <2>. QED
    BY <1>1, <2>2 DEF MasterState, SameBut
<1>3. k.process # "starting"
  BY <1>2 DEF Command, SameBut
<1>4. new \in Seq(Activity) /\ \A i \in DOMAIN new : /\ new[i].kind # "enroll" /\ new[i].waiting = {}
                                                     /\ new[i].children = {}
  BY NewActivityFacts
<1>5. master' = StartActivities(k, new) /\ UNCHANGED <<link, loading, config, told>>
  BY DEF Command
<1>. HIDE DEF k, new
<1>6. Good(k)
  BY ONLY <1>1, <1>2, GoodSame
<1>7. Good(master')
  BY ONLY <1>3, <1>4, <1>5, <1>6, GoodNew
<1>. QED
  BY ONLY <1>5, <1>7, IInv, IInvNext

-----------------------------------------------------------------------------
(***************************************************************************)
(* The slaves' side: reading an order and posting an answer.               *)
(***************************************************************************)
LEMMA AnswerFacts ==
    ASSUME NEW m \in MasterState, NEW c \in Conns, NEW msg \in Answer
    PROVE  LET n == Post(m, <<MessageEvent(c, msg)>>)
           IN  /\ n \in MasterState /\ SameQueue(m, n) /\ SameSlaves(m, n)
               /\ Queued(m) => Queued(n)
               /\ \A d \in Conns, r \in Answer :
                     /\ Has(n.posted, {MessageEvent(d, r)}) <=>
                            Has(m.posted, {MessageEvent(d, r)}) \/ (d = c /\ r = msg)
                     /\ /\ Once(m.posted, {MessageEvent(d, r)})
                        /\ ~(d = c /\ r = msg /\ Has(m.posted, {MessageEvent(d, r)}))
                        => Once(n.posted, {MessageEvent(d, r)})
<1>. DEFINE e == MessageEvent(c, msg)
            n == Post(m, <<e>>)
<1>1. e \in Event /\ e.type = "message" /\ m.posted \in Seq(Event) /\ <<e>> \in Seq(Event)
  BY StateFacts, EventFacts
<1>2. \A d \in Conns, r \in Answer : e \in {MessageEvent(d, r)} <=> d = c /\ r = msg
  BY EventFacts
<1>. HIDE DEF e
<1>3. n \in MasterState /\ SameQueue(m, n) /\ SameSlaves(m, n) /\ n.posted = m.posted \o <<e>>
  BY ONLY <1>1, m \in MasterState, PostFacts
<1>4. n.posted = Append(m.posted, e)
  BY ONLY <1>1, <1>3, AppendFacts
<1>. HIDE DEF n
<1>5. ASSUME NEW d \in Conns, NEW r \in Answer
      PROVE  /\ Has(n.posted, {MessageEvent(d, r)}) <=>
                    Has(m.posted, {MessageEvent(d, r)}) \/ (d = c /\ r = msg)
             /\ /\ Once(m.posted, {MessageEvent(d, r)})
                /\ ~(d = c /\ r = msg /\ Has(m.posted, {MessageEvent(d, r)}))
                => Once(n.posted, {MessageEvent(d, r)})
  <2>1. \A S : /\ Has(n.posted, S) <=> Has(m.posted, S) \/ e \in S
               /\ Once(m.posted, S) /\ (e \in S => ~Has(m.posted, S)) => Once(n.posted, S)
    BY ONLY <1>1, <1>4, HasOnceAppend
  <2>. QED
    BY <1>2, <2>1
<1>6. ASSUME Queued(m) PROVE Queued(n)
  <2>1. StartsOf(n.posted) = StartsOf(m.posted) /\ (StartsInOrder(m.posted) => StartsInOrder(n.posted))
        /\ \A d \in ToSet(n.posted) : d \in ToSet(m.posted) \/ d = e
    BY <1>1, <1>4, PostedFacts
  <2>2. StartsPosted(n) = StartsPosted(m)
    BY <2>1 DEF StartsPosted, StartsOf
  <2>3. StartsInOrder(n.posted)
    BY <1>6, <2>1 DEF Queued, Line
  <2>4. \A d \in ToSet(n.posted) : d.type = "complete" => d \in ToSet(m.posted) \/ CanEnd(m, d.act)
    BY <1>1, <2>1
  <2>. QED
    BY <1>3, <1>6, <2>2, <2>3, <2>4, QueuedFrame DEF SameQueue
<1>. QED
  BY <1>3, <1>5, <1>6 DEF n, e

LEMMA ReadFacts ==
    ASSUME NEW m \in MasterState, NEW c \in Conns, NEW s \in Seq(Order)
    PROVE  LET n == [m EXCEPT !.out[c] = s]
           IN  /\ n \in MasterState /\ SameQueue(m, n)
               /\ n.posted = m.posted /\ n.clients = m.clients
               /\ Queued(m) => Queued(n)
               /\ n.out[c] = s /\ \A d \in Conns : d # c => n.out[d] = m.out[d]
<1>. DEFINE out == [m.out EXCEPT ![c] = s]
            n == [m EXCEPT !.out = out]
<1>1. out \in [Conns -> Seq(Order)] /\ out[c] = s /\ \A d \in Conns : d # c => out[d] = m.out[d]
  BY StateFacts
<1>2. [m EXCEPT !.out[c] = s] = n
  BY DEF MasterState
<1>. HIDE DEF out
<1>3. n \in MasterState
  BY <1>1, UpdateFacts
<1>4. SameQueue(m, n) /\ n.posted = m.posted /\ n.clients = m.clients /\ n.out = out
  BY DEF SameQueue, MasterState
<1>. HIDE DEF n
<1>5. ASSUME Queued(m) PROVE Queued(n)
  <2>1. StartsInOrder(n.posted) /\ StartsPosted(n) = StartsPosted(m)
    BY <1>4, <1>5 DEF Queued, Line, StartsPosted
  <2>. QED
    BY <1>3, <1>4, <1>5, <2>1, QueuedFrame DEF SameQueue
<1>. QED
  BY <1>1, <1>2, <1>3, <1>4, <1>5

\* What is known when a slave has read an order.
OneRead(m, n, c) ==
    /\ n \in MasterState /\ SameQueue(m, n) /\ n.posted = m.posted /\ n.clients = m.clients
    /\ Queued(n) /\ \A d \in Conns : d # c => n.out[d] = m.out[d]
    /\ \A S : /\ Has(m.out[c], S) <=> Head(m.out[c]) \in S \/ Has(n.out[c], S)
              /\ Once(m.out[c], S) => /\ Once(n.out[c], S)
                                      /\ Head(m.out[c]) \in S => ~Has(n.out[c], S)

LEMMA OneReadFacts ==
    ASSUME IInv, NEW c \in Conns, master.out[c] # << >>
    PROVE  OneRead(master, Read(c), c)
<1>1. master \in MasterState /\ Queued(master) /\ master.out[c] \in Seq(Order)
  BY IInvGood, StateFacts DEF Good
<1>2. Tail(master.out[c]) \in Seq(Order)
  BY ONLY <1>1, TailFacts, master.out[c] # << >>
<1>3. Read(c) = [master EXCEPT !.out[c] = Tail(master.out[c])]
  BY <1>1 DEF Read
<1>. DEFINE s == Tail(master.out[c])
            n == [master EXCEPT !.out[c] = s]
<1>4. \A S : /\ Has(master.out[c], S) <=> Head(master.out[c]) \in S \/ Has(s, S)
             /\ Once(master.out[c], S) => /\ Once(s, S)
                                          /\ Head(master.out[c]) \in S => ~Has(s, S)
  BY ONLY <1>1, HasOnceTail, master.out[c] # << >>
<1>. HIDE DEF s
<1>5. /\ n \in MasterState /\ SameQueue(master, n)
      /\ n.posted = master.posted /\ n.clients = master.clients
      /\ Queued(master) => Queued(n)
      /\ n.out[c] = s /\ \A d \in Conns : d # c => n.out[d] = master.out[d]
  BY ONLY <1>1, <1>2, ReadFacts, c \in Conns, ZenonT(60) DEF s
<1>. QED
  BY <1>1, <1>3, <1>4, <1>5 DEF OneRead, s

\* The state of the master and the slaves is typed after a slave's step.
LEMMA TypesKept ==
    ASSUME IInv, master' \in MasterState,
           link' \in [Conns -> {"off", "up", "dead", "gone"}], loading' \in SUBSET Conns,
           config' \in [Conns -> {"none", "loadConfig", "saveConfig"}],
           told' \in [Conns -> {"nothing", "enrolled", "denied"}],
           Queued(master'), Served(master)'
    PROVE  IInv'
<1>1. TypeOK'
  BY DEF TypeOK
<1>2. Queued(master)'
  OBVIOUS
<1>. QED
  BY <1>1, <1>2 DEF IInv

LEMMA StartSlaveKeeps ==
    ASSUME IInv, NEW c \in Conns, StartSlave(c)
    PROVE  IInv'
<1>1. /\ TypeOK /\ master \in MasterState /\ Queued(master) /\ Served(master)
      /\ Unknown(master) /\ Loads(master) /\ Enrolls(master) /\ Owners(master)
  BY IInvGood DEF IInv, Good, Served
<1>2. /\ link[c] = "off" /\ link' = [link EXCEPT ![c] = "up"]
      /\ master' = Post(master, <<MessageEvent(c, "enroll")>>)
      /\ loading' = loading /\ config' = config /\ told' = told
  BY DEF StartSlave
<1>3. "enroll" \in Answer /\ "load" \in Answer
  BY DEF Answer
<1>4. /\ master' \in MasterState /\ SameQueue(master, master') /\ SameSlaves(master, master')
      /\ Queued(master) => Queued(master')
      /\ \A d \in Conns, r \in Answer :
            /\ Has(master'.posted, {MessageEvent(d, r)}) <=>
                   Has(master.posted, {MessageEvent(d, r)}) \/ (d = c /\ r = "enroll")
            /\ /\ Once(master.posted, {MessageEvent(d, r)})
               /\ ~(d = c /\ r = "enroll" /\ Has(master.posted, {MessageEvent(d, r)}))
               => Once(master'.posted, {MessageEvent(d, r)})
  BY ONLY <1>1, <1>2, <1>3, c \in Conns, AnswerFacts, SMTT(30)
<1>5. /\ master'.active = master.active /\ master'.acts = master.acts
      /\ master'.testsMap = master.testsMap /\ master'.out = master.out
      /\ master'.clients = master.clients
  BY <1>4 DEF SameQueue, SameSlaves
<1>6. /\ link' \in [Conns -> {"off", "up", "dead", "gone"}]
      /\ link'[c] = "up" /\ \A d \in Conns : d # c => link'[d] = link[d]
  BY <1>1, <1>2 DEF TypeOK
<1>7. \A d \in Conns : link'[d] = "off" => d # c /\ link[d] = "off"
  BY <1>6
<1>8. Unknown(master)'
  BY <1>1, <1>2, <1>4, <1>5, <1>7 DEF Unknown
<1>9. Loads(master)'
  <2>1. ASSUME NEW d \in Conns
        PROVE  /\ OneLoad(master, d)' /\ (SomeLoad(master, d)' => Await(master, d)')
               /\ link'[d] = "up" /\ Await(master, d)' => SomeLoad(master, d)'
    <3>1. OneLoad(master, d) /\ (SomeLoad(master, d) => Await(master, d))
          /\ (link[d] = "up" /\ Await(master, d) => SomeLoad(master, d))
      BY <1>1 DEF Loads
    <3>2. Await(master, d)' <=> Await(master, d)
      BY <1>5 DEF Await
    <3>3. OneLoad(master, d)' /\ (SomeLoad(master, d)' <=> SomeLoad(master, d))
      BY <1>2, <1>3, <1>4, <1>5, <3>1 DEF OneLoad, SomeLoad, LoadOut, LoadDone
    <3>4. d = c => ~Await(master, d)
      BY <1>1, <1>2 DEF Unknown, Await, IInv, Queued, Line, Unfinished
    <3>. QED
      BY <1>6, <3>1, <3>2, <3>3, <3>4
  <2>. QED
    BY <2>1 DEF Loads
<1>10. Enrolls(master)'
  <2>1. /\ told[c] = "nothing" /\ master.out[c] = << >> /\ ~Testing(master, c)
        /\ ~Has(master.posted, {MessageEvent(c, "enroll")}) /\ ~Has(master.out[c], Replies)
    BY <1>1, <1>2, <1>3, EmptyFacts DEF Unknown, Testing
  <2>2. \A d \in Conns : Testing(master, d)' <=> Testing(master, d)
    BY <1>5 DEF Testing
  <2>. QED
    BY <1>1, <1>2, <1>3, <1>4, <1>5, <2>1, <2>2 DEF Enrolls
<1>11. Owners(master)'
  <2>1. told[c] = "nothing" /\ ~Has(master.out[c], {"enrolled"})
    BY <1>1, <1>2, EmptyFacts DEF Unknown
  <2>. QED
    BY <1>1, <1>2, <1>5, <1>6, <2>1 DEF Owners
<1>. QED
  BY <1>1, <1>2, <1>4, <1>6, <1>8, <1>9, <1>10, <1>11, TypesKept DEF Served, TypeOK

LEMMA ReceiveEnrollmentKeeps ==
    ASSUME IInv, NEW c \in Conns, NEW msg \in Replies, ReceiveEnrollment(c, msg)
    PROVE  IInv'
<1>1. /\ TypeOK /\ Unknown(master) /\ Loads(master) /\ Enrolls(master) /\ Owners(master)
  BY DEF IInv, Served
<1>2. /\ link[c] = "up" /\ link' = link /\ master' = Read(c) /\ loading' = loading
      /\ config' = config /\ told' = [told EXCEPT ![c] = msg]
      /\ Head(master.out[c]) = msg /\ master.out[c] # << >>
  BY DEF ReceiveEnrollment, Receive
<1>3. OneRead(master, master', c)
  BY <1>2, OneReadFacts
<1>4. /\ master'.active = master.active /\ master'.acts = master.acts
      /\ master'.testsMap = master.testsMap /\ master'.posted = master.posted
      /\ master'.clients = master.clients
  BY <1>3 DEF OneRead, SameQueue
<1>5. msg # "load" /\ msg \in {"enrolled", "denied"}
  BY DEF Replies
<1>6. /\ told' \in [Conns -> {"nothing", "enrolled", "denied"}]
      /\ told'[c] = msg /\ \A d \in Conns : d # c => told'[d] = told[d]
  BY <1>1, <1>2, <1>5 DEF TypeOK
<1>7. \A d \in Conns : link[d] = "off" => d # c
  BY <1>2
<1>8. Unknown(master)'
  BY <1>1, <1>2, <1>3, <1>4, <1>6, <1>7 DEF Unknown, OneRead
<1>9. Loads(master)'
  <2>1. ASSUME NEW d \in Conns
        PROVE  /\ OneLoad(master, d)' /\ (SomeLoad(master, d)' <=> SomeLoad(master, d))
               /\ Await(master, d)' <=> Await(master, d)
    <3>1. OneLoad(master, d)
      BY <1>1 DEF Loads
    <3>2. Await(master, d)' <=> Await(master, d)
      BY <1>4 DEF Await
    <3>3. LoadOut(master, d)' <=> LoadOut(master, d)
      BY <1>2, <1>3, <1>5 DEF LoadOut, OneRead
    <3>4. OneLoad(master, d)'
      BY <1>2, <1>3, <1>4, <3>1, <3>3 DEF OneLoad, LoadDone, OneRead
    <3>. QED
      BY <1>2, <1>4, <3>2, <3>3, <3>4 DEF SomeLoad, LoadDone
  <2>. QED
    BY <1>1, <1>2, <2>1 DEF Loads
<1>10. Enrolls(master)'
  <2>1. /\ Has(master.out[c], Replies) /\ ~Has(master'.out[c], Replies)
        /\ Once(master'.out[c], Replies)
    BY <1>1, <1>2, <1>3 DEF Enrolls, OneRead
  <2>2. \A d \in Conns : Testing(master, d)' <=> Testing(master, d)
    BY <1>4 DEF Testing
  <2>3. \A d \in Conns : d # c => master'.out[d] = master.out[d]
    BY <1>3 DEF OneRead
  <2>4. ~Testing(master, c) /\ ~Has(master.posted, {MessageEvent(c, "enroll")})
    BY <1>1, <2>1 DEF Enrolls
  <2>. QED
    BY <1>1, <1>4, <1>6, <2>1, <2>2, <2>3, <2>4 DEF Enrolls
<1>11. Owners(master)'
  <2>1. \A d \in Conns : told'[d] = "enrolled" \/ Has(master'.out[d], {"enrolled"})
                         => told[d] = "enrolled" \/ Has(master.out[d], {"enrolled"})
    BY <1>2, <1>3, <1>6 DEF OneRead
  <2>. QED
    BY <1>1, <1>2, <1>4, <2>1 DEF Owners
<1>. QED
  BY <1>1, <1>2, <1>3, <1>6, <1>8, <1>9, <1>10, <1>11, TypesKept DEF Served, OneRead, TypeOK

\* A slave has read an order that is neither about its enrollment nor a load,
\* and may have answered it with a message that is neither.
LEMMA ServedOther ==
    ASSUME IInv, NEW c \in Conns, link[c] # "off", master' \in MasterState,
           master'.active = master.active, master'.acts = master.acts,
           master'.testsMap = master.testsMap, master'.clients = master.clients,
           \A d \in Conns : d # c => master'.out[d] = master.out[d],
           \A S \in SUBSET {"load", "enrolled", "denied"} :
              /\ Has(master'.out[c], S) <=> Has(master.out[c], S)
              /\ Once(master.out[c], S) => Once(master'.out[c], S),
           \A d \in Conns, r \in Answer :
              /\ Has(master.posted, {MessageEvent(d, r)}) => Has(master'.posted, {MessageEvent(d, r)})
              /\ Has(master'.posted, {MessageEvent(d, r)}) =>
                    \/ Has(master.posted, {MessageEvent(d, r)})
                    \/ d = c /\ r \in {"alive", "config"}
              /\ r \notin {"alive", "config"} /\ Once(master.posted, {MessageEvent(d, r)})
                 => Once(master'.posted, {MessageEvent(d, r)}),
           UNCHANGED <<link, loading, told>>,
           \A d \in Conns : d # c => config'[d] = config[d]
    PROVE  Served(master)'
<1>1. /\ TypeOK /\ Unknown(master) /\ Loads(master) /\ Enrolls(master) /\ Owners(master)
  BY DEF IInv, Served
<1>2. "load" \in Answer /\ "enroll" \in Answer
  BY DEF Answer
<1>3. /\ {"load"} \in SUBSET {"load", "enrolled", "denied"}
      /\ {"enrolled"} \in SUBSET {"load", "enrolled", "denied"}
      /\ Replies \in SUBSET {"load", "enrolled", "denied"}
  BY DEF Replies
<1>4. \A d \in Conns : /\ Has(master'.out[d], {"load"}) <=> Has(master.out[d], {"load"})
                       /\ Once(master.out[d], {"load"}) => Once(master'.out[d], {"load"})
                       /\ Has(master'.out[d], {"enrolled"}) <=> Has(master.out[d], {"enrolled"})
                       /\ Has(master'.out[d], Replies) <=> Has(master.out[d], Replies)
                       /\ Once(master.out[d], Replies) => Once(master'.out[d], Replies)
  BY <1>3
<1>5. \A d \in Conns : /\ Has(master'.posted, {MessageEvent(d, "load")}) <=> Has(master.posted, {MessageEvent(d, "load")})
                       /\ Once(master.posted, {MessageEvent(d, "load")}) => Once(master'.posted, {MessageEvent(d, "load")})
                       /\ Has(master'.posted, {MessageEvent(d, "enroll")}) <=> Has(master.posted, {MessageEvent(d, "enroll")})
                       /\ Once(master.posted, {MessageEvent(d, "enroll")}) => Once(master'.posted, {MessageEvent(d, "enroll")})
  BY <1>2
<1>6. Unknown(master)'
  BY <1>1 DEF Unknown
<1>7. Loads(master)'
  <2>1. ASSUME NEW d \in Conns
        PROVE  /\ OneLoad(master, d)' /\ (SomeLoad(master, d)' <=> SomeLoad(master, d))
               /\ Await(master, d)' <=> Await(master, d)
    <3>1. OneLoad(master, d)
      BY <1>1 DEF Loads
    <3>2. Await(master, d)' <=> Await(master, d)
      BY DEF Await
    <3>3. OneLoad(master, d)'
      BY <1>4, <1>5, <3>1 DEF OneLoad, LoadOut, LoadDone
    <3>. QED
      BY <1>4, <1>5, <3>2, <3>3 DEF SomeLoad, LoadOut, LoadDone
  <2>. QED
    BY <1>1, <2>1 DEF Loads
<1>8. Enrolls(master)'
  <2>1. \A d \in Conns : Testing(master, d)' <=> Testing(master, d)
    BY DEF Testing
  <2>2. told' = told /\ master'.testsMap = master.testsMap
    OBVIOUS
  <2>. QED
    BY ONLY <1>1, <1>4, <1>5, <2>1, <2>2 DEF Enrolls
<1>9. Owners(master)'
  BY <1>1, <1>4 DEF Owners
<1>. QED
  BY <1>6, <1>7, <1>8, <1>9 DEF Served

LEMMA ReceiveAliveKeeps ==
    ASSUME IInv, NEW c \in Conns, ReceiveAlive(c)
    PROVE  IInv'
<1>1. /\ link[c] = "up" /\ UNCHANGED <<link, loading, config, told>>
      /\ master' = Post(Read(c), <<MessageEvent(c, "alive")>>)
      /\ Head(master.out[c]) = "alive" /\ master.out[c] # << >>
  BY DEF ReceiveAlive, Receive
<1>. DEFINE k == Read(c)
<1>2. OneRead(master, k, c)
  BY <1>1, OneReadFacts
<1>. HIDE DEF k
<1>3. k \in MasterState /\ Queued(k) /\ "alive" \in Answer
  BY <1>2 DEF OneRead, Answer
<1>4. master' = Post(k, <<MessageEvent(c, "alive")>>)
  BY <1>1 DEF k
<1>5. /\ master' \in MasterState /\ SameQueue(k, master') /\ SameSlaves(k, master')
      /\ Queued(k) => Queued(master')
      /\ \A d \in Conns, r \in Answer :
            /\ Has(master'.posted, {MessageEvent(d, r)}) <=>
                   Has(k.posted, {MessageEvent(d, r)}) \/ (d = c /\ r = "alive")
            /\ /\ Once(k.posted, {MessageEvent(d, r)})
               /\ ~(d = c /\ r = "alive" /\ Has(k.posted, {MessageEvent(d, r)}))
               => Once(master'.posted, {MessageEvent(d, r)})
  BY ONLY <1>3, <1>4, c \in Conns, AnswerFacts
<1>6. /\ master'.active = master.active /\ master'.acts = master.acts
      /\ master'.testsMap = master.testsMap /\ master'.out = k.out
      /\ master'.clients = master.clients /\ k.posted = master.posted
  BY <1>2, <1>5 DEF SameQueue, SameSlaves, OneRead
<1>7. \A d \in Conns : d # c => master'.out[d] = master.out[d]
  BY <1>2, <1>6 DEF OneRead
<1>8. \A S \in SUBSET {"load", "enrolled", "denied"} :
         /\ Has(master'.out[c], S) <=> Has(master.out[c], S)
         /\ Once(master.out[c], S) => Once(master'.out[c], S)
  BY <1>1, <1>2, <1>6 DEF OneRead
<1>9. \A d \in Conns, r \in Answer :
         /\ Has(master.posted, {MessageEvent(d, r)}) => Has(master'.posted, {MessageEvent(d, r)})
         /\ Has(master'.posted, {MessageEvent(d, r)}) =>
               \/ Has(master.posted, {MessageEvent(d, r)})
               \/ d = c /\ r \in {"alive", "config"}
         /\ r \notin {"alive", "config"} /\ Once(master.posted, {MessageEvent(d, r)})
            => Once(master'.posted, {MessageEvent(d, r)})
  BY <1>5, <1>6
<1>10. Served(master)'
  BY <1>1, <1>5, <1>6, <1>7, <1>8, <1>9, ServedOther
<1>. QED
  BY <1>1, <1>3, <1>5, <1>10, TypesKept DEF IInv, TypeOK

LEMMA ReceiveConfigKeeps ==
    ASSUME IInv, NEW c \in Conns, NEW type \in {"loadConfig", "saveConfig"},
           ReceiveConfig(c, type)
    PROVE  IInv'
<1>1. /\ link[c] = "up" /\ UNCHANGED <<link, loading, told>> /\ master' = Read(c)
      /\ config' = [config EXCEPT ![c] = IF @ = "none" THEN type ELSE @]
      /\ Head(master.out[c]) = type /\ master.out[c] # << >>
  BY DEF ReceiveConfig, Receive
<1>2. OneRead(master, master', c)
  BY <1>1, OneReadFacts
<1>3. /\ config' \in [Conns -> {"none", "loadConfig", "saveConfig"}]
      /\ \A d \in Conns : d # c => config'[d] = config[d]
  BY <1>1 DEF IInv, TypeOK
<1>4. /\ master'.active = master.active /\ master'.acts = master.acts
      /\ master'.testsMap = master.testsMap /\ master'.posted = master.posted
      /\ master'.clients = master.clients /\ master' \in MasterState /\ Queued(master')
      /\ \A d \in Conns : d # c => master'.out[d] = master.out[d]
  BY <1>2 DEF OneRead, SameQueue
<1>5. \A S \in SUBSET {"load", "enrolled", "denied"} :
         /\ Has(master'.out[c], S) <=> Has(master.out[c], S)
         /\ Once(master.out[c], S) => Once(master'.out[c], S)
  BY <1>1, <1>2 DEF OneRead
<1>6. Served(master)'
  BY <1>1, <1>3, <1>4, <1>5, ServedOther
<1>. QED
  BY <1>1, <1>3, <1>4, <1>6, TypesKept DEF IInv, TypeOK

LEMMA FinishConfigKeeps ==
    ASSUME IInv, NEW c \in Conns, FinishConfig(c)
    PROVE  IInv'
<1>1. /\ config[c] # "none" /\ config' = [config EXCEPT ![c] = "none"]
      /\ master' = Post(master, <<MessageEvent(c, "config")>>)
      /\ UNCHANGED <<link, loading, told>>
  BY DEF FinishConfig
<1>2. link[c] # "off"
  BY <1>1 DEF IInv, Served, Unknown
<1>3. /\ config' \in [Conns -> {"none", "loadConfig", "saveConfig"}]
      /\ \A d \in Conns : d # c => config'[d] = config[d]
  BY <1>1 DEF IInv, TypeOK
<1>4. master \in MasterState /\ Queued(master) /\ "config" \in Answer
  BY DEF IInv, TypeOK, Answer
<1>5. /\ master' \in MasterState /\ SameQueue(master, master') /\ SameSlaves(master, master')
      /\ Queued(master) => Queued(master')
      /\ \A d \in Conns, r \in Answer :
            /\ Has(master'.posted, {MessageEvent(d, r)}) <=>
                   Has(master.posted, {MessageEvent(d, r)}) \/ (d = c /\ r = "config")
            /\ /\ Once(master.posted, {MessageEvent(d, r)})
               /\ ~(d = c /\ r = "config" /\ Has(master.posted, {MessageEvent(d, r)}))
               => Once(master'.posted, {MessageEvent(d, r)})
  BY ONLY <1>1, <1>4, c \in Conns, AnswerFacts, ZenonT(60)
<1>6. /\ master'.active = master.active /\ master'.acts = master.acts
      /\ master'.testsMap = master.testsMap /\ master'.out = master.out
      /\ master'.clients = master.clients
  BY <1>5 DEF SameQueue, SameSlaves
<1>7. \A d \in Conns, r \in Answer :
         /\ Has(master.posted, {MessageEvent(d, r)}) => Has(master'.posted, {MessageEvent(d, r)})
         /\ Has(master'.posted, {MessageEvent(d, r)}) =>
               \/ Has(master.posted, {MessageEvent(d, r)})
               \/ d = c /\ r \in {"alive", "config"}
         /\ r \notin {"alive", "config"} /\ Once(master.posted, {MessageEvent(d, r)})
            => Once(master'.posted, {MessageEvent(d, r)})
  BY <1>5
<1>8. Served(master)'
  BY <1>1, <1>2, <1>3, <1>5, <1>6, <1>7, ServedOther
<1>. QED
  BY <1>1, <1>3, <1>4, <1>5, <1>8, TypesKept DEF IInv, TypeOK

\* While a request to load is on its way the slave is not at work on one.
LEMMA ReceiveLoadKeeps ==
    ASSUME IInv, NEW c \in Conns, ReceiveLoad(c)
    PROVE  IInv'
<1>1. /\ TypeOK /\ Unknown(master) /\ Loads(master) /\ Enrolls(master) /\ Owners(master)
  BY DEF IInv, Served
<1>2. /\ link[c] = "up" /\ UNCHANGED <<link, config, told>> /\ loading' = loading \cup {c}
      /\ Head(master.out[c]) = "load" /\ master.out[c] # << >>
  BY DEF ReceiveLoad, Receive
<1>3. OneRead(master, Read(c), c)
  BY <1>2, OneReadFacts
<1>4. OneLoad(master, c) /\ LoadOut(master, c)
  BY <1>1, <1>2, <1>3 DEF Loads, LoadOut, OneRead
<1>5. c \notin loading /\ ~LoadDone(master, c) /\ Once(master.out[c], {"load"})
  BY <1>4 DEF OneLoad
<1>6. master' = Read(c)
  BY <1>5 DEF ReceiveLoad
<1>7. OneRead(master, master', c)
  BY <1>3, <1>6
<1>8. /\ master'.active = master.active /\ master'.acts = master.acts
      /\ master'.testsMap = master.testsMap /\ master'.posted = master.posted
      /\ master'.clients = master.clients
  BY <1>7 DEF OneRead, SameQueue
<1>9. \A d \in Conns : link[d] = "off" => d # c
  BY <1>2
<1>10. Unknown(master)'
  BY <1>1, <1>2, <1>7, <1>8, <1>9 DEF Unknown, OneRead
<1>11. Loads(master)'
  <2>1. ASSUME NEW d \in Conns
        PROVE  /\ OneLoad(master, d)' /\ (SomeLoad(master, d)' <=> SomeLoad(master, d))
               /\ Await(master, d)' <=> Await(master, d)
    <3>1. Await(master, d)' <=> Await(master, d)
      BY <1>8 DEF Await
    <3>2. OneLoad(master, d)
      BY <1>1 DEF Loads
    <3>3. CASE d = c
      <4>1. ~LoadOut(master, c)' /\ Once(master.out[c], {"load"})'
        BY <1>2, <1>5, <1>7 DEF OneRead, LoadOut
      <4>2. OneLoad(master, c)' /\ SomeLoad(master, c)'
        BY <1>2, <1>4, <1>5, <1>8, <4>1 DEF OneLoad, SomeLoad, LoadDone
      <4>. QED
        BY <1>4, <3>1, <3>3, <4>2 DEF SomeLoad
    <3>4. CASE d # c
      <4>1. master'.out[d] = master.out[d] /\ (d \in loading' <=> d \in loading)
        BY <1>2, <1>7, <3>4 DEF OneRead
      <4>. QED
        BY <1>8, <3>1, <3>2, <4>1 DEF OneLoad, SomeLoad, LoadDone, LoadOut
    <3>. QED
      BY <3>3, <3>4
  <2>. QED
    BY <1>1, <1>2, <2>1 DEF Loads
<1>12. \A d \in Conns : /\ Has(master'.out[d], Replies) <=> Has(master.out[d], Replies)
                        /\ Has(master'.out[d], {"enrolled"}) <=> Has(master.out[d], {"enrolled"})
                        /\ Once(master.out[d], Replies) => Once(master'.out[d], Replies)
  BY <1>2, <1>7 DEF OneRead, Replies
<1>13. Enrolls(master)'
  <2>1. \A d \in Conns : Testing(master, d)' <=> Testing(master, d)
    BY <1>8 DEF Testing
  <2>. QED
    BY <1>1, <1>2, <1>8, <1>12, <2>1 DEF Enrolls
<1>14. Owners(master)'
  BY <1>1, <1>2, <1>8, <1>12 DEF Owners
<1>. QED
  BY <1>1, <1>2, <1>7, <1>10, <1>11, <1>13, <1>14, TypesKept DEF Served, OneRead, TypeOK

LEMMA FinishLoadKeeps ==
    ASSUME IInv, NEW c \in Conns, FinishLoad(c)
    PROVE  IInv'
<1>1. /\ TypeOK /\ Unknown(master) /\ Loads(master) /\ Enrolls(master) /\ Owners(master)
      /\ master \in MasterState /\ Queued(master)
  BY DEF IInv, Served, TypeOK
<1>2. /\ c \in loading /\ UNCHANGED <<link, config, told>> /\ loading' = loading \ {c}
      /\ master' = Post(master, <<MessageEvent(c, "load")>>)
  BY DEF FinishLoad
<1>3. "load" \in Answer /\ "enroll" \in Answer
  BY DEF Answer
<1>4. /\ master' \in MasterState /\ SameQueue(master, master') /\ SameSlaves(master, master')
      /\ Queued(master) => Queued(master')
      /\ \A d \in Conns, r \in Answer :
            /\ Has(master'.posted, {MessageEvent(d, r)}) <=>
                   Has(master.posted, {MessageEvent(d, r)}) \/ (d = c /\ r = "load")
            /\ /\ Once(master.posted, {MessageEvent(d, r)})
               /\ ~(d = c /\ r = "load" /\ Has(master.posted, {MessageEvent(d, r)}))
               => Once(master'.posted, {MessageEvent(d, r)})
  BY ONLY <1>1, <1>2, <1>3, c \in Conns, AnswerFacts, SMTT(30)
<1>5. /\ master'.active = master.active /\ master'.acts = master.acts
      /\ master'.testsMap = master.testsMap /\ master'.out = master.out
      /\ master'.clients = master.clients
  BY <1>4 DEF SameQueue, SameSlaves
<1>6. link[c] # "off"
  BY <1>1, <1>2 DEF Unknown
<1>7. OneLoad(master, c) /\ ~LoadOut(master, c) /\ ~LoadDone(master, c) /\ SomeLoad(master, c)
  BY <1>1, <1>2 DEF Loads, OneLoad, SomeLoad
<1>8. Unknown(master)'
  BY <1>1, <1>2, <1>4, <1>5, <1>6 DEF Unknown
<1>9. Loads(master)'
  <2>1. ASSUME NEW d \in Conns
        PROVE  /\ OneLoad(master, d)' /\ (SomeLoad(master, d)' <=> SomeLoad(master, d))
               /\ Await(master, d)' <=> Await(master, d)
    <3>1. Await(master, d)' <=> Await(master, d)
      BY <1>5 DEF Await
    <3>2. OneLoad(master, d)
      BY <1>1 DEF Loads
    <3>3. CASE d = c
      BY <1>2, <1>3, <1>4, <1>5, <1>7, <3>1, <3>3 DEF OneLoad, SomeLoad, LoadDone, LoadOut
    <3>4. CASE d # c
      <4>1. d \in loading' <=> d \in loading
        BY <1>2, <3>4
      <4>. QED
        BY <1>3, <1>4, <1>5, <3>1, <3>2, <3>4, <4>1 DEF OneLoad, SomeLoad, LoadDone, LoadOut
    <3>. QED
      BY <3>3, <3>4
  <2>. QED
    BY <1>1, <1>2, <2>1 DEF Loads
<1>10. Enrolls(master)'
  <2>1. \A d \in Conns : Testing(master, d)' <=> Testing(master, d)
    BY <1>5 DEF Testing
  <2>. QED
    BY <1>1, <1>2, <1>3, <1>4, <1>5, <2>1 DEF Enrolls
<1>11. Owners(master)'
  BY <1>1, <1>2, <1>5 DEF Owners
<1>. QED
  BY <1>1, <1>2, <1>4, <1>8, <1>9, <1>10, <1>11, TypesKept DEF Served, TypeOK

LEMMA CrashKeeps ==
    ASSUME IInv, NEW c \in Conns, Crash(c)
    PROVE  IInv'
<1>1. /\ TypeOK /\ Unknown(master) /\ Loads(master) /\ Enrolls(master) /\ Owners(master)
      /\ master \in MasterState /\ Queued(master)
  BY DEF IInv, Served, TypeOK
<1>2. /\ link[c] = "up" /\ link' = [link EXCEPT ![c] = "dead"]
      /\ loading' = loading \ {c} /\ config' = [config EXCEPT ![c] = "none"]
      /\ master' = [master EXCEPT !.out[c] = << >>] /\ told' = told
  BY DEF Crash
<1>3. << >> \in Seq(Order)
  BY EmptyFacts
<1>4. /\ master' \in MasterState /\ SameQueue(master, master')
      /\ master'.posted = master.posted /\ master'.clients = master.clients
      /\ Queued(master) => Queued(master')
      /\ master'.out[c] = << >> /\ \A d \in Conns : d # c => master'.out[d] = master.out[d]
  BY ONLY <1>1, <1>2, <1>3, c \in Conns, ReadFacts, ZenonT(60)
<1>5. /\ master'.active = master.active /\ master'.acts = master.acts
      /\ master'.testsMap = master.testsMap
  BY <1>4 DEF SameQueue
<1>6. /\ link' \in [Conns -> {"off", "up", "dead", "gone"}]
      /\ config' \in [Conns -> {"none", "loadConfig", "saveConfig"}]
      /\ link'[c] = "dead" /\ \A d \in Conns : d # c => link'[d] = link[d] /\ config'[d] = config[d]
  BY <1>1, <1>2 DEF TypeOK
<1>7. \A S : ~Has(master'.out[c], S) /\ Once(master'.out[c], S)
  BY <1>4, EmptyFacts
<1>8. Unknown(master)'
  BY <1>1, <1>2, <1>4, <1>5, <1>6 DEF Unknown
<1>9. Loads(master)'
  <2>1. ASSUME NEW d \in Conns
        PROVE  /\ OneLoad(master, d)' /\ (SomeLoad(master, d)' => SomeLoad(master, d))
               /\ d # c => (SomeLoad(master, d)' <=> SomeLoad(master, d))
               /\ Await(master, d)' <=> Await(master, d)
    <3>1. Await(master, d)' <=> Await(master, d)
      BY <1>5 DEF Await
    <3>2. OneLoad(master, d)
      BY <1>1 DEF Loads
    <3>3. CASE d = c
      BY <1>2, <1>4, <1>7, <3>1, <3>2, <3>3 DEF OneLoad, SomeLoad, LoadDone, LoadOut
    <3>4. CASE d # c
      <4>1. d \in loading' <=> d \in loading
        BY <1>2, <3>4
      <4>. QED
        BY <1>4, <3>1, <3>2, <3>4, <4>1 DEF OneLoad, SomeLoad, LoadDone, LoadOut
    <3>. QED
      BY <3>3, <3>4
  <2>. QED
    BY <1>1, <1>6, <2>1 DEF Loads
<1>10. Enrolls(master)'
  <2>1. \A d \in Conns : Testing(master, d)' <=> Testing(master, d)
    BY <1>5 DEF Testing
  <2>2. \A d \in Conns : /\ Has(master'.out[d], Replies) => Has(master.out[d], Replies)
                         /\ Once(master.out[d], Replies) => Once(master'.out[d], Replies)
    BY <1>4, <1>7
  <2>3. told' = told /\ master'.posted = master.posted /\ master'.testsMap = master.testsMap
    BY <1>2, <1>4, <1>5
  <2>. QED
    BY ONLY <1>1, <2>1, <2>2, <2>3 DEF Enrolls
<1>11. Owners(master)'
  BY <1>1, <1>2, <1>4, <1>6 DEF Owners
<1>. QED
  BY <1>1, <1>2, <1>4, <1>6, <1>8, <1>9, <1>10, <1>11, TypesKept DEF Served, TypeOK

LEMMA DetectKeeps ==
    ASSUME IInv, NEW c \in Conns, Detect(c)
    PROVE  IInv'
<1>1. /\ TypeOK /\ Unknown(master) /\ Loads(master) /\ Enrolls(master) /\ Owners(master)
      /\ master \in MasterState /\ Queued(master)
  BY DEF IInv, Served, TypeOK
<1>2. /\ link[c] = "dead" /\ link' = [link EXCEPT ![c] = "gone"]
      /\ master' = master /\ loading' = loading /\ config' = config /\ told' = told
  BY DEF Detect
<1>3. /\ link' \in [Conns -> {"off", "up", "dead", "gone"}]
      /\ \A d \in Conns : /\ link'[d] = "off" => link[d] = "off"
                          /\ link'[d] = "up" => link[d] = "up"
  BY <1>1, <1>2 DEF TypeOK
<1>4. Unknown(master)'
  BY <1>1, <1>2, <1>3 DEF Unknown
<1>5. Loads(master)'
  BY <1>1, <1>2, <1>3 DEF Loads, OneLoad, SomeLoad, LoadOut, LoadDone, Await
<1>6. Enrolls(master)'
  BY <1>1, <1>2 DEF Enrolls, Testing
<1>7. Owners(master)'
  BY <1>1, <1>2, <1>3 DEF Owners
<1>. QED
  BY <1>1, <1>2, <1>3, <1>4, <1>5, <1>6, <1>7, TypesKept DEF Served, TypeOK

-----------------------------------------------------------------------------
(***************************************************************************)
(* The invariant.                                                          *)
(***************************************************************************)
LEMMA Initially == Init => IInv
<1>. SUFFICES ASSUME Init PROVE IInv
  OBVIOUS
<1>. DEFINE act == NewActivity("enroll", None)
<1>1. /\ master.process = "starting" /\ master.active = << >> /\ master.pending = << >>
      /\ master.posted = << >> /\ master.acts = <<act>> /\ master.clients = [n \in Names |-> None]
      /\ master.program = FALSE /\ master.testsMap = {} /\ master.out = [c \in Conns |-> << >>]
      /\ master.commands = 0
      /\ link = [c \in Conns |-> "off"] /\ loading = {} /\ config = [c \in Conns |-> "none"]
      /\ told = [c \in Conns |-> "nothing"]
  BY DEF Init
<1>2. /\ act \in Activity /\ act.kind = "enroll" /\ act.children = {} /\ act.waiting = {}
  BY NewActivityFacts DEF NewActivity
<1>. HIDE DEF act
<1>3. /\ <<act>> \in Seq(Activity) /\ Len(master.acts) = 1 /\ DOMAIN master.acts = {1}
      /\ master.acts[1] = act
  BY <1>1, <1>2
<1>4. master \in MasterState
  <2>1. << >> \in Seq(Nat) /\ << >> \in Seq(Event) /\ << >> \in Seq(Order)
    BY EmptyFacts
  <2>2. 0 \in 0 .. MaxCommands
    BY BoundAssumption
  <2>3. master = [process |-> "starting", active |-> << >>, pending |-> << >>,
                 posted |-> << >>, acts |-> <<act>>,
                 clients |-> [n \in Names |-> None], program |-> FALSE, testsMap |-> {},
                 out |-> [c \in Conns |-> << >>], commands |-> 0]
    BY DEF Init, act
  <2>. HIDE DEF Names
  <2>4. /\ [n \in Names |-> None] \in [Names -> Conns \cup {None}]
        /\ [c \in Conns |-> << >>] \in [Conns -> Seq(Order)]
        /\ {} \in SUBSET (Nat \X Conns) /\ FALSE \in BOOLEAN
        /\ "starting" \in {"starting", "up", "unfound", "undefined"}
    BY <2>1
  <2>. QED
    BY ONLY <1>3, <2>1, <2>2, <2>3, <2>4 DEF MasterState
<1>5. TypeOK
  BY <1>1, <1>4 DEF TypeOK
<1>6. /\ ToSet(master.active) = {} /\ ToSet(master.pending) = {} /\ ToSet(master.posted) = {}
      /\ StartsPosted(master) = {} /\ NotStarted(master) = {} /\ Unfinished(master) = {}
  BY <1>1, EmptyFacts DEF StartsPosted, NotStarted, Unfinished
<1>7. Queued(master)
  <2>1. Line(master)
    BY <1>1, <1>6, EmptyFacts DEF Line, StartsInOrder
  <2>2. Foremost(master)
    BY <1>1, <1>2, <1>3, <1>6 DEF Foremost, Enroll
  <2>3. Fresh(master)
    BY <1>2, <1>3, <1>6 DEF Fresh
  <2>4. Ends(master)
    BY <1>6 DEF Ends
  <2>5. Awaits(master)
    BY <1>1, <1>2, <1>3, <1>6 DEF Awaits
  <2>6. Exclusion(master)
    BY <1>6 DEF Exclusion
  <2>. QED
    BY <2>1, <2>2, <2>3, <2>4, <2>5, <2>6 DEF Queued
<1>8. Served(master)
  <2>1. \A S : ~Has(master.posted, S) /\ Once(master.posted, S)
    BY <1>1, EmptyFacts
  <2>2. \A c \in Conns : /\ master.out[c] = << >> /\ link[c] = "off" /\ told[c] = "nothing"
                         /\ config[c] = "none" /\ c \notin loading
                         /\ \A S : ~Has(master.out[c], S) /\ Once(master.out[c], S)
                         /\ ~Testing(master, c) /\ ~Await(master, c)
    BY <1>1, <1>6, EmptyFacts DEF Testing, Await
  <2>3. \A n \in Names : master.clients[n] = None
    BY <1>1
  <2>4. Unknown(master)
    BY <1>1, <1>2, <1>3, <2>1, <2>2, <2>3, Constants DEF Unknown
  <2>5. Loads(master)
    BY <2>1, <2>2 DEF Loads, OneLoad, SomeLoad, LoadOut, LoadDone
  <2>6. Enrolls(master)
    BY <1>1, <2>1, <2>2 DEF Enrolls
  <2>7. Owners(master)
    BY <2>2, <2>3 DEF Owners
  <2>. QED
    BY <2>4, <2>5, <2>6, <2>7 DEF Served
<1>. QED
  BY <1>5, <1>7, <1>8 DEF IInv

LEMMA Step ==
    ASSUME IInv, [Next]_vars
    PROVE  IInv'
<1>1. CASE Queue
  <2>1. UNCHANGED <<link, loading, config, told>>
    BY <1>1 DEF Queue, OnStartActivity, OnClientMessage, OnActivityComplete
  <2>2. Good(master')
    BY <1>1, StartActivityGood, ClientMessageGood, CompletionGood DEF Queue
  <2>. QED
    BY <2>1, <2>2, IInvNext, SMTT(30)
<1>2. CASE StartMaster
  BY <1>2, StartMasterKeeps
<1>3. CASE \E command \in Commands : Command(command)
  BY <1>3, CommandKeeps
<1>4. ASSUME NEW c \in Conns, Slave(c) PROVE IInv'
  BY <1>4, ReceiveEnrollmentKeeps, ReceiveAliveKeeps, ReceiveLoadKeeps, ReceiveConfigKeeps
     DEF Slave, Replies
<1>5. ASSUME NEW c \in Conns,
             StartSlave(c) \/ FinishLoad(c) \/ FinishConfig(c) \/ Crash(c) \/ Detect(c)
      PROVE  IInv'
  BY <1>5, StartSlaveKeeps, FinishLoadKeeps, FinishConfigKeeps, CrashKeeps, DetectKeeps
<1>6. CASE UNCHANGED vars
  <2>1. Good(master') /\ UNCHANGED <<link, loading, config, told>>
    BY <1>6, IInvGood DEF vars
  <2>. QED
    BY <2>1, IInvNext
<1>. QED
  BY <1>1, <1>2, <1>3, <1>4, <1>5, <1>6 DEF Next

LEMMA Invariant == Spec => []IInv
<1>1. Init => IInv
  BY Initially
<1>2. IInv /\ [Next]_vars => IInv'
  BY Step
<1>. QED
  BY <1>1, <1>2, PTL DEF Spec

-----------------------------------------------------------------------------
(***************************************************************************)
(* What the invariant implies.                                             *)
(***************************************************************************)
LEMMA AtMostOne ==
    ASSUME NEW S, \A x, y \in S : x = y
    PROVE  /\ IsFiniteSet(S) /\ Cardinality(S) \in Nat /\ Cardinality(S) <= 1
           /\ Cardinality(S) = 0 <=> S = {}
           /\ Cardinality(S) = 1 <=> S # {}
<1>1. CASE S = {}
  BY <1>1, FS_EmptySet
<1>2. CASE S # {}
  <2>1. PICK x \in S : TRUE
    BY <1>2
  <2>2. S = {x}
    BY <2>1
  <2>3. IsFiniteSet(S) /\ Cardinality(S) = 1
    BY <2>2, FS_Singleton
  <2>. QED
    BY <1>2, <2>3
<1>. QED
  BY <1>1, <1>2

LEMMA NamesHaveOwners == IInv => NameOwned
<1>. SUFFICES ASSUME IInv, NEW c \in Conns, link[c] = "up",
                     told[c] = "enrolled" \/ "enrolled" \in ToSet(master.out[c])
              PROVE  master.clients[NameOf[c]] = c
  BY DEF NameOwned
<1>1. told[c] = "enrolled" \/ Has(master.out[c], {"enrolled"})
  BY HasElements
<1>. QED
  BY <1>1 DEF IInv, Served, Owners

LEMMA EnrollmentsAreOne == IInv => AnsweredOnce
<1>. SUFFICES ASSUME IInv, NEW c \in Conns PROVE Cardinality(Enrollments(c)) <= 1
  BY DEF AnsweredOnce
<1>. DEFINE p == master.posted
            o == master.out[c]
            e == MessageEvent(c, "enroll")
<1>1. /\ Once(p, {e}) /\ Once(o, Replies)
      /\ \A q, r \in master.testsMap : q[2] = c /\ r[2] = c => q = r
      /\ Has(p, {e}) => ~Testing(master, c) /\ ~Has(o, Replies) /\ told[c] = "nothing"
      /\ Testing(master, c) => ~Has(o, Replies) /\ told[c] = "nothing"
      /\ Has(o, Replies) => told[c] = "nothing"
  BY DEF IInv, Served, Enrolls
<1>2. ASSUME NEW x \in Enrollments(c)
      PROVE  \/ \E i \in DOMAIN p : p[i] = e /\ x = <<"posted", i>>
             \/ \E q \in master.testsMap : q[2] = c /\ x = <<"test", q[1]>>
             \/ \E i \in DOMAIN o : o[i] \in Replies /\ x = <<"out", i>>
             \/ told[c] # "nothing" /\ x = <<"told", 0>>
  BY DEF Enrollments, Replies
<1>. HIDE DEF p, o, e
<1>3. ASSUME NEW x \in Enrollments(c), NEW y \in Enrollments(c)
      PROVE  x = y
  <2>1. CASE Has(p, {e})
    <3>1. /\ \A q \in master.testsMap : q[2] # c
          /\ \A i \in DOMAIN o : o[i] \notin Replies
          /\ told[c] = "nothing"
      BY <1>1, <2>1 DEF Testing, Has
    <3>2. PICK i \in DOMAIN p : p[i] = e /\ x = <<"posted", i>>
      BY <1>2, <3>1
    <3>3. PICK j \in DOMAIN p : p[j] = e /\ y = <<"posted", j>>
      BY <1>2, <3>1
    <3>. QED
      BY <1>1, <3>2, <3>3 DEF Once
  <2>2. CASE Testing(master, c)
    <3>1. /\ \A i \in DOMAIN p : p[i] # e
          /\ \A i \in DOMAIN o : o[i] \notin Replies
          /\ told[c] = "nothing"
      BY <1>1, <2>2 DEF Has
    <3>2. PICK q \in master.testsMap : q[2] = c /\ x = <<"test", q[1]>>
      BY <1>2, <3>1
    <3>3. PICK r \in master.testsMap : r[2] = c /\ y = <<"test", r[1]>>
      BY <1>2, <3>1
    <3>. QED
      BY <1>1, <3>2, <3>3
  <2>3. CASE Has(o, Replies)
    <3>1. /\ \A i \in DOMAIN p : p[i] # e
          /\ \A q \in master.testsMap : q[2] # c
          /\ told[c] = "nothing"
      BY <1>1, <2>3 DEF Has, Testing
    <3>2. PICK i \in DOMAIN o : o[i] \in Replies /\ x = <<"out", i>>
      BY <1>2, <3>1
    <3>3. PICK j \in DOMAIN o : o[j] \in Replies /\ y = <<"out", j>>
      BY <1>2, <3>1
    <3>. QED
      BY <1>1, <3>2, <3>3 DEF Once
  <2>4. CASE ~Has(p, {e}) /\ ~Testing(master, c) /\ ~Has(o, Replies)
    <3>1. /\ \A i \in DOMAIN p : p[i] # e
          /\ \A q \in master.testsMap : q[2] # c
          /\ \A i \in DOMAIN o : o[i] \notin Replies
      BY <2>4 DEF Has, Testing
    <3>. QED
      BY <1>2, <3>1
  <2>. QED
    BY <2>1, <2>2, <2>3, <2>4
<1>. QED
  BY <1>3, AtMostOne

LEMMA ActivitiesInOrder == IInv => InOrder
<1>. SUFFICES ASSUME IInv PROVE InOrder
  OBVIOUS
<1>1. Line(master)
  BY DEF IInv, Queued
<1>2. \A i, j \in DOMAIN master.posted :
          i < j /\ master.posted[i].type = "start" /\ master.posted[j].type = "start"
          => master.posted[i].act < master.posted[j].act
  BY <1>1 DEF Line, StartsInOrder
<1>. QED
  BY <1>1, <1>2 DEF Line, InOrder

LEMMA TestsAreBehind == IInv => AwaitedIsBehind
<1>. SUFFICES ASSUME IInv, NEW i \in DOMAIN master.active, NEW a \in Awaited(master.active[i])
              PROVE  \/ a \in NotStarted(master)
                     \/ \E j \in DOMAIN master.active : i < j /\ master.active[j] = a
  BY DEF AwaitedIsBehind
<1>. DEFINE p == master.active[i]
<1>1. /\ Line(master) /\ Foremost(master) /\ Awaits(master) /\ master \in MasterState
      /\ master.active \in Seq(Nat) /\ master.acts \in Seq(Activity)
  BY StateFacts DEF IInv, Queued, TypeOK
<1>2. p \in ToSet(master.active) /\ p \in DOMAIN master.acts /\ p \in Nat
  <2>1. p \in ToSet(master.active)
    BY IndexInToSet
  <2>. QED
    BY <1>1, <2>1 DEF Line, Unfinished
<1>. HIDE DEF p
<1>3. a \in Unfinished(master) /\ p < a
  <2>1. CASE p = Enroll
    <3>1. PICK q \in master.testsMap : a = q[1]
      BY <2>1 DEF Awaited, p
    <3>2. a \in Unfinished(master) /\ a \in DOMAIN master.acts /\ master.acts[a].kind = "test"
      BY <1>1, <3>1 DEF Awaits
    <3>3. a # Enroll /\ a \in Nat /\ a >= 1
      BY <1>1, <3>2 DEF Foremost
    <3>. QED
      BY <2>1, <3>2, <3>3 DEF Enroll
  <2>2. CASE p # Enroll
    <3>1. a \in master.acts[p].children
      BY <2>2 DEF Awaited, p
    <3>. QED
      BY <1>1, <1>2, <3>1 DEF Awaits
  <2>. QED
    BY <2>1, <2>2
<1>4. CASE a \in NotStarted(master)
  BY <1>4
<1>5. CASE a \in ToSet(master.active)
  <2>1. PICK j \in DOMAIN master.active : master.active[j] = a
    BY <1>5, InToSet
  <2>2. i < j
    <3>1. Increasing(master.active) /\ i \in Nat /\ j \in Nat /\ a \in Nat
      BY <1>1, <2>1 DEF Line
    <3>2. j # i
      BY <1>2, <1>3, <2>1, <3>1 DEF p
    <3>3. ~(j < i)
      BY <1>2, <1>3, <2>1, <3>1 DEF p, Increasing
    <3>. QED
      BY <3>1, <3>2, <3>3
  <2>. QED
    BY <2>1, <2>2
<1>. QED
  BY <1>3, <1>4, <1>5 DEF Unfinished

LEMMA EndedAreDone == IInv => CompleteMeansDone
<1>. SUFFICES ASSUME IInv, NEW a \in DOMAIN master.acts,
                     CompleteEvent(a) \in ToSet(master.posted)
              PROVE  master.acts[a].waiting = {} /\ master.acts[a].children = {}
  BY DEF CompleteMeansDone
<1>1. Ends(master)
  BY DEF IInv, Queued
<1>. QED
  BY <1>1 DEF Ends, Idle, CompleteEvent

LEMMA LoadsAreAccounted == IInv => LoadsAccounted
<1>. SUFFICES ASSUME IInv, NEW c \in Conns
              PROVE  /\ Cardinality(LoadsUnderWay(c)) <= Cardinality(Awaiting(c))
                     /\ Cardinality(Awaiting(c)) <= 1
                     /\ link[c] = "up" => Cardinality(LoadsUnderWay(c)) = Cardinality(Awaiting(c))
  BY DEF LoadsAccounted
<1>. DEFINE p == master.posted
            o == master.out[c]
            e == MessageEvent(c, "load")
<1>1. /\ OneLoad(master, c) /\ (SomeLoad(master, c) => Await(master, c))
      /\ link[c] = "up" /\ Await(master, c) => SomeLoad(master, c)
  BY DEF IInv, Served, Loads
<1>2. ASSUME NEW x \in LoadsUnderWay(c)
      PROVE  \/ \E i \in DOMAIN o : o[i] = "load" /\ x = <<"out", i>>
             \/ c \in loading /\ x = <<"loading", 0>>
             \/ \E i \in DOMAIN p : p[i] = e /\ x = <<"posted", i>>
  BY DEF LoadsUnderWay
<1>3. /\ \A i \in DOMAIN o : o[i] = "load" => <<"out", i>> \in LoadsUnderWay(c)
      /\ c \in loading => <<"loading", 0>> \in LoadsUnderWay(c)
      /\ \A i \in DOMAIN p : p[i] = e => <<"posted", i>> \in LoadsUnderWay(c)
  BY DEF LoadsUnderWay
<1>4. /\ LoadOut(master, c) <=> \E i \in DOMAIN o : o[i] = "load"
      /\ LoadDone(master, c) <=> \E i \in DOMAIN p : p[i] = e
  BY DEF LoadOut, LoadDone, Has
<1>5. /\ \A i, j \in DOMAIN o : o[i] = "load" /\ o[j] = "load" => i = j
      /\ \A i, j \in DOMAIN p : p[i] = e /\ p[j] = e => i = j
      /\ ~(LoadOut(master, c) /\ c \in loading)
      /\ ~(LoadOut(master, c) /\ LoadDone(master, c))
      /\ ~(c \in loading /\ LoadDone(master, c))
  BY <1>1 DEF OneLoad, Once
<1>. HIDE DEF p, o, e
<1>6. \A x, y \in LoadsUnderWay(c) : x = y
  BY <1>2, <1>4, <1>5
<1>7. LoadsUnderWay(c) # {} <=> SomeLoad(master, c)
  BY <1>2, <1>3, <1>4 DEF SomeLoad
<1>8. \A a, b \in Awaiting(c) : a = b
  BY DEF Awaiting, IInv, Queued, Exclusion, ExclusiveKinds
<1>9. Awaiting(c) # {} <=> Await(master, c)
  BY DEF Awaiting, Await
<1>10. /\ Cardinality(LoadsUnderWay(c)) \in Nat /\ Cardinality(LoadsUnderWay(c)) <= 1
       /\ Cardinality(LoadsUnderWay(c)) = 0 <=> LoadsUnderWay(c) = {}
       /\ Cardinality(LoadsUnderWay(c)) = 1 <=> LoadsUnderWay(c) # {}
  BY <1>6, AtMostOne
<1>11. /\ Cardinality(Awaiting(c)) \in Nat /\ Cardinality(Awaiting(c)) <= 1
       /\ Cardinality(Awaiting(c)) = 0 <=> Awaiting(c) = {}
       /\ Cardinality(Awaiting(c)) = 1 <=> Awaiting(c) # {}
  BY <1>8, AtMostOne
<1>. QED
  BY <1>1, <1>7, <1>9, <1>10, <1>11

-----------------------------------------------------------------------------
\* The master's state, the connections and what the slaves know keep their
\* types through every handler, command, message and crash; the numbers of
\* activities stay within the sequence of those ever made.
THEOREM TypeCorrect == Spec => []TypeOK
<1>1. IInv => TypeOK
  BY DEF IInv
<1>. QED
  BY <1>1, Invariant, PTL

\* However handlers, commands and messages interleave, activities become active
\* in the order in which they were made: a pending one is overtaken by none that
\* is posted later (OnStartActivity and OnActivityComplete of queue.cpp).
THEOREM OrderKept == Spec => []InOrder
BY Invariant, ActivitiesInOrder, PTL

\* A test that an active activity waits for still has to start, or is active
\* behind it, so that OnActivityComplete tells the one that waits.
THEOREM AwaitedCanBeTold == Spec => []AwaitedIsBehind
BY Invariant, TestsAreBehind, PTL

\* No answer to a load is taken by another load than the one that asked
\* (LoadProgram): whatever crashes and lost connections there are, an active load
\* waits for each slave that has a request, works on it or has answered, and for
\* no other slave that lives.
THEOREM LoadsMatch == Spec => []LoadsAccounted
BY Invariant, LoadsAreAccounted, PTL

\* A completion is posted for no activity that waits for a slave or a test, of
\* whatever kind.
THEOREM DoneWhenComplete == Spec => []CompleteMeansDone
BY Invariant, EndedAreDone, PTL

\* A live slave that was told it is enrolled, or will be, is the one the master
\* has under its name (ClientMap::enroll): no two live slaves go by one name.
THEOREM OwnersKeepNames == Spec => []NameOwned
BY Invariant, NamesHaveOwners, PTL

\* The enrollment of a slave is in one place at a time, posted, with one test,
\* on its way back or answered, so that no slave is answered twice.
THEOREM OneAnswer == Spec => []AnsweredOnce
BY Invariant, EnrollmentsAreOne, PTL
=============================================================================
