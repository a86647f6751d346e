-------------------------- MODULE SlaveQueueProofs --------------------------
(***************************************************************************)
(* TLAPS proofs about a slave and its hosts: for any hosts, programs and   *)
(* names, any hosts that may crash or fail, and any number of loads,       *)
(* configs and tests.                                                      *)
(*                                                                         *)
(* The inductive invariant comes in layers.  This module proves of the     *)
(* first that the steps of the slave keep it, and what each action of a    *)
(* host does; the theorems follow in SlaveProofs.  The first layer is      *)
(* about the slave's queue: that nothing pends (Line), that children have  *)
(* one parent, which is active (Family), when an activity completes        *)
(* (Ends), that a load or a config is in one stage at a time (Fronted),    *)
(* and that a load is under way only if the master waits for its answer    *)
(* (Asked).  Its parts are predicates of a state m of the slave, since a   *)
(* handler goes through several such states.                               *)
(***************************************************************************)
EXTENDS Slave, QueueFacts

Starting(m, a) == Has(m.posted, {StartEvent(a)})
Ending(m, a) == Has(m.posted, {CompleteEvent(a)})

LoadRequests == {ServerEvent("load", p) : p \in Program}
Requested(m) == Has(m.posted, LoadRequests)

Live(m, a) == a \in ToSet(m.active) \/ Starting(m, a)

Line(m) ==
    /\ m.pending = << >>
    /\ \A i, j \in DOMAIN m.active : m.active[i] = m.active[j] => i = j
    /\ \A a \in Nat : Once(m.posted, {StartEvent(a)})
    /\ \A a \in ToSet(m.active) : a \in DOMAIN m.acts /\ ~Starting(m, a)
    /\ \A a \in Nat : Starting(m, a) \/ Ending(m, a) => a \in DOMAIN m.acts
    /\ m.process = "starting" => Len(m.acts) = 1 /\ m.active = << >> /\ ~Starting(m, 1)

KindOfChild(kind) ==
    CASE kind = "testHosts" -> "testHost"
      [] kind = "loadHosts" -> "loadHost"
      [] kind = "hostsConfig" -> "hostConfig"
      [] OTHER -> "nothing"

Singles == {"testHost", "loadHost", "hostConfig"}

Family(m) ==
    /\ 1 \in DOMAIN m.acts
    /\ \A a \in DOMAIN m.acts : /\ m.acts[a].kind = "front" <=> a = 1
                                /\ m.acts[a].kind \in Singles => m.acts[a].host \in Clients
    /\ \A p \in DOMAIN m.acts : \A a \in m.acts[p].children :
          /\ p \in ToSet(m.active) /\ a \in DOMAIN m.acts
          /\ m.acts[a].kind = KindOfChild(m.acts[p].kind)
          /\ \A q \in DOMAIN m.acts : a \in m.acts[q].children => p = q
          /\ \A b \in m.acts[p].children : m.acts[a].host = m.acts[b].host => a = b
    /\ \A a \in DOMAIN m.acts : Live(m, a) /\ m.acts[a].kind \in Singles =>
          \E p \in DOMAIN m.acts : a \in m.acts[p].children

\* An activity that has been made and is to start when the test before it ends.
Unborn(m, a) ==
    \/ a = m.loadHosts /\ Live(m, m.loadTests)
    \/ a = m.configHosts /\ Live(m, m.configTests)

CanEnd(m, a) ==
    /\ m.acts[a].kind # "front" /\ m.acts[a].children = {}
    /\ ~Starting(m, a) /\ ~Unborn(m, a)

Ends(m) == \A a \in DOMAIN m.acts : Ending(m, a) => CanEnd(m, a)

\* A test and what follows it.
Stages(m, kind, tests, hosts) ==
    /\ tests = 0 <=> hosts = 0
    /\ tests # 0 => /\ tests \in DOMAIN m.acts /\ m.acts[tests].kind = "testHosts"
                    /\ hosts \in DOMAIN m.acts /\ m.acts[hosts].kind = kind
                    /\ Permanent \in ToSet(m.active)
    /\ \A a \in DOMAIN m.acts : Live(m, a) /\ m.acts[a].kind = kind => a = hosts
    /\ ~(Live(m, tests) /\ Live(m, hosts))

Busy(m) == Live(m, m.loadTests) \/ Live(m, m.loadHosts)

Fronted(m) ==
    /\ Stages(m, "loadHosts", m.loadTests, m.loadHosts)
    /\ Stages(m, "hostsConfig", m.configTests, m.configHosts)
    /\ m.loadTests = m.configTests => m.loadTests = 0
    /\ m.config = "none" => ~Live(m, m.configTests) /\ ~Live(m, m.configHosts)
    /\ Busy(m) => m.loading = m.acts[m.loadHosts].program
    /\ Once(m.posted, LoadRequests)
    /\ Requested(m) => ~Busy(m) /\ m.loading = NoProgram

Asked(m) ==
    /\ asked.loads \in {m.loadsAnswered, m.loadsAnswered + 1}
    /\ asked.loads = m.loadsAnswered => ~Requested(m) /\ ~Busy(m) /\ m.loading = NoProgram

Queued(m) == Line(m) /\ Family(m) /\ Ends(m) /\ Fronted(m) /\ Asked(m)

IQueued == TypeOK /\ Queued(slave)

-----------------------------------------------------------------------------
(***************************************************************************)
(* Types.                                                                  *)
(***************************************************************************)
LEMMA Constants ==
    /\ IsFiniteSet(Clients) /\ NoClient \notin Clients
    /\ ProgramNames \subseteq Program /\ NoProgram \in Program
    /\ NoName \notin HostNames /\ NoProgram \notin ProgramNames
BY RemapAssumption, SlaveAssumption DEF Program

Kinds == {"front", "testHosts", "testHost", "loadHosts", "loadHost", "hostsConfig", "hostConfig"}

LEMMA ActivityFacts ==
    ASSUME NEW act \in Activity
    PROVE  /\ act.kind \in Kinds /\ act.children \in SUBSET Nat /\ act.success \in BOOLEAN
           /\ act.host \in Clients \cup {NoClient} /\ act.name \in HostNames \cup {NoName}
           /\ act.program \in Program /\ act.config \in Config \cup {"none"}
           /\ act.kind \in {"hostsConfig", "hostConfig"} => act.config \in Config
           /\ \A S \in SUBSET Nat : /\ [act EXCEPT !.children = S] \in Activity
                                    /\ [act EXCEPT !.children = S].children = S
                                    /\ [act EXCEPT !.children = S].kind = act.kind
                                    /\ [act EXCEPT !.children = S].host = act.host
                                    /\ [act EXCEPT !.children = S].name = act.name
                                    /\ [act EXCEPT !.children = S].program = act.program
                                    /\ [act EXCEPT !.children = S].config = act.config
                                    /\ [act EXCEPT !.children = S].success = act.success
           /\ \A b \in BOOLEAN : /\ [act EXCEPT !.success = b] \in Activity
                                 /\ [act EXCEPT !.success = b].success = b
                                 /\ [act EXCEPT !.success = b].kind = act.kind
                                 /\ [act EXCEPT !.success = b].host = act.host
                                 /\ [act EXCEPT !.success = b].name = act.name
                                 /\ [act EXCEPT !.success = b].program = act.program
                                 /\ [act EXCEPT !.success = b].config = act.config
                                 /\ [act EXCEPT !.success = b].children = act.children
BY DEF Activity, Kinds

LEMMA NewActivityFacts ==
    /\ \A kind \in {"front", "testHosts"} : /\ NewActivity(kind) \in Activity
                           /\ NewActivity(kind).kind = kind /\ NewActivity(kind).children = {}
    /\ \A h \in Clients : /\ TestHost(h) \in Activity /\ TestHost(h).kind = "testHost"
                          /\ TestHost(h).host = h /\ TestHost(h).children = {}
    /\ \A p \in Program : /\ LoadHosts(p) \in Activity /\ LoadHosts(p).kind = "loadHosts"
                          /\ LoadHosts(p).program = p /\ LoadHosts(p).children = {}
                          /\ LoadHosts(p).success = TRUE
    /\ \A h \in Clients, n \in HostNames \cup {NoName}, p \in Program :
          /\ LoadHost(h, n, p) \in Activity /\ LoadHost(h, n, p).kind = "loadHost"
          /\ LoadHost(h, n, p).host = h /\ LoadHost(h, n, p).children = {}
          /\ LoadHost(h, n, p).name = n /\ LoadHost(h, n, p).program = p
          /\ LoadHost(h, n, p).success = TRUE
    /\ \A type \in Config : /\ HostsConfig(type) \in Activity /\ HostsConfig(type).kind = "hostsConfig"
                            /\ HostsConfig(type).children = {} /\ HostsConfig(type).config = type
    /\ \A h \in Clients, type \in Config :
          /\ HostConfig(h, type) \in Activity /\ HostConfig(h, type).kind = "hostConfig"
          /\ HostConfig(h, type).host = h /\ HostConfig(h, type).children = {}
          /\ HostConfig(h, type).config = type
<1>. NoProgram \in Program
  BY DEF Program
<1>1. \A kind \in {"front", "testHosts"} : /\ NewActivity(kind) \in Activity
                          /\ NewActivity(kind).kind = kind /\ NewActivity(kind).children = {}
  BY DEF NewActivity, Activity, Kinds
<1>2. \A h \in Clients : /\ TestHost(h) \in Activity /\ TestHost(h).kind = "testHost"
                         /\ TestHost(h).host = h /\ TestHost(h).children = {}
  BY DEF TestHost, NewActivity, Activity
<1>3. \A p \in Program : /\ LoadHosts(p) \in Activity /\ LoadHosts(p).kind = "loadHosts"
                         /\ LoadHosts(p).program = p /\ LoadHosts(p).children = {}
                         /\ LoadHosts(p).success = TRUE
  BY DEF LoadHosts, NewActivity, Activity
<1>4. \A h \in Clients, n \in HostNames \cup {NoName}, p \in Program :
          /\ LoadHost(h, n, p) \in Activity /\ LoadHost(h, n, p).kind = "loadHost"
          /\ LoadHost(h, n, p).host = h /\ LoadHost(h, n, p).children = {}
          /\ LoadHost(h, n, p).name = n /\ LoadHost(h, n, p).program = p
          /\ LoadHost(h, n, p).success = TRUE
  <2>. SUFFICES ASSUME NEW h \in Clients, NEW n \in HostNames \cup {NoName}, NEW p \in Program
                PROVE  /\ LoadHost(h, n, p) \in Activity /\ LoadHost(h, n, p).kind = "loadHost"
                       /\ LoadHost(h, n, p).host = h /\ LoadHost(h, n, p).children = {}
                       /\ LoadHost(h, n, p).name = n /\ LoadHost(h, n, p).program = p
                       /\ LoadHost(h, n, p).success = TRUE
    OBVIOUS
  <2>1. PICK r : r = NewActivity("loadHost")
    OBVIOUS
  <2>2. r \in Activity /\ r.kind = "loadHost" /\ r.children = {} /\ r.success = TRUE
    BY <2>1 DEF NewActivity, Activity
  <2>3. LoadHost(h, n, p) = [r EXCEPT !.host = h, !.name = n, !.program = p]
    BY <2>1 DEF LoadHost
  <2>. QED
    BY ONLY <2>2, <2>3 DEF Activity
<1>5. \A type \in Config : /\ HostsConfig(type) \in Activity /\ HostsConfig(type).kind = "hostsConfig"
                           /\ HostsConfig(type).children = {} /\ HostsConfig(type).config = type
  BY DEF HostsConfig, NewActivity, Activity, Config
<1>6. \A h \in Clients, type \in Config :
          /\ HostConfig(h, type) \in Activity /\ HostConfig(h, type).kind = "hostConfig"
          /\ HostConfig(h, type).host = h /\ HostConfig(h, type).children = {}
          /\ HostConfig(h, type).config = type
  BY DEF HostConfig, NewActivity, Activity, Config
<1>. QED
  BY ONLY <1>1, <1>2, <1>3, <1>4, <1>5, <1>6

LEMMA StateFacts ==
    ASSUME NEW m \in SlaveState
    PROVE  /\ m.process \in {"starting", "up", "unfound", "unknown", "malformed"}
           /\ m.active \in Seq(Nat) /\ m.pending \in Seq(Nat)
           /\ m.posted \in Seq(Event) /\ m.acts \in Seq(Activity)
           /\ m.enrolled \subseteq Clients /\ m.arrived \in [Clients -> Nat] /\ m.known \subseteq Clients
           /\ m.mapping \in Mapping /\ m.program \in Program
           /\ m.loading \in Program /\ m.loadTests \in Nat /\ m.loadHosts \in Nat
           /\ m.config \in Config \cup {"none"} /\ m.configTests \in Nat /\ m.configHosts \in Nat
           /\ m.out \in [Clients -> Seq(Order)]
           /\ m.loadsAnswered \in Nat /\ m.configsAnswered \in Nat
           /\ m.outcome \in {"none", "enrolled", "yes", "no"}
BY DEF SlaveState

LEMMA EventFacts ==
    /\ \A a \in Nat : /\ StartEvent(a) \in Event /\ StartEvent(a).type = "start"
                      /\ StartEvent(a).act = a
                      /\ CompleteEvent(a) \in Event /\ CompleteEvent(a).type = "complete"
                      /\ CompleteEvent(a).act = a
    /\ \A p \in Program, msg \in {"load"} \cup Config :
          /\ ServerEvent(msg, p) \in Event /\ ServerEvent(msg, p).type = "server"
          /\ ServerEvent(msg, p).msg = msg /\ ServerEvent(msg, p).program = p
    /\ \A h \in Clients, ok \in BOOLEAN,
          msg \in {"enroll", "enrolleg", "alive", "load", "buffer"} \cup Config :
          /\ ClientEvent(h, msg, ok) \in Event /\ ClientEvent(h, msg, ok).type = "client"
          /\ ClientEvent(h, msg, ok).from = h /\ ClientEvent(h, msg, ok).msg = msg
          /\ ClientEvent(h, msg, ok).success = ok
    /\ \A e \in Event :
          /\ e.type \in {"start", "complete", "server", "client"}
          /\ e.type \in {"start", "complete"} => e.act \in Nat
          /\ e.type = "start" => e = StartEvent(e.act)
          /\ e.type = "complete" => e = CompleteEvent(e.act)
          /\ e.type = "server" => /\ e.msg \in {"load"} \cup Config /\ e.program \in Program
                                  /\ e = ServerEvent(e.msg, e.program)
          /\ e.type = "client" => /\ e.from \in Clients /\ e.success \in BOOLEAN
                                  /\ e.msg \in {"enroll", "enrolleg", "alive", "load", "buffer"} \cup Config
                                  /\ e = ClientEvent(e.from, e.msg, e.success)
<1>1. \A a \in Nat : /\ StartEvent(a) \in Event /\ StartEvent(a).type = "start"
                     /\ StartEvent(a).act = a
                     /\ CompleteEvent(a) \in Event /\ CompleteEvent(a).type = "complete"
                     /\ CompleteEvent(a).act = a
  BY DEF StartEvent, CompleteEvent, Event
<1>2. \A p \in Program, msg \in {"load"} \cup Config :
          /\ ServerEvent(msg, p) \in Event /\ ServerEvent(msg, p).type = "server"
          /\ ServerEvent(msg, p).msg = msg /\ ServerEvent(msg, p).program = p
  BY DEF ServerEvent, Event
<1>3. \A h \in Clients, ok \in BOOLEAN,
          msg \in {"enroll", "enrolleg", "alive", "load", "buffer"} \cup Config :
          /\ ClientEvent(h, msg, ok) \in Event /\ ClientEvent(h, msg, ok).type = "client"
          /\ ClientEvent(h, msg, ok).from = h /\ ClientEvent(h, msg, ok).msg = msg
          /\ ClientEvent(h, msg, ok).success = ok
  BY DEF ClientEvent, Event
<1>4. ASSUME NEW e \in Event
      PROVE  /\ e.type \in {"start", "complete", "server", "client"}
             /\ e.type \in {"start", "complete"} => e.act \in Nat
             /\ e.type = "start" => e = StartEvent(e.act)
             /\ e.type = "complete" => e = CompleteEvent(e.act)
             /\ e.type = "server" => /\ e.msg \in {"load"} \cup Config /\ e.program \in Program
                                     /\ e = ServerEvent(e.msg, e.program)
             /\ e.type = "client" => /\ e.from \in Clients /\ e.success \in BOOLEAN
                                     /\ e.msg \in {"enroll", "enrolleg", "alive", "load", "buffer"} \cup Config
                                     /\ e = ClientEvent(e.from, e.msg, e.success)
  <2>1. \/ e \in [type : {"start", "complete"}, act : Nat]
        \/ e \in [type : {"server"}, msg : {"load"} \cup Config, program : Program]
        \/ e \in [type : {"client"}, from : Clients, success : BOOLEAN,
                  msg : {"enroll", "enrolleg", "alive", "load", "buffer"} \cup Config]
    BY DEF Event
  <2>2. CASE e \in [type : {"start", "complete"}, act : Nat]
    BY <2>2 DEF StartEvent, CompleteEvent
  <2>3. CASE e \in [type : {"server"}, msg : {"load"} \cup Config, program : Program]
    BY <2>3 DEF ServerEvent
  <2>4. CASE e \in [type : {"client"}, from : Clients, success : BOOLEAN,
                    msg : {"enroll", "enrolleg", "alive", "load", "buffer"} \cup Config]
    BY <2>4 DEF ClientEvent
  <2>. QED
    BY <2>1, <2>2, <2>3, <2>4
<1>. QED
  BY ONLY <1>1, <1>2, <1>3, <1>4

-----------------------------------------------------------------------------
(***************************************************************************)
(* What the operators that handlers are made of do to the state.           *)
(***************************************************************************)
\* What the queue, LoadProgramActivity and ConfigActivity, and the host map are.
SameQueue(m, n) ==
    n.process = m.process /\ n.active = m.active /\ n.pending = m.pending /\ n.acts = m.acts

SameControl(m, n) ==
    /\ n.loading = m.loading /\ n.loadTests = m.loadTests /\ n.loadHosts = m.loadHosts
    /\ n.config = m.config /\ n.configTests = m.configTests /\ n.configHosts = m.configHosts
    /\ n.loadsAnswered = m.loadsAnswered /\ n.configsAnswered = m.configsAnswered
    /\ n.program = m.program /\ n.outcome = m.outcome

SameHosts(m, n) ==
    /\ n.enrolled = m.enrolled /\ n.arrived = m.arrived /\ n.known = m.known
    /\ n.mapping = m.mapping /\ n.out = m.out

LEMMA OutFacts ==
    ASSUME NEW m \in SlaveState, NEW out \in [Clients -> Seq(Order)]
    PROVE  LET n == [m EXCEPT !.out = out]
           IN  /\ n \in SlaveState /\ n.out = out /\ n.posted = m.posted
               /\ SameQueue(m, n) /\ SameControl(m, n)
               /\ n.enrolled = m.enrolled /\ n.arrived = m.arrived /\ n.known = m.known
               /\ n.mapping = m.mapping
BY DEF SlaveState, SameQueue, SameControl

LEMMA PostedFacts ==
    ASSUME NEW m \in SlaveState, NEW posted \in Seq(Event)
    PROVE  LET n == [m EXCEPT !.posted = posted]
           IN  /\ n \in SlaveState /\ n.posted = posted
               /\ SameQueue(m, n) /\ SameControl(m, n) /\ SameHosts(m, n)
BY DEF SlaveState, SameQueue, SameControl, SameHosts

LEMMA ActsFacts ==
    ASSUME NEW m \in SlaveState, NEW acts \in Seq(Activity)
    PROVE  LET n == [m EXCEPT !.acts = acts]
           IN  /\ n \in SlaveState /\ n.acts = acts /\ n.posted = m.posted
               /\ n.process = m.process /\ n.active = m.active /\ n.pending = m.pending
               /\ SameControl(m, n) /\ SameHosts(m, n)
BY DEF SlaveState, SameControl, SameHosts

LEMMA ActiveFacts ==
    ASSUME NEW m \in SlaveState, NEW active \in Seq(Nat)
    PROVE  LET n == [m EXCEPT !.active = active]
           IN  /\ n \in SlaveState /\ n.acts = m.acts /\ n.posted = m.posted
               /\ n.process = m.process /\ n.active = active /\ n.pending = m.pending
               /\ SameControl(m, n) /\ SameHosts(m, n)
BY DEF SlaveState, SameControl, SameHosts

LEMMA ProcessFacts ==
    ASSUME NEW m \in SlaveState, NEW process \in {"starting", "up", "unfound", "unknown", "malformed"}
    PROVE  LET n == [m EXCEPT !.process = process]
           IN  /\ n \in SlaveState /\ n.acts = m.acts /\ n.posted = m.posted
               /\ n.process = process /\ n.active = m.active /\ n.pending = m.pending
               /\ SameControl(m, n) /\ SameHosts(m, n)
BY DEF SlaveState, SameControl, SameHosts

\* Slave::sendHost, and what comes of a host that is not there.
LEMMA SendFacts ==
    ASSUME NEW m \in SlaveState, NEW h \in Clients, NEW order \in Order
    PROVE  LET n == Send(m, h, order)
           IN  /\ n \in SlaveState /\ n.posted = m.posted
               /\ SameQueue(m, n) /\ SameControl(m, n)
               /\ n.enrolled = m.enrolled /\ n.arrived = m.arrived /\ n.known = m.known
               /\ n.mapping = m.mapping
               /\ \A c \in Clients : n.out[c] = IF c = h /\ host[h].link = "up"
                                                THEN Append(m.out[c], order) ELSE m.out[c]
<1>1. CASE host[h].link # "up"
  BY <1>1 DEF Send, SameQueue, SameControl
<1>2. CASE host[h].link = "up"
  <2>. DEFINE out == [m.out EXCEPT ![h] = Append(@, order)]
  <2>1. m.out \in [Clients -> Seq(Order)]
    BY StateFacts
  <2>2. out \in [Clients -> Seq(Order)]
        /\ \A c \in Clients : out[c] = IF c = h THEN Append(m.out[c], order) ELSE m.out[c]
    BY <2>1, AppendProperties
  <2>3. Send(m, h, order) = [m EXCEPT !.out = out]
    BY <1>2 DEF Send
  <2>. HIDE DEF out
  <2>. QED
    BY <1>2, <2>2, <2>3, OutFacts
<1>. QED
  BY <1>1, <1>2

LEMMA RemoveFacts ==
    ASSUME NEW m \in SlaveState, NEW h
    PROVE  LET n == RemoveClient(m, h)
           IN  /\ n \in SlaveState /\ n.posted = m.posted /\ n.out = m.out
               /\ SameQueue(m, n) /\ SameControl(m, n)
               /\ n.enrolled = m.enrolled \ {h} /\ n.arrived = m.arrived
               /\ n.known = m.known \ {h}
               /\ n.mapping = [k \in HostNames |-> IF m.mapping[k] = h THEN NoClient ELSE m.mapping[k]]
<1>. DEFINE mapping == [k \in HostNames |-> IF m.mapping[k] = h THEN NoClient ELSE m.mapping[k]]
            n == [m EXCEPT !.enrolled = m.enrolled \ {h}, !.known = m.known \ {h},
                           !.mapping = mapping, !.arrived = m.arrived]
<1>1. mapping \in Mapping
  BY StateFacts DEF Mapping
<1>2. /\ m.enrolled \ {h} \in SUBSET Clients /\ m.known \ {h} \in SUBSET Clients
      /\ m.arrived \in [Clients -> Nat]
  BY StateFacts
<1>3. RemoveClient(m, h) = n
  <2>1. RemoveClient(m, h) = [m EXCEPT !.enrolled = m.enrolled \ {h}, !.known = m.known \ {h},
                                       !.mapping = mapping]
    BY DEF RemoveClient
  <2>. HIDE DEF mapping
  <2>. QED
    BY <2>1 DEF SlaveState
<1>. HIDE DEF mapping
<1>4. /\ n \in SlaveState /\ n.posted = m.posted /\ n.out = m.out
      /\ SameQueue(m, n) /\ SameControl(m, n)
      /\ n.enrolled = m.enrolled \ {h} /\ n.arrived = m.arrived /\ n.known = m.known \ {h}
      /\ n.mapping = mapping
  <2>1. PICK enrolled, known : enrolled = m.enrolled \ {h} /\ known = m.known \ {h}
    OBVIOUS
  <2>2. enrolled \in SUBSET Clients /\ known \in SUBSET Clients
    BY <1>2, <2>1
  <2>3. LET k == [m EXCEPT !.enrolled = enrolled, !.known = known, !.mapping = mapping,
                           !.arrived = m.arrived]
        IN  /\ k \in SlaveState /\ k.posted = m.posted /\ k.out = m.out
            /\ SameQueue(m, k) /\ SameControl(m, k)
            /\ k.enrolled = enrolled /\ k.arrived = m.arrived /\ k.known = known
            /\ k.mapping = mapping
    BY <1>1, <1>2, <2>2 DEF SlaveState, SameQueue, SameControl
  <2>. QED
    BY <2>1, <2>3
<1>. QED
  BY <1>3, <1>4 DEF mapping

LEMMA SendHostFacts ==
    ASSUME NEW m \in SlaveState, NEW h \in Clients, NEW order \in Order
    PROVE  LET n == SendHost(m, h, order)
           IN  /\ n \in SlaveState /\ n.posted = m.posted
               /\ SameQueue(m, n) /\ SameControl(m, n)
<1>1. LET n == Send(m, h, order)
      IN  n \in SlaveState /\ n.posted = m.posted /\ SameQueue(m, n) /\ SameControl(m, n)
  BY SendFacts
<1>2. LET n == RemoveClient(m, h)
      IN  n \in SlaveState /\ n.posted = m.posted /\ SameQueue(m, n) /\ SameControl(m, n)
  BY RemoveFacts
<1>. QED
  BY <1>1, <1>2 DEF SendHost

LEMMA PostFacts ==
    ASSUME NEW m \in SlaveState, NEW es \in Seq(Event)
    PROVE  LET n == Post(m, es)
           IN  /\ n \in SlaveState /\ n.posted = m.posted \o es
               /\ SameQueue(m, n) /\ SameControl(m, n) /\ SameHosts(m, n)
<1>1. m.posted \o es \in Seq(Event)
  BY StateFacts, ConcatProperties
<1>2. Post(m, es) = [m EXCEPT !.posted = m.posted \o es]
  BY DEF Post
<1>. QED
  BY <1>1, <1>2, PostedFacts

LEMMA PostOneFacts ==
    ASSUME NEW m \in SlaveState, NEW e \in Event
    PROVE  LET n == Post(m, <<e>>)
           IN  /\ n \in SlaveState /\ n.posted = Append(m.posted, e)
               /\ SameQueue(m, n) /\ SameControl(m, n) /\ SameHosts(m, n)
<1>1. <<e>> \in Seq(Event) /\ m.posted \in Seq(Event)
  BY StateFacts
<1>2. Append(m.posted, e) = m.posted \o <<e>>
  BY <1>1, AppendFacts
<1>. QED
  BY <1>1, <1>2, PostFacts

LEMMA CompleteFacts ==
    ASSUME NEW m \in SlaveState, NEW a \in Nat
    PROVE  LET n == Complete(m, a)
           IN  /\ n \in SlaveState /\ n.posted = Append(m.posted, CompleteEvent(a))
               /\ SameQueue(m, n) /\ SameControl(m, n) /\ SameHosts(m, n)
BY PostOneFacts, EventFacts DEF Complete

\* Activities are made: those before stay what they are.
LEMMA NewFacts ==
    ASSUME NEW m \in SlaveState, NEW new \in Seq(Activity)
    PROVE  LET n == StartActivities(m, new)
               es == [i \in 1 .. Len(new) |-> StartEvent(Len(m.acts) + i)]
           IN  /\ n \in SlaveState /\ SameControl(m, n) /\ SameHosts(m, n)
               /\ n.process = m.process /\ n.active = m.active /\ n.pending = m.pending
               /\ n.acts = m.acts \o new
               /\ n.posted = m.posted \o es /\ es \in Seq(Event) /\ Len(es) = Len(new)
<1>. DEFINE es == [i \in 1 .. Len(new) |-> StartEvent(Len(m.acts) + i)]
            acts == m.acts \o new
            posted == m.posted \o es
<1>0. Len(new) \in Nat /\ Len(m.acts) \in Nat
  BY StateFacts, LenProperties
<1>1. es \in Seq(Event) /\ Len(es) = Len(new)
  <2>1. \A i \in 1 .. Len(new) : StartEvent(Len(m.acts) + i) \in Event
    BY <1>0, EventFacts
  <2>. QED
    BY <1>0, <2>1
<1>. HIDE DEF es
<1>2. acts \in Seq(Activity) /\ posted \in Seq(Event)
  BY <1>1, StateFacts, ConcatProperties
<1>3. StartActivities(m, new) = [[m EXCEPT !.acts = acts] EXCEPT !.posted = posted]
  <2>1. StartActivities(m, new) = [m EXCEPT !.acts = acts, !.posted = posted]
    BY DEF StartActivities, es
  <2>. HIDE DEF acts, posted
  <2>. QED
    BY <2>1 DEF SlaveState
<1>. HIDE DEF acts, posted
<1>4. PICK k : k = [m EXCEPT !.acts = acts]
  OBVIOUS
<1>5. /\ k \in SlaveState /\ k.acts = acts /\ k.posted = m.posted
      /\ k.process = m.process /\ k.active = m.active /\ k.pending = m.pending
      /\ SameControl(m, k) /\ SameHosts(m, k)
  BY <1>2, <1>4, ActsFacts
<1>6. PICK n : n = [k EXCEPT !.posted = posted]
  OBVIOUS
<1>7. /\ n \in SlaveState /\ n.posted = posted
      /\ SameQueue(k, n) /\ SameControl(k, n) /\ SameHosts(k, n)
  BY <1>2, <1>5, <1>6, PostedFacts
<1>8. StartActivities(m, new) = n
  BY <1>3, <1>4, <1>6
<1>. QED
  BY <1>1, <1>5, <1>7, <1>8 DEF acts, posted, es, SameQueue, SameControl, SameHosts

-----------------------------------------------------------------------------
(***************************************************************************)
(* What posting and taking a handler does to what the invariant sees of    *)
(* those posted.                                                           *)
(***************************************************************************)
LEMMA Seen ==
    ASSUME NEW e \in Event
    PROVE  /\ \A a \in Nat : /\ e \in {StartEvent(a)} <=> e.type = "start" /\ e.act = a
                             /\ e \in {CompleteEvent(a)} <=> e.type = "complete" /\ e.act = a
           /\ e \in LoadRequests <=> e.type = "server" /\ e.msg = "load"
<1>1. \A a \in Nat : /\ e \in {StartEvent(a)} <=> e.type = "start" /\ e.act = a
                     /\ e \in {CompleteEvent(a)} <=> e.type = "complete" /\ e.act = a
  BY EventFacts
<1>2. ASSUME e.type = "server", e.msg = "load" PROVE e \in LoadRequests
  BY <1>2, EventFacts DEF LoadRequests
<1>3. ASSUME e \in LoadRequests PROVE e.type = "server" /\ e.msg = "load"
  BY <1>3, EventFacts DEF LoadRequests
<1>. QED
  BY <1>1, <1>2, <1>3

LEMMA Appended ==
    ASSUME NEW m \in SlaveState, NEW n, NEW e \in Event, n.posted = Append(m.posted, e)
    PROVE  /\ \A a \in Nat :
                 /\ Starting(n, a) <=> Starting(m, a) \/ (e.type = "start" /\ e.act = a)
                 /\ Ending(n, a) <=> Ending(m, a) \/ (e.type = "complete" /\ e.act = a)
                 /\ Once(m.posted, {StartEvent(a)})
                    /\ (e.type = "start" /\ e.act = a => ~Starting(m, a))
                    => Once(n.posted, {StartEvent(a)})
           /\ Requested(n) <=> Requested(m) \/ (e.type = "server" /\ e.msg = "load")
           /\ Once(m.posted, LoadRequests) /\ (e.type = "server" /\ e.msg = "load" => ~Requested(m))
              => Once(n.posted, LoadRequests)
<1>1. m.posted \in Seq(Event)
  BY StateFacts
<1>2. \A S : /\ Has(n.posted, S) <=> Has(m.posted, S) \/ e \in S
             /\ Once(m.posted, S) /\ (e \in S => ~Has(m.posted, S)) => Once(n.posted, S)
  BY <1>1, HasOnceAppend
<1>. QED
  BY <1>2, Seen, Zenon DEF Starting, Ending, Requested

Without(m, n, e) ==
    /\ e \in Event
    /\ \A a \in Nat :
          /\ Starting(m, a) <=> Starting(n, a) \/ (e.type = "start" /\ e.act = a)
          /\ Ending(m, a) <=> Ending(n, a) \/ (e.type = "complete" /\ e.act = a)
          /\ Once(m.posted, {StartEvent(a)}) =>
                /\ Once(n.posted, {StartEvent(a)})
                /\ e.type = "start" /\ e.act = a => ~Starting(n, a)
    /\ Requested(m) <=> Requested(n) \/ (e.type = "server" /\ e.msg = "load")
    /\ Once(m.posted, LoadRequests) =>
          /\ Once(n.posted, LoadRequests)
          /\ e.type = "server" /\ e.msg = "load" => ~Requested(n)

LEMMA Removed ==
    ASSUME NEW m \in SlaveState, NEW n, m.posted # << >>, n.posted = Tail(m.posted)
    PROVE  Without(m, n, Head(m.posted))
<1>1. m.posted \in Seq(Event)
  BY StateFacts
<1>2. PICK e : e = Head(m.posted) /\ e \in Event
  BY <1>1, TailFacts
<1>3. \A S : /\ Has(m.posted, S) <=> e \in S \/ Has(n.posted, S)
             /\ Once(m.posted, S) => /\ Once(n.posted, S)
                                     /\ e \in S => ~Has(n.posted, S)
  BY <1>1, <1>2, HasOnceTail
<1>4. /\ \A a \in Nat :
            /\ Starting(m, a) <=> Starting(n, a) \/ (e.type = "start" /\ e.act = a)
            /\ Ending(m, a) <=> Ending(n, a) \/ (e.type = "complete" /\ e.act = a)
            /\ Once(m.posted, {StartEvent(a)}) =>
                  /\ Once(n.posted, {StartEvent(a)})
                  /\ e.type = "start" /\ e.act = a => ~Starting(n, a)
      /\ Requested(m) <=> Requested(n) \/ (e.type = "server" /\ e.msg = "load")
      /\ Once(m.posted, LoadRequests) =>
            /\ Once(n.posted, LoadRequests)
            /\ e.type = "server" /\ e.msg = "load" => ~Requested(n)
  BY <1>2, <1>3, Seen, Zenon DEF Starting, Ending, Requested
<1>. QED
  BY <1>2, <1>4 DEF Without

\* Activities are made and their starts posted.
LEMMA Made ==
    ASSUME NEW m \in SlaveState, NEW new \in Seq(Activity)
    PROVE  LET n == StartActivities(m, new)
           IN  /\ n \in SlaveState /\ SameControl(m, n) /\ SameHosts(m, n)
               /\ n.process = m.process /\ n.active = m.active /\ n.pending = m.pending
               /\ Len(n.acts) = Len(m.acts) + Len(new) /\ Len(m.acts) \in Nat
               /\ DOMAIN m.acts = 1 .. Len(m.acts)
               /\ DOMAIN n.acts = 1 .. Len(m.acts) + Len(new)
               /\ \A a \in DOMAIN m.acts : a \in DOMAIN n.acts /\ n.acts[a] = m.acts[a]
               /\ \A i \in DOMAIN new : /\ Len(m.acts) + i \in DOMAIN n.acts
                                        /\ n.acts[Len(m.acts) + i] = new[i]
               /\ \A a \in DOMAIN n.acts \ DOMAIN m.acts :
                     a - Len(m.acts) \in DOMAIN new /\ n.acts[a] = new[a - Len(m.acts)]
               /\ \A a \in Nat :
                     /\ Starting(n, a) <=> Starting(m, a) \/ a \in DOMAIN n.acts \ DOMAIN m.acts
                     /\ Ending(n, a) <=> Ending(m, a)
                     /\ Once(m.posted, {StartEvent(a)}) /\ (Starting(m, a) => a \in DOMAIN m.acts)
                        => Once(n.posted, {StartEvent(a)})
               /\ Requested(n) <=> Requested(m)
               /\ Once(m.posted, LoadRequests) => Once(n.posted, LoadRequests)
<1>. DEFINE n == StartActivities(m, new)
            k == Len(m.acts)
            es == [i \in 1 .. Len(new) |-> StartEvent(k + i)]
<1>1. /\ n \in SlaveState /\ n.process = m.process /\ SameControl(m, n) /\ SameHosts(m, n)
      /\ n.active = m.active /\ n.pending = m.pending
      /\ n.acts = m.acts \o new /\ n.posted = m.posted \o es /\ es \in Seq(Event) /\ Len(es) = Len(new)
  BY NewFacts, Zenon
<1>2. /\ k \in Nat /\ DOMAIN m.acts = 1 .. k /\ Len(new) \in Nat /\ DOMAIN new = 1 .. Len(new)
      /\ m.acts \in Seq(Activity) /\ m.posted \in Seq(Event)
  BY StateFacts, LenProperties
<1>3. DOMAIN es = 1 .. Len(new) /\ \A i \in 1 .. Len(new) : es[i] = StartEvent(k + i)
  OBVIOUS
<1>. HIDE DEF n, es, k
<1>4. /\ DOMAIN n.acts = 1 .. k + Len(new) /\ Len(n.acts) = k + Len(new)
      /\ \A a \in DOMAIN m.acts : a \in DOMAIN n.acts /\ n.acts[a] = m.acts[a]
      /\ \A i \in DOMAIN new : n.acts[k + i] = new[i]
  <2>0. m.acts \in Seq(Activity) /\ new \in Seq(Activity)
    BY <1>2
  <2>1. /\ DOMAIN (m.acts \o new) = 1 .. Len(m.acts) + Len(new) /\ m.acts \o new \in Seq(Activity)
        /\ \A a \in DOMAIN m.acts : a \in DOMAIN (m.acts \o new) /\ (m.acts \o new)[a] = m.acts[a]
        /\ \A i \in DOMAIN new : (m.acts \o new)[Len(m.acts) + i] = new[i]
    BY ONLY <2>0, ConcatFacts, SMTT(30)
  <2>2. n.acts \in Seq(Activity) /\ DOMAIN n.acts = 1 .. k + Len(new)
    BY <1>1, <2>1, Zenon DEF k
  <2>3. Len(n.acts) = k + Len(new)
    <3>1. DOMAIN n.acts = 1 .. Len(n.acts) /\ Len(n.acts) \in Nat
      BY <2>2, LenProperties
    <3>2. k + Len(new) \in Nat
      BY <1>2
    <3>. QED
      BY ONLY <2>2, <3>1, <3>2
  <2>. QED
    BY <1>1, <2>1, <2>2, <2>3, Zenon DEF k
<1>5. /\ \A i \in DOMAIN new : k + i \in DOMAIN n.acts
      /\ \A a \in DOMAIN n.acts \ DOMAIN m.acts : a - k \in DOMAIN new /\ n.acts[a] = new[a - k]
  <2>1. \A i \in DOMAIN new : k + i \in DOMAIN n.acts
    BY <1>2, <1>4
  <2>2. ASSUME NEW a \in 1 .. k + Len(new), a \notin 1 .. k
        PROVE  a - k \in DOMAIN new /\ n.acts[a] = new[a - k]
    <3>1. a - k \in 1 .. Len(new) /\ k + (a - k) = a
      BY <1>2, <2>2
    <3>2. n.acts[k + (a - k)] = new[a - k]
      BY <1>2, <1>4, <3>1
    <3>. QED
      BY <1>2, <3>1, <3>2
  <2>. QED
    BY <1>2, <1>4, <2>1, <2>2
<1>6. \A S : /\ Has(n.posted, S) <=> Has(m.posted, S) \/ Has(es, S)
             /\ Once(m.posted, S) /\ Once(es, S) /\ ~(Has(m.posted, S) /\ Has(es, S)) => Once(n.posted, S)
  BY <1>1, <1>2, HasOnceConcat
<1>7. \A i \in DOMAIN es : es[i].type = "start" /\ es[i].act = k + i /\ es[i] \in Event
  BY <1>1, <1>2, <1>3, EventFacts
<1>8. /\ ~Has(es, LoadRequests) /\ Once(es, LoadRequests)
      /\ \A a \in Nat : ~Has(es, {CompleteEvent(a)})
  <2>1. \A i \in DOMAIN es : es[i] \notin LoadRequests /\ \A a \in Nat : es[i] \notin {CompleteEvent(a)}
    BY <1>7, Seen
  <2>. QED
    BY <2>1, Zenon DEF Has, Once
<1>9. \A a \in Nat : /\ Has(es, {StartEvent(a)}) <=> a \in DOMAIN n.acts \ DOMAIN m.acts
                     /\ Once(es, {StartEvent(a)})
  <2>. SUFFICES ASSUME NEW a \in Nat
                PROVE  /\ Has(es, {StartEvent(a)}) <=> a \in DOMAIN n.acts \ DOMAIN m.acts
                       /\ Once(es, {StartEvent(a)})
    OBVIOUS
  <2>1. \A i \in DOMAIN es : es[i] \in {StartEvent(a)} <=> a = k + i
    BY <1>7, Seen
  <2>2. Once(es, {StartEvent(a)})
    BY <1>2, <1>3, <2>1 DEF Once
  <2>3. Has(es, {StartEvent(a)}) <=> \E i \in DOMAIN es : a = k + i
    BY <2>1 DEF Has
  <2>4. (\E i \in DOMAIN es : a = k + i) <=> a \in DOMAIN n.acts \ DOMAIN m.acts
    <3>1. DOMAIN es = 1 .. Len(new) /\ DOMAIN n.acts = 1 .. k + Len(new) /\ DOMAIN m.acts = 1 .. k
          /\ k \in Nat /\ Len(new) \in Nat
      BY <1>2, <1>3, <1>4
    <3>2. ASSUME NEW i \in 1 .. Len(new), a = k + i PROVE a \in 1 .. k + Len(new) /\ a \notin 1 .. k
      BY ONLY <3>1, <3>2
    <3>3. ASSUME a \in 1 .. k + Len(new), a \notin 1 .. k
          PROVE  a - k \in 1 .. Len(new) /\ a = k + (a - k)
      BY ONLY <3>1, <3>3
    <3>. QED
      BY ONLY <3>1, <3>2, <3>3
  <2>. QED
    BY <2>2, <2>3, <2>4
<1>10. /\ \A a \in Nat :
             /\ Starting(n, a) <=> Starting(m, a) \/ a \in DOMAIN n.acts \ DOMAIN m.acts
             /\ Ending(n, a) <=> Ending(m, a)
             /\ Once(m.posted, {StartEvent(a)}) /\ (Starting(m, a) => a \in DOMAIN m.acts)
                => Once(n.posted, {StartEvent(a)})
       /\ Requested(n) <=> Requested(m)
       /\ Once(m.posted, LoadRequests) => Once(n.posted, LoadRequests)
  BY <1>6, <1>8, <1>9, Zenon DEF Starting, Ending, Requested
<1>. QED
  BY <1>1, <1>2, <1>4, <1>5, <1>10 DEF n, k

-----------------------------------------------------------------------------
(***************************************************************************)
(* The first layer over the changes that handlers make.                    *)
(***************************************************************************)
LEMMA Indices ==
    ASSUME NEW m \in SlaveState, Queued(m)
    PROVE  /\ DOMAIN m.acts \subseteq Nat /\ m.active \in Seq(Nat)
           /\ ToSet(m.active) \subseteq DOMAIN m.acts
           /\ \A a \in Nat : Starting(m, a) => a \in DOMAIN m.acts
           /\ \A a \in Nat : Live(m, a) => a \in DOMAIN m.acts
           /\ 0 \notin DOMAIN m.acts
           /\ m.loadTests \in Nat /\ m.loadHosts \in Nat /\ m.configTests \in Nat /\ m.configHosts \in Nat
<1>1. DOMAIN m.acts \subseteq Nat \ {0}
  BY StateFacts, LenProperties
<1>. QED
  BY <1>1, StateFacts DEF Queued, Line, Live

\* Activities differ in who their children are and in whether they succeeded.
Alike(m, n) ==
    /\ DOMAIN n.acts = DOMAIN m.acts /\ Len(n.acts) = Len(m.acts)
    /\ \A b \in DOMAIN m.acts : /\ n.acts[b].kind = m.acts[b].kind
                                /\ n.acts[b].host = m.acts[b].host
                                /\ n.acts[b].name = m.acts[b].name
                                /\ n.acts[b].program = m.acts[b].program
                                /\ n.acts[b].config = m.acts[b].config

\* Whatever changes, it is no start, no request, nor what activities are active;
\* a parent loses children that have ended, or the queue stops.
LEMMA QueuedFrame ==
    ASSUME NEW m \in SlaveState, NEW n \in SlaveState, Queued(m), Alike(m, n),
           n.process \in {m.process, "unfound", "unknown", "malformed"},
           n.active = m.active, n.pending = m.pending,
           n.loadTests = m.loadTests, n.loadHosts = m.loadHosts, n.loading = m.loading,
           n.config = m.config, n.configTests = m.configTests, n.configHosts = m.configHosts,
           n.loadsAnswered = m.loadsAnswered,
           \A b \in DOMAIN m.acts :
              /\ n.acts[b].children \subseteq m.acts[b].children
              /\ \A a \in m.acts[b].children \ n.acts[b].children : ~Live(m, a),
           \A a \in Nat : /\ Starting(n, a) <=> Starting(m, a)
                          /\ Ending(n, a) => Ending(m, a) \/ (a \in DOMAIN n.acts /\ CanEnd(n, a))
                          /\ Once(m.posted, {StartEvent(a)}) => Once(n.posted, {StartEvent(a)}),
           Requested(n) => Requested(m),
           Once(m.posted, LoadRequests) => Once(n.posted, LoadRequests)
    PROVE  Queued(n)
<1>0. /\ DOMAIN m.acts \subseteq Nat /\ DOMAIN n.acts = DOMAIN m.acts
      /\ \A a \in Nat : Live(m, a) => a \in DOMAIN m.acts
      /\ m.loadTests \in Nat /\ m.loadHosts \in Nat /\ m.configTests \in Nat /\ m.configHosts \in Nat
  BY Indices DEF Alike
<1>1. \A a \in Nat : Live(n, a) <=> Live(m, a)
  BY DEF Live
<1>2. \A a \in Nat : Unborn(n, a) <=> Unborn(m, a)
  BY <1>0, <1>1 DEF Unborn
<1>3. Line(n)
  BY <1>0 DEF Line, Queued, Alike
<1>4. Family(n)
  <2>1. \A a \in DOMAIN n.acts : Live(n, a) /\ n.acts[a].kind \in Singles =>
          \E p \in DOMAIN n.acts : a \in n.acts[p].children
    BY <1>0, <1>1, SMTT(30) DEF Family, Queued, Alike
  <2>2. ASSUME NEW p \in DOMAIN n.acts, NEW a \in n.acts[p].children
        PROVE  /\ p \in ToSet(n.active) /\ a \in DOMAIN n.acts
               /\ n.acts[a].kind = KindOfChild(n.acts[p].kind)
               /\ \A q \in DOMAIN n.acts : a \in n.acts[q].children => p = q
               /\ \A b \in n.acts[p].children : n.acts[a].host = n.acts[b].host => a = b
    BY <1>0, SMTT(30) DEF Family, Queued, Alike
  <2>. QED
    BY <1>0, <2>1, <2>2 DEF Family, Queued, Alike
<1>5. Ends(n)
  <2>. SUFFICES ASSUME NEW a \in DOMAIN n.acts, Ending(m, a) PROVE CanEnd(n, a)
    BY <1>0 DEF Ends
  <2>1. CanEnd(m, a)
    BY <1>0 DEF Ends, Queued
  <2>. QED
    BY <1>0, <1>2, <2>1 DEF CanEnd, Alike
<1>6. Busy(n) <=> Busy(m)
  BY <1>0, <1>1 DEF Busy
<1>7. Fronted(n)
  <2>1. Stages(n, "loadHosts", n.loadTests, n.loadHosts)
    BY <1>0, <1>1 DEF Fronted, Queued, Stages, Alike
  <2>2. Stages(n, "hostsConfig", n.configTests, n.configHosts)
    BY <1>0, <1>1 DEF Fronted, Queued, Stages, Alike
  <2>3. Busy(n) => n.loading = n.acts[n.loadHosts].program
    <3>1. Busy(m) => m.loadHosts \in DOMAIN m.acts
      BY <1>0 DEF Busy, Fronted, Queued, Stages
    <3>. QED
      BY <1>6, <3>1 DEF Fronted, Queued, Alike
  <2>. QED
    BY <1>0, <1>1, <1>6, <2>1, <2>2, <2>3 DEF Fronted, Queued
<1>8. Asked(n)
  BY <1>6 DEF Asked, Queued
<1>. QED
  BY <1>3, <1>4, <1>5, <1>7, <1>8 DEF Queued

\* A start is taken, and the activity becomes active.
LEMMA QueuedActivate ==
    ASSUME NEW m \in SlaveState, NEW n \in SlaveState, Queued(m),
           m.posted # << >>, Head(m.posted).type = "start", n.posted = Tail(m.posted),
           n.active = Append(m.active, Head(m.posted).act),
           n.process = m.process, n.pending = m.pending, n.acts = m.acts, SameControl(m, n)
    PROVE  LET a == Head(m.posted).act
           IN  /\ Queued(n) /\ a \in DOMAIN m.acts /\ ToSet(n.active) = ToSet(m.active) \cup {a}
               /\ a \notin ToSet(m.active) /\ Starting(m, a)
               /\ n.acts[a].children = {} /\ ~Ending(n, a)
<1>. DEFINE a == Head(m.posted).act
<1>0. /\ DOMAIN m.acts \subseteq Nat /\ m.active \in Seq(Nat)
      /\ ToSet(m.active) \subseteq DOMAIN m.acts
      /\ \A b \in Nat : Starting(m, b) => b \in DOMAIN m.acts
      /\ \A b \in Nat : Live(m, b) => b \in DOMAIN m.acts
      /\ m.loadTests \in Nat /\ m.loadHosts \in Nat /\ m.configTests \in Nat /\ m.configHosts \in Nat
  BY Indices
<1>1. /\ a \in Nat
      /\ \A b \in Nat : /\ Starting(m, b) <=> Starting(n, b) \/ a = b
                        /\ Ending(m, b) <=> Ending(n, b)
                        /\ Once(n.posted, {StartEvent(b)})
      /\ ~Starting(n, a)
      /\ Requested(n) <=> Requested(m)
      /\ Once(n.posted, LoadRequests)
  <2>1. /\ Head(m.posted) \in Event
        /\ \A b \in Nat : /\ Starting(m, b) <=> Starting(n, b) \/ a = b
                          /\ Ending(m, b) <=> Ending(n, b)
                          /\ Once(m.posted, {StartEvent(b)}) => /\ Once(n.posted, {StartEvent(b)})
                                                                /\ a = b => ~Starting(n, b)
        /\ Requested(n) <=> Requested(m)
        /\ Once(m.posted, LoadRequests) => Once(n.posted, LoadRequests)
    <3>1. Without(m, n, Head(m.posted))
      BY Removed
    <3>. QED
      BY <3>1 DEF Without
  <2>2. a \in Nat
    BY <2>1, EventFacts
  <2>. QED
    BY <2>1, <2>2 DEF Queued, Line, Fronted
<1>. HIDE DEF a
<1>2. Starting(m, a) /\ a \in DOMAIN m.acts /\ a \notin ToSet(m.active)
  BY <1>0, <1>1 DEF Queued, Line
<1>3. ToSet(n.active) = ToSet(m.active) \cup {a}
  <2>1. ToSet(Append(m.active, a)) = ToSet(m.active) \cup {a}
    BY ONLY <1>0, <1>1, AppendElements
  <2>. QED
    BY <2>1 DEF a
<1>4. \A b \in Nat : Live(n, b) <=> Live(m, b)
  BY <1>1, <1>2, <1>3 DEF Live
<1>5. \A b \in Nat : Unborn(n, b) <=> Unborn(m, b)
  BY <1>0, <1>4 DEF Unborn, SameControl
<1>6. Line(n)
  <2>1. \A i, j \in DOMAIN n.active : n.active[i] = n.active[j] => i = j
    <3>1. n.active = Append(m.active, a)
      BY DEF a
    <3>2. /\ DOMAIN n.active = 1 .. Len(m.active) + 1
          /\ \A i \in DOMAIN m.active : n.active[i] = m.active[i]
          /\ n.active[Len(m.active) + 1] = a
      BY ONLY <1>0, <1>1, <3>1, AppendFacts
    <3>3. \A i \in DOMAIN m.active : m.active[i] # a
      BY <1>2, InToSet
    <3>4. DOMAIN m.active = 1 .. Len(m.active) /\ Len(m.active) \in Nat
      BY <1>0, LenProperties
    <3>5. \A i, j \in DOMAIN m.active : m.active[i] = m.active[j] => i = j
      BY DEF Queued, Line
    <3>. QED
      BY ONLY <3>2, <3>3, <3>4, <3>5, SMTT(30)
  <2>2. m.process # "starting"
    BY <1>0, <1>1, <1>2 DEF Queued, Line
  <2>. QED
    BY <1>0, <1>1, <1>2, <1>3, <2>1, <2>2 DEF Queued, Line
<1>7. Family(n)
  BY <1>0, <1>3, <1>4 DEF Queued, Family
<1>8. Ends(n)
  BY <1>0, <1>1, <1>5 DEF Queued, Ends, CanEnd
<1>9. Busy(n) <=> Busy(m)
  BY <1>0, <1>4 DEF Busy, SameControl
<1>10. Fronted(n)
  <2>1. Stages(n, "loadHosts", n.loadTests, n.loadHosts)
    BY <1>0, <1>3, <1>4 DEF Fronted, Queued, Stages, SameControl
  <2>2. Stages(n, "hostsConfig", n.configTests, n.configHosts)
    BY <1>0, <1>3, <1>4 DEF Fronted, Queued, Stages, SameControl
  <2>. QED
    BY <1>0, <1>1, <1>4, <1>9, <2>1, <2>2 DEF Fronted, Queued, SameControl
<1>11. Asked(n)
  BY <1>1, <1>9 DEF Asked, Queued, SameControl
<1>12. n.acts[a].children = {}
  BY <1>2 DEF Queued, Family
<1>13. ~Ending(n, a)
  BY <1>0, <1>1, <1>2 DEF Queued, Ends, CanEnd
<1>14. Queued(n)
  BY <1>6, <1>7, <1>8, <1>10, <1>11 DEF Queued
<1>. QED
  BY <1>2, <1>3, <1>12, <1>13, <1>14 DEF a

\* An activity without children leaves the active ones.
LEMMA QueuedLeave ==
    ASSUME NEW m \in SlaveState, NEW n \in SlaveState, NEW a \in ToSet(m.active), Queued(m),
           n.active = RemoveAt(m.active, At(m, a)), n.posted = m.posted,
           n.process = m.process, n.pending = m.pending, n.acts = m.acts, SameControl(m, n),
           a # Permanent, m.acts[a].children = {}
    PROVE  /\ Queued(n) /\ ToSet(n.active) = ToSet(m.active) \ {a} /\ ~Live(n, a)
           /\ \A b \in Nat : Starting(n, b) <=> Starting(m, b)
           /\ \A b \in Nat : Ending(n, b) <=> Ending(m, b)
           /\ \A b \in Nat : Live(n, b) => Live(m, b)
           /\ Requested(n) <=> Requested(m)
<1>0. /\ DOMAIN m.acts \subseteq Nat /\ m.active \in Seq(Nat)
      /\ ToSet(m.active) \subseteq DOMAIN m.acts
      /\ \A b \in Nat : Live(m, b) => b \in DOMAIN m.acts
      /\ m.loadTests \in Nat /\ m.loadHosts \in Nat /\ m.configTests \in Nat /\ m.configHosts \in Nat
  BY Indices
<1>1. At(m, a) \in DOMAIN m.active /\ m.active[At(m, a)] = a
  <2>1. \E i \in DOMAIN m.active : m.active[i] = a
    BY InToSet
  <2>. QED
    BY <2>1, Zenon DEF At
<1>2. \A i, j \in DOMAIN m.active : m.active[i] = m.active[j] => i = j
  BY DEF Queued, Line
<1>3. /\ ToSet(n.active) = ToSet(m.active) \ {a}
      /\ \A i, j \in DOMAIN n.active : n.active[i] = n.active[j] => i = j
  <2>1. /\ DOMAIN RemoveAt(m.active, At(m, a)) = 1 .. Len(m.active) - 1
        /\ \A i \in DOMAIN RemoveAt(m.active, At(m, a)) :
              RemoveAt(m.active, At(m, a))[i] =
                 IF i < At(m, a) THEN m.active[i] ELSE m.active[i + 1]
        /\ ToSet(RemoveAt(m.active, At(m, a))) = ToSet(m.active) \ {m.active[At(m, a)]}
    <3>1. ASSUME NEW s \in Seq(Nat), NEW k \in DOMAIN s,
                 \A i, j \in DOMAIN s : s[i] = s[j] => i = j
          PROVE  /\ DOMAIN RemoveAt(s, k) = 1 .. Len(s) - 1
                 /\ \A i \in DOMAIN RemoveAt(s, k) :
                       RemoveAt(s, k)[i] = IF i < k THEN s[i] ELSE s[i + 1]
                 /\ ToSet(RemoveAt(s, k)) = ToSet(s) \ {s[k]}
      BY ONLY <3>1, RemoveAtFacts
    <3>. QED
      BY ONLY <1>0, <1>1, <1>2, <3>1
  <2>2. DOMAIN m.active = 1 .. Len(m.active) /\ Len(m.active) \in Nat
    BY <1>0, LenProperties
  <2>3. \A i, j \in DOMAIN n.active : n.active[i] = n.active[j] => i = j
    <3>1. PICK k \in DOMAIN m.active : k = At(m, a)
      BY <1>1
    <3>2. /\ DOMAIN n.active = 1 .. Len(m.active) - 1
          /\ \A i \in DOMAIN n.active : n.active[i] = IF i < k THEN m.active[i] ELSE m.active[i + 1]
      BY <2>1, <3>1
    <3>3. ASSUME NEW i \in DOMAIN n.active, NEW j \in DOMAIN n.active,
                 n.active[i] = n.active[j]
          PROVE  i = j
      <4>1. /\ i \in DOMAIN m.active /\ i + 1 \in DOMAIN m.active
            /\ j \in DOMAIN m.active /\ j + 1 \in DOMAIN m.active
        BY ONLY <2>2, <3>2, i \in DOMAIN n.active, j \in DOMAIN n.active
      <4>2. (IF i < k THEN i ELSE i + 1) = (IF j < k THEN j ELSE j + 1)
        BY ONLY <1>2, <3>2, <3>3, <4>1
      <4>3. i \in Nat /\ j \in Nat /\ k \in Nat
        BY ONLY <2>2, <3>1, <4>1
      <4>. QED
        BY ONLY <4>2, <4>3
    <3>. QED
      BY <3>3
  <2>. QED
    BY <1>1, <2>1, <2>3
<1>4. /\ \A b \in Nat : Starting(n, b) <=> Starting(m, b)
      /\ \A b \in Nat : Ending(n, b) <=> Ending(m, b)
      /\ Requested(n) <=> Requested(m)
  BY DEF Starting, Ending, Requested
<1>5. /\ \A b \in Nat : Live(n, b) => Live(m, b)
      /\ \A b \in Nat : b # a /\ Live(m, b) => Live(n, b)
      /\ ~Live(n, a)
  BY <1>0, <1>3, <1>4 DEF Live, Queued, Line
<1>6. \A b \in Nat : Unborn(n, b) => Unborn(m, b)
  BY <1>0, <1>5 DEF Unborn, SameControl
<1>7. Line(n)
  <2>1. m.process # "starting"
    <3>1. ToSet(m.active) # {}
      OBVIOUS
    <3>. QED
      BY <3>1, EmptyFacts DEF Queued, Line
  <2>2. \A b \in ToSet(n.active) : b \in DOMAIN n.acts /\ ~Starting(n, b)
    BY <1>0, <1>3, <1>4 DEF Queued, Line
  <2>3. \A b \in Nat : Once(n.posted, {StartEvent(b)})
    BY DEF Queued, Line
  <2>4. \A b \in Nat : Starting(n, b) \/ Ending(n, b) => b \in DOMAIN n.acts
    BY <1>4 DEF Queued, Line
  <2>5. n.pending = << >> /\ n.process # "starting"
    BY <2>1 DEF Queued, Line
  <2>. QED
    BY <1>3, <2>2, <2>3, <2>4, <2>5 DEF Line
<1>8. Family(n)
  BY <1>0, <1>3, <1>5 DEF Queued, Family
<1>9. Ends(n)
  BY <1>0, <1>4, <1>6 DEF Queued, Ends, CanEnd
<1>10. Busy(n) => Busy(m)
  BY <1>0, <1>5 DEF Busy, SameControl
<1>11. Fronted(n)
  <2>1. Stages(n, "loadHosts", n.loadTests, n.loadHosts)
    BY <1>0, <1>3, <1>5 DEF Fronted, Queued, Stages, SameControl
  <2>2. Stages(n, "hostsConfig", n.configTests, n.configHosts)
    BY <1>0, <1>3, <1>5 DEF Fronted, Queued, Stages, SameControl
  <2>. QED
    BY <1>0, <1>4, <1>5, <1>10, <2>1, <2>2 DEF Fronted, Queued, SameControl
<1>12. Asked(n)
  BY <1>4, <1>10 DEF Asked, Queued, SameControl
<1>. QED
  BY <1>3, <1>4, <1>5, <1>7, <1>8, <1>9, <1>11, <1>12 DEF Queued

\* What is active and has no children may be complete.
LEMMA ActiveCanEnd ==
    ASSUME NEW m \in SlaveState, Queued(m), NEW a \in ToSet(m.active),
           a # Permanent, m.acts[a].children = {}
    PROVE  a \in DOMAIN m.acts /\ CanEnd(m, a)
<1>1. a \in DOMAIN m.acts /\ ~Starting(m, a)
  BY DEF Queued, Line
<1>2. m.acts[a].kind # "front"
  BY <1>1 DEF Queued, Family, Permanent
<1>3. ~Unborn(m, a)
  BY DEF Unborn, Queued, Fronted, Stages, Live
<1>. QED
  BY <1>1, <1>2, <1>3 DEF CanEnd

\* An activity that was made is started.
LEMMA QueuedStart ==
    ASSUME NEW m \in SlaveState, NEW n \in SlaveState, NEW b \in DOMAIN m.acts, Queued(m),
           n.posted = Append(m.posted, StartEvent(b)), n.process # "starting",
           n.active = m.active, n.pending = m.pending, n.acts = m.acts, SameControl(m, n),
           ~Live(m, b), ~Ending(m, b), b \notin {m.loadTests, m.configTests},
           m.acts[b].kind \notin Singles,
           m.acts[b].kind = "loadHosts" => b = m.loadHosts,
           m.acts[b].kind = "hostsConfig" => b = m.configHosts,
           b = m.loadHosts => /\ ~Live(m, m.loadTests) /\ m.loading = m.acts[b].program
                              /\ ~Requested(m) /\ asked.loads # m.loadsAnswered,
           b = m.configHosts => ~Live(m, m.configTests) /\ m.config # "none"
    PROVE  Queued(n)
<1>0. /\ DOMAIN m.acts \subseteq Nat
      /\ \A c \in Nat : Live(m, c) => c \in DOMAIN m.acts
      /\ m.loadTests \in Nat /\ m.loadHosts \in Nat /\ m.configTests \in Nat /\ m.configHosts \in Nat
      /\ b \in Nat /\ b # 0
  BY Indices
<1>1. /\ \A c \in Nat : /\ Starting(n, c) <=> Starting(m, c) \/ c = b
                        /\ Ending(n, c) <=> Ending(m, c)
                        /\ Once(n.posted, {StartEvent(c)})
      /\ Requested(n) <=> Requested(m)
      /\ Once(n.posted, LoadRequests)
  <2>1. /\ StartEvent(b) \in Event /\ StartEvent(b).type = "start" /\ StartEvent(b).act = b
    BY <1>0, EventFacts
  <2>2. ~Starting(m, b)
    BY DEF Live
  <2>3. (\A c \in Nat : Once(m.posted, {StartEvent(c)})) /\ Once(m.posted, LoadRequests)
    BY DEF Queued, Line, Fronted
  <2>4. PICK e \in Event : e = StartEvent(b)
    BY <2>1
  <2>5. n.posted = Append(m.posted, e) /\ e.type = "start" /\ e.act = b
    BY <2>1, <2>4
  <2>6. /\ \A a \in Nat :
              /\ Starting(n, a) <=> Starting(m, a) \/ (e.type = "start" /\ e.act = a)
              /\ Ending(n, a) <=> Ending(m, a) \/ (e.type = "complete" /\ e.act = a)
              /\ Once(m.posted, {StartEvent(a)})
                 /\ (e.type = "start" /\ e.act = a => ~Starting(m, a))
                 => Once(n.posted, {StartEvent(a)})
        /\ Requested(n) <=> Requested(m) \/ (e.type = "server" /\ e.msg = "load")
        /\ Once(m.posted, LoadRequests) /\ (e.type = "server" /\ e.msg = "load" => ~Requested(m))
           => Once(n.posted, LoadRequests)
    BY ONLY m \in SlaveState, <2>5, Appended
  <2>. QED
    BY ONLY <2>2, <2>3, <2>5, <2>6
<1>2. \A c \in Nat : Live(n, c) <=> Live(m, c) \/ c = b
  BY <1>1 DEF Live
<1>3. \A c \in Nat : Unborn(n, c) <=> Unborn(m, c)
  BY <1>0, <1>2 DEF Unborn, SameControl
<1>4. b \notin ToSet(m.active)
  BY DEF Live
<1>5. Line(n)
  BY <1>0, <1>1, <1>4 DEF Queued, Line
<1>6. Family(n)
  BY <1>0, <1>2 DEF Queued, Family
<1>7. Ends(n)
  BY <1>0, <1>1, <1>3 DEF Queued, Ends, CanEnd
<1>8. Stages(n, "loadHosts", n.loadTests, n.loadHosts)
  BY <1>0, <1>2 DEF Fronted, Queued, Stages, SameControl
<1>9. Stages(n, "hostsConfig", n.configTests, n.configHosts)
  BY <1>0, <1>2 DEF Fronted, Queued, Stages, SameControl
<1>10. Busy(n) <=> Busy(m) \/ b = m.loadHosts
  BY <1>0, <1>2 DEF Busy, SameControl
<1>11. Fronted(n)
  BY <1>0, <1>1, <1>2, <1>8, <1>9, <1>10 DEF Fronted, Queued, SameControl
<1>12. Asked(n)
  BY <1>1, <1>10 DEF Asked, Queued, SameControl
<1>. QED
  BY <1>5, <1>6, <1>7, <1>11, <1>12 DEF Queued

\* Activities are made and started: tests of all hosts, or the children of p.
Grown(m, n, p, made) ==
    /\ n.active = m.active /\ n.pending = m.pending /\ n.process = m.process
    /\ SameControl(m, n) /\ m.process # "starting"
    /\ DOMAIN n.acts = DOMAIN m.acts \cup made /\ made \subseteq Nat
    /\ made \cap DOMAIN m.acts = {}
    /\ \A a \in made : n.acts[a].children = {} /\ n.acts[a].host \in Clients \cup {NoClient}
    /\ \A b \in DOMAIN m.acts : /\ n.acts[b].kind = m.acts[b].kind
                                /\ n.acts[b].host = m.acts[b].host
                                /\ n.acts[b].program = m.acts[b].program
                                /\ b # p => n.acts[b].children = m.acts[b].children
    /\ \A a \in Nat : /\ Starting(n, a) <=> Starting(m, a) \/ a \in made
                      /\ Ending(n, a) <=> Ending(m, a)
                      /\ Once(m.posted, {StartEvent(a)}) /\ (Starting(m, a) => a \in DOMAIN m.acts)
                         => Once(n.posted, {StartEvent(a)})
    /\ Requested(n) <=> Requested(m)
    /\ Once(m.posted, LoadRequests) => Once(n.posted, LoadRequests)

AsTests(m, n, p, made) ==
    /\ n.acts[p].children = m.acts[p].children
    /\ \A a \in made : n.acts[a].kind = "testHosts"

\* The activities made are the children of p, each of a host of its own.
AsChildren(m, n, p, made) ==
    /\ p \in ToSet(m.active) /\ m.acts[p].children = {} /\ ~Ending(m, p)
    /\ n.acts[p].children = made /\ KindOfChild(m.acts[p].kind) \in Singles
    /\ \A a \in made : /\ n.acts[a].kind = KindOfChild(m.acts[p].kind)
                       /\ n.acts[a].host \in Clients
    /\ \A a, b \in made : n.acts[a].host = n.acts[b].host => a = b

LEMMA QueuedNew ==
    ASSUME NEW m \in SlaveState, NEW n \in SlaveState, NEW made, NEW p \in DOMAIN m.acts, Queued(m),
           Grown(m, n, p, made), AsTests(m, n, p, made) \/ AsChildren(m, n, p, made)
    PROVE  Queued(n)
<1>. USE DEF Grown, AsTests, AsChildren
<1>0. /\ DOMAIN m.acts \subseteq Nat /\ ToSet(m.active) \subseteq DOMAIN m.acts
      /\ \A a \in Nat : Live(m, a) => a \in DOMAIN m.acts
      /\ \A a \in Nat : Starting(m, a) => a \in DOMAIN m.acts
      /\ m.loadTests \in Nat /\ m.loadHosts \in Nat /\ m.configTests \in Nat /\ m.configHosts \in Nat
      /\ 0 \notin DOMAIN m.acts
  BY Indices
<1>1. \A a \in Nat : Live(n, a) <=> Live(m, a) \/ a \in made
  BY DEF Live
<1>2. 0 \notin made /\ DOMAIN n.acts \subseteq Nat
  <2>1. DOMAIN n.acts = 1 .. Len(n.acts) /\ Len(n.acts) \in Nat
    BY StateFacts, LenProperties
  <2>. QED
    BY <2>1
<1>3. /\ m.loadTests \notin made /\ m.loadHosts \notin made
      /\ m.configTests \notin made /\ m.configHosts \notin made
  BY <1>2 DEF Queued, Fronted, Stages
<1>4. \A a \in Nat : Unborn(n, a) <=> Unborn(m, a)
  BY <1>0, <1>1, <1>3 DEF Unborn, SameControl
<1>5. Line(n)
  <2>1. \A a \in ToSet(n.active) : a \in DOMAIN n.acts /\ ~Starting(n, a)
    BY <1>0 DEF Queued, Line
  <2>. QED
    BY <1>0, <2>1 DEF Queued, Line
<1>6. \A a \in made : n.acts[a].kind \in Singles \cup {"testHosts"}
  OBVIOUS
<1>7. Family(n)
  <2>1. /\ 1 \in DOMAIN n.acts
        /\ \A a \in DOMAIN n.acts : /\ n.acts[a].kind = "front" <=> a = 1
                                    /\ n.acts[a].kind \in Singles => n.acts[a].host \in Clients
    BY <1>6 DEF Queued, Family, Singles
  <2>2. ASSUME NEW q \in DOMAIN n.acts, NEW a \in n.acts[q].children
        PROVE  /\ q \in ToSet(n.active) /\ a \in DOMAIN n.acts
               /\ n.acts[a].kind = KindOfChild(n.acts[q].kind)
               /\ \A r \in DOMAIN n.acts : a \in n.acts[r].children => q = r
               /\ \A b \in n.acts[q].children : n.acts[a].host = n.acts[b].host => a = b
    <3>1. q \in DOMAIN m.acts
      BY <2>2
    <3>0. ASSUME NEW r \in DOMAIN n.acts, NEW b \in n.acts[r].children
          PROVE  /\ r \in DOMAIN m.acts
                 /\ \/ b \in m.acts[r].children /\ b \in DOMAIN m.acts
                    \/ r = p /\ b \in made /\ m.acts[r].children = {}
      <4>1. r \in DOMAIN m.acts
        BY <3>0
      <4>2. b \in m.acts[r].children => b \in DOMAIN m.acts
        BY <4>1 DEF Queued, Family
      <4>. QED
        BY <3>0, <4>1, <4>2
    <3>2. CASE a \in m.acts[q].children
      <4>1. /\ q \in ToSet(m.active) /\ a \in DOMAIN m.acts
            /\ m.acts[a].kind = KindOfChild(m.acts[q].kind)
            /\ \A r \in DOMAIN m.acts : a \in m.acts[r].children => q = r
            /\ \A b \in m.acts[q].children : m.acts[a].host = m.acts[b].host => a = b
        BY <3>1, <3>2 DEF Queued, Family
      <4>2. \A r \in DOMAIN n.acts : a \in n.acts[r].children => q = r
        BY <3>0, <4>1
      <4>3. ASSUME NEW b \in n.acts[q].children, n.acts[a].host = n.acts[b].host PROVE a = b
        <5>1. b \in m.acts[q].children /\ b \in DOMAIN m.acts
          BY <3>0, <3>2
        <5>. QED
          BY <4>1, <4>3, <5>1
      <4>4. n.acts[a].kind = KindOfChild(n.acts[q].kind)
        BY <3>1, <4>1
      <4>. QED
        BY <4>1, <4>2, <4>3, <4>4
    <3>3. CASE a \notin m.acts[q].children
      <4>1. /\ q = p /\ a \in made
            /\ p \in ToSet(m.active) /\ m.acts[p].children = {}
            /\ n.acts[p].children = made /\ n.acts[a].kind = KindOfChild(m.acts[p].kind)
            /\ \A b \in made : n.acts[a].host = n.acts[b].host => a = b
        BY <2>2, <3>1, <3>3
      <4>2. \A r \in DOMAIN n.acts : a \in n.acts[r].children => p = r
        BY <3>0, <4>1
      <4>. QED
        BY <4>1, <4>2
    <3>. QED
      BY <3>2, <3>3
  <2>3. ASSUME NEW a \in DOMAIN n.acts, Live(n, a), n.acts[a].kind \in Singles
        PROVE  \E q \in DOMAIN n.acts : a \in n.acts[q].children
    <3>1. CASE a \in made
      BY <2>3, <3>1 DEF Singles
    <3>2. CASE a \notin made
      <4>1. a \in DOMAIN m.acts /\ Live(m, a) /\ m.acts[a].kind \in Singles
        BY <1>0, <1>1, <2>3, <3>2
      <4>2. PICK q \in DOMAIN m.acts : a \in m.acts[q].children
        BY <4>1 DEF Queued, Family
      <4>3. a \in n.acts[q].children
        BY <4>2
      <4>. QED
        BY <4>3
    <3>. QED
      BY <3>1, <3>2
  <2>. QED
    BY <2>1, <2>2, <2>3 DEF Family
<1>8. Ends(n)
  <2>. SUFFICES ASSUME NEW a \in DOMAIN n.acts, Ending(n, a) PROVE CanEnd(n, a)
    BY DEF Ends
  <2>1. a \in DOMAIN m.acts /\ CanEnd(m, a)
    BY <1>0, <1>2 DEF Queued, Line, Ends
  <2>. QED
    BY <1>0, <1>4, <2>1 DEF CanEnd
<1>9. Stages(n, "loadHosts", n.loadTests, n.loadHosts)
  <2>1. Stages(m, "loadHosts", m.loadTests, m.loadHosts)
    BY DEF Queued, Fronted
  <2>2. n.loadTests = m.loadTests /\ n.loadHosts = m.loadHosts
    BY DEF SameControl
  <2>3. \A a \in DOMAIN n.acts : Live(n, a) /\ n.acts[a].kind = "loadHosts" => a = m.loadHosts
    <3>1. \A a \in made : n.acts[a].kind # "loadHosts"
      BY ONLY <1>6 DEF Singles
    <3>. QED
      BY <1>0, <1>1, <2>1, <3>1 DEF Stages
  <2>4. ~(Live(n, m.loadTests) /\ Live(n, m.loadHosts))
    BY <1>0, <1>1, <1>3, <2>1 DEF Stages
  <2>. QED
    BY <2>1, <2>2, <2>3, <2>4 DEF Stages
<1>10. Stages(n, "hostsConfig", n.configTests, n.configHosts)
  <2>1. Stages(m, "hostsConfig", m.configTests, m.configHosts)
    BY DEF Queued, Fronted
  <2>2. n.configTests = m.configTests /\ n.configHosts = m.configHosts
    BY DEF SameControl
  <2>3. \A a \in DOMAIN n.acts : Live(n, a) /\ n.acts[a].kind = "hostsConfig" => a = m.configHosts
    <3>1. \A a \in made : n.acts[a].kind # "hostsConfig"
      BY ONLY <1>6 DEF Singles
    <3>. QED
      BY <1>0, <1>1, <2>1, <3>1 DEF Stages
  <2>4. ~(Live(n, m.configTests) /\ Live(n, m.configHosts))
    BY <1>0, <1>1, <1>3, <2>1 DEF Stages
  <2>. QED
    BY <2>1, <2>2, <2>3, <2>4 DEF Stages
<1>11. Busy(n) <=> Busy(m)
  BY <1>0, <1>1, <1>3 DEF Busy, SameControl
<1>12. Fronted(n)
  <2>1. Busy(n) => n.loading = n.acts[n.loadHosts].program
    <3>1. Busy(m) => m.loadHosts \in DOMAIN m.acts
      BY <1>0 DEF Busy, Fronted, Queued, Stages
    <3>. QED
      BY <1>11, <3>1 DEF Fronted, Queued, SameControl
  <2>. QED
    BY <1>0, <1>1, <1>3, <1>9, <1>10, <1>11, <2>1 DEF Fronted, Queued, SameControl
<1>13. Asked(n)
  BY <1>11 DEF Asked, Queued, SameControl
<1>. QED
  BY <1>5, <1>7, <1>8, <1>12, <1>13 DEF Queued

-----------------------------------------------------------------------------
(***************************************************************************)
(* Orders of hosts.                                                        *)
(***************************************************************************)
LEMMA OrdersFacts ==
    ASSUME NEW S \in SUBSET Clients, NEW s \in Orders(S)
    PROVE  /\ s \in Seq(Clients) /\ DOMAIN s = 1 .. Len(s) /\ Len(s) \in Nat
           /\ \A i \in DOMAIN s : s[i] \in S
           /\ \A c \in S : \E i \in DOMAIN s : s[i] = c
           /\ \A i, j \in DOMAIN s : s[i] = s[j] => i = j
<1>. DEFINE k == Cardinality(S)
<1>1. IsFiniteSet(S) /\ k \in Nat
  BY Constants, FS_Subset, FS_CardinalityType
<1>2. s \in [1 .. k -> S] /\ \A i, j \in 1 .. k : s[i] = s[j] => i = j
  BY DEF Orders
<1>. HIDE DEF k
<1>3. \A c \in S : \E i \in 1 .. k : s[i] = c
  <2>1. s \in Injection(1 .. k, S)
    BY <1>2 DEF Injection, IsInjective
  <2>2. IsFiniteSet(1 .. k) /\ Cardinality(1 .. k) = k
    <3>1. 1 \in Int /\ k \in Int
      BY <1>1
    <3>2. /\ IsFiniteSet(1 .. k)
          /\ Cardinality(1 .. k) = IF 1 > k THEN 0 ELSE k - 1 + 1
      BY <3>1, FS_Interval, Zenon
    <3>. QED
      BY <1>1, <3>2
  <2>3. s \in Surjection(1 .. k, S)
    BY <1>1, <2>1, <2>2, FS_Injection DEF k
  <2>. QED
    BY <2>3 DEF Surjection
<1>4. s \in Seq(Clients) /\ DOMAIN s = 1 .. k /\ Len(s) = k
  BY <1>1, <1>2
<1>. QED
  BY <1>1, <1>2, <1>3, <1>4

LEMMA VisitsFacts ==
    ASSUME NEW m, NEW S, NEW s \in Visits(S, m)
    PROVE  s \in Orders(S)
BY DEF Visits

-----------------------------------------------------------------------------
(***************************************************************************)
(* An activity that makes its children.                                    *)
(***************************************************************************)
LEMMA ActFacts ==
    ASSUME NEW m \in SlaveState, NEW a \in DOMAIN m.acts, NEW act \in Activity
    PROVE  LET n == [m EXCEPT !.acts[a] = act]
           IN  /\ n \in SlaveState /\ n.posted = m.posted
               /\ n.process = m.process /\ n.active = m.active /\ n.pending = m.pending
               /\ SameControl(m, n) /\ SameHosts(m, n)
               /\ n.acts \in Seq(Activity) /\ DOMAIN n.acts = DOMAIN m.acts
               /\ Len(n.acts) = Len(m.acts) /\ n.acts[a] = act
               /\ \A b \in DOMAIN m.acts : b # a => n.acts[b] = m.acts[b]
<1>1. m.acts \in Seq(Activity)
  BY StateFacts
<1>2. PICK acts : acts = [m.acts EXCEPT ![a] = act]
  OBVIOUS
<1>3. /\ acts \in Seq(Activity) /\ DOMAIN acts = DOMAIN m.acts /\ Len(acts) = Len(m.acts)
      /\ acts[a] = act /\ \A b \in DOMAIN m.acts : b # a => acts[b] = m.acts[b]
  BY <1>1, <1>2
<1>4. PICK n : n = [m EXCEPT !.acts = acts]
  OBVIOUS
<1>5. [m EXCEPT !.acts[a] = act] = n
  BY <1>2, <1>4
<1>6. /\ n \in SlaveState /\ n.acts = acts /\ n.posted = m.posted
      /\ n.process = m.process /\ n.active = m.active /\ n.pending = m.pending
      /\ SameControl(m, n) /\ SameHosts(m, n)
  BY <1>3, <1>4, ActsFacts
<1>. QED
  BY ONLY <1>3, <1>5, <1>6

LEMMA SomeChildren ==
    ASSUME NEW m \in SlaveState, NEW a \in DOMAIN m.acts, NEW new \in Seq(Activity), new # << >>
    PROVE  LET n == StartChildren(m, a, new)
               made == DOMAIN n.acts \ DOMAIN m.acts
           IN  /\ n \in SlaveState /\ SameControl(m, n) /\ SameHosts(m, n)
               /\ n.process = m.process /\ n.active = m.active /\ n.pending = m.pending
               /\ made \subseteq Nat /\ DOMAIN n.acts = DOMAIN m.acts \cup made
               /\ n.acts[a] = [m.acts[a] EXCEPT !.children = made]
               /\ \A b \in DOMAIN m.acts : b # a => n.acts[b] = m.acts[b]
               /\ \A i \in DOMAIN new : /\ Len(m.acts) + i \in made
                                        /\ n.acts[Len(m.acts) + i] = new[i]
               /\ \A b \in made : b - Len(m.acts) \in DOMAIN new /\ n.acts[b] = new[b - Len(m.acts)]
               /\ Len(m.acts) \in Nat
               /\ \A b \in Nat :
                     /\ Starting(n, b) <=> Starting(m, b) \/ b \in made
                     /\ Ending(n, b) <=> Ending(m, b)
                     /\ Once(m.posted, {StartEvent(b)}) /\ (Starting(m, b) => b \in DOMAIN m.acts)
                        => Once(n.posted, {StartEvent(b)})
               /\ Requested(n) <=> Requested(m)
               /\ Once(m.posted, LoadRequests) => Once(n.posted, LoadRequests)
<1>. DEFINE fresh == {Len(m.acts) + i : i \in DOMAIN new}
            act == [m.acts[a] EXCEPT !.children = fresh]
            l == [m EXCEPT !.acts[a] = act]
            n == StartActivities(l, new)
<1>1. /\ m.acts \in Seq(Activity) /\ Len(m.acts) \in Nat /\ DOMAIN m.acts = 1 .. Len(m.acts)
      /\ DOMAIN new = 1 .. Len(new) /\ Len(new) \in Nat /\ m.acts[a] \in Activity
  BY StateFacts, LenProperties
<1>2. fresh \in SUBSET Nat
  BY <1>1
<1>3. act \in Activity
  <2>. HIDE DEF fresh
  <2>. QED
    BY <1>1, <1>2, ActivityFacts
<1>4. StartChildren(m, a, new) = n
  BY DEF StartChildren
<1>. HIDE DEF fresh
<1>5. act.children = fresh
  BY <1>1, <1>2, ActivityFacts
<1>. HIDE DEF act
<1>6. /\ l \in SlaveState /\ l.posted = m.posted
      /\ l.process = m.process /\ l.active = m.active /\ l.pending = m.pending
      /\ SameControl(m, l) /\ SameHosts(m, l)
      /\ DOMAIN l.acts = DOMAIN m.acts
      /\ Len(l.acts) = Len(m.acts) /\ l.acts[a] = act
      /\ \A b \in DOMAIN m.acts : b # a => l.acts[b] = m.acts[b]
  BY <1>3, ActFacts
<1>. HIDE DEF l
<1>7. /\ n \in SlaveState /\ SameControl(l, n) /\ SameHosts(l, n)
      /\ n.process = l.process /\ n.active = l.active /\ n.pending = l.pending
      /\ DOMAIN n.acts = 1 .. Len(l.acts) + Len(new)
      /\ \A b \in DOMAIN l.acts : b \in DOMAIN n.acts /\ n.acts[b] = l.acts[b]
      /\ \A i \in DOMAIN new : /\ Len(l.acts) + i \in DOMAIN n.acts
                               /\ n.acts[Len(l.acts) + i] = new[i]
      /\ \A b \in DOMAIN n.acts \ DOMAIN l.acts :
            b - Len(l.acts) \in DOMAIN new /\ n.acts[b] = new[b - Len(l.acts)]
      /\ \A b \in Nat :
            /\ Starting(n, b) <=> Starting(l, b) \/ b \in DOMAIN n.acts \ DOMAIN l.acts
            /\ Ending(n, b) <=> Ending(l, b)
            /\ Once(l.posted, {StartEvent(b)}) /\ (Starting(l, b) => b \in DOMAIN l.acts)
               => Once(n.posted, {StartEvent(b)})
      /\ Requested(n) <=> Requested(l)
      /\ Once(l.posted, LoadRequests) => Once(n.posted, LoadRequests)
  <2>1. l \in SlaveState
    BY <1>6
  <2>. QED
    BY ONLY <2>1, new \in Seq(Activity), Made, ZenonT(60)
<1>. HIDE DEF n
<1>8. DOMAIN n.acts \ DOMAIN m.acts = fresh
  <2>1. DOMAIN n.acts = 1 .. Len(m.acts) + Len(new)
    BY <1>6, <1>7
  <2>2. ASSUME NEW x \in fresh PROVE x \in DOMAIN n.acts \ DOMAIN m.acts
    <3>1. PICK i \in 1 .. Len(new) : x = Len(m.acts) + i
      BY <1>1, <2>2 DEF fresh
    <3>. QED
      BY ONLY <1>1, <2>1, <3>1
  <2>3. ASSUME NEW x \in DOMAIN n.acts \ DOMAIN m.acts PROVE x \in fresh
    <3>1. x - Len(m.acts) \in 1 .. Len(new) /\ x = Len(m.acts) + (x - Len(m.acts))
      BY ONLY <1>1, <2>1, <2>3
    <3>. QED
      BY ONLY <1>1, <3>1 DEF fresh
  <2>. QED
    BY <2>2, <2>3
<1>9. \A b : Starting(l, b) <=> Starting(m, b)
  BY <1>6 DEF Starting
<1>10. \A b : Ending(l, b) <=> Ending(m, b)
  BY <1>6 DEF Ending
<1>11. Requested(l) <=> Requested(m)
  BY <1>6 DEF Requested
<1>12. SameControl(m, n) /\ SameHosts(m, n)
  BY <1>6, <1>7 DEF SameControl, SameHosts
<1>13. \A i \in DOMAIN new : /\ Len(m.acts) + i \in fresh
                             /\ n.acts[Len(m.acts) + i] = new[i]
  BY <1>6, <1>7 DEF fresh
<1>14. DOMAIN n.acts = DOMAIN m.acts \cup fresh
  BY <1>6, <1>7, <1>8
<1>. QED
  BY <1>1, <1>2, <1>4, <1>6, <1>7, <1>8, <1>9, <1>10, <1>11, <1>12, <1>13, <1>14 DEF act

LEMMA QueuedComplete ==
    ASSUME NEW m \in SlaveState, NEW a \in ToSet(m.active), Queued(m),
           a # Permanent, m.acts[a].children = {}
    PROVE  Complete(m, a) \in SlaveState /\ Queued(Complete(m, a))
<1>1. a \in DOMAIN m.acts /\ CanEnd(m, a) /\ a \in Nat
  BY ActiveCanEnd, Indices
<1>2. PICK n : n = Complete(m, a)
  OBVIOUS
<1>3. /\ n \in SlaveState /\ n.posted = Append(m.posted, CompleteEvent(a))
      /\ SameQueue(m, n) /\ SameControl(m, n)
  BY <1>1, <1>2, CompleteFacts
<1>4. PICK e \in Event : e = CompleteEvent(a) /\ e.type = "complete" /\ e.act = a
  BY <1>1, EventFacts
<1>5. n.posted = Append(m.posted, e)
  BY <1>3, <1>4
<1>6. /\ \A b \in Nat :
            /\ Starting(n, b) <=> Starting(m, b)
            /\ Ending(n, b) <=> Ending(m, b) \/ b = a
            /\ Once(m.posted, {StartEvent(b)}) => Once(n.posted, {StartEvent(b)})
      /\ Requested(n) <=> Requested(m)
      /\ Once(m.posted, LoadRequests) => Once(n.posted, LoadRequests)
  <2>1. /\ \A b \in Nat :
              /\ Starting(n, b) <=> Starting(m, b) \/ (e.type = "start" /\ e.act = b)
              /\ Ending(n, b) <=> Ending(m, b) \/ (e.type = "complete" /\ e.act = b)
              /\ Once(m.posted, {StartEvent(b)})
                 /\ (e.type = "start" /\ e.act = b => ~Starting(m, b))
                 => Once(n.posted, {StartEvent(b)})
        /\ Requested(n) <=> Requested(m) \/ (e.type = "server" /\ e.msg = "load")
        /\ Once(m.posted, LoadRequests) /\ (e.type = "server" /\ e.msg = "load" => ~Requested(m))
           => Once(n.posted, LoadRequests)
    BY ONLY m \in SlaveState, <1>5, Appended
  <2>. QED
    BY ONLY <1>4, <2>1
<1>7. CanEnd(n, a)
  <2>1. Unborn(n, a) => Unborn(m, a)
    BY <1>3, <1>6, Indices DEF Unborn, Live, SameControl, SameQueue
  <2>. QED
    BY <1>1, <1>3, <1>6, <2>1 DEF CanEnd, SameQueue
<1>8. Alike(m, n)
  BY <1>3 DEF Alike, SameQueue
<1>9. Queued(n)
  BY <1>1, <1>3, <1>6, <1>7, <1>8, QueuedFrame DEF SameQueue, SameControl
<1>. QED
  BY <1>2, <1>3, <1>9

LEMMA QueuedChildren ==
    ASSUME NEW m \in SlaveState, NEW a \in ToSet(m.active), NEW new \in Seq(Activity), Queued(m),
           m.acts[a].children = {}, ~Ending(m, a), KindOfChild(m.acts[a].kind) \in Singles,
           \A i \in DOMAIN new : /\ new[i].kind = KindOfChild(m.acts[a].kind)
                                 /\ new[i].host \in Clients /\ new[i].children = {},
           \A i, j \in DOMAIN new : new[i].host = new[j].host => i = j
    PROVE  StartChildren(m, a, new) \in SlaveState /\ Queued(StartChildren(m, a, new))
<1>0. a \in DOMAIN m.acts /\ m.process # "starting" /\ a # Permanent
  <2>1. a \in DOMAIN m.acts
    BY Indices
  <2>2. m.process # "starting"
    <3>1. ToSet(m.active) # {}
      OBVIOUS
    <3>. QED
      BY <3>1, EmptyFacts DEF Queued, Line
  <2>3. m.acts[a].kind # "front"
    BY DEF KindOfChild, Singles
  <2>. QED
    BY <2>1, <2>2, <2>3 DEF Queued, Family, Permanent
<1>1. CASE new = << >>
  BY <1>0, <1>1, QueuedComplete DEF StartChildren
<1>2. CASE new # << >>
  <2>. DEFINE n == StartChildren(m, a, new)
              made == DOMAIN n.acts \ DOMAIN m.acts
  <2>2. /\ n \in SlaveState /\ SameControl(m, n) /\ SameHosts(m, n)
        /\ n.process = m.process /\ n.active = m.active /\ n.pending = m.pending
        /\ made \subseteq Nat /\ DOMAIN n.acts = DOMAIN m.acts \cup made
        /\ n.acts[a] = [m.acts[a] EXCEPT !.children = made]
        /\ \A b \in DOMAIN m.acts : b # a => n.acts[b] = m.acts[b]
        /\ \A i \in DOMAIN new : /\ Len(m.acts) + i \in made
                                 /\ n.acts[Len(m.acts) + i] = new[i]
        /\ \A b \in made : b - Len(m.acts) \in DOMAIN new /\ n.acts[b] = new[b - Len(m.acts)]
        /\ Len(m.acts) \in Nat
        /\ \A b \in Nat :
              /\ Starting(n, b) <=> Starting(m, b) \/ b \in made
              /\ Ending(n, b) <=> Ending(m, b)
              /\ Once(m.posted, {StartEvent(b)}) /\ (Starting(m, b) => b \in DOMAIN m.acts)
                 => Once(n.posted, {StartEvent(b)})
        /\ Requested(n) <=> Requested(m)
        /\ Once(m.posted, LoadRequests) => Once(n.posted, LoadRequests)
    BY ONLY m \in SlaveState, <1>0, new \in Seq(Activity), <1>2, SomeChildren, Zenon
  <2>3. made \cap DOMAIN m.acts = {}
    OBVIOUS
  <2>. HIDE DEF n, made
  <2>4. /\ n.acts[a].children = made /\ n.acts[a].kind = m.acts[a].kind
        /\ n.acts[a].host = m.acts[a].host /\ n.acts[a].program = m.acts[a].program
    <3>1. m.acts[a] \in Activity /\ made \in SUBSET Nat
      BY <1>0, <2>2, StateFacts
    <3>. QED
      BY <2>2, <3>1, ActivityFacts
  <2>5. \A b \in made : /\ n.acts[b].kind = KindOfChild(m.acts[a].kind)
                        /\ n.acts[b].host \in Clients /\ n.acts[b].children = {}
    BY <2>2
  <2>6. \A b, c \in made : n.acts[b].host = n.acts[c].host => b = c
    <3>. SUFFICES ASSUME NEW b \in made, NEW c \in made, n.acts[b].host = n.acts[c].host
                  PROVE  b = c
      OBVIOUS
    <3>1. b - Len(m.acts) = c - Len(m.acts)
      BY <2>2
    <3>. QED
      BY <2>2, <3>1
  <2>7. Queued(n)
    <3>1. \A b \in DOMAIN m.acts : /\ n.acts[b].kind = m.acts[b].kind
                                   /\ n.acts[b].host = m.acts[b].host
                                   /\ n.acts[b].program = m.acts[b].program
                                   /\ b # a => n.acts[b].children = m.acts[b].children
      BY <2>2, <2>4
    <3>2. \A b \in made : n.acts[b].children = {} /\ n.acts[b].host \in Clients \cup {NoClient}
      BY <2>5
    <3>3. AsChildren(m, n, a, made)
      BY <2>4, <2>5, <2>6 DEF AsChildren
    <3>4. Grown(m, n, a, made)
      BY <1>0, <2>2, <2>3, <3>1, <3>2 DEF Grown
    <3>. QED
      BY <1>0, <2>2, <3>3, <3>4, QueuedNew
  <2>. QED
    BY <2>2, <2>7 DEF n
<1>. QED
  BY <1>1, <1>2

\* The "test" command.
LEMMA QueuedTest ==
    ASSUME NEW m \in SlaveState, Queued(m), m.process # "starting"
    PROVE  LET n == StartActivities(m, <<NewActivity("testHosts")>>)
               a == Len(m.acts) + 1
           IN  /\ n \in SlaveState /\ Queued(n) /\ SameControl(m, n) /\ SameHosts(m, n)
               /\ n.process = m.process /\ n.active = m.active /\ n.pending = m.pending
               /\ Len(n.acts) = a /\ DOMAIN n.acts = DOMAIN m.acts \cup {a}
               /\ a \notin DOMAIN m.acts /\ Live(n, a)
               /\ n.acts[a] = NewActivity("testHosts") /\ ~Ending(n, a)
               /\ \A b \in DOMAIN m.acts : n.acts[b] = m.acts[b]
               /\ \A b \in Nat : /\ Starting(n, b) <=> Starting(m, b) \/ b = a
                                 /\ Ending(n, b) <=> Ending(m, b)
               /\ Requested(n) <=> Requested(m)
<1>. DEFINE act == NewActivity("testHosts")
            new == <<act>>
            n == StartActivities(m, new)
            a == Len(m.acts) + 1
<1>2. act \in Activity /\ act.kind = "testHosts" /\ act.children = {}
  BY NewActivityFacts DEF Kinds
<1>. HIDE DEF act
<1>3. new \in Seq(Activity) /\ DOMAIN new = {1} /\ Len(new) = 1 /\ new[1] = act
  BY <1>2
<1>. HIDE DEF new
<1>5. /\ n \in SlaveState /\ SameControl(m, n) /\ SameHosts(m, n)
      /\ n.process = m.process /\ n.active = m.active /\ n.pending = m.pending
      /\ Len(n.acts) = Len(m.acts) + Len(new) /\ Len(m.acts) \in Nat
      /\ DOMAIN m.acts = 1 .. Len(m.acts)
      /\ DOMAIN n.acts = 1 .. Len(m.acts) + Len(new)
      /\ \A b \in DOMAIN m.acts : b \in DOMAIN n.acts /\ n.acts[b] = m.acts[b]
      /\ \A i \in DOMAIN new : /\ Len(m.acts) + i \in DOMAIN n.acts
                               /\ n.acts[Len(m.acts) + i] = new[i]
      /\ \A b \in Nat :
            /\ Starting(n, b) <=> Starting(m, b) \/ b \in DOMAIN n.acts \ DOMAIN m.acts
            /\ Ending(n, b) <=> Ending(m, b)
            /\ Once(m.posted, {StartEvent(b)}) /\ (Starting(m, b) => b \in DOMAIN m.acts)
               => Once(n.posted, {StartEvent(b)})
      /\ Requested(n) <=> Requested(m)
      /\ Once(m.posted, LoadRequests) => Once(n.posted, LoadRequests)
  BY <1>3, Made, ZenonT(60)
<1>. HIDE DEF n
<1>6. DOMAIN n.acts \ DOMAIN m.acts = {a} /\ DOMAIN n.acts = DOMAIN m.acts \cup {a} /\ a \in Nat
  BY <1>3, <1>5
<1>7. n.acts[a] = act
  BY <1>3, <1>5
<1>. HIDE DEF a
<1>8. Queued(n)
  <2>1. 1 \in DOMAIN m.acts /\ m.acts[1] \in Activity
    BY StateFacts DEF Queued, Family
  <2>2. n.acts[a].host \in Clients \cup {NoClient}
    BY <1>2, <1>7, ActivityFacts
  <2>3. {a} \subseteq Nat /\ {a} \cap DOMAIN m.acts = {}
    BY <1>6
  <2>4. AsTests(m, n, 1, {a})
    BY <1>2, <1>5, <1>7, <2>1 DEF AsTests
  <2>5. \A b \in {a} : n.acts[b].children = {} /\ n.acts[b].host \in Clients \cup {NoClient}
    BY <1>2, <1>7, <2>2
  <2>6. Grown(m, n, 1, {a})
    BY <1>5, <1>6, <2>3, <2>5 DEF Grown
  <2>. QED
    BY <1>5, <2>1, <2>4, <2>6, QueuedNew
<1>9. ~Ending(m, a)
  BY <1>6 DEF Queued, Line
<1>10. Live(n, a)
  BY <1>5, <1>6 DEF Live
<1>. QED
  BY <1>3, <1>5, <1>6, <1>7, <1>8, <1>9, <1>10 DEF act, new, n, a

-----------------------------------------------------------------------------
(***************************************************************************)
(* LoadProgramActivity and ConfigActivity take up a request and answer it. *)
(***************************************************************************)
LEMMA QueuedLoadUp ==
    ASSUME NEW m \in SlaveState, NEW n \in SlaveState, NEW t \in DOMAIN m.acts, NEW b, Queued(m),
           n.posted = m.posted, n.process = m.process, n.active = m.active, n.pending = m.pending,
           DOMAIN n.acts = DOMAIN m.acts \cup {b}, b \notin DOMAIN m.acts,
           \A c \in DOMAIN m.acts : n.acts[c] = m.acts[c],
           n.acts[b].kind = "loadHosts", n.acts[b].children = {},
           n.loading = n.acts[b].program, n.loadTests = t, n.loadHosts = b,
           n.config = m.config, n.configTests = m.configTests, n.configHosts = m.configHosts,
           n.loadsAnswered = m.loadsAnswered,
           m.acts[t].kind = "testHosts", Live(m, t), ~Ending(m, t), t # m.configTests,
           Permanent \in ToSet(m.active),
           ~Busy(m), ~Requested(m), asked.loads # m.loadsAnswered
    PROVE  Queued(n)
<1>0. /\ DOMAIN m.acts \subseteq Nat /\ ToSet(m.active) \subseteq DOMAIN m.acts
      /\ \A a \in Nat : Live(m, a) => a \in DOMAIN m.acts
      /\ m.loadTests \in Nat /\ m.loadHosts \in Nat /\ m.configTests \in Nat /\ m.configHosts \in Nat
      /\ 0 \notin DOMAIN m.acts
  BY Indices
<1>1. b \in Nat /\ b # 0 /\ t \in Nat /\ t # 0
  <2>1. DOMAIN n.acts = 1 .. Len(n.acts) /\ Len(n.acts) \in Nat
    BY StateFacts, LenProperties
  <2>. QED
    BY <1>0, <2>1
<1>2. /\ \A a : Starting(n, a) <=> Starting(m, a)
      /\ \A a : Ending(n, a) <=> Ending(m, a)
      /\ \A a : Live(n, a) <=> Live(m, a)
      /\ Requested(n) <=> Requested(m)
  BY DEF Starting, Ending, Live, Requested
<1>3. ~Live(m, b) /\ ~Ending(m, b)
  BY <1>0, <1>1 DEF Queued, Line
<1>4. Line(n)
  <2>1. m.process # "starting"
    <3>1. ToSet(m.active) # {}
      OBVIOUS
    <3>. QED
      BY <3>1, EmptyFacts DEF Queued, Line
  <2>. QED
    BY <1>0, <1>2, <2>1 DEF Queued, Line
<1>5. Family(n)
  <2>1. /\ 1 \in DOMAIN n.acts
        /\ \A a \in DOMAIN n.acts : /\ n.acts[a].kind = "front" <=> a = 1
                                    /\ n.acts[a].kind \in Singles => n.acts[a].host \in Clients
    BY DEF Queued, Family, Singles
  <2>2. ASSUME NEW q \in DOMAIN n.acts, NEW a \in n.acts[q].children
        PROVE  q \in DOMAIN m.acts /\ a \in m.acts[q].children /\ a \in DOMAIN m.acts
    BY <2>2 DEF Queued, Family
  <2>3. \A a \in DOMAIN n.acts : Live(n, a) /\ n.acts[a].kind \in Singles =>
          \E q \in DOMAIN n.acts : a \in n.acts[q].children
    BY <1>2, <1>3 DEF Queued, Family
  <2>4. ASSUME NEW q \in DOMAIN n.acts, NEW a \in n.acts[q].children
        PROVE  /\ q \in ToSet(n.active) /\ a \in DOMAIN n.acts
               /\ n.acts[a].kind = KindOfChild(n.acts[q].kind)
               /\ \A r \in DOMAIN n.acts : a \in n.acts[r].children => q = r
               /\ \A c \in n.acts[q].children : n.acts[a].host = n.acts[c].host => a = c
    BY <2>2, <2>4 DEF Queued, Family
  <2>. QED
    BY <2>1, <2>3, <2>4 DEF Family
<1>6. Ends(n)
  <2>. SUFFICES ASSUME NEW a \in DOMAIN n.acts, Ending(n, a) PROVE CanEnd(n, a)
    BY DEF Ends
  <2>1. a \in DOMAIN m.acts /\ a # b /\ CanEnd(m, a)
    BY <1>2, <1>3 DEF Queued, Ends
  <2>2. Unborn(n, a) => Unborn(m, a)
    BY <1>2, <2>1 DEF Unborn
  <2>. QED
    BY <1>2, <2>1, <2>2 DEF CanEnd
<1>7. Stages(n, "loadHosts", n.loadTests, n.loadHosts)
  <2>1. \A a \in DOMAIN n.acts : Live(n, a) /\ n.acts[a].kind = "loadHosts" => a = b
    BY <1>2 DEF Queued, Fronted, Stages, Busy
  <2>. QED
    BY <1>1, <1>2, <1>3, <2>1 DEF Stages
<1>8. Stages(n, "hostsConfig", n.configTests, n.configHosts)
  BY <1>0, <1>2 DEF Queued, Fronted, Stages
<1>9. Fronted(n)
  BY <1>1, <1>2, <1>7, <1>8 DEF Queued, Fronted
<1>10. Asked(n)
  BY DEF Asked, Queued
<1>. QED
  BY <1>4, <1>5, <1>6, <1>9, <1>10 DEF Queued

LEMMA QueuedConfigUp ==
    ASSUME NEW m \in SlaveState, NEW n \in SlaveState, NEW t \in DOMAIN m.acts, NEW b, Queued(m),
           n.posted = m.posted, n.process = m.process, n.active = m.active, n.pending = m.pending,
           DOMAIN n.acts = DOMAIN m.acts \cup {b}, b \notin DOMAIN m.acts,
           \A c \in DOMAIN m.acts : n.acts[c] = m.acts[c],
           n.acts[b].kind = "hostsConfig", n.acts[b].children = {},
           n.config # "none", n.configTests = t, n.configHosts = b,
           n.loading = m.loading, n.loadTests = m.loadTests, n.loadHosts = m.loadHosts,
           n.loadsAnswered = m.loadsAnswered,
           m.acts[t].kind = "testHosts", Live(m, t), ~Ending(m, t), t # m.loadTests,
           Permanent \in ToSet(m.active), m.config = "none"
    PROVE  Queued(n)
<1>0. /\ DOMAIN m.acts \subseteq Nat /\ ToSet(m.active) \subseteq DOMAIN m.acts
      /\ \A a \in Nat : Live(m, a) => a \in DOMAIN m.acts
      /\ m.loadTests \in Nat /\ m.loadHosts \in Nat /\ m.configTests \in Nat /\ m.configHosts \in Nat
      /\ 0 \notin DOMAIN m.acts
  BY Indices
<1>1. b \in Nat /\ b # 0 /\ t \in Nat /\ t # 0
  <2>1. DOMAIN n.acts = 1 .. Len(n.acts) /\ Len(n.acts) \in Nat
    BY StateFacts, LenProperties
  <2>. QED
    BY <1>0, <2>1
<1>2. /\ \A a : Starting(n, a) <=> Starting(m, a)
      /\ \A a : Ending(n, a) <=> Ending(m, a)
      /\ \A a : Live(n, a) <=> Live(m, a)
      /\ Requested(n) <=> Requested(m)
  BY DEF Starting, Ending, Live, Requested
<1>3. ~Live(m, b) /\ ~Ending(m, b)
  BY <1>0, <1>1 DEF Queued, Line
<1>4. Line(n)
  <2>1. m.process # "starting"
    <3>1. ToSet(m.active) # {}
      OBVIOUS
    <3>. QED
      BY <3>1, EmptyFacts DEF Queued, Line
  <2>. QED
    BY <1>0, <1>2, <2>1 DEF Queued, Line
<1>5. Family(n)
  <2>1. /\ 1 \in DOMAIN n.acts
        /\ \A a \in DOMAIN n.acts : /\ n.acts[a].kind = "front" <=> a = 1
                                    /\ n.acts[a].kind \in Singles => n.acts[a].host \in Clients
    BY DEF Queued, Family, Singles
  <2>2. ASSUME NEW q \in DOMAIN n.acts, NEW a \in n.acts[q].children
        PROVE  q \in DOMAIN m.acts /\ a \in m.acts[q].children /\ a \in DOMAIN m.acts
    BY <2>2 DEF Queued, Family
  <2>3. \A a \in DOMAIN n.acts : Live(n, a) /\ n.acts[a].kind \in Singles =>
          \E q \in DOMAIN n.acts : a \in n.acts[q].children
    BY <1>2, <1>3 DEF Queued, Family
  <2>4. ASSUME NEW q \in DOMAIN n.acts, NEW a \in n.acts[q].children
        PROVE  /\ q \in ToSet(n.active) /\ a \in DOMAIN n.acts
               /\ n.acts[a].kind = KindOfChild(n.acts[q].kind)
               /\ \A r \in DOMAIN n.acts : a \in n.acts[r].children => q = r
               /\ \A c \in n.acts[q].children : n.acts[a].host = n.acts[c].host => a = c
    BY <2>2, <2>4 DEF Queued, Family
  <2>. QED
    BY <2>1, <2>3, <2>4 DEF Family
<1>6. Ends(n)
  <2>. SUFFICES ASSUME NEW a \in DOMAIN n.acts, Ending(n, a) PROVE CanEnd(n, a)
    BY DEF Ends
  <2>1. a \in DOMAIN m.acts /\ a # b /\ CanEnd(m, a)
    BY <1>2, <1>3 DEF Queued, Ends
  <2>2. Unborn(n, a) => Unborn(m, a)
    BY <1>2, <2>1 DEF Unborn
  <2>. QED
    BY <1>2, <2>1, <2>2 DEF CanEnd
<1>7. Stages(n, "hostsConfig", n.configTests, n.configHosts)
  <2>1. \A a \in DOMAIN n.acts : Live(n, a) /\ n.acts[a].kind = "hostsConfig" => a = b
    BY <1>2 DEF Queued, Fronted, Stages
  <2>. QED
    BY <1>1, <1>2, <1>3, <2>1 DEF Stages
<1>8. Stages(n, "loadHosts", n.loadTests, n.loadHosts)
  BY <1>0, <1>2 DEF Queued, Fronted, Stages
<1>9. Busy(n) <=> Busy(m)
  BY <1>2 DEF Busy
<1>10. Fronted(n)
  <2>1. Busy(n) => n.loading = n.acts[n.loadHosts].program
    <3>1. Busy(m) => m.loadHosts \in DOMAIN m.acts
      BY <1>0 DEF Busy, Fronted, Queued, Stages
    <3>. QED
      BY <1>9, <3>1 DEF Queued, Fronted
  <2>. QED
    BY <1>1, <1>2, <1>7, <1>8, <1>9, <2>1 DEF Queued, Fronted
<1>11. Asked(n)
  BY <1>2, <1>9 DEF Asked, Queued
<1>. QED
  BY <1>4, <1>5, <1>6, <1>10, <1>11 DEF Queued

\* A load is answered, which was under way but is not any more.
LEMMA QueuedLoaded ==
    ASSUME NEW m \in SlaveState, NEW n \in SlaveState, Queued(m), SameQueue(m, n),
           n.posted = m.posted, n.loading = NoProgram, n.loadsAnswered = m.loadsAnswered + 1,
           n.loadTests = m.loadTests, n.loadHosts = m.loadHosts,
           n.config = m.config, n.configTests = m.configTests, n.configHosts = m.configHosts,
           ~Busy(m), ~Requested(m), asked.loads # m.loadsAnswered
    PROVE  Queued(n)
<1>1. /\ \A a : Starting(n, a) <=> Starting(m, a)
      /\ \A a : Ending(n, a) <=> Ending(m, a)
      /\ \A a : Live(n, a) <=> Live(m, a)
      /\ Requested(n) <=> Requested(m)
  BY DEF Starting, Ending, Live, Requested, SameQueue
<1>2. Line(n)
  BY <1>1 DEF Queued, Line, SameQueue
<1>3. Family(n)
  BY <1>1 DEF Queued, Family, SameQueue
<1>4. Ends(n)
  BY <1>1 DEF Queued, Ends, CanEnd, Unborn, SameQueue
<1>5. Stages(n, "loadHosts", n.loadTests, n.loadHosts)
  BY <1>1 DEF Queued, Fronted, Stages, SameQueue
<1>6. Stages(n, "hostsConfig", n.configTests, n.configHosts)
  BY <1>1 DEF Queued, Fronted, Stages, SameQueue
<1>7. ~Busy(n)
  BY <1>1 DEF Busy
<1>8. Fronted(n)
  BY <1>1, <1>5, <1>6, <1>7 DEF Queued, Fronted, SameQueue
<1>9. Asked(n)
  BY <1>1, <1>7, StateFacts DEF Queued, Asked
<1>. QED
  BY <1>2, <1>3, <1>4, <1>8, <1>9 DEF Queued

\* A config is answered.
LEMMA QueuedConfigured ==
    ASSUME NEW m \in SlaveState, NEW n \in SlaveState, Queued(m), SameQueue(m, n),
           n.posted = m.posted, n.loading = m.loading, n.loadsAnswered = m.loadsAnswered,
           n.loadTests = m.loadTests, n.loadHosts = m.loadHosts,
           n.configTests = m.configTests, n.configHosts = m.configHosts,
           n.config = "none", ~Live(m, m.configTests), ~Live(m, m.configHosts)
    PROVE  Queued(n)
<1>1. /\ \A a : Starting(n, a) <=> Starting(m, a)
      /\ \A a : Ending(n, a) <=> Ending(m, a)
      /\ \A a : Live(n, a) <=> Live(m, a)
      /\ Requested(n) <=> Requested(m)
  BY DEF Starting, Ending, Live, Requested, SameQueue
<1>2. Line(n)
  BY <1>1 DEF Queued, Line, SameQueue
<1>3. Family(n)
  BY <1>1 DEF Queued, Family, SameQueue
<1>4. Ends(n)
  BY <1>1 DEF Queued, Ends, CanEnd, Unborn, SameQueue
<1>5. Stages(n, "loadHosts", n.loadTests, n.loadHosts)
  BY <1>1 DEF Queued, Fronted, Stages, SameQueue
<1>6. Stages(n, "hostsConfig", n.configTests, n.configHosts)
  BY <1>1 DEF Queued, Fronted, Stages, SameQueue
<1>7. Busy(n) <=> Busy(m)
  BY <1>1 DEF Busy
<1>8. Fronted(n)
  BY <1>1, <1>5, <1>6, <1>7 DEF Queued, Fronted, SameQueue
<1>9. Asked(n)
  BY <1>1, <1>7 DEF Queued, Asked
<1>. QED
  BY <1>2, <1>3, <1>4, <1>8, <1>9 DEF Queued

LEMMA NotStarting ==
    ASSUME NEW m \in SlaveState, Queued(m), NEW a \in ToSet(m.active)
    PROVE  m.process # "starting"
<1>1. ToSet(m.active) # {}
  OBVIOUS
<1>. QED
  BY <1>1, EmptyFacts DEF Queued, Line

LEMMA QueuedLoadRequest ==
    ASSUME NEW m \in SlaveState, Queued(m), NEW p \in Program, Permanent \in ToSet(m.active),
           m.loading = NoProgram, ~Busy(m), ~Requested(m), asked.loads # m.loadsAnswered
    PROVE  LoadRequest(m, p) \in SlaveState /\ Queued(LoadRequest(m, p))
<1>1. PICK k, t : k = StartActivities(m, <<NewActivity("testHosts")>>) /\ t = Len(m.acts) + 1
  OBVIOUS
<1>2. /\ k \in SlaveState /\ Queued(k) /\ SameControl(m, k) /\ SameHosts(m, k)
      /\ k.process = m.process /\ k.active = m.active /\ k.pending = m.pending
      /\ Len(k.acts) = t /\ DOMAIN k.acts = DOMAIN m.acts \cup {t}
      /\ t \notin DOMAIN m.acts /\ Live(k, t)
      /\ k.acts[t] = NewActivity("testHosts") /\ ~Ending(k, t)
      /\ \A b \in DOMAIN m.acts : k.acts[b] = m.acts[b]
      /\ \A b \in Nat : /\ Starting(k, b) <=> Starting(m, b) \/ b = t
                        /\ Ending(k, b) <=> Ending(m, b)
      /\ Requested(k) <=> Requested(m)
  <2>1. m.process # "starting"
    BY NotStarting
  <2>. QED
    BY ONLY <1>1, <2>1, m \in SlaveState, Queued(m), QueuedTest
<1>3. PICK act : act = LoadHosts(p)
  OBVIOUS
<1>4. act \in Activity /\ act.kind = "loadHosts" /\ act.program = p /\ act.children = {}
  BY <1>3, NewActivityFacts
<1>5. PICK acts : acts = Append(k.acts, act)
  OBVIOUS
<1>6. /\ acts \in Seq(Activity) /\ DOMAIN acts = DOMAIN k.acts \cup {t + 1} /\ acts[t + 1] = act
      /\ \A b \in DOMAIN k.acts : acts[b] = k.acts[b]
      /\ t \in Nat /\ t + 1 \notin DOMAIN k.acts
  BY <1>2, <1>4, <1>5, StateFacts, SMTT(30)
<1>7. PICK n : n = [k EXCEPT !.acts = acts, !.loading = p, !.loadTests = t, !.loadHosts = t + 1]
  OBVIOUS
<1>8. /\ n \in SlaveState /\ n.posted = k.posted /\ n.process = k.process /\ n.active = k.active
      /\ n.pending = k.pending /\ n.acts = acts /\ n.loading = p /\ n.loadTests = t
      /\ n.loadHosts = t + 1 /\ n.config = k.config /\ n.configTests = k.configTests
      /\ n.configHosts = k.configHosts /\ n.loadsAnswered = k.loadsAnswered
  <2>1. t \in Nat /\ t + 1 \in Nat
    BY <1>6
  <2>. QED
    BY ONLY <1>2, <1>6, <2>1, <1>7, p \in Program DEF SlaveState
<1>9. LoadRequest(m, p) = n
  BY <1>1, <1>3, <1>5, <1>7 DEF LoadRequest
<1>10. k.acts[t].kind = "testHosts"
  BY <1>2, NewActivityFacts DEF Kinds
<1>11. t # k.configTests /\ ~Busy(k)
  <2>1. m.configTests \in DOMAIN m.acts \cup {0} /\ m.loadTests \in DOMAIN m.acts \cup {0}
        /\ m.loadHosts \in DOMAIN m.acts \cup {0} /\ t # 0
    BY <1>2, Indices DEF Queued, Fronted, Stages
  <2>2. ~Live(k, m.loadTests) /\ ~Live(k, m.loadHosts)
    BY <1>2, <2>1, Indices DEF Busy, Live
  <2>. QED
    BY <1>2, <2>1, <2>2 DEF Busy, SameControl
<1>12. /\ DOMAIN n.acts = DOMAIN k.acts \cup {t + 1} /\ n.acts[t + 1] = act
       /\ \A b \in DOMAIN k.acts : n.acts[b] = k.acts[b]
       /\ n.loading = n.acts[t + 1].program
  BY <1>4, <1>6, <1>8
<1>13. Queued(n)
  <2>1. /\ Permanent \in ToSet(k.active) /\ ~Requested(k) /\ asked.loads # k.loadsAnswered
        /\ t \in DOMAIN k.acts
    BY <1>2 DEF SameControl
  <2>2. n.acts[t + 1].kind = "loadHosts" /\ n.acts[t + 1].children = {}
    BY <1>4, <1>12
  <2>. QED
    BY <1>2, <1>6, <1>8, <1>10, <1>11, <1>12, <2>1, <2>2, QueuedLoadUp
<1>. QED
  BY <1>8, <1>9, <1>13

LEMMA QueuedConfigRequest ==
    ASSUME NEW m \in SlaveState, Queued(m), NEW type \in Config, Permanent \in ToSet(m.active)
    PROVE  ConfigRequest(m, type) \in SlaveState /\ Queued(ConfigRequest(m, type))
<1>0. CASE m.config # "none"
  BY <1>0 DEF ConfigRequest
<1>. SUFFICES ASSUME m.config = "none"
              PROVE  ConfigRequest(m, type) \in SlaveState /\ Queued(ConfigRequest(m, type))
  BY <1>0
<1>1. PICK k, t : k = StartActivities(m, <<NewActivity("testHosts")>>) /\ t = Len(m.acts) + 1
  OBVIOUS
<1>2. /\ k \in SlaveState /\ Queued(k) /\ SameControl(m, k) /\ SameHosts(m, k)
      /\ k.process = m.process /\ k.active = m.active /\ k.pending = m.pending
      /\ Len(k.acts) = t /\ DOMAIN k.acts = DOMAIN m.acts \cup {t}
      /\ t \notin DOMAIN m.acts /\ Live(k, t)
      /\ k.acts[t] = NewActivity("testHosts") /\ ~Ending(k, t)
      /\ \A b \in DOMAIN m.acts : k.acts[b] = m.acts[b]
      /\ \A b \in Nat : /\ Starting(k, b) <=> Starting(m, b) \/ b = t
                        /\ Ending(k, b) <=> Ending(m, b)
      /\ Requested(k) <=> Requested(m)
  <2>1. m.process # "starting"
    BY NotStarting
  <2>. QED
    BY ONLY <1>1, <2>1, m \in SlaveState, Queued(m), QueuedTest
<1>3. PICK act : act = HostsConfig(type)
  OBVIOUS
<1>4. act \in Activity /\ act.kind = "hostsConfig" /\ act.children = {}
  BY <1>3, NewActivityFacts
<1>5. PICK acts : acts = Append(k.acts, act)
  OBVIOUS
<1>6. /\ acts \in Seq(Activity) /\ DOMAIN acts = DOMAIN k.acts \cup {t + 1} /\ acts[t + 1] = act
      /\ \A b \in DOMAIN k.acts : acts[b] = k.acts[b]
      /\ t \in Nat /\ t + 1 \notin DOMAIN k.acts
  BY <1>2, <1>4, <1>5, StateFacts, SMTT(30)
<1>7. PICK n : n = [k EXCEPT !.acts = acts, !.config = type, !.configTests = t, !.configHosts = t + 1]
  OBVIOUS
<1>8. /\ n \in SlaveState /\ n.posted = k.posted /\ n.process = k.process /\ n.active = k.active
      /\ n.pending = k.pending /\ n.acts = acts /\ n.loading = k.loading /\ n.loadTests = k.loadTests
      /\ n.loadHosts = k.loadHosts /\ n.config = type /\ n.configTests = t
      /\ n.configHosts = t + 1 /\ n.loadsAnswered = k.loadsAnswered
  <2>1. t \in Nat /\ t + 1 \in Nat
    BY <1>6
  <2>. QED
    BY ONLY <1>2, <1>6, <2>1, <1>7, type \in Config DEF SlaveState
<1>9. ConfigRequest(m, type) = n
  BY <1>1, <1>3, <1>5, <1>7 DEF ConfigRequest
<1>10. k.acts[t].kind = "testHosts"
  BY <1>2, NewActivityFacts DEF Kinds
<1>11. t # k.loadTests
  <2>1. m.loadTests \in DOMAIN m.acts \cup {0} /\ t # 0
    BY <1>2, Indices DEF Queued, Fronted, Stages
  <2>. QED
    BY <1>2, <2>1 DEF SameControl
<1>12. /\ DOMAIN n.acts = DOMAIN k.acts \cup {t + 1} /\ n.acts[t + 1] = act
       /\ \A b \in DOMAIN k.acts : n.acts[b] = k.acts[b]
  BY <1>6, <1>8
<1>13. Queued(n)
  <2>1. /\ Permanent \in ToSet(k.active) /\ k.config = "none" /\ t \in DOMAIN k.acts
        /\ n.config # "none"
    BY <1>2, <1>8 DEF SameControl, Config
  <2>2. n.acts[t + 1].kind = "hostsConfig" /\ n.acts[t + 1].children = {}
    BY <1>4, <1>12
  <2>. QED
    BY <1>2, <1>6, <1>8, <1>10, <1>11, <1>12, <2>1, <2>2, QueuedConfigUp
<1>. QED
  BY <1>8, <1>9, <1>13

-----------------------------------------------------------------------------
(***************************************************************************)
(* The other handlers.                                                     *)
(***************************************************************************)
\* Only the hosts and their messages change, or the process ends.
LEMMA QueuedHosts ==
    ASSUME NEW m \in SlaveState, NEW n \in SlaveState, Queued(m), n.posted = m.posted,
           n.process \in {m.process, "unfound", "unknown", "malformed"},
           n.active = m.active, n.pending = m.pending, n.acts = m.acts, SameControl(m, n)
    PROVE  Queued(n)
<1>1. /\ \A a \in Nat : /\ Starting(n, a) <=> Starting(m, a)
                        /\ Ending(n, a) <=> Ending(m, a)
      /\ Requested(n) <=> Requested(m)
  BY DEF Starting, Ending, Requested
<1>2. Alike(m, n)
  BY DEF Alike
<1>. QED
  BY <1>1, <1>2, QueuedFrame DEF SameControl

\* A handler that is no start is taken.
LEMMA QueuedTaken ==
    ASSUME NEW m \in SlaveState, Queued(m), m.posted # << >>, Head(m.posted).type # "start"
    PROVE  LET n == [m EXCEPT !.posted = Tail(@)]
           IN  /\ n \in SlaveState /\ Queued(n) /\ n.posted = Tail(m.posted)
               /\ SameQueue(m, n) /\ SameControl(m, n) /\ SameHosts(m, n)
               /\ \A b \in Nat : Live(n, b) <=> Live(m, b)
               /\ Head(m.posted) \in Event
               /\ \A b \in Nat :
                     /\ Starting(m, b) <=> Starting(n, b)
                     /\ Ending(m, b) <=> Ending(n, b)
                                         \/ (Head(m.posted).type = "complete" /\ Head(m.posted).act = b)
               /\ Requested(m) <=> Requested(n)
                                   \/ (Head(m.posted).type = "server" /\ Head(m.posted).msg = "load")
               /\ Head(m.posted).type = "server" /\ Head(m.posted).msg = "load" => ~Requested(n)
<1>1. PICK posted : posted = Tail(m.posted)
  OBVIOUS
<1>2. posted \in Seq(Event)
  BY <1>1, StateFacts
<1>3. PICK n : n = [m EXCEPT !.posted = posted]
  OBVIOUS
<1>4. /\ n \in SlaveState /\ n.posted = posted
      /\ SameQueue(m, n) /\ SameControl(m, n) /\ SameHosts(m, n)
  BY <1>2, <1>3, PostedFacts
<1>5. PICK e : e = Head(m.posted)
  OBVIOUS
<1>6. /\ e \in Event
      /\ \A a \in Nat :
            /\ Starting(m, a) <=> Starting(n, a) \/ (e.type = "start" /\ e.act = a)
            /\ Ending(m, a) <=> Ending(n, a) \/ (e.type = "complete" /\ e.act = a)
            /\ Once(m.posted, {StartEvent(a)}) =>
                  /\ Once(n.posted, {StartEvent(a)})
                  /\ e.type = "start" /\ e.act = a => ~Starting(n, a)
      /\ Requested(m) <=> Requested(n) \/ (e.type = "server" /\ e.msg = "load")
      /\ Once(m.posted, LoadRequests) =>
            /\ Once(n.posted, LoadRequests)
            /\ e.type = "server" /\ e.msg = "load" => ~Requested(n)
  <2>1. Without(m, n, e)
    BY <1>1, <1>4, <1>5, Removed
  <2>. QED
    BY <2>1 DEF Without
<1>7. e.type # "start"
  BY <1>5
<1>8. Alike(m, n)
  BY <1>4 DEF Alike, SameQueue
<1>9. Queued(n)
  BY <1>4, <1>6, <1>7, <1>8, QueuedFrame DEF SameQueue, SameControl
<1>10. \A b \in Nat : Live(n, b) <=> Live(m, b)
  BY <1>4, <1>6, <1>7 DEF Live, SameQueue
<1>11. e.type = "server" /\ e.msg = "load" => ~Requested(n)
  BY <1>6 DEF Queued, Fronted
<1>12. [m EXCEPT !.posted = Tail(@)] = n
  BY <1>1, <1>3
<1>. QED
  BY ONLY <1>1, <1>4, <1>5, <1>6, <1>7, <1>9, <1>10, <1>11, <1>12

\* Something is posted that the invariant does not look at.
LEMMA QueuedPost ==
    ASSUME NEW m \in SlaveState, Queued(m), NEW e \in Event,
           e.type = "client" \/ (e.type = "server" /\ e.msg # "load")
    PROVE  LET n == Post(m, <<e>>)
           IN  /\ n \in SlaveState /\ Queued(n) /\ n.posted = Append(m.posted, e)
               /\ SameQueue(m, n) /\ SameControl(m, n) /\ SameHosts(m, n)
<1>1. PICK n : n = Post(m, <<e>>)
  OBVIOUS
<1>2. /\ n \in SlaveState /\ n.posted = Append(m.posted, e)
      /\ SameQueue(m, n) /\ SameControl(m, n) /\ SameHosts(m, n)
  BY <1>1, PostOneFacts
<1>3. /\ \A a \in Nat :
            /\ Starting(n, a) <=> Starting(m, a) \/ (e.type = "start" /\ e.act = a)
            /\ Ending(n, a) <=> Ending(m, a) \/ (e.type = "complete" /\ e.act = a)
            /\ Once(m.posted, {StartEvent(a)})
               /\ (e.type = "start" /\ e.act = a => ~Starting(m, a))
               => Once(n.posted, {StartEvent(a)})
      /\ Requested(n) <=> Requested(m) \/ (e.type = "server" /\ e.msg = "load")
      /\ Once(m.posted, LoadRequests) /\ (e.type = "server" /\ e.msg = "load" => ~Requested(m))
         => Once(n.posted, LoadRequests)
  BY <1>2, Appended
<1>4. e.type \notin {"start", "complete"} /\ ~(e.type = "server" /\ e.msg = "load")
  OBVIOUS
<1>5. Alike(m, n)
  BY <1>2 DEF Alike, SameQueue
<1>6. Queued(n)
  BY <1>2, <1>3, <1>4, <1>5, QueuedFrame DEF SameQueue, SameControl
<1>. QED
  BY <1>1, <1>2, <1>6

LEMMA OrderFacts ==
    /\ \A msg \in {"enrolled", "egenrolled", "alive", "buffer"} \cup Config : [msg |-> msg] \in Order
    /\ \A n \in HostNames \cup {NoName}, p \in Program :
          [msg |-> "load", name |-> n, program |-> p] \in Order
BY DEF Order

LEMMA QueuedAsk ==
    ASSUME NEW m \in SlaveState, Queued(m), NEW a \in ToSet(m.active), NEW order \in Order,
           a # Permanent, m.acts[a].children = {}, m.acts[a].host \in Clients
    PROVE  AskHost(m, a, order) \in SlaveState /\ Queued(AskHost(m, a, order))
<1>1. PICK h \in Clients : h = m.acts[a].host
  OBVIOUS
<1>2. CASE Sendable(h)
  <2>1. PICK n : n = Send(m, h, order)
    OBVIOUS
  <2>2. n \in SlaveState /\ n.posted = m.posted /\ SameQueue(m, n) /\ SameControl(m, n)
    BY <2>1, SendFacts
  <2>3. Queued(n)
    BY <2>2, QueuedHosts DEF SameQueue
  <2>. QED
    BY <1>1, <1>2, <2>1, <2>2, <2>3 DEF AskHost
<1>3. CASE ~Sendable(h)
  <2>1. PICK n : n = RemoveClient(m, h)
    OBVIOUS
  <2>2. n \in SlaveState /\ n.posted = m.posted /\ SameQueue(m, n) /\ SameControl(m, n)
    BY <2>1, RemoveFacts
  <2>3. Queued(n)
    BY <2>2, QueuedHosts DEF SameQueue
  <2>4. Complete(n, a) \in SlaveState /\ Queued(Complete(n, a))
    BY <2>2, <2>3, QueuedComplete DEF SameQueue
  <2>. QED
    BY <1>1, <1>3, <2>1, <2>4 DEF AskHost
<1>. QED
  BY <1>2, <1>3

LEMMA QueuedSendHost ==
    ASSUME NEW m \in SlaveState, Queued(m), NEW h \in Clients, NEW order \in Order
    PROVE  SendHost(m, h, order) \in SlaveState /\ Queued(SendHost(m, h, order))
<1>1. PICK n : n = SendHost(m, h, order)
  OBVIOUS
<1>2. n \in SlaveState /\ n.posted = m.posted /\ SameQueue(m, n) /\ SameControl(m, n)
  BY <1>1, SendHostFacts
<1>3. Queued(n)
  BY <1>2, QueuedHosts DEF SameQueue
<1>. QED
  BY <1>1, <1>2, <1>3

LEMMA QueuedEnroll ==
    ASSUME NEW m \in SlaveState, Queued(m), NEW h \in Clients
    PROVE  EnrollRequest(m, h) \in SlaveState /\ Queued(EnrollRequest(m, h))
<1>1. PICK k : k = Cardinality({c \in Clients : m.arrived[c] # 0})
  OBVIOUS
<1>2. 1 + k \in Nat
  <2>1. {c \in Clients : m.arrived[c] # 0} \in SUBSET Clients
    OBVIOUS
  <2>2. k \in Nat
    BY <1>1, <2>1, Constants, FS_Subset, FS_CardinalityType
  <2>. QED
    BY <2>2
<1>3. PICK enrolled, arrived : enrolled = m.enrolled \cup {h} /\ arrived = [m.arrived EXCEPT ![h] = 1 + k]
  OBVIOUS
<1>4. enrolled \in SUBSET Clients /\ arrived \in [Clients -> Nat]
  BY <1>2, <1>3, StateFacts
<1>5. PICK n : n = [m EXCEPT !.enrolled = enrolled, !.arrived = arrived]
  OBVIOUS
<1>6. n \in SlaveState /\ n.posted = m.posted /\ SameQueue(m, n) /\ SameControl(m, n)
  BY <1>4, <1>5 DEF SlaveState, SameQueue, SameControl
<1>7. EnrollRequest(m, h) = SendHost(n, h, [msg |-> "enrolled"])
  BY <1>1, <1>3, <1>5 DEF EnrollRequest
<1>8. Queued(n)
  BY <1>6, QueuedHosts DEF SameQueue
<1>9. [msg |-> "enrolled"] \in Order
  BY OrderFacts
<1>. QED
  BY <1>6, <1>7, <1>8, <1>9, QueuedSendHost

LEMMA QueuedEnrollEG ==
    ASSUME NEW m \in SlaveState, Queued(m), NEW h \in Clients, NEW n \in EnrollEGRequest(m, h)
    PROVE  n \in SlaveState /\ Queued(n)
<1>1. PICK known : known = m.known \cup ({h} \cap m.enrolled)
  OBVIOUS
<1>2. known \in SUBSET Clients
  BY <1>1, StateFacts
<1>3. PICK met : met = [m EXCEPT !.known = known]
  OBVIOUS
<1>4. /\ met \in SlaveState /\ met.posted = m.posted /\ SameQueue(m, met) /\ SameControl(m, met)
      /\ met.enrolled = m.enrolled
  BY <1>2, <1>3 DEF SlaveState, SameQueue, SameControl
<1>5. Queued(met)
  BY <1>4, QueuedHosts DEF SameQueue
<1>6. \/ \E c \in Clients : n = SendHost(met, c, [msg |-> "egenrolled"])
      \/ n = [met EXCEPT !.process = "unknown"]
  <2>1. met.enrolled \subseteq Clients
    BY <1>4, StateFacts
  <2>. QED
    BY <1>1, <1>3, <2>1 DEF EnrollEGRequest
<1>7. ASSUME NEW c \in Clients, n = SendHost(met, c, [msg |-> "egenrolled"])
      PROVE  n \in SlaveState /\ Queued(n)
  <2>1. [msg |-> "egenrolled"] \in Order
    BY OrderFacts
  <2>. QED
    BY <1>4, <1>5, <1>7, <2>1, QueuedSendHost
<1>8. CASE n = [met EXCEPT !.process = "unknown"]
  <2>1. /\ n \in SlaveState /\ n.acts = met.acts /\ n.posted = met.posted
        /\ n.process = "unknown" /\ n.active = met.active /\ n.pending = met.pending
        /\ SameControl(met, n)
    BY <1>4, <1>8 DEF SlaveState, SameControl
  <2>. QED
    BY <1>4, <1>5, <2>1, QueuedHosts
<1>. QED
  BY <1>6, <1>7, <1>8

LEMMA QueuedAnswer ==
    ASSUME NEW m \in SlaveState, Queued(m), NEW a \in ToSet(m.active), NEW ok \in BOOLEAN,
           m.acts[a].kind \in Singles
    PROVE  HostAnswer(m, a, ok) \in SlaveState /\ Queued(HostAnswer(m, a, ok))
<1>0. a \in DOMAIN m.acts /\ m.acts[a].children = {} /\ m.acts[a].host \in Clients /\ a # Permanent
  <2>1. a \in DOMAIN m.acts
    BY Indices
  <2>2. m.acts[a].children = {}
    <3>1. ASSUME NEW c \in m.acts[a].children PROVE FALSE
      <4>1. c \in DOMAIN m.acts /\ m.acts[c].kind = "nothing"
        BY <2>1, <3>1 DEF Queued, Family, KindOfChild, Singles
      <4>2. m.acts[c] \in Activity
        BY <4>1, StateFacts
      <4>. QED
        BY <4>1, <4>2, ActivityFacts DEF Kinds
    <3>. QED
      BY <3>1
  <2>. QED
    BY <2>1, <2>2 DEF Queued, Family, Singles, Permanent
<1>1. PICK left : left = IF m.acts[a].kind = "loadHost" /\ ~ok
                         THEN RemoveClient(m, m.acts[a].host) ELSE m
  OBVIOUS
<1>2. left \in SlaveState /\ left.posted = m.posted /\ SameQueue(m, left) /\ SameControl(m, left)
  <2>1. PICK k : k = RemoveClient(m, m.acts[a].host)
    OBVIOUS
  <2>2. k \in SlaveState /\ k.posted = m.posted /\ SameQueue(m, k) /\ SameControl(m, k)
    BY <2>1, RemoveFacts
  <2>3. left = k \/ left = m
    BY <1>1, <2>1
  <2>. QED
    BY <2>2, <2>3 DEF SameQueue, SameControl
<1>3. PICK act : act = [m.acts[a] EXCEPT !.success = ok]
  OBVIOUS
<1>4. /\ act \in Activity /\ act.kind = m.acts[a].kind /\ act.host = m.acts[a].host
      /\ act.name = m.acts[a].name /\ act.program = m.acts[a].program
      /\ act.config = m.acts[a].config /\ act.children = m.acts[a].children
  BY <1>0, <1>3, StateFacts, ActivityFacts
<1>5. PICK n : n = [left EXCEPT !.acts[a] = act]
  OBVIOUS
<1>6. /\ n \in SlaveState /\ n.posted = left.posted
      /\ n.process = left.process /\ n.active = left.active /\ n.pending = left.pending
      /\ SameControl(left, n)
      /\ n.acts \in Seq(Activity) /\ DOMAIN n.acts = DOMAIN left.acts
      /\ Len(n.acts) = Len(left.acts) /\ n.acts[a] = act
      /\ \A b \in DOMAIN left.acts : b # a => n.acts[b] = left.acts[b]
  BY <1>0, <1>2, <1>4, <1>5, ActFacts DEF SameQueue
<1>7. HostAnswer(m, a, ok) = Complete(n, a)
  <2>1. left.acts = m.acts
    BY <1>2 DEF SameQueue
  <2>. QED
    BY <1>1, <1>3, <1>5, <2>1 DEF HostAnswer
<1>8. Alike(m, n) /\ \A b \in DOMAIN m.acts : n.acts[b].children = m.acts[b].children
  BY <1>2, <1>4, <1>6 DEF Alike, SameQueue
<1>9. Queued(n)
  <2>1. /\ \A b \in Nat : /\ Starting(n, b) <=> Starting(m, b)
                          /\ Ending(n, b) <=> Ending(m, b)
        /\ Requested(n) <=> Requested(m)
    BY <1>2, <1>6 DEF Starting, Ending, Requested
  <2>. QED
    BY <1>2, <1>6, <1>8, <2>1, QueuedFrame DEF SameQueue, SameControl
<1>10. a \in ToSet(n.active) /\ n.acts[a].children = {}
  BY <1>0, <1>2, <1>6, <1>8 DEF SameQueue
<1>. QED
  BY <1>0, <1>6, <1>7, <1>9, <1>10, QueuedComplete

-----------------------------------------------------------------------------
(***************************************************************************)
(* The names a load gives: the two loops of HostMap's constructor.         *)
(***************************************************************************)
\* What holds of the loops' state: names are given to enrolled hosts, one each, of
\* the process that the program wants; the others are left.
Fits(r, m, w) ==
    /\ r \in RemapState /\ r.avail \subseteq m.enrolled
    /\ \A n \in HostNames : r.new[n] # NoClient =>
          /\ r.new[n] \in m.enrolled \ r.avail
          /\ \E j \in r.used \cap DOMAIN w : w[j] = [process |-> ProcessOf[r.new[n]], name |-> n]
    /\ \A i, n \in HostNames : r.new[i] = r.new[n] /\ r.new[i] # NoClient => i = n
    /\ \A c \in m.enrolled \ r.avail : \E n \in HostNames : r.new[n] = c

\* No host has two names.
OneName(m) ==
    \A i, n \in HostNames : m.mapping[i] = m.mapping[n] /\ m.mapping[i] # NoClient => i = n

\* The host that had the name of a pair and is of its process.
Stays(m, w, j) ==
    m.mapping[w[j].name] \in m.enrolled /\ ProcessOf[m.mapping[w[j].name]] = w[j].process

LEMMA WantedFacts ==
    ASSUME NEW w \in Programs \cup {<< >>}
    PROVE  /\ Len(w) \in Nat /\ DOMAIN w = 1 .. Len(w)
           /\ \A j \in DOMAIN w : /\ w[j].name \in HostNames
                                  /\ w[j] = [process |-> w[j].process, name |-> w[j].name]
           /\ \A i, j \in DOMAIN w : w[i].name = w[j].name => i = j
<1>1. w \in Seq(Pair) /\ \A i, j \in DOMAIN w : w[i].name = w[j].name => i = j
  <2>1. CASE w \in Programs
    BY <2>1, RemapAssumption
  <2>2. CASE w = << >>
    BY <2>2
  <2>. QED
    BY <2>1, <2>2
<1>2. Len(w) \in Nat /\ DOMAIN w = 1 .. Len(w) /\ \A j \in DOMAIN w : w[j] \in Pair
  BY <1>1
<1>. QED
  BY <1>1, <1>2 DEF Pair

LEMMA FitsUse ==
    ASSUME NEW m \in SlaveState, NEW w \in Programs \cup {<< >>}, NEW r, Fits(r, m, w),
           NEW k \in DOMAIN w, k \notin r.used, NEW c \in r.avail, ProcessOf[c] = w[k].process
    PROVE  /\ Fits(Use(r, w, k, c), m, w) /\ Use(r, w, k, c).used = r.used \cup {k}
           /\ Use(r, w, k, c).avail = r.avail \ {c}
           /\ Use(r, w, k, c).new[w[k].name] = c
           /\ r.new[w[k].name] = NoClient
           /\ \A n \in HostNames : n # w[k].name => Use(r, w, k, c).new[n] = r.new[n]
<1>1. /\ k \in Nat /\ w[k].name \in HostNames
      /\ w[k] = [process |-> ProcessOf[c], name |-> w[k].name]
  BY WantedFacts
<1>2. c \in Clients /\ c # NoClient /\ c \in m.enrolled /\ r \in RemapState
  BY StateFacts, Constants DEF Fits
<1>3. PICK u : u = Use(r, w, k, c)
  OBVIOUS
<1>4. /\ u \in RemapState /\ u.used = r.used \cup {k} /\ u.avail = r.avail \ {c}
      /\ u.new[w[k].name] = c
      /\ \A n \in HostNames : n # w[k].name => u.new[n] = r.new[n]
  <2>1. PICK name : name = w[k].name /\ name \in HostNames
    BY <1>1
  <2>2. u = [r EXCEPT !.avail = @ \ {c}, !.new[name] = c, !.used = @ \cup {k}]
    BY <1>3, <2>1 DEF Use
  <2>3. /\ u \in RemapState /\ u.used = r.used \cup {k} /\ u.avail = r.avail \ {c}
        /\ u.new[name] = c
        /\ \A n \in HostNames : n # name => u.new[n] = r.new[n]
    BY ONLY <1>1, <1>2, <2>1, <2>2 DEF RemapState, Mapping
  <2>. QED
    BY <2>1, <2>3
<1>5. r.new[w[k].name] = NoClient
  BY <1>1, WantedFacts DEF Fits
<1>6. Fits(u, m, w)
  <2>1. ASSUME NEW n \in HostNames, u.new[n] # NoClient
        PROVE  /\ u.new[n] \in m.enrolled \ u.avail
               /\ \E j \in u.used \cap DOMAIN w : w[j] = [process |-> ProcessOf[u.new[n]], name |-> n]
    BY <1>1, <1>2, <1>4, <2>1 DEF Fits
  <2>2. ASSUME NEW i \in HostNames, NEW n \in HostNames, u.new[i] = u.new[n], u.new[i] # NoClient
        PROVE  i = n
    BY <1>1, <1>4, <2>2 DEF Fits
  <2>3. ASSUME NEW d \in m.enrolled \ u.avail
        PROVE  \E n \in HostNames : u.new[n] = d
    <3>1. CASE d = c
      BY <1>1, <1>4, <3>1
    <3>2. CASE d # c
      <4>1. PICK n \in HostNames : r.new[n] = d
        BY <1>4, <2>3, <3>2 DEF Fits
      <4>2. d # NoClient
        BY StateFacts, Constants
      <4>. QED
        BY <1>4, <1>5, <4>1, <4>2
    <3>. QED
      BY <3>1, <3>2
  <2>4. u \in RemapState /\ u.avail \subseteq m.enrolled
    BY <1>4 DEF Fits
  <2>. QED
    BY <2>1, <2>2, <2>3, <2>4 DEF Fits
<1>. QED
  BY <1>3, <1>4, <1>5, <1>6

LEMMA EarliestFacts ==
    ASSUME NEW C \in SUBSET Clients, C # {}, NEW arrived \in [Clients -> Nat]
    PROVE  Earliest(C, arrived) \in C
<1>1. {arrived[d] : d \in C} \in SUBSET Nat /\ {arrived[d] : d \in C} # {}
  OBVIOUS
<1>2. PICK x \in {arrived[d] : d \in C} : \A y \in {arrived[d] : d \in C} : x <= y
  BY <1>1, Least
<1>3. PICK c \in C : x = arrived[c]
  BY <1>2
<1>4. \A d \in C : arrived[c] <= arrived[d]
  BY <1>2, <1>3
<1>. QED
  BY <1>4 DEF Earliest

\* A turn of the first loop keeps names only, and every one it can.
Reusing(r, m, w, k) ==
    /\ Fits(r, m, w) /\ r.used \subseteq 1 .. k
    /\ \A n \in HostNames : r.new[n] # NoClient => r.new[n] = m.mapping[n]
    /\ OneName(m) => \A j \in 1 .. k : Stays(m, w, j) => r.new[w[j].name] = m.mapping[w[j].name]

LEMMA ReuseTurn ==
    ASSUME NEW m \in SlaveState, NEW w \in Programs \cup {<< >>}, NEW k \in DOMAIN w,
           NEW r, Reusing(r, m, w, k - 1)
    PROVE  Reusing(Reuse(r, w, k, m.mapping), m, w, k)
<1>0. /\ Len(w) \in Nat /\ DOMAIN w = 1 .. Len(w) /\ k \in Nat
      /\ \A j \in DOMAIN w : w[j].name \in HostNames
      /\ \A i, j \in DOMAIN w : w[i].name = w[j].name => i = j
  BY WantedFacts
<1>1. /\ k \notin r.used /\ \A j \in 1 .. k : j \in DOMAIN w /\ (j \in 1 .. k - 1 \/ j = k)
      /\ 1 .. k - 1 \subseteq 1 .. k
  BY <1>0 DEF Reusing
<1>2. PICK c : c = m.mapping[w[k].name]
  OBVIOUS
<1>3. m.enrolled \subseteq Clients /\ NoClient \notin Clients
  BY StateFacts, Constants, SMTT(30)
<1>4. CASE Reusable(r, w, k, m.mapping)
  <2>1. c \in r.avail /\ ProcessOf[c] = w[k].process
    BY <1>2, <1>4 DEF Reusable
  <2>2. PICK u : u = Use(r, w, k, c)
    OBVIOUS
  <2>3. /\ Fits(u, m, w) /\ u.used = r.used \cup {k} /\ u.new[w[k].name] = c
        /\ r.new[w[k].name] = NoClient
        /\ \A n \in HostNames : n # w[k].name => u.new[n] = r.new[n]
    BY <1>1, <2>1, <2>2, FitsUse DEF Reusing
  <2>4. u.used \subseteq 1 .. k
    BY <1>0, <1>1, <2>3 DEF Reusing
  <2>5. \A n \in HostNames : u.new[n] # NoClient => u.new[n] = m.mapping[n]
    BY <1>2, <2>3 DEF Reusing
  <2>6. ASSUME OneName(m), NEW j \in 1 .. k, Stays(m, w, j)
        PROVE  u.new[w[j].name] = m.mapping[w[j].name]
    BY <1>0, <1>1, <1>2, <2>3, <2>6 DEF Reusing
  <2>. QED
    BY <1>2, <1>4, <2>2, <2>3, <2>4, <2>5, <2>6 DEF Reusing, Reuse
<1>5. CASE ~Reusable(r, w, k, m.mapping)
  <2>1. ASSUME OneName(m), Stays(m, w, k)
        PROVE  FALSE
    <3>1. c \notin r.avail /\ c \in m.enrolled
      BY <1>2, <1>5, <2>1 DEF Reusable, Stays
    <3>2. PICK n \in HostNames : r.new[n] = c /\ c # NoClient
      BY <1>3, <3>1 DEF Reusing, Fits
    <3>3. n = w[k].name
      BY <1>0, <1>2, <2>1, <3>2 DEF Reusing, OneName
    <3>4. PICK j \in r.used \cap DOMAIN w : w[j] = [process |-> ProcessOf[r.new[n]], name |-> n]
      BY <3>2 DEF Reusing, Fits
    <3>. QED
      BY <1>0, <1>1, <3>3, <3>4
  <2>2. r.used \subseteq 1 .. k
    BY <1>1 DEF Reusing
  <2>3. OneName(m) => \A j \in 1 .. k : Stays(m, w, j) => r.new[w[j].name] = m.mapping[w[j].name]
    BY <1>1, <2>1 DEF Reusing
  <2>. QED
    BY <1>5, <2>2, <2>3 DEF Reuse, Reusing
<1>. QED
  BY <1>4, <1>5

\* The second loop takes no name from anybody.
Assigning(r, m, w) ==
    /\ Fits(r, m, w)
    /\ OneName(m) => \A j \in DOMAIN w : Stays(m, w, j) => r.new[w[j].name] = m.mapping[w[j].name]

LEMMA AssignTurn ==
    ASSUME NEW m \in SlaveState, NEW w \in Programs \cup {<< >>}, NEW k \in DOMAIN w,
           NEW r, Assigning(r, m, w)
    PROVE  Assigning(Assign(r, w, k, m.arrived), m, w)
<1>1. CASE k \in r.used \/ Candidates(r, w, k) = {}
  BY <1>1 DEF Assign
<1>2. CASE k \notin r.used /\ Candidates(r, w, k) # {}
  <2>1. PICK c : c = Earliest(Candidates(r, w, k), m.arrived)
    OBVIOUS
  <2>2. c \in r.avail /\ ProcessOf[c] = w[k].process
    <3>1. Candidates(r, w, k) \in SUBSET Clients
      BY StateFacts DEF Candidates, Assigning, Fits
    <3>2. c \in Candidates(r, w, k)
      BY <1>2, <2>1, <3>1, EarliestFacts, StateFacts
    <3>. QED
      BY <3>2 DEF Candidates
  <2>3. PICK u : u = Use(r, w, k, c)
    OBVIOUS
  <2>4. /\ Fits(u, m, w) /\ u.new[w[k].name] = c /\ r.new[w[k].name] = NoClient
        /\ \A n \in HostNames : n # w[k].name => u.new[n] = r.new[n]
    BY <1>2, <2>2, <2>3, FitsUse DEF Assigning
  <2>5. ASSUME OneName(m), NEW j \in DOMAIN w, Stays(m, w, j)
        PROVE  u.new[w[j].name] = m.mapping[w[j].name]
    <3>1. r.new[w[j].name] = m.mapping[w[j].name] /\ m.mapping[w[j].name] # NoClient
      BY <2>5, StateFacts, Constants DEF Assigning, Stays
    <3>2. w[j].name \in HostNames /\ w[j].name # w[k].name
      BY <2>4, <3>1, WantedFacts
    <3>. QED
      BY <2>4, <3>1, <3>2
  <2>. QED
    BY <1>2, <2>1, <2>3, <2>4, <2>5 DEF Assign, Assigning
<1>. QED
  BY <1>1, <1>2

LEMMA ReusedFacts ==
    ASSUME NEW m \in SlaveState, NEW w \in Programs \cup {<< >>}
    PROVE  Reusing(Reused(m, w), m, w, Len(w))
<1>. DEFINE r == CHOOSE r : r = [k \in 0 .. Len(w) |->
                                   IF k = 0 THEN RemapStart(m.enrolled)
                                   ELSE Reuse(r[k - 1], w, k, m.mapping)]
<1>1. Len(w) \in Nat /\ DOMAIN w = 1 .. Len(w)
  BY WantedFacts
<1>2. \E f : f = [k \in 0 .. Len(w) |-> IF k = 0 THEN RemapStart(m.enrolled)
                                        ELSE Reuse(f[k - 1], w, k, m.mapping)]
  <2>. DEFINE Upto(n) == \E f : f = [k \in 0 .. n |-> IF k = 0 THEN RemapStart(m.enrolled)
                                                  ELSE Reuse(f[k - 1], w, k, m.mapping)]
              without == {n \in Nat : ~Upto(n)}
  <2>1. CASE without = {}
    BY <1>1, <2>1
  <2>2. CASE without # {}
    <3>1. PICK n \in without : \A i \in without : n <= i
      <4>1. without \in SUBSET Nat
        OBVIOUS
      <4>. QED
        BY <2>2, <4>1, Least
    <3>2. n # 0
      <4>1. Upto(0)
        <5>1. PICK f : f = [k \in 0 .. 0 |-> RemapStart(m.enrolled)]
          OBVIOUS
        <5>2. f = [k \in 0 .. 0 |-> IF k = 0 THEN RemapStart(m.enrolled)
                                    ELSE Reuse(f[k - 1], w, k, m.mapping)]
          BY <5>1
        <5>. QED
          BY <5>2
      <4>. QED
        BY <4>1
    <3>3. n \in Nat /\ n - 1 \in Nat /\ ~(n <= n - 1)
      BY <3>2
    <3>4. Upto(n - 1)
      BY <3>1, <3>3
    <3>5. PICK g : g = [k \in 0 .. n - 1 |-> IF k = 0 THEN RemapStart(m.enrolled)
                                             ELSE Reuse(g[k - 1], w, k, m.mapping)]
      BY <3>4
    <3>6. PICK f : f = [k \in 0 .. n |-> IF k < n THEN g[k] ELSE Reuse(g[n - 1], w, n, m.mapping)]
      OBVIOUS
    <3>7. f = [k \in 0 .. n |-> IF k = 0 THEN RemapStart(m.enrolled)
                                ELSE Reuse(f[k - 1], w, k, m.mapping)]
      <4>1. ASSUME NEW k \in 0 .. n
            PROVE  f[k] = IF k = 0 THEN RemapStart(m.enrolled)
                          ELSE Reuse(f[k - 1], w, k, m.mapping)
        <5>1. CASE k = 0
          BY ONLY <3>2, <3>3, <3>5, <3>6, <5>1, k \in 0 .. n
        <5>2. CASE k # 0 /\ k < n
          <6>1. k - 1 \in 0 .. n /\ k - 1 < n /\ k \in 0 .. n - 1
            BY ONLY <3>3, <5>2, k \in 0 .. n
          <6>2. f[k] = g[k] /\ f[k - 1] = g[k - 1]
            BY ONLY <3>6, <5>2, <6>1, k \in 0 .. n
          <6>3. g[k] = Reuse(g[k - 1], w, k, m.mapping)
            BY ONLY <3>5, <5>2, <6>1
          <6>. QED
            BY <5>2, <6>2, <6>3
        <5>3. CASE k = n
          <6>1. n - 1 \in 0 .. n /\ n - 1 < n /\ n \in 0 .. n /\ ~(n < n)
            BY ONLY <3>3
          <6>2. f[n - 1] = g[n - 1] /\ f[n] = Reuse(g[n - 1], w, n, m.mapping)
            BY ONLY <3>6, <6>1
          <6>. QED
            BY <3>2, <5>3, <6>2
        <5>. QED
          BY <3>3, <5>1, <5>2, <5>3
      <4>2. DOMAIN f = 0 .. n /\ f = [k \in 0 .. n |-> f[k]]
        BY <3>6
      <4>. QED
        BY ONLY <4>1, <4>2, Zenon
    <3>8. Upto(n)
      BY <3>7
    <3>. QED
      BY <3>1, <3>8
  <2>. QED
    BY <2>1, <2>2
<1>3. r = [k \in 0 .. Len(w) |-> IF k = 0 THEN RemapStart(m.enrolled)
                                 ELSE Reuse(r[k - 1], w, k, m.mapping)]
  BY <1>2, Zenon
<1>4. Reused(m, w) = r[Len(w)]
  BY DEF Reused
<1>. HIDE DEF r
<1>5. r[0] = RemapStart(m.enrolled)
  BY ONLY <1>1, <1>3
<1>6. ASSUME NEW k \in 1 .. Len(w)
      PROVE  r[k] = Reuse(r[k - 1], w, k, m.mapping)
  BY ONLY <1>1, <1>3, k \in 1 .. Len(w)
<1>7. Reusing(r[0], m, w, 0)
  <2>1. m.enrolled \subseteq Clients
    BY StateFacts
  <2>2. PICK s : s = RemapStart(m.enrolled)
    OBVIOUS
  <2>3. /\ s \in RemapState /\ s.avail = m.enrolled /\ s.used = {}
        /\ \A n \in HostNames : s.new[n] = NoClient
    BY <2>1, <2>2 DEF RemapStart, RemapState, NoMapping, Mapping
  <2>4. Fits(s, m, w)
    BY <2>3 DEF Fits
  <2>5. \A j \in 1 .. 0 : FALSE
    OBVIOUS
  <2>. QED
    BY <1>5, <2>2, <2>3, <2>4, <2>5 DEF Reusing
<1>8. ASSUME NEW k \in 1 .. Len(w), Reusing(r[k - 1], m, w, k - 1)
      PROVE  Reusing(r[k], m, w, k)
  BY <1>1, <1>6, <1>8, ReuseTurn
<1>9. \A k \in 0 .. Len(w) : Reusing(r[k], m, w, k)
  <2>. DEFINE wrong == {k \in 0 .. Len(w) : ~Reusing(r[k], m, w, k)}
  <2>1. CASE wrong # {}
    <3>1. wrong \in SUBSET Nat
      BY <1>1
    <3>2. PICK k \in wrong : \A i \in wrong : k <= i
      BY <2>1, <3>1, Least
    <3>3. k # 0
      BY <1>7, <3>2
    <3>4. k \in 1 .. Len(w) /\ k - 1 \in 0 .. Len(w) /\ ~(k <= k - 1)
      BY <1>1, <3>3
    <3>5. Reusing(r[k - 1], m, w, k - 1)
      BY <3>2, <3>4
    <3>. QED
      BY <1>8, <3>2, <3>4, <3>5
  <2>. QED
    BY <2>1
<1>. QED
  BY <1>1, <1>4, <1>9

LEMMA RemappedFacts ==
    ASSUME NEW m \in SlaveState, NEW w \in Programs \cup {<< >>}
    PROVE  Assigning(Remapped(m, w), m, w)
<1>. DEFINE r == CHOOSE r : r = [k \in 0 .. Len(w) |->
                                   IF k = 0 THEN Reused(m, w)
                                   ELSE Assign(r[k - 1], w, k, m.arrived)]
<1>1. Len(w) \in Nat /\ DOMAIN w = 1 .. Len(w)
  BY WantedFacts
<1>2. \E f : f = [k \in 0 .. Len(w) |-> IF k = 0 THEN Reused(m, w)
                                        ELSE Assign(f[k - 1], w, k, m.arrived)]
  <2>. DEFINE Upto(n) == \E f : f = [k \in 0 .. n |-> IF k = 0 THEN Reused(m, w)
                                                  ELSE Assign(f[k - 1], w, k, m.arrived)]
              without == {n \in Nat : ~Upto(n)}
  <2>1. CASE without = {}
    BY <1>1, <2>1
  <2>2. CASE without # {}
    <3>1. PICK n \in without : \A i \in without : n <= i
      <4>1. without \in SUBSET Nat
        OBVIOUS
      <4>. QED
        BY <2>2, <4>1, Least
    <3>2. n # 0
      <4>1. Upto(0)
        <5>1. PICK f : f = [k \in 0 .. 0 |-> Reused(m, w)]
          OBVIOUS
        <5>2. f = [k \in 0 .. 0 |-> IF k = 0 THEN Reused(m, w)
                                    ELSE Assign(f[k - 1], w, k, m.arrived)]
          BY <5>1
        <5>. QED
          BY <5>2
      <4>. QED
        BY <4>1
    <3>3. n \in Nat /\ n - 1 \in Nat /\ ~(n <= n - 1)
      BY <3>2
    <3>4. Upto(n - 1)
      BY <3>1, <3>3
    <3>5. PICK g : g = [k \in 0 .. n - 1 |-> IF k = 0 THEN Reused(m, w)
                                             ELSE Assign(g[k - 1], w, k, m.arrived)]
      BY <3>4
    <3>6. PICK f : f = [k \in 0 .. n |-> IF k < n THEN g[k] ELSE Assign(g[n - 1], w, n, m.arrived)]
      OBVIOUS
    <3>7. f = [k \in 0 .. n |-> IF k = 0 THEN Reused(m, w)
                                ELSE Assign(f[k - 1], w, k, m.arrived)]
      <4>1. ASSUME NEW k \in 0 .. n
            PROVE  f[k] = IF k = 0 THEN Reused(m, w)
                          ELSE Assign(f[k - 1], w, k, m.arrived)
        <5>1. CASE k = 0
          BY ONLY <3>2, <3>3, <3>5, <3>6, <5>1, k \in 0 .. n
        <5>2. CASE k # 0 /\ k < n
          <6>1. k - 1 \in 0 .. n /\ k - 1 < n /\ k \in 0 .. n - 1
            BY ONLY <3>3, <5>2, k \in 0 .. n
          <6>2. f[k] = g[k] /\ f[k - 1] = g[k - 1]
            BY ONLY <3>6, <5>2, <6>1, k \in 0 .. n
          <6>3. g[k] = Assign(g[k - 1], w, k, m.arrived)
            BY ONLY <3>5, <5>2, <6>1
          <6>. QED
            BY <5>2, <6>2, <6>3
        <5>3. CASE k = n
          <6>1. n - 1 \in 0 .. n /\ n - 1 < n /\ n \in 0 .. n /\ ~(n < n)
            BY ONLY <3>3
          <6>2. f[n - 1] = g[n - 1] /\ f[n] = Assign(g[n - 1], w, n, m.arrived)
            BY ONLY <3>6, <6>1
          <6>. QED
            BY <3>2, <5>3, <6>2
        <5>. QED
          BY <3>3, <5>1, <5>2, <5>3
      <4>2. DOMAIN f = 0 .. n /\ f = [k \in 0 .. n |-> f[k]]
        BY <3>6
      <4>. QED
        BY ONLY <4>1, <4>2, Zenon
    <3>8. Upto(n)
      BY <3>7
    <3>. QED
      BY <3>1, <3>8
  <2>. QED
    BY <2>1, <2>2
<1>3. r = [k \in 0 .. Len(w) |-> IF k = 0 THEN Reused(m, w)
                                 ELSE Assign(r[k - 1], w, k, m.arrived)]
  BY <1>2, Zenon
<1>4. Remapped(m, w) = r[Len(w)]
  BY DEF Remapped
<1>. HIDE DEF r
<1>5. r[0] = Reused(m, w)
  BY ONLY <1>1, <1>3
<1>6. ASSUME NEW k \in 1 .. Len(w)
      PROVE  r[k] = Assign(r[k - 1], w, k, m.arrived)
  BY ONLY <1>1, <1>3, k \in 1 .. Len(w)
<1>7. Assigning(r[0], m, w)
  BY <1>1, <1>5, ReusedFacts DEF Reusing, Assigning
<1>8. ASSUME NEW k \in 1 .. Len(w), Assigning(r[k - 1], m, w)
      PROVE  Assigning(r[k], m, w)
  BY <1>1, <1>6, <1>8, AssignTurn
<1>9. \A k \in 0 .. Len(w) : Assigning(r[k], m, w)
  <2>. DEFINE wrong == {k \in 0 .. Len(w) : ~Assigning(r[k], m, w)}
  <2>1. CASE wrong # {}
    <3>1. wrong \in SUBSET Nat
      BY <1>1
    <3>2. PICK k \in wrong : \A i \in wrong : k <= i
      BY <2>1, <3>1, Least
    <3>3. k # 0
      BY <1>7, <3>2
    <3>4. k \in 1 .. Len(w) /\ k - 1 \in 0 .. Len(w) /\ ~(k <= k - 1)
      BY <1>1, <3>3
    <3>5. Assigning(r[k - 1], m, w)
      BY <3>2, <3>4
    <3>. QED
      BY <1>8, <3>2, <3>4, <3>5
  <2>. QED
    BY <2>1
<1>. QED
  BY <1>1, <1>4, <1>9

\* The children of a load: each enrolled host is asked once, for its name if it has
\* one, and for nothing else.
Rightly(act, r, program) ==
    \/ act.host \in r.avail /\ act.name = NoName /\ act.program = NoProgram
    \/ /\ act.host \notin r.avail /\ act.name \in HostNames /\ act.program = program
       /\ r.new[act.name] = act.host

AsLoads(m, a, r, k, new) ==
    /\ k.mapping = r.new /\ k.enrolled = m.enrolled /\ k.arrived = m.arrived
    /\ k.known = m.known /\ k.out = m.out /\ k.posted = m.posted
    /\ SameQueue(m, k) /\ SameControl(m, k)
    /\ \A i \in DOMAIN new :
          /\ new[i].kind = "loadHost" /\ new[i].children = {}
          /\ new[i].host \in m.enrolled /\ new[i].success = TRUE
          /\ Rightly(new[i], r, m.acts[a].program)
    /\ \A i, j \in DOMAIN new : new[i].host = new[j].host => i = j
    /\ \A c \in m.enrolled : \E i \in DOMAIN new : new[i].host = c

LEMMA LoadEachFacts ==
    ASSUME NEW m \in SlaveState, NEW a \in DOMAIN m.acts, NEW w \in Programs \cup {<< >>}, NEW r,
           Fits(r, m, w), NEW n \in LoadEach(m, a, r)
    PROVE  \E k \in SlaveState, new \in Seq(Activity) :
              n = StartChildren(k, a, new) /\ AsLoads(m, a, r, k, new)
<1>1. PICK s \in Visits(r.avail, m), t \in Orders(m.enrolled \ r.avail) :
         n = StartChildren([m EXCEPT !.mapping = r.new], a, UnloadAll(s) \o LoadAll(t, r.new, m.acts[a].program))
  <2>1. PICK v \in Visits(r.avail, m) \X Orders(m.enrolled \ r.avail) :
           n = StartChildren([m EXCEPT !.mapping = r.new], a,
                             UnloadAll(v[1]) \o LoadAll(v[2], r.new, m.acts[a].program))
    BY DEF LoadEach
  <2>. QED
    BY <2>1
<1>2. /\ m.enrolled \subseteq Clients /\ r.avail \subseteq m.enrolled /\ r.new \in Mapping
      /\ m.acts[a].program \in Program /\ NoProgram \in Program
  BY StateFacts, ActivityFacts, Constants DEF Fits, RemapState
<1>3. /\ s \in Seq(Clients) /\ DOMAIN s = 1 .. Len(s) /\ Len(s) \in Nat
      /\ \A i \in DOMAIN s : s[i] \in r.avail
      /\ \A c \in r.avail : \E i \in DOMAIN s : s[i] = c
      /\ \A i, j \in DOMAIN s : s[i] = s[j] => i = j
  BY <1>2, VisitsFacts, OrdersFacts
<1>4. /\ t \in Seq(Clients) /\ DOMAIN t = 1 .. Len(t) /\ Len(t) \in Nat
      /\ \A i \in DOMAIN t : t[i] \in m.enrolled \ r.avail
      /\ \A c \in m.enrolled \ r.avail : \E i \in DOMAIN t : t[i] = c
      /\ \A i, j \in DOMAIN t : t[i] = t[j] => i = j
  <2>1. m.enrolled \ r.avail \in SUBSET Clients
    BY <1>2
  <2>. QED
    BY <2>1, OrdersFacts
<1>5. \A c \in m.enrolled \ r.avail : NameOf(c, r.new) \in HostNames /\ r.new[NameOf(c, r.new)] = c
  BY DEF Fits, NameOf
<1>6. PICK u : u = UnloadAll(s)
  OBVIOUS
<1>7. PICK l : l = LoadAll(t, r.new, m.acts[a].program)
  OBVIOUS
<1>8. /\ u \in Seq(Activity) /\ DOMAIN u = DOMAIN s /\ Len(u) = Len(s)
      /\ \A i \in DOMAIN s : /\ u[i].kind = "loadHost" /\ u[i].children = {}
                             /\ u[i].host = s[i] /\ u[i].success = TRUE
                             /\ u[i].name = NoName /\ u[i].program = NoProgram
  <2>1. \A i \in DOMAIN s : u[i] = LoadHost(s[i], NoName, NoProgram) /\ s[i] \in Clients
    BY <1>2, <1>3, <1>6 DEF UnloadAll
  <2>2. \A i \in DOMAIN s :
           /\ u[i] \in Activity /\ u[i].kind = "loadHost" /\ u[i].children = {}
           /\ u[i].host = s[i] /\ u[i].success = TRUE
           /\ u[i].name = NoName /\ u[i].program = NoProgram
    BY <1>2, <2>1, NewActivityFacts
  <2>3. DOMAIN u = 1 .. Len(s)
    BY <1>3, <1>6 DEF UnloadAll
  <2>4. u = [i \in 1 .. Len(s) |-> u[i]]
    BY <1>3, <1>6 DEF UnloadAll
  <2>. QED
    BY ONLY <1>3, <2>2, <2>3, <2>4
<1>9. /\ l \in Seq(Activity) /\ DOMAIN l = DOMAIN t /\ Len(l) = Len(t)
      /\ \A i \in DOMAIN t : /\ l[i].kind = "loadHost" /\ l[i].children = {}
                             /\ l[i].host = t[i] /\ l[i].success = TRUE
                             /\ l[i].name \in HostNames /\ l[i].program = m.acts[a].program
                             /\ r.new[l[i].name] = t[i]
  <2>1. \A i \in DOMAIN t : l[i] = LoadHost(t[i], NameOf(t[i], r.new), m.acts[a].program) /\ t[i] \in Clients
    BY <1>2, <1>4, <1>7 DEF LoadAll
  <2>2. \A i \in DOMAIN t :
           /\ l[i] \in Activity /\ l[i].kind = "loadHost" /\ l[i].children = {}
           /\ l[i].host = t[i] /\ l[i].success = TRUE
           /\ l[i].name = NameOf(t[i], r.new) /\ l[i].program = m.acts[a].program
    BY <1>2, <1>4, <1>5, <2>1, NewActivityFacts
  <2>3. DOMAIN l = 1 .. Len(t)
    BY <1>4, <1>7 DEF LoadAll
  <2>4. l = [i \in 1 .. Len(t) |-> l[i]]
    BY <1>4, <1>7 DEF LoadAll
  <2>5. \A i \in DOMAIN t : NameOf(t[i], r.new) \in HostNames /\ r.new[NameOf(t[i], r.new)] = t[i]
    BY <1>4, <1>5
  <2>. QED
    BY ONLY <1>4, <2>2, <2>3, <2>4, <2>5
<1>10. PICK new : new = u \o l
  OBVIOUS
<1>11. /\ new \in Seq(Activity)
       /\ \A i \in DOMAIN new :
             \/ i \in DOMAIN u /\ new[i] = u[i]
             \/ i > Len(u) /\ i - Len(u) \in DOMAIN l /\ new[i] = l[i - Len(u)]
       /\ \A i \in DOMAIN u : i \in DOMAIN new /\ new[i] = u[i]
       /\ \A i \in DOMAIN l : Len(u) + i \in DOMAIN new /\ new[Len(u) + i] = l[i]
       /\ DOMAIN new \subseteq Nat
  <2>1. u \in Seq(Activity) /\ l \in Seq(Activity)
    BY <1>8, <1>9
  <2>2. /\ u \o l \in Seq(Activity)
        /\ \A i \in DOMAIN (u \o l) :
              \/ i \in DOMAIN u /\ (u \o l)[i] = u[i]
              \/ i > Len(u) /\ i - Len(u) \in DOMAIN l /\ (u \o l)[i] = l[i - Len(u)]
        /\ \A i \in DOMAIN u : i \in DOMAIN (u \o l) /\ (u \o l)[i] = u[i]
        /\ \A i \in DOMAIN l : Len(u) + i \in DOMAIN (u \o l) /\ (u \o l)[Len(u) + i] = l[i]
    BY ONLY <2>1, ConcatFacts
  <2>3. DOMAIN new = 1 .. Len(new) /\ Len(new) \in Nat
    BY <1>10, <2>2, LenProperties
  <2>. QED
    BY <1>10, <2>2, <2>3
<1>12. ASSUME NEW i \in DOMAIN new
       PROVE  /\ new[i].kind = "loadHost" /\ new[i].children = {}
              /\ new[i].host \in m.enrolled /\ new[i].success = TRUE
              /\ Rightly(new[i], r, m.acts[a].program)
  <2>1. CASE i \in DOMAIN u /\ new[i] = u[i]
    BY <1>2, <1>3, <1>8, <2>1 DEF Rightly
  <2>2. CASE i - Len(u) \in DOMAIN l /\ new[i] = l[i - Len(u)]
    BY <1>2, <1>4, <1>9, <2>2 DEF Rightly
  <2>. QED
    BY <1>11, <2>1, <2>2
<1>13. ASSUME NEW i \in DOMAIN new, NEW j \in DOMAIN new, new[i].host = new[j].host
       PROVE  i = j
  <2>1. CASE i \in DOMAIN u /\ new[i] = u[i] /\ j \in DOMAIN u /\ new[j] = u[j]
    BY <1>3, <1>8, <1>13, <2>1
  <2>2. CASE /\ i - Len(u) \in DOMAIN l /\ new[i] = l[i - Len(u)]
             /\ j - Len(u) \in DOMAIN l /\ new[j] = l[j - Len(u)]
    <3>1. i - Len(u) = j - Len(u)
      BY <1>4, <1>9, <1>13, <2>2
    <3>. QED
      BY <1>3, <1>8, <1>11, <3>1
  <2>. QED
    BY <1>3, <1>4, <1>8, <1>9, <1>11, <1>13, <2>1, <2>2
<1>14. ASSUME NEW c \in m.enrolled
       PROVE  \E i \in DOMAIN new : new[i].host = c
  <2>1. CASE c \in r.avail
    <3>1. PICK i \in DOMAIN s : s[i] = c
      BY <1>3, <2>1
    <3>2. i \in DOMAIN u /\ u[i].host = c
      BY <1>8, <3>1
    <3>3. i \in DOMAIN new /\ new[i].host = c
      BY <1>11, <3>2
    <3>. QED
      BY ONLY <3>3
  <2>2. CASE c \notin r.avail
    <3>1. PICK i \in DOMAIN t : t[i] = c
      BY <1>4, <1>14, <2>2
    <3>2. i \in DOMAIN l /\ l[i].host = c
      BY <1>9, <3>1
    <3>3. Len(u) + i \in DOMAIN new /\ new[Len(u) + i].host = c
      BY <1>11, <3>2
    <3>. QED
      BY ONLY <3>3
  <2>. QED
    BY <2>1, <2>2
<1>15. PICK k : k = [m EXCEPT !.mapping = r.new]
  OBVIOUS
<1>16. /\ k \in SlaveState /\ k.mapping = r.new /\ k.enrolled = m.enrolled /\ k.arrived = m.arrived
       /\ k.known = m.known /\ k.out = m.out /\ k.posted = m.posted
       /\ SameQueue(m, k) /\ SameControl(m, k)
  BY <1>2, <1>15 DEF SlaveState, SameQueue, SameControl
<1>17. n = StartChildren(k, a, new)
  BY <1>1, <1>6, <1>7, <1>10, <1>15
<1>18. AsLoads(m, a, r, k, new)
  BY <1>12, <1>13, <1>14, <1>16 DEF AsLoads
<1>. QED
  BY ONLY <1>11, <1>16, <1>17, <1>18

\* The activities in new are of one kind, each of a host of its own.
AsChild(new, kind) ==
    /\ \A i \in DOMAIN new : new[i].kind = kind /\ new[i].host \in Clients /\ new[i].children = {}
    /\ \A i, j \in DOMAIN new : new[i].host = new[j].host => i = j

LEMMA TestHostsFacts ==
    ASSUME NEW m \in SlaveState, NEW a, NEW n \in StartTestHosts(m, a)
    PROVE  \E new \in Seq(Activity) : n = StartChildren(m, a, new) /\ AsChild(new, "testHost")
<1>1. PICK s \in Visits(m.enrolled, m) : n = StartChildren(m, a, [i \in DOMAIN s |-> TestHost(s[i])])
  BY DEF StartTestHosts
<1>2. /\ s \in Seq(Clients) /\ DOMAIN s = 1 .. Len(s) /\ Len(s) \in Nat
      /\ \A i, j \in DOMAIN s : s[i] = s[j] => i = j
  BY StateFacts, VisitsFacts, OrdersFacts
<1>3. PICK new : new = [i \in DOMAIN s |-> TestHost(s[i])]
  OBVIOUS
<1>4. \A i \in DOMAIN s : new[i] = TestHost(s[i]) /\ s[i] \in Clients
  BY <1>2, <1>3
<1>5. \A i \in DOMAIN s : /\ new[i] \in Activity /\ new[i].kind = "testHost"
                          /\ new[i].host = s[i] /\ new[i].children = {} /\ new[i].host \in Clients
  BY <1>4, NewActivityFacts
<1>6. DOMAIN new = 1 .. Len(s) /\ new = [i \in 1 .. Len(s) |-> new[i]]
  BY <1>2, <1>3
<1>7. new \in Seq(Activity) /\ DOMAIN new = DOMAIN s
  BY ONLY <1>2, <1>5, <1>6
<1>8. AsChild(new, "testHost")
  BY <1>2, <1>5, <1>7 DEF AsChild
<1>. QED
  BY ONLY <1>1, <1>3, <1>7, <1>8

LEMMA HostsConfigFacts ==
    ASSUME NEW m \in SlaveState, NEW a, m.acts[a].config \in Config, NEW n \in StartHostsConfig(m, a)
    PROVE  \E new \in Seq(Activity) : n = StartChildren(m, a, new) /\ AsChild(new, "hostConfig")
<1>0. PICK type : type = m.acts[a].config /\ type \in Config
  OBVIOUS
<1>1. PICK s \in Visits(m.enrolled, m) :
         n = StartChildren(m, a, [i \in DOMAIN s |-> HostConfig(s[i], type)])
  BY <1>0 DEF StartHostsConfig
<1>2. /\ s \in Seq(Clients) /\ DOMAIN s = 1 .. Len(s) /\ Len(s) \in Nat
      /\ \A i, j \in DOMAIN s : s[i] = s[j] => i = j
  BY StateFacts, VisitsFacts, OrdersFacts
<1>3. PICK new : new = [i \in DOMAIN s |-> HostConfig(s[i], type)]
  OBVIOUS
<1>4. \A i \in DOMAIN s : new[i] = HostConfig(s[i], type) /\ s[i] \in Clients
  BY <1>2, <1>3
<1>5. \A i \in DOMAIN s : /\ new[i] \in Activity /\ new[i].kind = "hostConfig"
                          /\ new[i].host = s[i] /\ new[i].children = {} /\ new[i].host \in Clients
  BY <1>0, <1>4, NewActivityFacts
<1>6. DOMAIN new = 1 .. Len(s) /\ new = [i \in 1 .. Len(s) |-> new[i]]
  BY <1>2, <1>3
<1>7. new \in Seq(Activity) /\ DOMAIN new = DOMAIN s
  BY ONLY <1>2, <1>5, <1>6
<1>8. AsChild(new, "hostConfig")
  BY <1>2, <1>5, <1>7 DEF AsChild
<1>. QED
  BY ONLY <1>1, <1>3, <1>7, <1>8

LEMMA WantedProgram == \A p \in Program : Wanted(p) \in Programs \cup {<< >>}
BY SlaveAssumption DEF Program, Wanted

LEMMA LoadHostsFacts ==
    ASSUME NEW m \in SlaveState, NEW a \in DOMAIN m.acts, NEW n \in StartLoadHosts(m, a)
    PROVE  LET w == Wanted(m.acts[a].program)
               r == Remapped(m, w)
           IN  /\ w \in Programs \cup {<< >>} /\ Assigning(r, m, w)
               /\ \/ n = Complete(m, a) /\ m.acts[a].program \in ProgramNames \ Readable
                  \/ n = [m EXCEPT !.process = "malformed"] /\ m.acts[a].program \in Malformed
                  \/ /\ m.acts[a].program \notin ProgramNames \ Readable
                     /\ \E k \in SlaveState, new \in Seq(Activity) :
                           n = StartChildren(k, a, new) /\ AsLoads(m, a, r, k, new)
<1>1. m.acts[a].program \in Program
  BY StateFacts, ActivityFacts
<1>2. PICK w \in Programs \cup {<< >>} : w = Wanted(m.acts[a].program)
  BY <1>1, WantedProgram
<1>3. PICK r : r = Remapped(m, w) /\ Assigning(r, m, w) /\ Fits(r, m, w)
  BY RemappedFacts DEF Assigning
<1>4. CASE m.acts[a].program \in ProgramNames \ Readable
  <2>1. n = Complete(m, a)
    BY <1>4 DEF StartLoadHosts
  <2>. QED
    BY ONLY <1>2, <1>3, <1>4, <2>1
<1>5. CASE /\ m.acts[a].program \notin ProgramNames \ Readable
           /\ m.acts[a].program \in Malformed
  <2>1. n = [m EXCEPT !.process = "malformed"]
    BY <1>5 DEF StartLoadHosts
  <2>. QED
    BY ONLY <1>2, <1>3, <1>5, <2>1
<1>6. CASE /\ m.acts[a].program \notin ProgramNames \ Readable
           /\ m.acts[a].program \notin Malformed
  <2>1. n \in LoadEach(m, a, r)
    BY <1>2, <1>3, <1>6 DEF StartLoadHosts
  <2>2. \E k \in SlaveState, new \in Seq(Activity) :
           n = StartChildren(k, a, new) /\ AsLoads(m, a, r, k, new)
    BY <1>2, <1>3, <2>1, LoadEachFacts
  <2>. QED
    BY ONLY <1>2, <1>3, <1>6, <2>2
<1>. QED
  BY <1>4, <1>6, <1>5

LEMMA QueuedTestHosts ==
    ASSUME NEW m \in SlaveState, Queued(m), NEW a \in ToSet(m.active),
           m.acts[a].kind = "testHosts", m.acts[a].children = {}, ~Ending(m, a),
           NEW n \in StartTestHosts(m, a)
    PROVE  n \in SlaveState /\ Queued(n)
<1>1. PICK new \in Seq(Activity) : n = StartChildren(m, a, new) /\ AsChild(new, "testHost")
  BY TestHostsFacts
<1>2. KindOfChild(m.acts[a].kind) = "testHost"
  BY DEF KindOfChild
<1>. QED
  BY <1>1, <1>2, QueuedChildren DEF AsChild, Singles

LEMMA QueuedHostsConfig ==
    ASSUME NEW m \in SlaveState, Queued(m), NEW a \in ToSet(m.active),
           m.acts[a].kind = "hostsConfig", m.acts[a].children = {}, ~Ending(m, a),
           NEW n \in StartHostsConfig(m, a)
    PROVE  n \in SlaveState /\ Queued(n)
<1>0. m.acts[a].config \in Config
  BY Indices, StateFacts, ActivityFacts
<1>1. PICK new \in Seq(Activity) : n = StartChildren(m, a, new) /\ AsChild(new, "hostConfig")
  BY <1>0, HostsConfigFacts
<1>2. KindOfChild(m.acts[a].kind) = "hostConfig"
  BY DEF KindOfChild
<1>. QED
  BY <1>1, <1>2, QueuedChildren DEF AsChild, Singles

LEMMA QueuedLoadHosts ==
    ASSUME NEW m \in SlaveState, Queued(m), NEW a \in ToSet(m.active),
           m.acts[a].kind = "loadHosts", m.acts[a].children = {}, ~Ending(m, a),
           NEW n \in StartLoadHosts(m, a)
    PROVE  n \in SlaveState /\ Queued(n)
<1>0. a \in DOMAIN m.acts /\ a # Permanent
  BY Indices DEF Queued, Family, Permanent
<1>1. CASE n = Complete(m, a)
  BY <1>0, <1>1, QueuedComplete
<1>2. ASSUME NEW r, NEW k \in SlaveState, NEW new \in Seq(Activity),
             n = StartChildren(k, a, new), AsLoads(m, a, r, k, new)
      PROVE  n \in SlaveState /\ Queued(n)
  <2>4. Queued(k)
    BY <1>2, QueuedHosts DEF AsLoads, SameQueue
  <2>5. KindOfChild(k.acts[a].kind) = "loadHost" /\ KindOfChild(k.acts[a].kind) \in Singles
    BY <1>2 DEF AsLoads, KindOfChild, Singles, SameQueue
  <2>6. \A i \in DOMAIN new : /\ new[i].kind = KindOfChild(k.acts[a].kind)
                              /\ new[i].host \in Clients /\ new[i].children = {}
    BY <1>2, <2>5, StateFacts DEF AsLoads
  <2>7. a \in ToSet(k.active) /\ k.acts[a].children = {} /\ ~Ending(k, a)
    BY <1>2 DEF AsLoads, SameQueue, Ending
  <2>. QED
    <3>1. \A i, j \in DOMAIN new : new[i].host = new[j].host => i = j
      BY <1>2 DEF AsLoads
    <3>. QED
      BY <1>2, <2>4, <2>5, <2>6, <2>7, <3>1, QueuedChildren
<1>3. CASE n = [m EXCEPT !.process = "malformed"]
  <2>1. PICK k : k = [m EXCEPT !.process = "malformed"]
    OBVIOUS
  <2>2. /\ k \in SlaveState /\ k.acts = m.acts /\ k.posted = m.posted
        /\ k.process = "malformed" /\ k.active = m.active /\ k.pending = m.pending
        /\ SameControl(m, k)
    BY <2>1, ProcessFacts
  <2>. QED
    BY <1>3, <2>1, <2>2, QueuedHosts
<1>. QED
  BY <1>0, <1>1, <1>2, <1>3, LoadHostsFacts

\* Activity::start, of an activity that has just become active.
LEMMA QueuedStarted ==
    ASSUME NEW m \in SlaveState, Queued(m), NEW a \in ToSet(m.active),
           m.acts[a].children = {}, ~Ending(m, a), NEW n \in Start(m, a)
    PROVE  n \in SlaveState /\ Queued(n)
<1>1. PICK act : act = m.acts[a]
  OBVIOUS
<1>2. a \in DOMAIN m.acts
  BY Indices
<1>3. act \in Activity
  BY <1>1, <1>2, StateFacts
<1>4. act.kind \in Kinds /\ (act.kind = "front" <=> a = Permanent)
      /\ (act.kind \in Singles => act.host \in Clients)
  BY <1>1, <1>2, <1>3, ActivityFacts DEF Queued, Family, Permanent
<1>5. CASE act.kind = "testHosts"
  BY <1>1, <1>5, QueuedTestHosts DEF Start
<1>6. CASE act.kind = "hostsConfig"
  BY <1>1, <1>6, QueuedHostsConfig DEF Start
<1>7. CASE act.kind = "loadHosts"
  BY <1>1, <1>7, QueuedLoadHosts DEF Start
<1>8. CASE act.kind = "testHost"
  <2>1. PICK order : order = [msg |-> "alive"]
    OBVIOUS
  <2>2. order \in Order /\ n = AskHost(m, a, order)
    BY <1>1, <1>8, <2>1, OrderFacts DEF Start
  <2>. QED
    BY <1>1, <1>4, <1>8, <2>2, QueuedAsk DEF Singles
<1>9. CASE act.kind = "hostConfig"
  <2>1. PICK order : order = [msg |-> act.config]
    OBVIOUS
  <2>2. order \in Order
    BY <1>3, <1>9, <2>1, ActivityFacts, OrderFacts
  <2>3. n = AskHost(m, a, order)
    BY <1>1, <1>9, <2>1 DEF Start
  <2>. QED
    BY <1>1, <1>4, <1>9, <2>2, <2>3, QueuedAsk DEF Singles
<1>10. CASE act.kind = "loadHost"
  <2>1. PICK order : order = [msg |-> "load", name |-> act.name, program |-> act.program]
    OBVIOUS
  <2>2. order \in Order
    BY <1>3, <1>10, <2>1, ActivityFacts, OrderFacts
  <2>3. n = AskHost(m, a, order)
    BY <1>1, <1>10, <2>1 DEF Start
  <2>. QED
    BY <1>1, <1>4, <1>10, <2>2, <2>3, QueuedAsk DEF Singles
<1>11. CASE act.kind = "front"
  BY <1>1, <1>11 DEF Start
<1>. QED
  BY <1>4, <1>5, <1>6, <1>7, <1>8, <1>9, <1>10, <1>11 DEF Kinds

\* OnStartActivity: no activity of an exclusive kind is active when one starts.
\* The one that starts is not active, has no children, and is not complete.
Activated(m, k, a) ==
    /\ k.posted = Tail(m.posted) /\ k.active = Append(m.active, a)
    /\ k.process = m.process /\ k.pending = m.pending /\ k.acts = m.acts
    /\ SameControl(m, k) /\ SameHosts(m, k)
    /\ Queued(k) /\ a \in DOMAIN m.acts /\ ToSet(k.active) = ToSet(m.active) \cup {a}
    /\ a \notin ToSet(m.active) /\ Starting(m, a)
    /\ k.acts[a].children = {} /\ ~Ending(k, a)

LEMMA StartsFacts ==
    ASSUME NEW m \in SlaveState, Queued(m), m.posted # << >>, Head(m.posted).type = "start",
           NEW n \in AQ!Starts([m EXCEPT !.posted = Tail(@)], Head(m.posted).act)
    PROVE  \E k \in SlaveState : Activated(m, k, Head(m.posted).act) /\ n \in Start(k, Head(m.posted).act)
<1>1. PICK a : a = Head(m.posted).act
  OBVIOUS
<1>2. m.posted \in Seq(Event) /\ m.active \in Seq(Nat) /\ Tail(m.posted) \in Seq(Event)
  BY StateFacts, TailFacts
<1>3. PICK posted : posted = Tail(m.posted) /\ posted \in Seq(Event)
  BY <1>2
<1>4. PICK t : t = [m EXCEPT !.posted = posted]
  OBVIOUS
<1>5. /\ t \in SlaveState /\ t.posted = Tail(m.posted)
      /\ SameQueue(m, t) /\ SameControl(m, t) /\ SameHosts(m, t)
  BY <1>3, <1>4, PostedFacts
<1>6. Head(m.posted) \in Event /\ Head(m.posted).act \in Nat
  BY <1>2, TailFacts, EventFacts
<1>7. PICK active : active = Append(m.active, a) /\ active \in Seq(Nat)
  BY <1>1, <1>2, <1>6, AppendProperties
<1>8. PICK k : k = [t EXCEPT !.active = active]
  OBVIOUS
<1>9. /\ k \in SlaveState /\ k.posted = Tail(m.posted) /\ k.active = Append(m.active, a)
      /\ k.process = m.process /\ k.pending = m.pending /\ k.acts = m.acts /\ SameControl(m, k)
      /\ SameHosts(m, k)
  <2>1. /\ k \in SlaveState /\ k.acts = t.acts /\ k.posted = t.posted
        /\ k.process = t.process /\ k.active = active /\ k.pending = t.pending
        /\ SameControl(t, k) /\ SameHosts(t, k)
    BY <1>5, <1>7, <1>8, ActiveFacts
  <2>. QED
    BY <1>5, <1>7, <2>1 DEF SameQueue, SameControl, SameHosts
<1>10. /\ Queued(k) /\ a \in DOMAIN m.acts /\ ToSet(k.active) = ToSet(m.active) \cup {a}
       /\ a \notin ToSet(m.active) /\ Starting(m, a)
       /\ k.acts[a].children = {} /\ ~Ending(k, a)
  BY <1>1, <1>9, QueuedActivate
<1>11. t.pending = << >> /\ AQ!Precondition(t, a)
  <2>1. t.pending = << >> /\ t.active = m.active /\ t.acts = m.acts
    BY <1>5 DEF SameQueue, Queued, Line
  <2>2. ASSUME NEW b \in ToSet(m.active), m.acts[a].kind \in {"loadHosts", "hostsConfig"},
               m.acts[b].kind = m.acts[a].kind
        PROVE  FALSE
    <3>1. b \in DOMAIN m.acts /\ Live(m, b) /\ Live(m, a)
      BY <1>10, Indices DEF Live
    <3>. QED
      BY <1>10, <2>2, <3>1 DEF Queued, Fronted, Stages
  <2>3. ASSUME m.acts[a].kind \in {"loadHosts", "hostsConfig"}
        PROVE  \A b \in ToSet(m.active) : m.acts[b].kind # m.acts[a].kind
    BY <2>2, <2>3
  <2>4. AQ!Precondition(t, a) <=> (t.acts[a].kind \in {"loadHosts", "hostsConfig"} =>
                                     \A b \in ToSet(t.active) : t.acts[b].kind # t.acts[a].kind)
    BY DEF AQ!Precondition, AQ!ToSet, ToSet
  <2>. QED
    BY <2>1, <2>3, <2>4
<1>12. n \in Start(k, a)
  <2>1. [m EXCEPT !.posted = Tail(@)] = t
    BY <1>3, <1>4
  <2>2. [t EXCEPT !.active = Append(@, a)] = k
    BY <1>5, <1>7, <1>8 DEF SameQueue
  <2>3. n \in AQ!Activate(t, a)
    BY <1>1, <1>11, <2>1 DEF AQ!Starts
  <2>. QED
    BY <2>2, <2>3 DEF AQ!Activate
<1>13. Activated(m, k, a)
  BY <1>9, <1>10 DEF Activated
<1>. QED
  BY ONLY <1>1, <1>9, <1>12, <1>13

LEMMA QueuedOnStart ==
    ASSUME NEW m \in SlaveState, Queued(m), m.posted # << >>, Head(m.posted).type = "start",
           NEW n \in AQ!Starts([m EXCEPT !.posted = Tail(@)], Head(m.posted).act)
    PROVE  n \in SlaveState /\ Queued(n)
<1>1. PICK k \in SlaveState : Activated(m, k, Head(m.posted).act) /\ n \in Start(k, Head(m.posted).act)
  BY StartsFacts, Zenon
<1>2. PICK a : a = Head(m.posted).act
  OBVIOUS
<1>3. Queued(k) /\ a \in ToSet(k.active) /\ k.acts[a].children = {} /\ ~Ending(k, a) /\ n \in Start(k, a)
  BY <1>1, <1>2 DEF Activated
<1>. QED
  BY <1>3, QueuedStarted

\* OnServerMessage.
LEMMA QueuedOnServer ==
    ASSUME NEW m \in SlaveState, Queued(m), m.posted # << >>, Head(m.posted).type = "server"
    PROVE  LET t == [m EXCEPT !.posted = Tail(@)]
               e == Head(m.posted)
           IN  /\ t \in SlaveState /\ Queued(t)
               /\ Permanent \in ToSet(m.active) /\ e.msg = "load" =>
                     LoadRequest(t, e.program) \in SlaveState /\ Queued(LoadRequest(t, e.program))
               /\ Permanent \in ToSet(m.active) /\ e.msg \in Config =>
                     ConfigRequest(t, e.msg) \in SlaveState /\ Queued(ConfigRequest(t, e.msg))
               /\ e.msg \in {"load"} \cup Config
<1>. DEFINE t == [m EXCEPT !.posted = Tail(@)]
<1>1. PICK e : e = Head(m.posted)
  OBVIOUS
<1>2. /\ t \in SlaveState /\ Queued(t) /\ t.posted = Tail(m.posted)
      /\ SameQueue(m, t) /\ SameControl(m, t) /\ SameHosts(m, t)
      /\ \A b \in Nat : Live(t, b) <=> Live(m, b)
      /\ Head(m.posted) \in Event
      /\ \A b \in Nat :
            /\ Starting(m, b) <=> Starting(t, b)
            /\ Ending(m, b) <=> Ending(t, b)
                                \/ (Head(m.posted).type = "complete" /\ Head(m.posted).act = b)
      /\ Requested(m) <=> Requested(t)
                          \/ (Head(m.posted).type = "server" /\ Head(m.posted).msg = "load")
      /\ Head(m.posted).type = "server" /\ Head(m.posted).msg = "load" => ~Requested(t)
  BY QueuedTaken, Zenon
<1>. HIDE DEF t
<1>3. e \in Event /\ e.type = "server" /\ e.msg \in {"load"} \cup Config /\ e.program \in Program
  BY <1>1, <1>2, EventFacts
<1>4. ASSUME Permanent \in ToSet(m.active), e.msg = "load"
      PROVE  LoadRequest(t, e.program) \in SlaveState /\ Queued(LoadRequest(t, e.program))
  <2>1. Requested(m) /\ ~Requested(t)
    BY <1>1, <1>2, <1>3, <1>4
  <2>2. ~Busy(m) /\ m.loading = NoProgram /\ asked.loads # m.loadsAnswered
    BY <2>1 DEF Queued, Fronted, Asked
  <2>3. /\ t.loading = NoProgram /\ asked.loads # t.loadsAnswered
        /\ Permanent \in ToSet(t.active)
    BY <1>2, <1>4, <2>2 DEF SameQueue, SameControl
  <2>4. ~Busy(t)
    <3>1. m.loadTests \in Nat /\ m.loadHosts \in Nat
      BY StateFacts
    <3>. QED
      BY <1>2, <2>2, <3>1 DEF Busy, SameControl
  <2>. QED
    BY <1>2, <1>3, <2>1, <2>3, <2>4, QueuedLoadRequest
<1>5. ASSUME Permanent \in ToSet(m.active), e.msg \in Config
      PROVE  ConfigRequest(t, e.msg) \in SlaveState /\ Queued(ConfigRequest(t, e.msg))
  BY <1>2, <1>5, QueuedConfigRequest DEF SameQueue
<1>. QED
  BY <1>1, <1>2, <1>3, <1>4, <1>5 DEF t

\* OnClientMessage.
LEMMA QueuedOnClient ==
    ASSUME NEW m \in SlaveState, Queued(m), m.posted # << >>, Head(m.posted).type = "client"
    PROVE  LET t == [m EXCEPT !.posted = Tail(@)]
               e == Head(m.posted)
               takers == {i \in DOMAIN m.active : Handles(m, m.active[i], e)}
               first == m.active[CHOOSE i \in takers : \A j \in takers : i <= j]
           IN  /\ t \in SlaveState /\ Queued(t)
               /\ EnrollRequest(t, e.from) \in SlaveState /\ Queued(EnrollRequest(t, e.from))
               /\ \A n \in EnrollEGRequest(t, e.from) : n \in SlaveState /\ Queued(n)
               /\ BufferRequest(t, e.from) \in SlaveState /\ Queued(BufferRequest(t, e.from))
               /\ takers # {} => /\ HostAnswer(t, first, e.success) \in SlaveState
                                 /\ Queued(HostAnswer(t, first, e.success))
               /\ e.msg \in {"enroll", "enrolleg", "alive", "load", "buffer"} \cup Config
<1>. DEFINE t == [m EXCEPT !.posted = Tail(@)]
<1>1. PICK e : e = Head(m.posted)
  OBVIOUS
<1>. DEFINE takers == {i \in DOMAIN m.active : Handles(m, m.active[i], e)}
            first == m.active[CHOOSE i \in takers : \A j \in takers : i <= j]
<1>2. /\ t \in SlaveState /\ Queued(t) /\ t.posted = Tail(m.posted)
      /\ SameQueue(m, t) /\ SameControl(m, t) /\ SameHosts(m, t)
      /\ \A b \in Nat : Live(t, b) <=> Live(m, b)
      /\ Head(m.posted) \in Event
      /\ \A b \in Nat :
            /\ Starting(m, b) <=> Starting(t, b)
            /\ Ending(m, b) <=> Ending(t, b)
                                \/ (Head(m.posted).type = "complete" /\ Head(m.posted).act = b)
      /\ Requested(m) <=> Requested(t)
                          \/ (Head(m.posted).type = "server" /\ Head(m.posted).msg = "load")
      /\ Head(m.posted).type = "server" /\ Head(m.posted).msg = "load" => ~Requested(t)
  BY QueuedTaken, Zenon
<1>. HIDE DEF t
<1>3. /\ e \in Event /\ e.type = "client" /\ e.from \in Clients /\ e.success \in BOOLEAN
      /\ e.msg \in {"enroll", "enrolleg", "alive", "load", "buffer"} \cup Config
  BY <1>1, <1>2, EventFacts
<1>4. EnrollRequest(t, e.from) \in SlaveState /\ Queued(EnrollRequest(t, e.from))
  BY <1>2, <1>3, QueuedEnroll
<1>5. \A n \in EnrollEGRequest(t, e.from) : n \in SlaveState /\ Queued(n)
  BY <1>2, <1>3, QueuedEnrollEG
<1>6. BufferRequest(t, e.from) \in SlaveState /\ Queued(BufferRequest(t, e.from))
  <2>1. PICK order \in Order : order = [msg |-> "buffer"]
    BY OrderFacts
  <2>2. BufferRequest(t, e.from) = SendHost(t, e.from, order)
    BY <2>1 DEF BufferRequest
  <2>. QED
    BY <1>2, <1>3, <2>2, QueuedSendHost
<1>7. ASSUME takers # {}
      PROVE  HostAnswer(t, first, e.success) \in SlaveState /\ Queued(HostAnswer(t, first, e.success))
  <2>1. takers \in SUBSET Nat
    BY StateFacts
  <2>2. PICK i \in takers : i = CHOOSE k \in takers : \A j \in takers : k <= j
    <3>1. \E x \in takers : \A y \in takers : x <= y
      BY <1>7, <2>1, Least
    <3>. QED
      BY <3>1, Zenon
  <2>3. first = m.active[i] /\ i \in DOMAIN m.active /\ Handles(m, m.active[i], e)
    BY <2>2, Zenon
  <2>4. first \in ToSet(m.active)
    BY <2>3, IndexInToSet
  <2>. HIDE DEF first
  <2>5. m.acts[first].kind \in Singles
    BY <2>3 DEF Handles, Singles
  <2>6. first \in ToSet(t.active) /\ t.acts[first].kind \in Singles
    BY <1>2, <2>4, <2>5 DEF SameQueue
  <2>. QED
    BY <1>2, <1>3, <2>6, QueuedAnswer
<1>. HIDE DEF first, takers
<1>. QED
  BY <1>1, <1>2, <1>3, <1>4, <1>5, <1>6, <1>7 DEF t, first, takers

-----------------------------------------------------------------------------
(***************************************************************************)
(* OnActivityComplete: whom it tells does not depend on that the activity  *)
(* leaves the active ones afterwards.                                      *)
(***************************************************************************)
WithActive(m, active) == [m EXCEPT !.active = active]

LEMMA WithActiveFacts ==
    ASSUME NEW m \in SlaveState, NEW active \in Seq(Nat)
    PROVE  /\ WithActive(m, active) \in SlaveState
           /\ WithActive(m, active).acts = m.acts /\ WithActive(m, active).posted = m.posted
           /\ WithActive(m, active).process = m.process /\ WithActive(m, active).active = active
           /\ WithActive(m, active).pending = m.pending
           /\ SameControl(m, WithActive(m, active)) /\ SameHosts(m, WithActive(m, active))
BY ActiveFacts DEF WithActive

LEMMA PostCommutes ==
    ASSUME NEW m \in SlaveState, NEW active, NEW es
    PROVE  WithActive(Post(m, es), active) = Post(WithActive(m, active), es)
BY DEF WithActive, Post, SlaveState

LEMMA LoadStepCommutes ==
    ASSUME NEW m \in SlaveState, NEW active, NEW a
    PROVE  WithActive(LoadStep(m, a), active) = LoadStep(WithActive(m, active), a)
<1>1. PICK k : k = WithActive(m, active)
  OBVIOUS
<1>2. k.loadTests = m.loadTests /\ k.loadHosts = m.loadHosts
  BY <1>1 DEF WithActive, SlaveState
<1>3. CASE a = m.loadTests
  BY <1>1, <1>2, <1>3, PostCommutes DEF LoadStep, PostStart
<1>4. CASE a # m.loadTests
  BY <1>1, <1>2, <1>4 DEF LoadStep, WithActive, SlaveState
<1>. QED
  BY <1>3, <1>4

LEMMA ConfigStepCommutes ==
    ASSUME NEW m \in SlaveState, NEW active, NEW a
    PROVE  WithActive(ConfigStep(m, a), active) = ConfigStep(WithActive(m, active), a)
<1>1. PICK k : k = WithActive(m, active)
  OBVIOUS
<1>2. k.configTests = m.configTests /\ k.configHosts = m.configHosts
  BY <1>1 DEF WithActive, SlaveState
<1>3. CASE a = m.configTests
  BY <1>1, <1>2, <1>3, PostCommutes DEF ConfigStep, PostStart
<1>4. CASE a # m.configTests
  BY <1>1, <1>2, <1>4 DEF ConfigStep, WithActive, SlaveState
<1>. QED
  BY <1>3, <1>4

\* A parent's children are left alone but for the one that is complete.
Erased(m, p, a) ==
    [m.acts[p] EXCEPT !.children = @ \ {a}, !.success = @ /\ m.acts[a].success]

\* The state n in which the parent p is act: a is no longer among its children.
WithoutChild(m, p, a, act, n) ==
    /\ act = Erased(m, p, a) /\ act \in Activity
    /\ act.children = m.acts[p].children \ {a}
    /\ act.kind = m.acts[p].kind /\ act.host = m.acts[p].host
    /\ act.name = m.acts[p].name /\ act.program = m.acts[p].program
    /\ act.config = m.acts[p].config
    /\ act.success = (m.acts[p].success /\ m.acts[a].success)
    /\ n = [m EXCEPT !.acts[p] = act]
    /\ ChildDone(m, p, a) = IF m.acts[p].children \ {a} = {} THEN Complete(n, p) ELSE n

LEMMA ChildDoneFacts ==
    ASSUME NEW m \in SlaveState, NEW p \in DOMAIN m.acts, NEW a \in DOMAIN m.acts
    PROVE  \E act, n : WithoutChild(m, p, a, act, n)
<1>0. PICK act, n : act = Erased(m, p, a) /\ n = [m EXCEPT !.acts[p] = act]
  OBVIOUS
<1>1. PICK was : was = m.acts[p]
  OBVIOUS
<1>2. was \in Activity /\ m.acts[a] \in Activity /\ m.acts \in Seq(Activity)
  BY <1>1, StateFacts
<1>3. m.acts[a].success \in BOOLEAN /\ was.success \in BOOLEAN
  BY <1>2, ActivityFacts
<1>4. PICK ok : ok = (was.success /\ m.acts[a].success) /\ ok \in BOOLEAN
  BY <1>3
<1>5. PICK left : left = was.children \ {a} /\ left \in SUBSET Nat
  <2>1. was.children \in SUBSET Nat
    BY <1>2, ActivityFacts
  <2>. QED
    BY <2>1
<1>6. act = [[was EXCEPT !.children = left] EXCEPT !.success = ok]
  <2>1. act = [was EXCEPT !.children = left, !.success = ok]
    BY <1>0, <1>1, <1>4, <1>5 DEF Erased
  <2>. QED
    BY <2>1
<1>7. /\ act \in Activity
      /\ act.children = m.acts[p].children \ {a}
      /\ act.kind = m.acts[p].kind /\ act.host = m.acts[p].host
      /\ act.name = m.acts[p].name
      /\ act.program = m.acts[p].program
      /\ act.config = m.acts[p].config
      /\ act.success = (m.acts[p].success /\ m.acts[a].success)
  <2>1. PICK b \in Activity : b = [was EXCEPT !.children = left]
    BY <1>2, <1>5, ActivityFacts
  <2>2. /\ b.children = left /\ b.kind = was.kind /\ b.host = was.host /\ b.name = was.name
        /\ b.program = was.program /\ b.config = was.config
    BY <1>2, <1>5, <2>1, ActivityFacts
  <2>3. act = [b EXCEPT !.success = ok]
    BY <1>6, <2>1
  <2>4. PICK d : d = [b EXCEPT !.success = ok]
    OBVIOUS
  <2>5. /\ d \in Activity /\ d.success = ok /\ d.kind = b.kind /\ d.host = b.host
        /\ d.name = b.name /\ d.program = b.program /\ d.config = b.config
        /\ d.children = b.children
    BY ONLY <1>4, <2>4, b \in Activity DEF Activity
  <2>. QED
    BY <1>1, <1>4, <1>5, <2>2, <2>3, <2>4, <2>5
<1>8. ChildDone(m, p, a) = IF m.acts[p].children \ {a} = {} THEN Complete(n, p) ELSE n
  <2>1. [m EXCEPT !.acts[p].children = left, !.acts[p].success = ok] = n
    <3>1. PICK acts : acts = [m.acts EXCEPT ![p] = [was EXCEPT !.children = left, !.success = ok]]
      OBVIOUS
    <3>2. n = [m EXCEPT !.acts = acts]
      BY <1>0, <1>1, <1>4, <1>5, <3>1 DEF Erased
    <3>3. [[m.acts EXCEPT ![p].children = left] EXCEPT ![p].success = ok] = acts
      BY <1>1, <1>2, <3>1
    <3>4. [m EXCEPT !.acts[p].children = left, !.acts[p].success = ok]
          = [m EXCEPT !.acts = [[m.acts EXCEPT ![p].children = left] EXCEPT ![p].success = ok]]
      BY DEF SlaveState
    <3>. QED
      BY <3>2, <3>3, <3>4
  <2>2. [m EXCEPT !.acts[p].children = left, !.acts[p].success = @ /\ m.acts[a].success] = n
    BY <1>1, <1>2, <1>4, <1>5, <2>1
  <2>. QED
    BY <1>1, <1>5, <2>2 DEF ChildDone
<1>. QED
  <2>1. WithoutChild(m, p, a, act, n)
    BY ONLY <1>0, <1>7, <1>8 DEF WithoutChild
  <2>. QED
    BY <2>1

LEMMA ChildDoneCommutes ==
    ASSUME NEW m \in SlaveState, NEW active \in Seq(Nat), NEW p \in DOMAIN m.acts, NEW a \in DOMAIN m.acts
    PROVE  WithActive(ChildDone(m, p, a), active) = ChildDone(WithActive(m, active), p, a)
<1>1. PICK k : k = WithActive(m, active)
  OBVIOUS
<1>2. k \in SlaveState /\ k.acts = m.acts
  BY <1>1, WithActiveFacts
<1>3. PICK act, n : WithoutChild(m, p, a, act, n)
  BY ChildDoneFacts
<1>4. n = [m EXCEPT !.acts[p] = act] /\ act \in Activity /\ act = Erased(k, p, a)
  BY <1>2, <1>3 DEF WithoutChild, Erased
<1>5. n \in SlaveState
  BY <1>4, ActFacts
<1>6. [k EXCEPT !.acts[p] = act] = WithActive(n, active)
  BY <1>1, <1>4 DEF WithActive, SlaveState
<1>7. ChildDone(m, p, a) = IF m.acts[p].children \ {a} = {} THEN Complete(n, p) ELSE n
  BY <1>3 DEF WithoutChild
<1>8. ChildDone(k, p, a) = IF m.acts[p].children \ {a} = {} THEN Complete(WithActive(n, active), p)
                           ELSE WithActive(n, active)
  <2>1. p \in DOMAIN k.acts /\ a \in DOMAIN k.acts
    BY <1>2
  <2>2. PICK b, l : WithoutChild(k, p, a, b, l)
    BY <1>2, <2>1, ChildDoneFacts
  <2>3. l = [k EXCEPT !.acts[p] = act]
    BY <1>4, <2>2 DEF WithoutChild
  <2>. QED
    BY <1>2, <1>6, <2>2, <2>3 DEF WithoutChild
<1>9. WithActive(Complete(n, p), active) = Complete(WithActive(n, active), p)
  BY <1>5, PostCommutes DEF Complete
<1>. QED
  BY <1>1, <1>7, <1>8, <1>9

\* The handler leaves the state u that Notify makes of the one without a.
LEMMA CompletedFacts ==
    ASSUME NEW m \in SlaveState, NEW a \in ToSet(m.active), Queued(m), a # Permanent,
           m.acts[a].children = {}, NEW n \in AQ!Completed(m, a)
    PROVE  LET u == WithActive(m, RemoveAt(m.active, At(m, a)))
               fronted == IF Permanent \notin Told(m, a) THEN u
                          ELSE IF a \in {m.loadTests, m.loadHosts} THEN LoadStep(u, a)
                          ELSE IF a \in {m.configTests, m.configHosts} THEN ConfigStep(u, a)
                          ELSE u
           IN  /\ u \in SlaveState /\ Queued(u) /\ RemoveAt(m.active, At(m, a)) \in Seq(Nat)
               /\ ToSet(u.active) = ToSet(m.active) \ {a}
               /\ u.posted = m.posted /\ u.acts = m.acts /\ u.process = m.process
               /\ u.pending = m.pending /\ SameControl(m, u) /\ SameHosts(m, u)
               /\ ~Live(u, a) /\ \A b \in Nat : Live(u, b) => Live(m, b)
               /\ \/ n = fronted
                  \/ \E p \in ToSet(m.active) : a \in m.acts[p].children /\ n = ChildDone(u, p, a)
<1>. DEFINE active == RemoveAt(m.active, At(m, a))
            parents == {p \in Told(m, a) : a \in m.acts[p].children}
            front(u) == IF Permanent \notin Told(m, a) THEN u
                        ELSE IF a \in {m.loadTests, m.loadHosts} THEN LoadStep(u, a)
                        ELSE IF a \in {m.configTests, m.configHosts} THEN ConfigStep(u, a)
                        ELSE u
            told == Notify(m, a)
<1>1. /\ m.active \in Seq(Nat) /\ At(m, a) \in DOMAIN m.active /\ m.active[At(m, a)] = a
      /\ \A i, j \in DOMAIN m.active : m.active[i] = m.active[j] => i = j
  <2>1. \E i \in DOMAIN m.active : m.active[i] = a
    BY InToSet
  <2>. QED
    BY <2>1, StateFacts DEF At, Queued, Line
<1>2. active \in Seq(Nat)
  BY <1>1, RemoveAtFacts
<1>3. PICK u : u = WithActive(m, active)
  OBVIOUS
<1>4. /\ u \in SlaveState /\ u.acts = m.acts /\ u.posted = m.posted
      /\ u.process = m.process /\ u.active = active
      /\ u.pending = m.pending /\ SameControl(m, u) /\ SameHosts(m, u)
  BY <1>2, <1>3, WithActiveFacts
<1>5. /\ Queued(u) /\ ToSet(u.active) = ToSet(m.active) \ {a} /\ ~Live(u, a)
      /\ \A b \in Nat : Live(u, b) => Live(m, b)
  BY <1>4, QueuedLeave
<1>6. Told(m, a) \subseteq ToSet(m.active) /\ a \in DOMAIN m.acts
  <2>1. \A i \in 1 .. At(m, a) - 1 : i \in DOMAIN m.active
    BY <1>1, LenProperties
  <2>. QED
    BY <2>1, Indices, IndexInToSet DEF Told
<1>7. WithActive(front(m), active) = front(u)
  BY <1>3, LoadStepCommutes, ConfigStepCommutes
<1>8. CASE parents = {}
  <2>1. told = front(m)
    BY <1>8 DEF Notify
  <2>2. told.active = m.active /\ told.pending = << >>
    <3>1. m.pending = << >> /\ m.process # "starting"
      BY NotStarting DEF Queued, Line
    <3>2. \A es : Post(m, es).active = m.active /\ Post(m, es).pending = m.pending
      BY DEF Post, SlaveState
    <3>3. LoadStep(m, a).active = m.active /\ LoadStep(m, a).pending = m.pending
      BY <3>2 DEF LoadStep, PostStart, SlaveState
    <3>4. ConfigStep(m, a).active = m.active /\ ConfigStep(m, a).pending = m.pending
      BY <3>2 DEF ConfigStep, PostStart, SlaveState
    <3>. QED
      BY <2>1, <3>1, <3>3, <3>4
  <2>3. n = WithActive(told, active)
    <3>1. [told EXCEPT !.active = AQ!RemoveAt(@, AQ!At(m, a))] = WithActive(told, active)
      BY <2>2 DEF AQ!RemoveAt, RemoveAt, AQ!At, At, WithActive
    <3>2. WithActive(told, active).pending = << >>
      BY <2>2 DEF WithActive
    <3>. QED
      BY <3>1, <3>2 DEF AQ!Completed
  <2>4. n = front(u)
    BY <1>7, <2>1, <2>3
  <2>. QED
    BY <1>2, <1>3, <1>4, <1>5, <2>4
<1>9. CASE parents # {}
  <2>1. PICK p : p \in parents /\ p = CHOOSE q \in parents : TRUE
    BY <1>9
  <2>2. p \in ToSet(m.active) /\ p \in DOMAIN m.acts /\ a \in m.acts[p].children
    BY <1>6, <2>1, Indices
  <2>3. front(m) = m
    <3>1. m.acts[a].kind = KindOfChild(m.acts[p].kind) /\ m.acts[a].kind \in Kinds
      BY <1>6, <2>2, StateFacts, ActivityFacts DEF Queued, Family
    <3>2. m.acts[a].kind \in Singles
      BY <3>1 DEF KindOfChild, Singles, Kinds
    <3>3. a \notin {m.loadTests, m.loadHosts, m.configTests, m.configHosts}
      <4>1. a # 0
        BY <1>6, Indices
      <4>. QED
        BY <3>2, <4>1 DEF Singles, Queued, Fronted, Stages
    <3>. QED
      BY <3>3
  <2>4. told = ChildDone(m, p, a)
    BY <1>9, <2>1, <2>3 DEF Notify
  <2>5. told.active = m.active /\ told.pending = << >>
    <3>1. PICK act, k : WithoutChild(m, p, a, act, k)
      BY <1>6, <2>2, ChildDoneFacts
    <3>2. told = IF m.acts[p].children \ {a} = {} THEN Complete(k, p) ELSE k
      BY <2>4, <3>1 DEF WithoutChild
    <3>3. k.active = m.active /\ k.pending = << >>
      BY <3>1 DEF WithoutChild, SlaveState, Queued, Line
    <3>4. Complete(k, p).active = k.active /\ Complete(k, p).pending = k.pending
      BY <3>1 DEF WithoutChild, Complete, Post, SlaveState
    <3>. QED
      BY <3>2, <3>3, <3>4
  <2>6. n = WithActive(told, active)
    <3>1. [told EXCEPT !.active = AQ!RemoveAt(@, AQ!At(m, a))] = WithActive(told, active)
      BY <2>5 DEF AQ!RemoveAt, RemoveAt, AQ!At, At, WithActive
    <3>2. WithActive(told, active).pending = << >>
      BY <2>5 DEF WithActive
    <3>. QED
      BY <3>1, <3>2 DEF AQ!Completed
  <2>7. n = ChildDone(u, p, a)
    BY <1>2, <1>3, <1>6, <2>2, <2>4, <2>6, ChildDoneCommutes
  <2>. QED
    BY <1>2, <1>3, <1>4, <1>5, <2>2, <2>7
<1>. QED
  BY <1>8, <1>9

\* LoadProgramActivity goes on to the load, or answers.
LEMMA QueuedLoadStep ==
    ASSUME NEW m \in SlaveState, NEW u \in SlaveState, NEW a \in ToSet(m.active), Queued(m), Queued(u),
           a \in {m.loadTests, m.loadHosts}, CanEnd(m, a), Permanent \in ToSet(m.active),
           ToSet(u.active) = ToSet(m.active) \ {a},
           u.posted = m.posted, u.acts = m.acts, u.process = m.process, SameControl(m, u),
           ~Live(u, a), \A b \in Nat : Live(u, b) => Live(m, b)
    PROVE  LoadStep(u, a) \in SlaveState /\ Queued(LoadStep(u, a))
<1>1. /\ a \in DOMAIN m.acts /\ a # 0 /\ m.loadTests \in DOMAIN m.acts /\ m.loadHosts \in DOMAIN m.acts
      /\ m.acts[m.loadTests].kind = "testHosts" /\ m.acts[m.loadHosts].kind = "loadHosts"
      /\ m.loadTests # m.loadHosts /\ ~(Live(m, m.loadTests) /\ Live(m, m.loadHosts))
      /\ m.loadTests \in Nat /\ m.loadHosts \in Nat /\ m.loadTests # 0 /\ m.loadHosts # 0
  <2>1. a \in DOMAIN m.acts /\ a # 0 /\ m.loadTests \in Nat /\ m.loadHosts \in Nat
    BY Indices
  <2>. QED
    BY <2>1 DEF Queued, Fronted, Stages
<1>2. Busy(m) /\ m.loading = m.acts[m.loadHosts].program /\ ~Requested(m) /\ asked.loads # m.loadsAnswered
  <2>1. Busy(m)
    BY DEF Busy, Live
  <2>. QED
    BY <2>1 DEF Queued, Fronted, Asked
<1>3. ~Requested(u) /\ asked.loads # u.loadsAnswered
      /\ u.loadTests = m.loadTests /\ u.loadHosts = m.loadHosts /\ u.loading = m.loading
  BY <1>2 DEF Requested, SameControl
<1>4. CASE a = m.loadTests
  <2>1. PICK n : n = PostStart(u, m.loadHosts)
    OBVIOUS
  <2>2. PICK e : e = StartEvent(m.loadHosts) /\ e \in Event
    BY <1>1, EventFacts
  <2>3. /\ n \in SlaveState /\ n.posted = Append(u.posted, e)
        /\ SameQueue(u, n) /\ SameControl(u, n) /\ SameHosts(u, n)
    BY <2>1, <2>2, PostOneFacts DEF PostStart
  <2>4. ~Live(u, m.loadHosts) /\ ~Live(u, m.loadTests)
    BY <1>1, <1>4 DEF Live
  <2>5. ~Ending(u, m.loadHosts)
    <3>1. Unborn(m, m.loadHosts)
      BY <1>4 DEF Unborn, Live
    <3>. QED
      BY <1>1, <3>1 DEF Queued, Ends, CanEnd, Ending
  <2>6. m.loadHosts \notin {u.loadTests, u.configTests, u.configHosts}
    BY <1>1, <1>3 DEF Queued, Fronted, Stages
  <2>7. n.process # "starting"
    BY <2>3, NotStarting DEF SameQueue
  <2>. QED
    BY <1>1, <1>2, <1>3, <1>4, <2>1, <2>2, <2>3, <2>4, <2>5, <2>6, <2>7, QueuedStart
       DEF LoadStep, SameQueue, Singles
<1>5. CASE a = m.loadHosts
  <2>1. PICK answered, program, outcome :
                /\ answered = u.loadsAnswered + 1
                /\ program = IF u.acts[a].success THEN u.loading ELSE u.program
                /\ outcome = IF u.acts[a].success THEN "yes" ELSE "no"
    OBVIOUS
  <2>2. /\ answered \in Nat /\ program \in Program /\ NoProgram \in Program
        /\ outcome \in {"none", "enrolled", "yes", "no"}
    BY <2>1, StateFacts, Constants
  <2>0. PICK tests \in Nat, hosts \in Nat : tests = u.loadTests /\ hosts = u.loadHosts
    BY StateFacts
  <2>3. PICK n : n = [u EXCEPT !.loadsAnswered = answered, !.loading = NoProgram, !.program = program,
                               !.outcome = outcome, !.loadTests = tests, !.loadHosts = hosts]
    OBVIOUS
  <2>4. /\ n \in SlaveState /\ n.posted = u.posted
        /\ SameQueue(u, n) /\ SameHosts(u, n)
        /\ n.loadsAnswered = answered /\ n.loading = NoProgram /\ n.program = program
        /\ n.loadTests = u.loadTests /\ n.loadHosts = u.loadHosts
        /\ n.config = u.config /\ n.configTests = u.configTests
        /\ n.configHosts = u.configHosts /\ n.configsAnswered = u.configsAnswered
    <3>1. /\ n \in SlaveState /\ n.posted = u.posted
          /\ SameQueue(u, n) /\ SameHosts(u, n)
          /\ n.loadsAnswered = answered /\ n.loading = NoProgram /\ n.program = program
          /\ n.loadTests = tests /\ n.loadHosts = hosts
          /\ n.config = u.config /\ n.configTests = u.configTests
          /\ n.configHosts = u.configHosts /\ n.configsAnswered = u.configsAnswered
      BY ONLY <2>2, <2>3, u \in SlaveState, tests \in Nat, hosts \in Nat, NoProgram \in Program DEF SlaveState, SameQueue, SameHosts
    <3>. QED
      BY <2>0, <3>1
  <2>5. LoadStep(u, a) = n
    <3>1. LoadStep(u, a) = [u EXCEPT !.loadsAnswered = answered, !.loading = NoProgram,
                                     !.program = program, !.outcome = outcome]
      BY <1>1, <1>3, <1>5, <2>1 DEF LoadStep
    <3>. QED
      BY <2>0, <2>3, <3>1 DEF SlaveState
  <2>6. ~Busy(u)
    BY <1>1, <1>3, <1>5 DEF Busy, Live
  <2>. QED
    BY <1>3, <2>1, <2>4, <2>5, <2>6, QueuedLoaded
<1>. QED
  BY <1>4, <1>5

\* ConfigActivity, as a load.
LEMMA QueuedConfigStep ==
    ASSUME NEW m \in SlaveState, NEW u \in SlaveState, NEW a \in ToSet(m.active), Queued(m), Queued(u),
           a \in {m.configTests, m.configHosts}, CanEnd(m, a), Permanent \in ToSet(m.active),
           ToSet(u.active) = ToSet(m.active) \ {a},
           u.posted = m.posted, u.acts = m.acts, u.process = m.process, SameControl(m, u),
           ~Live(u, a), \A b \in Nat : Live(u, b) => Live(m, b)
    PROVE  ConfigStep(u, a) \in SlaveState /\ Queued(ConfigStep(u, a))
<1>1. /\ a \in DOMAIN m.acts /\ a # 0
      /\ m.configTests \in DOMAIN m.acts /\ m.configHosts \in DOMAIN m.acts
      /\ m.acts[m.configTests].kind = "testHosts" /\ m.acts[m.configHosts].kind = "hostsConfig"
      /\ m.configTests # m.configHosts /\ ~(Live(m, m.configTests) /\ Live(m, m.configHosts))
      /\ m.configTests \in Nat /\ m.configHosts \in Nat /\ m.configTests # 0 /\ m.configHosts # 0
  <2>1. a \in DOMAIN m.acts /\ a # 0 /\ m.configTests \in Nat /\ m.configHosts \in Nat
    BY Indices
  <2>. QED
    BY <2>1 DEF Queued, Fronted, Stages
<1>2. m.config # "none"
  BY DEF Queued, Fronted, Live
<1>3. u.configTests = m.configTests /\ u.configHosts = m.configHosts /\ u.config = m.config
      /\ u.loadHosts = m.loadHosts /\ u.loadTests = m.loadTests
  BY DEF SameControl
<1>4. CASE a = m.configTests
  <2>1. PICK n : n = PostStart(u, m.configHosts)
    OBVIOUS
  <2>2. PICK e : e = StartEvent(m.configHosts) /\ e \in Event
    BY <1>1, EventFacts
  <2>3. /\ n \in SlaveState /\ n.posted = Append(u.posted, e)
        /\ SameQueue(u, n) /\ SameControl(u, n) /\ SameHosts(u, n)
    BY <2>1, <2>2, PostOneFacts DEF PostStart
  <2>4. ~Live(u, m.configHosts) /\ ~Live(u, m.configTests)
    BY <1>1, <1>4 DEF Live
  <2>5. ~Ending(u, m.configHosts)
    <3>1. Unborn(m, m.configHosts)
      BY <1>4 DEF Unborn, Live
    <3>. QED
      BY <1>1, <3>1 DEF Queued, Ends, CanEnd, Ending
  <2>6. m.configHosts \notin {u.loadTests, u.configTests, u.loadHosts}
    BY <1>1, <1>3 DEF Queued, Fronted, Stages
  <2>7. n.process # "starting"
    BY <2>3, NotStarting DEF SameQueue
  <2>. QED
    BY <1>1, <1>2, <1>3, <1>4, <2>1, <2>2, <2>3, <2>4, <2>5, <2>6, <2>7, QueuedStart
       DEF ConfigStep, SameQueue, Singles
<1>5. CASE a = m.configHosts
  <2>1. PICK answered : answered = u.configsAnswered + 1
    OBVIOUS
  <2>2. answered \in Nat
    BY <2>1, StateFacts
  <2>0. PICK tests \in Nat, hosts \in Nat : tests = u.configTests /\ hosts = u.configHosts
    BY StateFacts
  <2>3. PICK n : n = [u EXCEPT !.configsAnswered = answered, !.config = "none",
                               !.configTests = tests, !.configHosts = hosts]
    OBVIOUS
  <2>4. /\ n \in SlaveState /\ n.posted = u.posted
        /\ SameQueue(u, n) /\ SameHosts(u, n)
        /\ n.configsAnswered = answered /\ n.config = "none"
        /\ n.configTests = u.configTests /\ n.configHosts = u.configHosts
        /\ n.loadsAnswered = u.loadsAnswered /\ n.loading = u.loading
        /\ n.program = u.program /\ n.loadTests = u.loadTests /\ n.loadHosts = u.loadHosts
    <3>1. /\ n \in SlaveState /\ n.posted = u.posted
          /\ SameQueue(u, n) /\ SameHosts(u, n)
          /\ n.configsAnswered = answered /\ n.config = "none"
          /\ n.configTests = tests /\ n.configHosts = hosts
          /\ n.loadsAnswered = u.loadsAnswered /\ n.loading = u.loading
          /\ n.program = u.program /\ n.loadTests = u.loadTests /\ n.loadHosts = u.loadHosts
      BY ONLY <2>2, <2>3, u \in SlaveState, tests \in Nat, hosts \in Nat, "none" \in Config \cup {"none"} DEF SlaveState, SameQueue, SameHosts
    <3>. QED
      BY <2>0, <3>1
  <2>5. ConfigStep(u, a) = n
    <3>1. ConfigStep(u, a) = [u EXCEPT !.configsAnswered = answered, !.config = "none"]
      BY <1>1, <1>3, <1>5, <2>1 DEF ConfigStep
    <3>. QED
      BY <2>0, <2>3, <3>1 DEF SlaveState
  <2>6. ~Live(u, u.configTests) /\ ~Live(u, u.configHosts)
    BY <1>1, <1>3, <1>5 DEF Live
  <2>. QED
    BY <1>3, <2>1, <2>4, <2>5, <2>6, QueuedConfigured
<1>. QED
  BY <1>4, <1>5

\* A parent hears that a child is complete, and may be complete as well.
LEMMA QueuedChildDone ==
    ASSUME NEW u \in SlaveState, Queued(u), NEW p \in ToSet(u.active), NEW a \in u.acts[p].children,
           ~Live(u, a)
    PROVE  ChildDone(u, p, a) \in SlaveState /\ Queued(ChildDone(u, p, a))
<1>1. p \in DOMAIN u.acts /\ p # Permanent /\ a \in DOMAIN u.acts
  <2>1. p \in DOMAIN u.acts
    BY Indices
  <2>2. a \in DOMAIN u.acts /\ u.acts[a].kind = KindOfChild(u.acts[p].kind)
        /\ u.acts[a].kind \in Kinds
    BY <2>1, StateFacts, ActivityFacts DEF Queued, Family
  <2>3. u.acts[p].kind # "front"
    BY <2>2 DEF KindOfChild, Kinds
  <2>. QED
    BY <2>1, <2>2, <2>3 DEF Queued, Family, Permanent
<1>2. PICK act, n : WithoutChild(u, p, a, act, n)
  BY <1>1, ChildDoneFacts
<1>3. n = [u EXCEPT !.acts[p] = act]
  BY <1>2 DEF WithoutChild
<1>4. /\ act \in Activity /\ act.children = u.acts[p].children \ {a}
      /\ act.kind = u.acts[p].kind /\ act.host = u.acts[p].host /\ act.name = u.acts[p].name
      /\ act.program = u.acts[p].program /\ act.config = u.acts[p].config
      /\ ChildDone(u, p, a) = IF u.acts[p].children \ {a} = {} THEN Complete(n, p) ELSE n
  BY <1>2 DEF WithoutChild
<1>5. /\ n \in SlaveState /\ n.posted = u.posted
      /\ n.process = u.process /\ n.active = u.active /\ n.pending = u.pending
      /\ SameControl(u, n) /\ SameHosts(u, n)
      /\ n.acts \in Seq(Activity) /\ DOMAIN n.acts = DOMAIN u.acts
      /\ Len(n.acts) = Len(u.acts) /\ n.acts[p] = act
      /\ \A b \in DOMAIN u.acts : b # p => n.acts[b] = u.acts[b]
  BY <1>1, <1>3, <1>4, ActFacts
<1>6. Alike(u, n)
  BY <1>4, <1>5 DEF Alike
<1>7. ASSUME NEW b \in DOMAIN u.acts
      PROVE  /\ n.acts[b].children \subseteq u.acts[b].children
             /\ \A c \in u.acts[b].children \ n.acts[b].children : ~Live(u, c)
  BY <1>4, <1>5, <1>7
<1>8. Queued(n)
  <2>1. \A b \in Nat : (Starting(n, b) <=> Starting(u, b)) /\ (Ending(n, b) <=> Ending(u, b))
    BY <1>5 DEF Starting, Ending
  <2>2. Requested(n) <=> Requested(u)
    BY <1>5 DEF Requested
  <2>. QED
    BY <1>5, <1>6, <1>7, <2>1, <2>2, QueuedFrame DEF SameControl
<1>9. CASE u.acts[p].children \ {a} = {}
  BY <1>1, <1>4, <1>5, <1>8, <1>9, QueuedComplete
<1>. QED
  BY <1>4, <1>5, <1>8, <1>9

\* OnActivityComplete: the activity leaves, which LoadProgramActivity, ConfigActivity
\* or its parent is told.
Left(m, u, a) ==
    /\ Queued(u) /\ u.posted = Tail(m.posted) /\ ToSet(u.active) = ToSet(m.active) \ {a}
    /\ u.acts = m.acts /\ u.process = m.process
    /\ SameControl(m, u) /\ SameHosts(m, u)
    /\ a \in ToSet(m.active) /\ a \in DOMAIN m.acts /\ CanEnd(m, a)
    /\ ~Live(u, a) /\ \A b \in Nat : Live(u, b) => Live(m, b)
    /\ \A b \in Nat : Ending(m, b) <=> Ending(u, b) \/ a = b

CompletedAs(m, u, n, a) ==
    \/ n = u
    \/ Permanent \in ToSet(m.active) /\ a \in {m.loadTests, m.loadHosts} /\ n = LoadStep(u, a)
    \/ Permanent \in ToSet(m.active) /\ a \in {m.configTests, m.configHosts} /\ n = ConfigStep(u, a)
    \/ \E p \in ToSet(u.active) : a \in u.acts[p].children /\ n = ChildDone(u, p, a)

LEMMA OnCompleteFacts ==
    ASSUME NEW m \in SlaveState, Queued(m), m.posted # << >>, Head(m.posted).type = "complete",
           Head(m.posted).act \in ToSet(m.active),
           NEW n \in AQ!Completed([m EXCEPT !.posted = Tail(@)], Head(m.posted).act)
    PROVE  \E u \in SlaveState : /\ Left(m, u, Head(m.posted).act)
                                 /\ CompletedAs(m, u, n, Head(m.posted).act)
<1>1. PICK t, e : t = [m EXCEPT !.posted = Tail(@)] /\ e = Head(m.posted)
  OBVIOUS
<1>2. /\ t \in SlaveState /\ Queued(t) /\ t.posted = Tail(m.posted)
      /\ SameQueue(m, t) /\ SameControl(m, t) /\ SameHosts(m, t)
      /\ \A b \in Nat : Live(t, b) <=> Live(m, b)
      /\ e \in Event
      /\ \A b \in Nat :
            /\ Starting(m, b) <=> Starting(t, b)
            /\ Ending(m, b) <=> Ending(t, b) \/ (e.type = "complete" /\ e.act = b)
  <2>1. LET k == [m EXCEPT !.posted = Tail(@)]
        IN  /\ k \in SlaveState /\ Queued(k) /\ k.posted = Tail(m.posted)
            /\ SameQueue(m, k) /\ SameControl(m, k) /\ SameHosts(m, k)
            /\ \A b \in Nat : Live(k, b) <=> Live(m, b)
            /\ Head(m.posted) \in Event
            /\ \A b \in Nat :
                  /\ Starting(m, b) <=> Starting(k, b)
                  /\ Ending(m, b) <=> Ending(k, b)
                                      \/ (Head(m.posted).type = "complete" /\ Head(m.posted).act = b)
    BY QueuedTaken, Zenon
  <2>. QED
    BY <1>1, <2>1
<1>3. PICK a : a = e.act
  OBVIOUS
<1>4. a \in ToSet(m.active) /\ a \in DOMAIN m.acts /\ a \in Nat
  BY <1>1, <1>3, Indices
<1>5. CanEnd(m, a) /\ a # Permanent
  <2>1. CanEnd(m, a)
    BY <1>1, <1>2, <1>3, <1>4 DEF Queued, Ends
  <2>. QED
    BY <1>4, <2>1 DEF CanEnd, Queued, Family, Permanent
<1>6. a \in ToSet(t.active) /\ t.acts[a].children = {} /\ CanEnd(t, a)
  <2>1. a \in ToSet(t.active) /\ t.acts[a].children = {}
    BY <1>2, <1>4, <1>5 DEF SameQueue, CanEnd
  <2>. QED
    BY <1>2, <1>5, <2>1, ActiveCanEnd
<1>7. PICK active : active = RemoveAt(t.active, At(t, a))
  OBVIOUS
<1>8. PICK u : u = WithActive(t, active)
  OBVIOUS
<1>9. /\ u \in SlaveState /\ Queued(u)
      /\ ToSet(u.active) = ToSet(t.active) \ {a}
      /\ u.posted = t.posted /\ u.acts = t.acts /\ u.process = t.process
      /\ SameControl(t, u) /\ SameHosts(t, u) /\ ~Live(u, a)
      /\ \A b \in Nat : Live(u, b) => Live(t, b)
      /\ \/ n = IF Permanent \notin Told(t, a) THEN u
                ELSE IF a \in {t.loadTests, t.loadHosts} THEN LoadStep(u, a)
                ELSE IF a \in {t.configTests, t.configHosts} THEN ConfigStep(u, a)
                ELSE u
         \/ \E p \in ToSet(t.active) : a \in t.acts[p].children /\ n = ChildDone(u, p, a)
  <2>1. n \in AQ!Completed(t, a)
    BY <1>1, <1>3
  <2>2. LET k == WithActive(t, RemoveAt(t.active, At(t, a)))
            fronted == IF Permanent \notin Told(t, a) THEN k
                       ELSE IF a \in {t.loadTests, t.loadHosts} THEN LoadStep(k, a)
                       ELSE IF a \in {t.configTests, t.configHosts} THEN ConfigStep(k, a)
                       ELSE k
        IN  /\ k \in SlaveState /\ Queued(k) /\ RemoveAt(t.active, At(t, a)) \in Seq(Nat)
            /\ ToSet(k.active) = ToSet(t.active) \ {a}
            /\ k.posted = t.posted /\ k.acts = t.acts /\ k.process = t.process
            /\ k.pending = t.pending /\ SameControl(t, k) /\ SameHosts(t, k)
            /\ ~Live(k, a) /\ \A b \in Nat : Live(k, b) => Live(t, b)
            /\ \/ n = fronted
               \/ \E p \in ToSet(t.active) : a \in t.acts[p].children /\ n = ChildDone(k, p, a)
    <3>1. t \in SlaveState /\ Queued(t)
      BY <1>2
    <3>. QED
      BY ONLY <3>1, <1>5, <1>6, <2>1, CompletedFacts, ZenonT(60)
  <2>. QED
    BY <1>7, <1>8, <2>2, Zenon
<1>10. Permanent \in Told(t, a) => Permanent \in ToSet(t.active)
  <2>1. \A i \in 1 .. At(t, a) - 1 : i \in DOMAIN t.active
    <3>1. \E i \in DOMAIN t.active : t.active[i] = a
      BY <1>6, InToSet
    <3>2. At(t, a) \in DOMAIN t.active /\ t.active \in Seq(Nat)
      BY <1>2, <3>1, StateFacts DEF At
    <3>. QED
      BY <3>2, LenProperties
  <2>. QED
    BY <2>1, IndexInToSet DEF Told
<1>11. Left(m, u, a)
  <2>1. SameControl(m, u) /\ SameHosts(m, u)
    BY <1>2, <1>9 DEF SameControl, SameHosts
  <2>2. \A b \in Nat : Ending(m, b) <=> Ending(u, b) \/ a = b
    <3>1. \A b \in Nat : Ending(u, b) <=> Ending(t, b)
      BY <1>9 DEF Ending
    <3>. QED
      BY <1>1, <1>2, <1>3, <3>1
  <2>. QED
    BY <1>2, <1>4, <1>5, <1>9, <2>1, <2>2 DEF Left, SameQueue
<1>12. CompletedAs(m, u, n, a)
  <2>1. SameControl(m, t) /\ t.active = m.active
    BY <1>2 DEF SameQueue
  <2>2. CASE n = IF Permanent \notin Told(t, a) THEN u
                 ELSE IF a \in {t.loadTests, t.loadHosts} THEN LoadStep(u, a)
                 ELSE IF a \in {t.configTests, t.configHosts} THEN ConfigStep(u, a)
                 ELSE u
    BY <1>10, <2>1, <2>2 DEF CompletedAs, SameControl
  <2>3. CASE \E p \in ToSet(t.active) : a \in t.acts[p].children /\ n = ChildDone(u, p, a)
    <3>1. PICK p \in ToSet(t.active) : a \in t.acts[p].children /\ n = ChildDone(u, p, a)
      BY <2>3
    <3>2. p # a
      BY <1>6, <3>1
    <3>3. p \in ToSet(u.active) /\ a \in u.acts[p].children
      BY <1>9, <3>1, <3>2
    <3>. QED
      BY <3>1, <3>3 DEF CompletedAs
  <2>. QED
    BY <1>9, <2>2, <2>3
<1>. QED
  BY ONLY <1>1, <1>3, <1>9, <1>11, <1>12

LEMMA QueuedOnComplete ==
    ASSUME NEW m \in SlaveState, Queued(m), m.posted # << >>, Head(m.posted).type = "complete",
           Head(m.posted).act \in ToSet(m.active),
           NEW n \in AQ!Completed([m EXCEPT !.posted = Tail(@)], Head(m.posted).act)
    PROVE  n \in SlaveState /\ Queued(n)
<1>1. PICK a : a = Head(m.posted).act
  OBVIOUS
<1>2. PICK u \in SlaveState : Left(m, u, a) /\ CompletedAs(m, u, n, a)
  BY <1>1, OnCompleteFacts, Zenon
<1>3. /\ Queued(u) /\ ToSet(u.active) = ToSet(m.active) \ {a} /\ a \in ToSet(m.active)
      /\ ~Live(u, a) /\ CanEnd(m, a) /\ SameControl(m, u) /\ u.acts = m.acts
  BY <1>2 DEF Left
<1>4. PICK k : k = [m EXCEPT !.posted = Tail(@)]
  OBVIOUS
<1>5. /\ k \in SlaveState /\ Queued(k) /\ k.posted = Tail(m.posted)
      /\ SameQueue(m, k) /\ SameControl(m, k) /\ \A b \in Nat : Live(k, b) <=> Live(m, b)
  BY <1>4, QueuedTaken
<1>6. CASE n = u
  BY <1>3, <1>6
<1>7. a \in ToSet(k.active) /\ CanEnd(k, a)
  <2>1. a \in ToSet(k.active) /\ k.acts[a].children = {} /\ a # Permanent
    BY <1>3, <1>5 DEF SameQueue, CanEnd, Queued, Family, Permanent, Line
  <2>. QED
    BY <1>5, <2>1, ActiveCanEnd
<1>8. /\ u.posted = k.posted /\ u.acts = k.acts /\ u.process = k.process /\ SameControl(k, u)
      /\ ToSet(u.active) = ToSet(k.active) \ {a} /\ \A b \in Nat : Live(u, b) => Live(k, b)
  BY <1>2, <1>5 DEF Left, SameQueue, SameControl
<1>9. CASE Permanent \in ToSet(m.active) /\ a \in {m.loadTests, m.loadHosts} /\ n = LoadStep(u, a)
  <2>1. Permanent \in ToSet(k.active) /\ a \in {k.loadTests, k.loadHosts}
    BY <1>5, <1>9 DEF SameQueue, SameControl
  <2>. QED
    BY <1>3, <1>5, <1>7, <1>8, <1>9, <2>1, QueuedLoadStep
<1>10. CASE Permanent \in ToSet(m.active) /\ a \in {m.configTests, m.configHosts} /\ n = ConfigStep(u, a)
  <2>1. Permanent \in ToSet(k.active) /\ a \in {k.configTests, k.configHosts}
    BY <1>5, <1>10 DEF SameQueue, SameControl
  <2>. QED
    BY <1>3, <1>5, <1>7, <1>8, <1>10, <2>1, QueuedConfigStep
<1>11. CASE \E p \in ToSet(u.active) : a \in u.acts[p].children /\ n = ChildDone(u, p, a)
  BY <1>3, <1>11, QueuedChildDone
<1>. QED
  BY <1>2, <1>6, <1>9, <1>10, <1>11 DEF CompletedAs

-----------------------------------------------------------------------------
(***************************************************************************)
(* The actions keep the invariant: the queue, the slave's main thread and  *)
(* the master.                                                             *)
(***************************************************************************)
LEMMA QueuedNext ==
    ASSUME TypeOK, slave' \in SlaveState, Queued(slave'), asked' = asked,
           host' \in [Clients -> HostState]
    PROVE  IQueued'
<1>1. Asked(slave')
  BY DEF Queued
<1>2. Asked(slave)'
  BY <1>1 DEF Asked
<1>3. Line(slave') /\ Family(slave') /\ Ends(slave') /\ Fronted(slave')
  BY DEF Queued
<1>4. Queued(slave)'
  BY <1>2, <1>3 DEF Queued
<1>5. TypeOK'
  BY DEF TypeOK
<1>. QED
  BY <1>4, <1>5 DEF IQueued

LEMMA IQueuedOnStart ==
    ASSUME IQueued, OnStartActivity
    PROVE  IQueued'
<1>1. slave \in SlaveState /\ Queued(slave) /\ TypeOK
  BY DEF IQueued, TypeOK
<1>2. /\ slave.posted # << >> /\ Head(slave.posted).type = "start"
      /\ slave' \in AQ!Starts([slave EXCEPT !.posted = Tail(@)], Head(slave.posted).act)
      /\ host' = host /\ asked' = asked
  BY DEF OnStartActivity, NextHandler, Taken
<1>. QED
  BY <1>1, <1>2, QueuedOnStart, QueuedNext DEF TypeOK

LEMMA IQueuedOnServer ==
    ASSUME IQueued, OnServerMessage
    PROVE  IQueued'
<1>1. slave \in SlaveState /\ Queued(slave) /\ TypeOK
  BY DEF IQueued, TypeOK
<1>2. PICK e, t : e = Head(slave.posted) /\ t = [slave EXCEPT !.posted = Tail(@)]
  OBVIOUS
<1>3. /\ slave.posted # << >> /\ e.type = "server"
      /\ slave' = CASE Permanent \notin ToSet(slave.active) -> t
                    [] Permanent \in ToSet(slave.active) /\ e.msg = "load" -> LoadRequest(t, e.program)
                    [] Permanent \in ToSet(slave.active) /\ e.msg \in Config -> ConfigRequest(t, e.msg)
      /\ host' = host /\ asked' = asked
  BY <1>2 DEF OnServerMessage, NextHandler, Taken
<1>4. /\ t \in SlaveState /\ Queued(t)
      /\ Permanent \in ToSet(slave.active) /\ e.msg = "load" =>
            LoadRequest(t, e.program) \in SlaveState /\ Queued(LoadRequest(t, e.program))
      /\ Permanent \in ToSet(slave.active) /\ e.msg \in Config =>
            ConfigRequest(t, e.msg) \in SlaveState /\ Queued(ConfigRequest(t, e.msg))
      /\ e.msg \in {"load"} \cup Config
  BY <1>1, <1>2, <1>3, QueuedOnServer
<1>5. slave' \in SlaveState /\ Queued(slave')
  <2>1. CASE Permanent \notin ToSet(slave.active)
    BY <1>3, <1>4, <2>1
  <2>2. CASE Permanent \in ToSet(slave.active) /\ e.msg = "load"
    <3>1. "load" \notin Config
      BY DEF Config
    <3>. QED
      BY <1>3, <1>4, <2>2, <3>1
  <2>3. CASE Permanent \in ToSet(slave.active) /\ e.msg \in Config
    <3>1. "load" \notin Config
      BY DEF Config
    <3>. QED
      BY <1>3, <1>4, <2>3, <3>1
  <2>. QED
    BY <1>4, <2>1, <2>2, <2>3
<1>. QED
  BY <1>1, <1>3, <1>5, QueuedNext DEF TypeOK

LEMMA IQueuedOnClient ==
    ASSUME IQueued, OnClientMessage
    PROVE  IQueued'
<1>1. slave \in SlaveState /\ Queued(slave) /\ TypeOK
  BY DEF IQueued, TypeOK
<1>2. PICK e, t : e = Head(slave.posted) /\ t = [slave EXCEPT !.posted = Tail(@)]
  OBVIOUS
<1>3. PICK takers : takers = {i \in DOMAIN slave.active : Handles(slave, slave.active[i], e)}
  OBVIOUS
<1>4. PICK first : first = slave.active[CHOOSE i \in takers : \A j \in takers : i <= j]
  OBVIOUS
<1>5. /\ slave.posted # << >> /\ e.type = "client"
      /\ slave' \in IF Permanent \notin ToSet(slave.active) THEN {t}
                    ELSE CASE e.msg = "enroll" -> {EnrollRequest(t, e.from)}
                           [] e.msg = "enrolleg" -> EnrollEGRequest(t, e.from)
                           [] e.msg = "buffer" -> {BufferRequest(t, e.from)}
                           [] e.msg \in {"alive", "load"} \cup Config ->
                                  {IF takers = {} THEN t ELSE HostAnswer(t, first, e.success)}
      /\ host' = host /\ asked' = asked
  BY <1>2, <1>3, <1>4, Zenon DEF OnClientMessage, NextHandler, Taken
<1>6. /\ t \in SlaveState /\ Queued(t)
      /\ EnrollRequest(t, e.from) \in SlaveState /\ Queued(EnrollRequest(t, e.from))
      /\ \A n \in EnrollEGRequest(t, e.from) : n \in SlaveState /\ Queued(n)
      /\ BufferRequest(t, e.from) \in SlaveState /\ Queued(BufferRequest(t, e.from))
      /\ takers # {} => /\ HostAnswer(t, first, e.success) \in SlaveState
                        /\ Queued(HostAnswer(t, first, e.success))
      /\ e.msg \in {"enroll", "enrolleg", "alive", "load", "buffer"} \cup Config
  BY <1>1, <1>2, <1>3, <1>4, <1>5, QueuedOnClient, Zenon
<1>7. slave' \in SlaveState /\ Queued(slave')
  <2>1. CASE Permanent \notin ToSet(slave.active)
    BY <1>5, <1>6, <2>1
  <2>2. CASE Permanent \in ToSet(slave.active)
    <3>1. slave' \in CASE e.msg = "enroll" -> {EnrollRequest(t, e.from)}
                       [] e.msg = "enrolleg" -> EnrollEGRequest(t, e.from)
                       [] e.msg = "buffer" -> {BufferRequest(t, e.from)}
                       [] e.msg \in {"alive", "load"} \cup Config ->
                              {IF takers = {} THEN t ELSE HostAnswer(t, first, e.success)}
      BY <1>5, <2>2
    <3>2. {"enroll", "enrolleg", "buffer"} \cap ({"alive", "load"} \cup Config) = {}
      BY DEF Config
    <3>3. CASE e.msg = "enroll"
      BY <1>6, <3>1, <3>2, <3>3
    <3>4. CASE e.msg = "enrolleg"
      BY <1>6, <3>1, <3>2, <3>4
    <3>5. CASE e.msg = "buffer"
      BY <1>6, <3>1, <3>2, <3>5
    <3>6. CASE e.msg \in {"alive", "load"} \cup Config
      <4>1. slave' = IF takers = {} THEN t ELSE HostAnswer(t, first, e.success)
        BY <3>1, <3>2, <3>6
      <4>. QED
        BY <1>6, <4>1
    <3>. QED
      BY <1>6, <3>3, <3>4, <3>5, <3>6
  <2>. QED
    BY <2>1, <2>2
<1>. QED
  BY <1>1, <1>5, <1>7, QueuedNext DEF TypeOK

LEMMA IQueuedOnComplete ==
    ASSUME IQueued, OnActivityComplete
    PROVE  IQueued'
<1>1. slave \in SlaveState /\ Queued(slave) /\ TypeOK
  BY DEF IQueued, TypeOK
<1>2. PICK t, a : t = [slave EXCEPT !.posted = Tail(@)] /\ a = Head(slave.posted).act
  OBVIOUS
<1>3. /\ slave.posted # << >> /\ Head(slave.posted).type = "complete"
      /\ slave' \in IF a \in ToSet(slave.active) THEN AQ!Completed(t, a)
                    ELSE {[t EXCEPT !.process = "unfound"]}
      /\ host' = host /\ asked' = asked
  BY <1>2, Zenon DEF OnActivityComplete, NextHandler, Taken
<1>4. slave' \in SlaveState /\ Queued(slave')
  <2>1. CASE a \in ToSet(slave.active)
    BY <1>1, <1>2, <1>3, <2>1, QueuedOnComplete
  <2>2. CASE a \notin ToSet(slave.active)
    <3>1. t \in SlaveState /\ Queued(t)
      BY <1>1, <1>2, <1>3, QueuedTaken
    <3>2. PICK n : n = [t EXCEPT !.process = "unfound"]
      OBVIOUS
    <3>3. /\ n \in SlaveState /\ n.acts = t.acts /\ n.posted = t.posted
          /\ n.process = "unfound" /\ n.active = t.active /\ n.pending = t.pending
          /\ SameControl(t, n) /\ SameHosts(t, n)
      BY <3>1, <3>2, ProcessFacts
    <3>4. Queued(n)
      BY <3>1, <3>3, QueuedHosts
    <3>. QED
      BY <1>3, <2>2, <3>2, <3>3, <3>4
  <2>. QED
    BY <2>1, <2>2
<1>. QED
  BY <1>1, <1>3, <1>4, QueuedNext DEF TypeOK

LEMMA IQueuedStartSlave ==
    ASSUME IQueued, StartSlave
    PROVE  IQueued'
<1>1. slave \in SlaveState /\ Queued(slave) /\ TypeOK
  BY DEF IQueued, TypeOK
<1>2. PICK k : k = [slave EXCEPT !.process = "up"]
  OBVIOUS
<1>3. PICK n : n = Post(k, <<StartEvent(Permanent)>>)
  OBVIOUS
<1>4. slave.process = "starting" /\ slave' = n /\ host' = host /\ asked' = asked
  BY <1>2, <1>3 DEF StartSlave, PostStart
<1>5. /\ k \in SlaveState /\ k.acts = slave.acts /\ k.posted = slave.posted
      /\ k.process = "up" /\ k.active = slave.active /\ k.pending = slave.pending
      /\ SameControl(slave, k) /\ SameHosts(slave, k)
  BY <1>1, <1>2, ProcessFacts
<1>6. Permanent \in Nat /\ StartEvent(Permanent) \in Event
  BY EventFacts DEF Permanent
<1>7. /\ n \in SlaveState /\ n.posted = Append(k.posted, StartEvent(Permanent))
      /\ SameQueue(k, n) /\ SameControl(k, n) /\ SameHosts(k, n)
  BY <1>3, <1>5, <1>6, PostOneFacts
<1>8. /\ Len(slave.acts) = 1 /\ slave.active = << >> /\ ~Starting(slave, 1)
      /\ 1 \in DOMAIN slave.acts /\ slave.acts[1].kind = "front"
  BY <1>1, <1>4 DEF Queued, Line, Family
<1>9. ~Live(slave, Permanent) /\ ToSet(slave.active) = {}
  BY <1>8, EmptyFacts DEF Live, Permanent
<1>10. ~Ending(slave, Permanent)
  BY <1>1, <1>8 DEF Queued, Ends, CanEnd, Permanent
<1>11. Permanent \notin {slave.loadTests, slave.configTests, slave.loadHosts, slave.configHosts}
  BY <1>1, <1>8, <1>9 DEF Queued, Fronted, Stages, Permanent
<1>12. SameControl(slave, n) /\ n.process = "up" /\ n.active = slave.active
       /\ n.pending = slave.pending /\ n.acts = slave.acts
       /\ n.posted = Append(slave.posted, StartEvent(Permanent))
  BY <1>5, <1>7 DEF SameControl, SameQueue
<1>13. Queued(n)
  <2>1. slave.acts[Permanent].kind = "front" /\ Permanent \in DOMAIN slave.acts
        /\ slave.acts[Permanent].kind \notin Singles
    BY <1>8 DEF Permanent, Singles
  <2>. QED
    BY <1>1, <1>7, <1>9, <1>10, <1>11, <1>12, <2>1, QueuedStart
<1>. QED
  BY <1>1, <1>4, <1>7, <1>13, QueuedNext DEF TypeOK

LEMMA EnrollmentFacts ==
    ASSUME TypeOK, NEW p \in ActiveAtMaster, OnEnrollment(p)
    PROVE  /\ slave' \in SlaveState /\ SameQueue(slave, slave') /\ SameHosts(slave, slave')
           /\ slave'.posted = slave.posted /\ slave'.loading = slave.loading
           /\ slave'.loadTests = slave.loadTests /\ slave'.loadHosts = slave.loadHosts
           /\ slave'.config = slave.config /\ slave'.configTests = slave.configTests
           /\ slave'.configHosts = slave.configHosts
           /\ slave'.loadsAnswered = slave.loadsAnswered
           /\ slave'.program = p /\ p \in Program
           /\ slave.outcome = "none" /\ slave'.outcome = "enrolled"
           /\ host' = host /\ asked' = asked
<1>1. slave \in SlaveState /\ p \in Program
  BY SlaveAssumption DEF TypeOK, Program
<1>2. PICK n : n = [slave EXCEPT !.outcome = "enrolled", !.program = p]
  OBVIOUS
<1>3. /\ n \in SlaveState /\ SameQueue(slave, n) /\ SameHosts(slave, n)
      /\ n.posted = slave.posted /\ n.loading = slave.loading
      /\ n.loadTests = slave.loadTests /\ n.loadHosts = slave.loadHosts
      /\ n.config = slave.config /\ n.configTests = slave.configTests
      /\ n.configHosts = slave.configHosts /\ n.loadsAnswered = slave.loadsAnswered
      /\ n.program = p /\ n.outcome = "enrolled"
  BY ONLY <1>1, <1>2 DEF SlaveState, SameQueue, SameHosts
<1>4. slave' = n /\ slave.outcome = "none" /\ host' = host /\ asked' = asked
  BY <1>2 DEF OnEnrollment
<1>. QED
  BY ONLY <1>1, <1>3, <1>4

LEMMA IQueuedEnrollment ==
    ASSUME IQueued, NEW p \in ActiveAtMaster, OnEnrollment(p)
    PROVE  IQueued'
<1>1. slave \in SlaveState /\ Queued(slave) /\ TypeOK
  BY DEF IQueued, TypeOK
<1>2. /\ slave' \in SlaveState /\ SameQueue(slave, slave')
      /\ slave'.posted = slave.posted /\ slave'.loading = slave.loading
      /\ slave'.loadTests = slave.loadTests /\ slave'.loadHosts = slave.loadHosts
      /\ slave'.config = slave.config /\ slave'.configTests = slave.configTests
      /\ slave'.configHosts = slave.configHosts
      /\ slave'.loadsAnswered = slave.loadsAnswered /\ host' = host /\ asked' = asked
  BY <1>1, EnrollmentFacts
<1>3. /\ \A a \in Nat : /\ Starting(slave', a) <=> Starting(slave, a)
                        /\ Ending(slave', a) <=> Ending(slave, a)
      /\ Requested(slave') <=> Requested(slave)
  BY <1>2 DEF Starting, Ending, Requested
<1>4. Alike(slave, slave')
  BY <1>2 DEF Alike, SameQueue
<1>5. Queued(slave')
  BY <1>1, <1>2, <1>3, <1>4, QueuedFrame DEF SameQueue
<1>. QED
  BY <1>1, <1>2, <1>5, QueuedNext DEF TypeOK

\* A request changes what was asked, which only the last part looks at.
LEMMA QueuedAsked ==
    ASSUME TypeOK, slave' \in SlaveState, Queued(slave'), host' = host,
           asked' \in [loads : 0 .. MaxLoads, configs : 0 .. MaxConfigs, tests : 0 .. MaxTests],
           asked'.loads = asked.loads
    PROVE  IQueued'
<1>1. Asked(slave')
  BY DEF Queued
<1>2. Asked(slave)'
  BY <1>1 DEF Asked
<1>3. Line(slave') /\ Family(slave') /\ Ends(slave') /\ Fronted(slave')
  BY DEF Queued
<1>4. Queued(slave)'
  BY <1>2, <1>3 DEF Queued
<1>5. TypeOK'
  BY DEF TypeOK
<1>. QED
  BY <1>4, <1>5 DEF IQueued

LEMMA IQueuedTest ==
    ASSUME IQueued, Test
    PROVE  IQueued'
<1>1. slave \in SlaveState /\ Queued(slave) /\ TypeOK
  BY DEF IQueued, TypeOK
<1>2. /\ slave.process = "up" /\ asked.tests < MaxTests /\ host' = host
      /\ slave' = StartActivities(slave, <<NewActivity("testHosts")>>)
      /\ asked' = [asked EXCEPT !.tests = @ + 1]
  BY DEF Test, Enrolled
<1>3. slave' \in SlaveState /\ Queued(slave')
  BY <1>1, <1>2, QueuedTest
<1>4. /\ asked' \in [loads : 0 .. MaxLoads, configs : 0 .. MaxConfigs, tests : 0 .. MaxTests]
      /\ asked'.loads = asked.loads
  <2>1. MaxTests \in Nat
    BY SlaveAssumption
  <2>. QED
    BY <1>1, <1>2, <2>1 DEF TypeOK
<1>. QED
  BY <1>1, <1>2, <1>3, <1>4, QueuedAsked

LEMMA IQueuedAskConfig ==
    ASSUME IQueued, NEW type \in Config, AskConfig(type)
    PROVE  IQueued'
<1>1. slave \in SlaveState /\ Queued(slave) /\ TypeOK
  BY DEF IQueued, TypeOK
<1>2. PICK e : e = ServerEvent(type, NoProgram)
  OBVIOUS
<1>3. /\ asked.configs < MaxConfigs /\ host' = host
      /\ slave' = Post(slave, <<e>>)
      /\ asked' = [asked EXCEPT !.configs = @ + 1]
  BY <1>2 DEF AskConfig
<1>4. e \in Event /\ e.type = "server" /\ e.msg # "load"
  <2>1. type \in {"load"} \cup Config /\ type # "load" /\ NoProgram \in Program
    BY Constants DEF Config
  <2>2. /\ ServerEvent(type, NoProgram) \in Event /\ ServerEvent(type, NoProgram).type = "server"
        /\ ServerEvent(type, NoProgram).msg = type
    BY <2>1, EventFacts
  <2>. QED
    BY <1>2, <2>1, <2>2
<1>5. slave' \in SlaveState /\ Queued(slave')
  BY <1>1, <1>3, <1>4, QueuedPost
<1>6. /\ asked' \in [loads : 0 .. MaxLoads, configs : 0 .. MaxConfigs, tests : 0 .. MaxTests]
      /\ asked'.loads = asked.loads
  <2>1. MaxConfigs \in Nat
    BY SlaveAssumption
  <2>. QED
    BY <1>1, <1>3, <2>1 DEF TypeOK
<1>. QED
  BY <1>1, <1>3, <1>5, <1>6, QueuedAsked

\* A load is asked for: the master has no other under way.
LEMMA IQueuedAskLoad ==
    ASSUME IQueued, NEW p \in Program, AskLoad(p)
    PROVE  IQueued'
<1>1. slave \in SlaveState /\ Queued(slave) /\ TypeOK
  BY DEF IQueued, TypeOK
<1>2. PICK e, n : e = ServerEvent("load", p) /\ n = Post(slave, <<e>>)
  OBVIOUS
<1>3. /\ asked.loads < MaxLoads /\ asked.loads = slave.loadsAnswered /\ host' = host
      /\ slave' = n /\ asked' = [asked EXCEPT !.loads = @ + 1]
  BY <1>2 DEF AskLoad
<1>4. e \in Event /\ e.type = "server" /\ e.msg = "load"
  BY <1>2, EventFacts
<1>5. /\ n \in SlaveState /\ n.posted = Append(slave.posted, e)
      /\ SameQueue(slave, n) /\ SameControl(slave, n) /\ SameHosts(slave, n)
  BY <1>1, <1>2, <1>4, PostOneFacts
<1>6. ~Requested(slave) /\ ~Busy(slave) /\ slave.loading = NoProgram
  BY <1>1, <1>3 DEF Queued, Asked
<1>7. /\ \A a \in Nat :
            /\ Starting(n, a) <=> Starting(slave, a) \/ (e.type = "start" /\ e.act = a)
            /\ Ending(n, a) <=> Ending(slave, a) \/ (e.type = "complete" /\ e.act = a)
            /\ Once(slave.posted, {StartEvent(a)})
               /\ (e.type = "start" /\ e.act = a => ~Starting(slave, a))
               => Once(n.posted, {StartEvent(a)})
      /\ Once(slave.posted, LoadRequests) /\ (e.type = "server" /\ e.msg = "load" => ~Requested(slave))
         => Once(n.posted, LoadRequests)
  BY <1>1, <1>4, <1>5, Appended
<1>8. \A a \in Nat : (Starting(n, a) <=> Starting(slave, a)) /\ (Ending(n, a) <=> Ending(slave, a))
  BY <1>4, <1>7
<1>9. \A a \in Nat : Live(n, a) <=> Live(slave, a)
  BY <1>5, <1>8 DEF Live, SameQueue
<1>10. slave.loadTests \in Nat /\ slave.loadHosts \in Nat
       /\ slave.configTests \in Nat /\ slave.configHosts \in Nat /\ DOMAIN slave.acts \subseteq Nat
  BY <1>1, Indices
<1>11. Line(n)
  <2>1. Line(slave)
    BY <1>1 DEF Queued
  <2>2. ASSUME NEW a \in Nat
        PROVE  Once(n.posted, {StartEvent(a)})
    BY <1>4, <1>7, <2>1 DEF Line
  <2>3. ToSet(slave.active) \subseteq Nat
    BY <1>1, Indices
  <2>. QED
    BY <1>5, <1>8, <2>1, <2>2, <2>3 DEF Line, SameQueue
<1>12. Family(n)
  BY <1>1, <1>5, <1>9, <1>10 DEF Family, Queued, SameQueue
<1>13. Ends(n)
  BY <1>1, <1>5, <1>8, <1>9, <1>10 DEF Ends, CanEnd, Unborn, Queued, SameQueue, SameControl
<1>14. Fronted(n) /\ ~Busy(n)
  <2>1. ~Busy(n) /\ n.loading = NoProgram
    BY <1>5, <1>6, <1>9, <1>10 DEF Busy, SameControl
  <2>2. Stages(n, "loadHosts", n.loadTests, n.loadHosts)
    BY <1>1, <1>5, <1>9, <1>10 DEF Stages, Queued, Fronted, SameQueue, SameControl
  <2>3. Stages(n, "hostsConfig", n.configTests, n.configHosts)
    BY <1>1, <1>5, <1>9, <1>10 DEF Stages, Queued, Fronted, SameQueue, SameControl
  <2>. QED
    BY <1>1, <1>5, <1>6, <1>7, <1>9, <1>10, <2>1, <2>2, <2>3 DEF Queued, Fronted, SameControl
<1>15. /\ asked' \in [loads : 0 .. MaxLoads, configs : 0 .. MaxConfigs, tests : 0 .. MaxTests]
       /\ asked'.loads = asked.loads + 1
  <2>1. MaxLoads \in Nat
    BY SlaveAssumption
  <2>. QED
    BY <1>1, <1>3, <2>1 DEF TypeOK
<1>16. Asked(slave)'
  <2>1. asked'.loads = slave'.loadsAnswered + 1 /\ slave'.loadsAnswered \in Nat
    BY <1>1, <1>3, <1>5, <1>15, StateFacts DEF SameControl
  <2>. QED
    BY <2>1 DEF Asked
<1>17. Queued(slave)'
  <2>1. Line(slave') /\ Family(slave') /\ Ends(slave') /\ Fronted(slave')
    BY <1>3, <1>11, <1>12, <1>13, <1>14
  <2>. QED
    BY <1>16, <2>1 DEF Queued
<1>18. TypeOK'
  BY <1>1, <1>3, <1>5, <1>15 DEF TypeOK
<1>. QED
  BY <1>17, <1>18 DEF IQueued

-----------------------------------------------------------------------------
(***************************************************************************)
(* The actions keep the invariant: the hosts.                              *)
(***************************************************************************)
\* What Read leaves of the slave's state.
LEMMA ReadFacts ==
    ASSUME slave \in SlaveState, NEW h \in Clients, slave.out[h] # << >>
    PROVE  /\ Read(h) \in SlaveState /\ Read(h).posted = slave.posted
           /\ SameQueue(slave, Read(h)) /\ SameControl(slave, Read(h))
           /\ Read(h).enrolled = slave.enrolled /\ Read(h).arrived = slave.arrived
           /\ Read(h).known = slave.known /\ Read(h).mapping = slave.mapping
           /\ \A c \in Clients : Read(h).out[c] = IF c = h THEN Tail(slave.out[h]) ELSE slave.out[c]
           /\ Head(slave.out[h]) \in Order
<1>. DEFINE out == [slave.out EXCEPT ![h] = Tail(@)]
<1>1. slave.out \in [Clients -> Seq(Order)]
  BY StateFacts
<1>2. Tail(slave.out[h]) \in Seq(Order) /\ Head(slave.out[h]) \in Order
  BY <1>1, TailFacts
<1>3. out \in [Clients -> Seq(Order)]
      /\ \A c \in Clients : out[c] = IF c = h THEN Tail(slave.out[h]) ELSE slave.out[c]
  BY <1>1, <1>2
<1>4. Read(h) = [slave EXCEPT !.out = out]
  BY DEF Read
<1>. HIDE DEF out
<1>. QED
  BY <1>2, <1>3, <1>4, OutFacts

LEMMA QueuedRead ==
    ASSUME IQueued, NEW h \in Clients, slave.out[h] # << >>
    PROVE  Read(h) \in SlaveState /\ Queued(Read(h))
<1>1. slave \in SlaveState /\ Queued(slave)
  BY DEF IQueued, TypeOK
<1>2. /\ Read(h) \in SlaveState /\ Read(h).posted = slave.posted
      /\ SameQueue(slave, Read(h)) /\ SameControl(slave, Read(h))
  BY <1>1, ReadFacts
<1>. QED
  BY <1>1, <1>2, QueuedHosts DEF SameQueue

LEMMA QueuedReply ==
    ASSUME IQueued, NEW h \in Clients, slave.out[h] # << >>, NEW ok \in BOOLEAN,
           NEW msg \in {"enroll", "enrolleg", "alive", "load", "buffer"} \cup Config
    PROVE  Answered(h, msg, ok) \in SlaveState /\ Queued(Answered(h, msg, ok))
<1>1. PICK e : e = ClientEvent(h, msg, ok)
  OBVIOUS
<1>2. e \in Event /\ e.type = "client"
  BY <1>1, EventFacts
<1>. QED
  BY <1>1, <1>2, QueuedRead, QueuedPost DEF Answered

LEMMA QueuedTell ==
    ASSUME IQueued, NEW h \in Clients, NEW ok \in BOOLEAN,
           NEW msg \in {"enroll", "enrolleg", "alive", "load", "buffer"} \cup Config
    PROVE  Post(slave, <<ClientEvent(h, msg, ok)>>) \in SlaveState
           /\ Queued(Post(slave, <<ClientEvent(h, msg, ok)>>))
<1>1. PICK e : e = ClientEvent(h, msg, ok)
  OBVIOUS
<1>2. e \in Event /\ e.type = "client"
  BY <1>1, EventFacts
<1>3. slave \in SlaveState /\ Queued(slave)
  BY DEF IQueued, TypeOK
<1>. QED
  BY <1>1, <1>2, <1>3, QueuedPost

Whats == [name : HostNames \cup {NoName}, program : Program]
Stages4 == {"none", "queued", "buffer", "succeeded", "failed"}

LEMMA HostStateFacts ==
    ASSUME NEW r \in HostState
    PROVE  /\ r.link \in {"off", "up", "dead", "gone"} /\ r.workspace \in BOOLEAN /\ r.eg \in BOOLEAN
           /\ r.runs \in Whats /\ r.load \in [stage : Stages4, what : Whats]
           /\ r.load.stage \in Stages4 /\ r.load.what \in Whats
           /\ r.config \in [stage : Stages4, type : Config \cup {"none"}]
           /\ r.config.stage \in Stages4 /\ r.config.type \in Config \cup {"none"}
           /\ r.jobs \in Seq({"load", "config"})
BY DEF HostState, Whats, Stages4

\* Only host h changes, and it becomes r.
Becomes(h, r) ==
    /\ r \in HostState /\ host' \in [Clients -> HostState] /\ host'[h] = r
    /\ \A c \in Clients : c # h => host'[c] = host[c]

LEMMA BecomesFacts ==
    ASSUME host \in [Clients -> HostState], NEW h \in Clients, NEW r \in HostState,
           host' = [host EXCEPT ![h] = r]
    PROVE  Becomes(h, r)
BY DEF Becomes

\* Each change of a host's state, field by field.
LEMMA LinkFacts ==
    ASSUME NEW r \in HostState, NEW x \in {"off", "up", "dead", "gone"}
    PROVE  LET s == [r EXCEPT !.link = x]
           IN  /\ s \in HostState /\ s.link = x /\ s.workspace = r.workspace /\ s.eg = r.eg
               /\ s.runs = r.runs /\ s.load = r.load /\ s.config = r.config /\ s.jobs = r.jobs
BY DEF HostState

LEMMA EgFacts ==
    ASSUME NEW r \in HostState, NEW x \in BOOLEAN
    PROVE  LET s == [r EXCEPT !.eg = x]
           IN  /\ s \in HostState /\ s.link = r.link /\ s.workspace = r.workspace /\ s.eg = x
               /\ s.runs = r.runs /\ s.load = r.load /\ s.config = r.config /\ s.jobs = r.jobs
BY DEF HostState

LEMMA WorkspaceFacts ==
    ASSUME NEW r \in HostState, NEW x \in BOOLEAN
    PROVE  LET s == [r EXCEPT !.workspace = x]
           IN  /\ s \in HostState /\ s.link = r.link /\ s.workspace = x /\ s.eg = r.eg
               /\ s.runs = r.runs /\ s.load = r.load /\ s.config = r.config /\ s.jobs = r.jobs
BY DEF HostState

Idles(r, s) == s.load = r.load /\ s.config = r.config /\ s.jobs = r.jobs /\ s.runs = r.runs

LEMMA StartHostFacts ==
    ASSUME TypeOK, NEW h \in Clients, StartHost(h)
    PROVE  /\ host[h].link = "off" /\ slave' = Post(slave, <<ClientEvent(h, "enroll", TRUE)>>)
           /\ asked' = asked
           /\ \E r : Becomes(h, r) /\ r.link = "up" /\ Idles(host[h], r)
<1>1. PICK r, s : r = host[h] /\ s = [r EXCEPT !.link = "up"]
  OBVIOUS
<1>2. r \in HostState /\ host \in [Clients -> HostState]
  BY <1>1 DEF TypeOK
<1>3. s \in HostState /\ s.link = "up" /\ Idles(r, s)
  BY <1>1, <1>2, LinkFacts DEF Idles
<1>4. host' = [host EXCEPT ![h] = s]
  BY <1>1, <1>2 DEF StartHost
<1>. QED
  BY <1>1, <1>2, <1>3, <1>4, BecomesFacts DEF StartHost

LEMMA ReceiveEnrolledFacts ==
    ASSUME TypeOK, NEW h \in Clients, ReceiveEnrolled(h)
    PROVE  /\ host[h].link = "up" /\ slave.out[h] # << >> /\ Head(slave.out[h]).msg = "enrolled"
           /\ slave' = Read(h) /\ asked' = asked
           /\ \E r : Becomes(h, r) /\ r.link = host[h].link /\ Idles(host[h], r)
<1>1. PICK r, s : r = host[h] /\ s = [r EXCEPT !.eg = TRUE]
  OBVIOUS
<1>2. r \in HostState /\ host \in [Clients -> HostState]
  BY <1>1 DEF TypeOK
<1>3. s \in HostState /\ s.link = r.link /\ Idles(r, s)
  BY <1>1, <1>2, EgFacts DEF Idles
<1>4. host' = [host EXCEPT ![h] = s]
  BY <1>1, <1>2 DEF ReceiveEnrolled
<1>. QED
  BY <1>1, <1>2, <1>3, <1>4, BecomesFacts DEF ReceiveEnrolled, Receive

LEMMA ArriveEGFacts ==
    ASSUME TypeOK, NEW h \in Clients, ArriveEG(h)
    PROVE  /\ host[h].link = "up" /\ slave' = Post(slave, <<ClientEvent(h, "enrolleg", TRUE)>>)
           /\ asked' = asked
           /\ \E r : Becomes(h, r) /\ r.link = host[h].link /\ Idles(host[h], r)
<1>1. PICK r, s : r = host[h] /\ s = [r EXCEPT !.eg = FALSE]
  OBVIOUS
<1>2. r \in HostState /\ host \in [Clients -> HostState]
  BY <1>1 DEF TypeOK
<1>3. s \in HostState /\ s.link = r.link /\ Idles(r, s)
  BY <1>1, <1>2, EgFacts DEF Idles
<1>4. host' = [host EXCEPT ![h] = s]
  BY <1>1, <1>2 DEF ArriveEG
<1>. QED
  BY <1>1, <1>2, <1>3, <1>4, BecomesFacts DEF ArriveEG

LEMMA ReceiveEGEnrolledFacts ==
    ASSUME TypeOK, NEW h \in Clients, ReceiveEGEnrolled(h)
    PROVE  /\ host[h].link = "up" /\ slave.out[h] # << >> /\ Head(slave.out[h]).msg = "egenrolled"
           /\ slave' = Read(h) /\ asked' = asked
           /\ \E r : Becomes(h, r) /\ r.link = host[h].link /\ Idles(host[h], r)
<1>1. PICK r, s : r = host[h] /\ s = [r EXCEPT !.workspace = TRUE]
  OBVIOUS
<1>2. r \in HostState /\ host \in [Clients -> HostState]
  BY <1>1 DEF TypeOK
<1>3. s \in HostState /\ s.link = r.link /\ Idles(r, s)
  BY <1>1, <1>2, WorkspaceFacts DEF Idles
<1>4. host' = [host EXCEPT ![h] = s]
  BY <1>1, <1>2 DEF ReceiveEGEnrolled
<1>. QED
  BY <1>1, <1>2, <1>3, <1>4, BecomesFacts DEF ReceiveEGEnrolled, Receive

LEMMA ReceiveAliveFacts ==
    ASSUME TypeOK, NEW h \in Clients, ReceiveAlive(h)
    PROVE  /\ host[h].link = "up" /\ slave.out[h] # << >> /\ Head(slave.out[h]).msg = "alive"
           /\ slave' = Answered(h, "alive", TRUE) /\ asked' = asked /\ host' = host
BY DEF ReceiveAlive, Receive

\* What an order to load asks for.
LoadWhat(order) == [name |-> order.name, program |-> order.program]

LEMMA LoadOrderFacts ==
    ASSUME NEW order \in Order, order.msg = "load"
    PROVE  LoadWhat(order) \in Whats
BY DEF Order, LoadWhat, Whats, Config

LEMMA ReceiveLoadFacts ==
    ASSUME TypeOK, NEW h \in Clients, ReceiveLoad(h)
    PROVE  /\ host[h].link = "up" /\ slave.out[h] # << >> /\ Head(slave.out[h]).msg = "load"
           /\ asked' = asked
           /\ \/ /\ host[h].load.stage # "none" /\ host' = host
                 /\ slave' = Answered(h, "load", FALSE)
              \/ /\ host[h].load.stage = "none" /\ slave' = Read(h)
                 /\ \E r : /\ Becomes(h, r) /\ r.link = host[h].link
                           /\ r.runs = host[h].runs /\ r.config = host[h].config
                           /\ r.load.stage = "queued" /\ r.load.what = LoadWhat(Head(slave.out[h]))
                           /\ r.jobs = Append(host[h].jobs, "load")
<1>1. /\ host[h].link = "up" /\ slave.out[h] # << >> /\ Head(slave.out[h]).msg = "load"
      /\ asked' = asked
  BY DEF ReceiveLoad, Receive
<1>2. PICK r : r = host[h]
  OBVIOUS
<1>3. r \in HostState /\ host \in [Clients -> HostState] /\ slave \in SlaveState
  BY <1>2 DEF TypeOK
<1>4. PICK what : what = LoadWhat(Head(slave.out[h])) /\ what \in Whats
  BY <1>1, <1>3, ReadFacts, LoadOrderFacts
<1>5. CASE r.load.stage # "none"
  BY <1>1, <1>2, <1>5 DEF ReceiveLoad
<1>6. CASE r.load.stage = "none"
  <2>1. PICK jobs : jobs = Append(r.jobs, "load") /\ jobs \in Seq({"load", "config"})
    BY <1>3, HostStateFacts, AppendProperties
  <2>2. PICK load : load = [stage |-> "queued", what |-> what]
    OBVIOUS
  <2>3. PICK s : s = [r EXCEPT !.load = load, !.jobs = jobs]
    OBVIOUS
  <2>4. load \in [stage : Stages4, what : Whats]
    BY <1>4, <2>2 DEF Stages4
  <2>5. /\ s \in HostState /\ s.link = r.link /\ s.runs = r.runs /\ s.config = r.config
        /\ s.load = load /\ s.jobs = jobs
    BY ONLY <1>3, <2>1, <2>3, <2>4 DEF HostState, Stages4, Whats
  <2>6. slave' = Read(h) /\ host' = [host EXCEPT ![h].load = load, ![h].jobs = Append(@, "load")]
    BY <1>2, <1>4, <1>6, <2>2 DEF ReceiveLoad, LoadWhat
  <2>7. host' = [host EXCEPT ![h] = s]
    BY <1>2, <1>3, <2>1, <2>3, <2>6
  <2>. QED
    <3>1. Becomes(h, s)
      BY <1>3, <2>5, <2>7, BecomesFacts
    <3>2. /\ s.link = host[h].link /\ s.runs = host[h].runs /\ s.config = host[h].config
          /\ s.load.stage = "queued" /\ s.load.what = LoadWhat(Head(slave.out[h]))
          /\ s.jobs = Append(host[h].jobs, "load")
      BY <1>2, <1>4, <2>1, <2>2, <2>5
    <3>3. host[h].load.stage = "none"
      BY <1>2, <1>6
    <3>. QED
      BY ONLY <1>1, <2>6, <3>1, <3>2, <3>3
<1>. QED
  BY <1>5, <1>6

LEMMA ReceiveConfigFacts ==
    ASSUME TypeOK, NEW h \in Clients, NEW type \in Config, ReceiveConfig(h, type)
    PROVE  /\ host[h].link = "up" /\ slave.out[h] # << >> /\ Head(slave.out[h]).msg = type
           /\ asked' = asked
           /\ \/ /\ host' = host /\ slave' = Answered(h, type, FALSE)
              \/ /\ host[h].config.stage = "none" /\ slave' = Read(h)
                 /\ \E r : /\ Becomes(h, r) /\ r.link = host[h].link
                           /\ r.runs = host[h].runs /\ r.load = host[h].load
                           /\ r.config.stage = "queued" /\ r.config.type = type
                           /\ r.jobs = Append(host[h].jobs, "config")
<1>1. /\ host[h].link = "up" /\ slave.out[h] # << >> /\ Head(slave.out[h]).msg = type
      /\ asked' = asked
  BY DEF ReceiveConfig, Receive
<1>2. PICK r : r = host[h]
  OBVIOUS
<1>3. r \in HostState /\ host \in [Clients -> HostState] /\ slave \in SlaveState
  BY <1>2 DEF TypeOK
<1>5. CASE r.config.stage # "none"
  BY <1>1, <1>2, <1>5 DEF ReceiveConfig
<1>6. CASE r.config.stage = "none"
  <2>1. PICK jobs : jobs = Append(r.jobs, "config") /\ jobs \in Seq({"load", "config"})
    BY <1>3, HostStateFacts, AppendProperties
  <2>2. PICK config : config = [stage |-> "queued", type |-> type]
    OBVIOUS
  <2>3. PICK s : s = [r EXCEPT !.config = config, !.jobs = jobs]
    OBVIOUS
  <2>4. /\ config \in [stage : Stages4, type : Config \cup {"none"}]
        /\ config.stage = "queued" /\ config.type = type
    BY <2>2 DEF Stages4
  <2>5. /\ s \in HostState /\ s.link = r.link /\ s.runs = r.runs /\ s.load = r.load
        /\ s.config = config /\ s.jobs = jobs
    BY ONLY <1>3, <2>1, <2>3, <2>4 DEF HostState, Stages4, Whats
  <2>6. slave' = Read(h) /\ host' = [host EXCEPT ![h].config = config, ![h].jobs = Append(@, "config")]
    BY <1>2, <1>6, <2>2 DEF ReceiveConfig
  <2>7. host' = [host EXCEPT ![h] = s]
    BY <1>2, <1>3, <2>1, <2>3, <2>6
  <2>. QED
    <3>1. Becomes(h, s)
      BY <1>3, <2>5, <2>7, BecomesFacts
    <3>2. /\ s.link = host[h].link /\ s.runs = host[h].runs /\ s.load = host[h].load
          /\ s.config.stage = "queued" /\ s.config.type = type
          /\ s.jobs = Append(host[h].jobs, "config")
      BY <1>2, <2>1, <2>4, <2>5
    <3>3. host[h].config.stage = "none"
      BY <1>2, <1>6
    <3>. QED
      BY ONLY <1>1, <2>6, <3>1, <3>2, <3>3
<1>. QED
  BY <1>5, <1>6

LEMMA LoadJobCompleteFacts ==
    ASSUME TypeOK, NEW h \in Clients, LoadJobComplete(h)
    PROVE  /\ host[h].link = "up" /\ host[h].load.stage \in {"succeeded", "failed"}
           /\ slave' = Post(slave, <<ClientEvent(h, "load", host[h].load.stage = "succeeded")>>)
           /\ asked' = asked
           /\ \E r : /\ Becomes(h, r) /\ r.link = host[h].link
                     /\ r.runs = host[h].runs /\ r.config = host[h].config
                     /\ r.load.stage = "none" /\ r.load.what = Nothing /\ r.jobs = host[h].jobs
<1>1. PICK r : r = host[h]
  OBVIOUS
<1>2. r \in HostState /\ host \in [Clients -> HostState]
  BY <1>1 DEF TypeOK
<1>3. PICK load : load = [stage |-> "none", what |-> Nothing]
  OBVIOUS
<1>4. load \in [stage : Stages4, what : Whats] /\ load.stage = "none" /\ load.what = Nothing
  BY <1>3, Constants DEF Stages4, Whats, Nothing
<1>5. PICK s : s = [r EXCEPT !.load = load]
  OBVIOUS
<1>6. /\ s \in HostState /\ s.link = r.link /\ s.runs = r.runs /\ s.config = r.config
      /\ s.load = load /\ s.jobs = r.jobs
  BY ONLY <1>2, <1>4, <1>5 DEF HostState, Stages4, Whats
<1>7. host' = [host EXCEPT ![h] = s]
  BY <1>1, <1>2, <1>3, <1>5 DEF LoadJobComplete
<1>8. Becomes(h, s)
  BY <1>2, <1>6, <1>7, BecomesFacts
<1>9. /\ s.link = host[h].link /\ s.runs = host[h].runs /\ s.config = host[h].config
      /\ s.load.stage = "none" /\ s.load.what = Nothing /\ s.jobs = host[h].jobs
  BY <1>1, <1>4, <1>6
<1>10. /\ host[h].link = "up" /\ host[h].load.stage \in {"succeeded", "failed"}
       /\ slave' = Post(slave, <<ClientEvent(h, "load", host[h].load.stage = "succeeded")>>)
       /\ asked' = asked
  BY DEF LoadJobComplete
<1>. QED
  BY ONLY <1>8, <1>9, <1>10

LEMMA ConfigJobCompleteFacts ==
    ASSUME TypeOK, NEW h \in Clients, ConfigJobComplete(h)
    PROVE  /\ host[h].link = "up" /\ host[h].config.stage \in {"succeeded", "failed"}
           /\ slave' = Post(slave, <<ClientEvent(h, host[h].config.type,
                                                 host[h].config.stage = "succeeded")>>)
           /\ asked' = asked
           /\ \E r : /\ Becomes(h, r) /\ r.link = host[h].link
                     /\ r.runs = host[h].runs /\ r.load = host[h].load /\ r.jobs = host[h].jobs
                     /\ r.config.stage = "none"
<1>1. PICK r : r = host[h]
  OBVIOUS
<1>2. r \in HostState /\ host \in [Clients -> HostState]
  BY <1>1 DEF TypeOK
<1>3. PICK config : config = [stage |-> "none", type |-> "none"]
  OBVIOUS
<1>4. config \in [stage : Stages4, type : Config \cup {"none"}] /\ config.stage = "none"
  BY <1>3 DEF Stages4
<1>5. PICK s : s = [r EXCEPT !.config = config]
  OBVIOUS
<1>6. /\ s \in HostState /\ s.link = r.link /\ s.runs = r.runs /\ s.load = r.load
      /\ s.config = config /\ s.jobs = r.jobs
  BY ONLY <1>2, <1>4, <1>5 DEF HostState, Stages4, Whats
<1>7. host' = [host EXCEPT ![h] = s]
  BY <1>1, <1>2, <1>3, <1>5 DEF ConfigJobComplete
<1>8. Becomes(h, s)
  BY <1>2, <1>6, <1>7, BecomesFacts
<1>9. /\ s.link = host[h].link /\ s.runs = host[h].runs /\ s.load = host[h].load
      /\ s.jobs = host[h].jobs /\ s.config.stage = "none"
  BY <1>1, <1>4, <1>6
<1>10. /\ host[h].link = "up" /\ host[h].config.stage \in {"succeeded", "failed"}
       /\ slave' = Post(slave, <<ClientEvent(h, host[h].config.type,
                                             host[h].config.stage = "succeeded")>>)
       /\ asked' = asked
  BY DEF ConfigJobComplete
<1>. QED
  BY ONLY <1>8, <1>9, <1>10

\* The load job ends: the host runs what it should, or nothing.
LEMMA LoadedFacts ==
    ASSUME TypeOK, NEW h \in Clients, NEW ok \in BOOLEAN, host[h].jobs # << >>,
           host' = Loaded(h, ok)
    PROVE  \E r : /\ Becomes(h, r) /\ r.link = host[h].link /\ r.config = host[h].config
                  /\ r.runs = IF ok THEN host[h].load.what ELSE Nothing
                  /\ r.load.stage = IF ok THEN "succeeded" ELSE "failed"
                  /\ r.load.what = host[h].load.what /\ r.jobs = Tail(host[h].jobs)
<1>1. PICK r : r = host[h]
  OBVIOUS
<1>2. r \in HostState /\ host \in [Clients -> HostState]
  BY <1>1 DEF TypeOK
<1>3. PICK runs, stage : /\ runs = IF ok THEN r.load.what ELSE Nothing
                         /\ stage = IF ok THEN "succeeded" ELSE "failed"
  OBVIOUS
<1>4. runs \in Whats /\ stage \in Stages4
  BY <1>2, <1>3, HostStateFacts, Constants DEF Stages4, Whats, Nothing
<1>5. PICK jobs : jobs = Tail(r.jobs) /\ jobs \in Seq({"load", "config"})
  BY <1>1, <1>2, HostStateFacts, TailFacts
<1>6. PICK load : load = [r.load EXCEPT !.stage = stage]
  OBVIOUS
<1>7. load \in [stage : Stages4, what : Whats] /\ load.stage = stage /\ load.what = r.load.what
  BY <1>2, <1>4, <1>6, HostStateFacts
<1>8. PICK s : s = [r EXCEPT !.runs = runs, !.load = load, !.jobs = jobs]
  OBVIOUS
<1>9. /\ s \in HostState /\ s.link = r.link /\ s.runs = runs /\ s.config = r.config
      /\ s.load = load /\ s.jobs = jobs
  BY ONLY <1>2, <1>4, <1>5, <1>7, <1>8 DEF HostState, Stages4, Whats
<1>10. host' = [host EXCEPT ![h] = s]
  <2>1. host' = [host EXCEPT ![h].runs = runs, ![h].load.stage = stage, ![h].jobs = Tail(@)]
    BY <1>1, <1>3 DEF Loaded
  <2>2. [r EXCEPT !.runs = runs, !.load.stage = stage, !.jobs = Tail(@)] = s
    BY <1>2, <1>5, <1>6, <1>8 DEF HostState
  <2>3. [host EXCEPT ![h].runs = runs, ![h].load.stage = stage, ![h].jobs = Tail(@)]
        = [host EXCEPT ![h] = [r EXCEPT !.runs = runs, !.load.stage = stage, !.jobs = Tail(@)]]
    BY <1>1, <1>2
  <2>. QED
    BY <2>1, <2>2, <2>3
<1>11. Becomes(h, s)
  BY <1>2, <1>9, <1>10, BecomesFacts
<1>12. /\ s.link = host[h].link /\ s.config = host[h].config
       /\ s.runs = IF ok THEN host[h].load.what ELSE Nothing
       /\ s.load.stage = IF ok THEN "succeeded" ELSE "failed"
       /\ s.load.what = host[h].load.what /\ s.jobs = Tail(host[h].jobs)
  BY <1>1, <1>3, <1>5, <1>7, <1>9
<1>. QED
  BY ONLY <1>11, <1>12

\* A host, in state r, asks for its buffer.
WaitsForBuffer(r, s) ==
    /\ s.link = r.link /\ s.runs = r.runs /\ s.config = r.config /\ s.jobs = r.jobs
    /\ s.load.stage = "buffer" /\ s.load.what = r.load.what

LEMMA RunLoadJobFacts ==
    ASSUME TypeOK, NEW h \in Clients, RunLoadJob(h)
    PROVE  /\ host[h].link = "up" /\ host[h].jobs # << >> /\ Head(host[h].jobs) = "load"
           /\ host[h].load.stage = "queued" /\ asked' = asked
           /\ \/ /\ slave' = slave
                 /\ \/ host' = Loaded(h, TRUE)
                    \/ host' = Loaded(h, FALSE) /\ host[h].load.what # Nothing
              \/ /\ slave' = Post(slave, <<ClientEvent(h, "buffer", TRUE)>>)
                 /\ host[h].load.what # Nothing
                 /\ \E r : Becomes(h, r) /\ WaitsForBuffer(host[h], r)
<1>1. /\ host[h].link = "up" /\ host[h].jobs # << >> /\ Head(host[h].jobs) = "load"
      /\ host[h].load.stage = "queued" /\ asked' = asked
  BY DEF RunLoadJob, NextJob
<1>2. PICK r : r = host[h]
  OBVIOUS
<1>3. r \in HostState /\ host \in [Clients -> HostState]
  BY <1>2 DEF TypeOK
<1>4. CASE host' = Loaded(h, TRUE) /\ slave' = slave
  BY <1>1, <1>4
<1>5. CASE host' = Loaded(h, FALSE) /\ slave' = slave /\ host[h].load.what # Nothing
  BY <1>1, <1>5
<1>6. CASE /\ host' = [host EXCEPT ![h].load.stage = "buffer"] /\ host[h].load.what # Nothing
           /\ slave' = Post(slave, <<ClientEvent(h, "buffer", TRUE)>>)
  <2>1. PICK load : load = [r.load EXCEPT !.stage = "buffer"]
    OBVIOUS
  <2>2. load \in [stage : Stages4, what : Whats] /\ load.stage = "buffer" /\ load.what = r.load.what
    BY <1>3, <2>1, HostStateFacts DEF Stages4
  <2>3. PICK s : s = [r EXCEPT !.load = load]
    OBVIOUS
  <2>4. /\ s \in HostState /\ s.link = r.link /\ s.runs = r.runs /\ s.config = r.config
        /\ s.load = load /\ s.jobs = r.jobs
    BY ONLY <1>3, <2>2, <2>3 DEF HostState, Stages4, Whats
  <2>5. host' = [host EXCEPT ![h] = s]
    BY <1>2, <1>3, <1>6, <2>1, <2>3
  <2>6. Becomes(h, s)
    BY <1>3, <2>4, <2>5, BecomesFacts
  <2>7. WaitsForBuffer(host[h], s)
    BY <1>2, <2>2, <2>4 DEF WaitsForBuffer
  <2>. QED
    BY ONLY <1>1, <1>6, <2>6, <2>7
<1>. QED
  BY <1>4, <1>5, <1>6 DEF RunLoadJob

LEMMA ReceiveBufferFacts ==
    ASSUME TypeOK, NEW h \in Clients, ReceiveBuffer(h)
    PROVE  /\ host[h].link = "up" /\ slave.out[h] # << >> /\ Head(slave.out[h]).msg = "buffer"
           /\ slave' = Read(h) /\ asked' = asked
           /\ \E ok \in BOOLEAN : host' = Loaded(h, ok)
BY DEF ReceiveBuffer, Receive

LEMMA RunConfigJobFacts ==
    ASSUME TypeOK, NEW h \in Clients, RunConfigJob(h)
    PROVE  /\ host[h].link = "up" /\ host[h].jobs # << >> /\ Head(host[h].jobs) = "config"
           /\ slave' = slave /\ asked' = asked
           /\ \E r : /\ Becomes(h, r) /\ r.link = host[h].link /\ r.load = host[h].load
                     /\ r.runs = host[h].runs /\ r.config.type = host[h].config.type
                     /\ r.jobs = Tail(host[h].jobs)
<1>1. /\ host[h].link = "up" /\ host[h].jobs # << >> /\ Head(host[h].jobs) = "config"
      /\ slave' = slave /\ asked' = asked
  BY DEF RunConfigJob, NextJob
<1>2. PICK r : r = host[h]
  OBVIOUS
<1>3. r \in HostState /\ host \in [Clients -> HostState]
  BY <1>2 DEF TypeOK
<1>4. PICK ok \in BOOLEAN :
         host' = [host EXCEPT ![h].config.stage = IF ok THEN "succeeded" ELSE "failed",
                              ![h].jobs = Tail(@)]
  BY DEF RunConfigJob
<1>5. PICK stage : stage = IF ok THEN "succeeded" ELSE "failed"
  OBVIOUS
<1>6. PICK config : config = [r.config EXCEPT !.stage = stage]
  OBVIOUS
<1>7. /\ config \in [stage : Stages4, type : Config \cup {"none"}]
      /\ config.type = r.config.type
  BY <1>3, <1>5, <1>6, HostStateFacts DEF Stages4
<1>8. PICK jobs : jobs = Tail(r.jobs) /\ jobs \in Seq({"load", "config"})
  BY <1>1, <1>2, <1>3, HostStateFacts, TailFacts
<1>9. PICK s : s = [r EXCEPT !.config = config, !.jobs = jobs]
  OBVIOUS
<1>10. /\ s \in HostState /\ s.link = r.link /\ s.runs = r.runs /\ s.load = r.load
       /\ s.config = config /\ s.jobs = jobs
  BY ONLY <1>3, <1>7, <1>8, <1>9 DEF HostState, Stages4, Whats
<1>11. host' = [host EXCEPT ![h] = s]
  <2>1. [r EXCEPT !.config.stage = stage, !.jobs = Tail(@)] = s
    BY <1>3, <1>6, <1>8, <1>9 DEF HostState
  <2>2. [host EXCEPT ![h].config.stage = stage, ![h].jobs = Tail(@)]
        = [host EXCEPT ![h] = [r EXCEPT !.config.stage = stage, !.jobs = Tail(@)]]
    BY <1>2, <1>3
  <2>. QED
    BY <1>4, <1>5, <2>1, <2>2
<1>12. Becomes(h, s)
  BY <1>3, <1>10, <1>11, BecomesFacts
<1>13. /\ s.link = host[h].link /\ s.load = host[h].load
       /\ s.runs = host[h].runs /\ s.config.type = host[h].config.type
       /\ s.jobs = Tail(host[h].jobs)
  BY <1>2, <1>7, <1>8, <1>10
<1>. QED
  BY ONLY <1>1, <1>12, <1>13

LEMMA CrashFacts ==
    ASSUME TypeOK, NEW h \in Clients, Crash(h)
    PROVE  /\ host[h].link = "up" /\ asked' = asked
           /\ \E r : Becomes(h, r) /\ r.link = "dead" /\ Idles(host[h], r)
           /\ slave' \in SlaveState /\ slave'.posted = slave.posted
           /\ SameQueue(slave, slave') /\ SameControl(slave, slave')
           /\ slave'.enrolled = slave.enrolled /\ slave'.arrived = slave.arrived
           /\ slave'.known = slave.known /\ slave'.mapping = slave.mapping
           /\ \A c \in Clients : slave'.out[c] = IF c = h THEN << >> ELSE slave.out[c]
<1>1. PICK r, s : r = host[h] /\ s = [r EXCEPT !.link = "dead"]
  OBVIOUS
<1>2. r \in HostState /\ host \in [Clients -> HostState] /\ slave \in SlaveState
  BY <1>1 DEF TypeOK
<1>3. s \in HostState /\ s.link = "dead" /\ Idles(r, s)
  BY <1>1, <1>2, LinkFacts DEF Idles
<1>4. host' = [host EXCEPT ![h] = s]
  BY <1>1, <1>2 DEF Crash
<1>5. Becomes(h, s)
  BY <1>2, <1>3, <1>4, BecomesFacts
<1>6. PICK out : out = [slave.out EXCEPT ![h] = << >>]
  OBVIOUS
<1>7. out \in [Clients -> Seq(Order)]
      /\ \A c \in Clients : out[c] = IF c = h THEN << >> ELSE slave.out[c]
  BY <1>2, <1>6, StateFacts, EmptyFacts
<1>8. slave' = [slave EXCEPT !.out = out]
  BY <1>6 DEF Crash
<1>9. /\ slave' \in SlaveState /\ slave'.posted = slave.posted
      /\ SameQueue(slave, slave') /\ SameControl(slave, slave')
      /\ slave'.enrolled = slave.enrolled /\ slave'.arrived = slave.arrived
      /\ slave'.known = slave.known /\ slave'.mapping = slave.mapping
      /\ slave'.out = out
  BY <1>2, <1>7, <1>8, OutFacts
<1>10. host[h].link = "up" /\ asked' = asked
  BY DEF Crash
<1>. QED
  BY ONLY <1>1, <1>3, <1>5, <1>7, <1>9, <1>10

LEMMA DetectFacts ==
    ASSUME TypeOK, NEW h \in Clients, Detect(h)
    PROVE  /\ host[h].link = "dead" /\ slave' = slave /\ asked' = asked
           /\ \E r : Becomes(h, r) /\ r.link = "gone" /\ Idles(host[h], r)
<1>1. PICK r, s : r = host[h] /\ s = [r EXCEPT !.link = "gone"]
  OBVIOUS
<1>2. r \in HostState /\ host \in [Clients -> HostState]
  BY <1>1 DEF TypeOK
<1>3. s \in HostState /\ s.link = "gone" /\ Idles(r, s)
  BY <1>1, <1>2, LinkFacts DEF Idles
<1>4. host' = [host EXCEPT ![h] = s]
  BY <1>1, <1>2 DEF Detect
<1>. QED
  BY <1>1, <1>2, <1>3, <1>4, BecomesFacts DEF Detect
=============================================================================
