----------------------------- MODULE SlaveProofs -----------------------------
(***************************************************************************)
(* TLAPS proofs about the loads of a slave's hosts, on top of those about  *)
(* its queue (SlaveQueueProofs): a host has one load at most, which is an  *)
(* order on its way, the host's job, or an answer posted (Accounts), just  *)
(* if a LoadHostProgramActivity of it waits; and it asks for a buffer only *)
(* while its load waits for one (Works).                                   *)
(***************************************************************************)
EXTENDS SlaveQueueProofs

LoadOrders == [msg : {"load"}, name : HostNames \cup {NoName}, program : Program]
BufferOrders == {[msg |-> "buffer"]}
LoadAnswers(c) == {ClientEvent(c, "load", ok) : ok \in BOOLEAN}
BufferRequests(c) == {ClientEvent(c, "buffer", ok) : ok \in BOOLEAN}
From(c) == {e \in Event : e.type = "client" /\ e.from = c}

LoadOut(m, c) == Has(m.out[c], LoadOrders)
LoadDone(m, c) == Has(m.posted, LoadAnswers(c))
BufferOut(m, c) == Has(m.out[c], BufferOrders)
BufferAsked(m, c) == Has(m.posted, BufferRequests(c))

\* Some LoadHostProgramActivity waits for the answer of host c.
Waits(m, a, c) == m.acts[a].kind = "loadHost" /\ m.acts[a].host = c /\ ~Ending(m, a)
Await(m, c) == \E a \in ToSet(m.active) : Waits(m, a, c)

SomeLoad(m, r, c) == LoadOut(m, c) \/ r.load.stage # "none" \/ LoadDone(m, c)

\* The hosts that the slave has to do with.
Known(m) ==
    m.enrolled \cup {c \in Clients : \E a \in DOMAIN m.acts :
                        m.acts[a].kind = "loadHost" /\ m.acts[a].host = c}

Absent(m, c) == c \notin Known(m) /\ m.out[c] = << >> /\ ~Has(m.posted, From(c))

\* Host c, whose state is r, in state m of the slave.
Accounts(m, r, c) ==
    /\ Once(m.out[c], LoadOrders) /\ Once(m.posted, LoadAnswers(c))
    /\ ~(LoadOut(m, c) /\ r.load.stage # "none")
    /\ ~(LoadOut(m, c) /\ LoadDone(m, c))
    /\ ~(r.load.stage # "none" /\ LoadDone(m, c))
    /\ SomeLoad(m, r, c) => Await(m, c)
    /\ r.link = "up" /\ Await(m, c) => SomeLoad(m, r, c)

Buffers(m, r, c) ==
    /\ Once(m.out[c], BufferOrders) /\ Once(m.posted, BufferRequests(c))
    /\ ~(BufferOut(m, c) /\ BufferAsked(m, c))
    /\ BufferOut(m, c) \/ BufferAsked(m, c) => r.load.stage = "buffer"

Accounted(m, r, c) ==
    /\ Accounts(m, r, c) /\ Buffers(m, r, c)
    /\ r.link = "off" => Absent(m, c)

\* The jobs of a host whose state is r.
Works(r) ==
    /\ Once(r.jobs, {"load"})
    /\ Has(r.jobs, {"load"}) <=> r.load.stage \in {"queued", "buffer"}
    /\ r.load.stage = "buffer" => Head(r.jobs) = "load" /\ r.load.what # Nothing
    /\ Once(r.jobs, {"config"})
    /\ Has(r.jobs, {"config"}) => r.config.stage = "queued"
    /\ r.config.stage # "none" => r.config.type \in Config

ILoaded ==
    /\ IQueued
    /\ \A c \in Clients : Accounted(slave, host[c], c) /\ Works(host[c])

-----------------------------------------------------------------------------
(***************************************************************************)
(* A calm step of the slave leaves the loads of the hosts as they are.     *)
(***************************************************************************)
CalmOut(s, t) ==
    /\ Has(t, LoadOrders) <=> Has(s, LoadOrders)
    /\ Once(s, LoadOrders) => Once(t, LoadOrders)
    /\ Has(t, BufferOrders) => Has(s, BufferOrders)
    /\ Once(s, BufferOrders) => Once(t, BufferOrders)

CalmPosted(s, t, c) ==
    /\ Has(t, LoadAnswers(c)) <=> Has(s, LoadAnswers(c))
    /\ Once(s, LoadAnswers(c)) => Once(t, LoadAnswers(c))
    /\ Has(t, BufferRequests(c)) => Has(s, BufferRequests(c))
    /\ Once(s, BufferRequests(c)) => Once(t, BufferRequests(c))
    /\ Has(t, From(c)) => Has(s, From(c))

CalmFor(m, n, c) ==
    /\ CalmOut(m.out[c], n.out[c]) /\ (host[c].link # "up" => n.out[c] = m.out[c])
    /\ CalmPosted(m.posted, n.posted, c)
    /\ Await(n, c) <=> Await(m, c)
    /\ c \in Known(n) => c \in Known(m) \/ host[c].link # "off"

Calm(m, n) == \A c \in Clients : CalmFor(m, n, c)

LEMMA CalmAccounted ==
    ASSUME NEW m, NEW n, NEW c \in Clients, CalmFor(m, n, c), Accounted(m, host[c], c)
    PROVE  Accounted(n, host[c], c)
<1>1. Accounts(n, host[c], c)
  BY DEF CalmFor, Accounted, Accounts, CalmOut, CalmPosted, SomeLoad, LoadOut, LoadDone
<1>2. Buffers(n, host[c], c)
  BY DEF CalmFor, Accounted, Buffers, CalmOut, CalmPosted, BufferOut, BufferAsked
<1>3. host[c].link = "off" => Absent(n, c)
  BY DEF CalmFor, Accounted, Absent, CalmPosted
<1>. QED
  BY <1>1, <1>2, <1>3 DEF Accounted

LEMMA CalmSame == \A m : Calm(m, m)
BY DEF Calm, CalmFor, CalmOut, CalmPosted

LEMMA CalmThen ==
    ASSUME NEW m, NEW k, NEW n, Calm(m, k), Calm(k, n)
    PROVE  Calm(m, n)
<1>. SUFFICES ASSUME NEW c \in Clients
              PROVE  /\ CalmOut(m.out[c], n.out[c]) /\ (host[c].link # "up" => n.out[c] = m.out[c])
                     /\ CalmPosted(m.posted, n.posted, c)
                     /\ Await(n, c) <=> Await(m, c)
                     /\ c \in Known(n) => c \in Known(m) \/ host[c].link # "off"
  BY DEF Calm, CalmFor
<1>1. CalmOut(m.out[c], n.out[c])
  BY DEF Calm, CalmFor, CalmOut
<1>2. CalmPosted(m.posted, n.posted, c)
  BY DEF Calm, CalmFor, CalmPosted
<1>. QED
  BY <1>1, <1>2 DEF Calm, CalmFor

LEMMA NotAnswers ==
    ASSUME NEW e \in Event
    PROVE  \A c \in Clients : /\ e \in LoadAnswers(c) <=> e.type = "client" /\ e.msg = "load" /\ e.from = c
                              /\ e \in BufferRequests(c) <=> e.type = "client" /\ e.msg = "buffer" /\ e.from = c
                              /\ e \in From(c) <=> e.type = "client" /\ e.from = c
<1>. SUFFICES ASSUME NEW c \in Clients
              PROVE  /\ e \in LoadAnswers(c) <=> e.type = "client" /\ e.msg = "load" /\ e.from = c
                     /\ e \in BufferRequests(c) <=> e.type = "client" /\ e.msg = "buffer" /\ e.from = c
                     /\ e \in From(c) <=> e.type = "client" /\ e.from = c
  OBVIOUS
<1>1. \A ok \in BOOLEAN, msg \in {"load", "buffer"} :
         /\ ClientEvent(c, msg, ok).type = "client" /\ ClientEvent(c, msg, ok).msg = msg
         /\ ClientEvent(c, msg, ok).from = c
  BY DEF ClientEvent
<1>2. e.type = "client" => e.success \in BOOLEAN /\ e = ClientEvent(e.from, e.msg, e.success)
  BY EventFacts
<1>. QED
  BY <1>1, <1>2 DEF LoadAnswers, BufferRequests, From

LEMMA CalmAppended ==
    ASSUME NEW s \in Seq(Event), NEW e \in Event, e.type # "client", NEW c \in Clients
    PROVE  CalmPosted(s, Append(s, e), c)
<1>1. e \notin LoadAnswers(c) /\ e \notin BufferRequests(c) /\ e \notin From(c)
  BY NotAnswers
<1>. QED
  BY <1>1, HasOnceAppend DEF CalmPosted

LEMMA CalmTail ==
    ASSUME NEW s \in Seq(Event), s # << >>, NEW c \in Clients,
           ~(Head(s).type = "client" /\ Head(s).msg = "load" /\ Head(s).from = c)
    PROVE  CalmPosted(s, Tail(s), c)
<1>1. Head(s) \in Event
  BY TailFacts
<1>2. Head(s) \notin LoadAnswers(c)
  BY <1>1, NotAnswers
<1>. QED
  BY <1>2, HasOnceTail DEF CalmPosted

LEMMA CalmConcat ==
    ASSUME NEW s \in Seq(Event), NEW t \in Seq(Event), \A i \in DOMAIN t : t[i].type # "client",
           NEW c \in Clients
    PROVE  CalmPosted(s, s \o t, c)
<1>1. \A i \in DOMAIN t : t[i] \in Event
  BY ElementOfSeq, LenProperties
<1>2. \A i \in DOMAIN t : t[i] \notin LoadAnswers(c) /\ t[i] \notin BufferRequests(c) /\ t[i] \notin From(c)
  BY <1>1, NotAnswers
<1>3. \A S \in {LoadAnswers(c), BufferRequests(c), From(c)} : ~Has(t, S) /\ Once(t, S)
  BY <1>2 DEF Has, Once
<1>. QED
  BY <1>3, HasOnceConcat DEF CalmPosted

LEMMA NotOrders ==
    ASSUME NEW o \in Order
    PROVE  (o \in LoadOrders <=> o.msg = "load") /\ (o \in BufferOrders <=> o.msg = "buffer")
BY DEF Order, LoadOrders, BufferOrders, Config

LEMMA CalmOrder ==
    ASSUME NEW s \in Seq(Order), NEW o \in Order, o.msg \notin {"load", "buffer"}
    PROVE  CalmOut(s, Append(s, o))
<1>1. o \notin LoadOrders /\ o \notin BufferOrders
  BY NotOrders
<1>. QED
  BY <1>1, HasOnceAppend DEF CalmOut

\* The same activities wait.
LEMMA SameAwait ==
    ASSUME NEW m, NEW n,
           \A a : a \in ToSet(n.active) /\ n.acts[a].kind = "loadHost" <=>
                     a \in ToSet(m.active) /\ m.acts[a].kind = "loadHost",
           \A a \in ToSet(m.active) : m.acts[a].kind = "loadHost" =>
              n.acts[a].host = m.acts[a].host /\ (Ending(n, a) <=> Ending(m, a))
    PROVE  \A c \in Clients : Await(n, c) <=> Await(m, c)
BY DEF Await, Waits

\* Nothing but the host map and the state of LoadProgramActivity and ConfigActivity
\* changes.
LEMMA CalmHosts ==
    ASSUME NEW m, NEW n, n.posted = m.posted, n.active = m.active, n.acts = m.acts, n.out = m.out,
           \A c \in n.enrolled : c \in m.enrolled \/ host[c].link # "off"
    PROVE  Calm(m, n)
<1>1. \A a : Ending(n, a) <=> Ending(m, a)
  BY DEF Ending
<1>2. \A c \in Clients : Await(n, c) <=> Await(m, c)
  BY <1>1, SameAwait
<1>. QED
  BY <1>2 DEF Calm, CalmFor, CalmOut, CalmPosted, Known

\* A start, a request, or the completion of something else than a load of a host.
LEMMA CalmPost ==
    ASSUME NEW m \in SlaveState, NEW n, NEW e \in Event, n.posted = Append(m.posted, e),
           n.active = m.active, n.acts = m.acts, n.out = m.out, n.enrolled = m.enrolled,
           e.type # "client", e.type = "complete" => m.acts[e.act].kind # "loadHost"
    PROVE  Calm(m, n)
<1>1. m.posted \in Seq(Event) /\ m.active \in Seq(Nat)
  BY StateFacts
<1>2. \A c \in Clients : CalmPosted(m.posted, n.posted, c)
  BY <1>1, CalmAppended
<1>3. \A a \in Nat : Ending(n, a) <=> Ending(m, a) \/ (e.type = "complete" /\ e.act = a)
  BY Appended
<1>4. \A a \in ToSet(m.active) : a \in Nat
  BY <1>1, ToSetFacts
<1>5. \A c \in Clients : Await(n, c) <=> Await(m, c)
  BY <1>3, <1>4, SameAwait
<1>. QED
  BY <1>2, <1>5 DEF Calm, CalmFor, CalmOut, Known

LEMMA CalmComplete ==
    ASSUME NEW m \in SlaveState, NEW a \in Nat, m.acts[a].kind # "loadHost"
    PROVE  Calm(m, Complete(m, a))
<1>1. PICK n : n = Complete(m, a)
  OBVIOUS
<1>2. /\ n \in SlaveState /\ n.posted = Append(m.posted, CompleteEvent(a))
      /\ SameQueue(m, n) /\ SameControl(m, n) /\ SameHosts(m, n)
  BY <1>1, CompleteFacts
<1>3. PICK e \in Event : e = CompleteEvent(a) /\ e.type = "complete" /\ e.act = a
  BY EventFacts
<1>. QED
  BY <1>1, <1>2, <1>3, CalmPost DEF SameQueue, SameHosts

LEMMA CalmRemove ==
    ASSUME NEW m \in SlaveState, NEW h
    PROVE  RemoveClient(m, h) \in SlaveState /\ Calm(m, RemoveClient(m, h))
<1>1. PICK n : n = RemoveClient(m, h)
  OBVIOUS
<1>2. /\ n \in SlaveState /\ n.posted = m.posted /\ n.out = m.out
      /\ SameQueue(m, n) /\ n.enrolled = m.enrolled \ {h}
  BY <1>1, RemoveFacts
<1>. QED
  BY <1>1, <1>2, CalmHosts DEF SameQueue

LEMMA CalmSend ==
    ASSUME NEW m \in SlaveState, NEW h \in Clients, NEW o \in Order, o.msg \notin {"load", "buffer"}
    PROVE  Send(m, h, o) \in SlaveState /\ Calm(m, Send(m, h, o))
<1>1. PICK n : n = Send(m, h, o)
  OBVIOUS
<1>2. /\ n \in SlaveState /\ n.posted = m.posted /\ SameQueue(m, n)
      /\ n.enrolled = m.enrolled
      /\ \A c \in Clients : n.out[c] = IF c = h /\ host[h].link = "up"
                                       THEN Append(m.out[c], o) ELSE m.out[c]
  BY <1>1, SendFacts
<1>3. \A a : Ending(n, a) <=> Ending(m, a)
  BY <1>2 DEF Ending
<1>4. \A c \in Clients : Await(n, c) <=> Await(m, c)
  BY <1>2, <1>3, SameAwait DEF SameQueue
<1>5. \A c \in Clients : CalmOut(m.out[c], n.out[c])
  <2>1. \A c \in Clients : m.out[c] \in Seq(Order)
    BY StateFacts
  <2>2. \A c \in Clients : CalmOut(m.out[c], Append(m.out[c], o)) /\ CalmOut(m.out[c], m.out[c])
    BY <2>1, CalmOrder DEF CalmOut
  <2>. QED
    BY <1>2, <2>2
<1>6. Calm(m, n)
  BY <1>2, <1>4, <1>5 DEF Calm, CalmFor, CalmPosted, Known, SameQueue
<1>. QED
  BY <1>1, <1>2, <1>6

LEMMA CalmSendHost ==
    ASSUME NEW m \in SlaveState, NEW h \in Clients, NEW o \in Order, o.msg \notin {"load", "buffer"}
    PROVE  SendHost(m, h, o) \in SlaveState /\ Calm(m, SendHost(m, h, o))
BY CalmSend, CalmRemove DEF SendHost

LEMMA CalmAsk ==
    ASSUME NEW m \in SlaveState, NEW a \in Nat, m.acts[a].kind # "loadHost", m.acts[a].host \in Clients,
           NEW o \in Order, o.msg \notin {"load", "buffer"}
    PROVE  Calm(m, AskHost(m, a, o))
<1>1. PICK h \in Clients : h = m.acts[a].host
  OBVIOUS
<1>2. CASE Sendable(h)
  BY <1>1, <1>2, CalmSend DEF AskHost
<1>3. CASE ~Sendable(h)
  <2>1. PICK k : k = RemoveClient(m, h)
    OBVIOUS
  <2>2. k \in SlaveState /\ Calm(m, k) /\ k.acts = m.acts
    BY <2>1, CalmRemove, RemoveFacts DEF SameQueue
  <2>3. Calm(k, Complete(k, a))
    BY <2>2, CalmComplete
  <2>4. AskHost(m, a, o) = Complete(k, a)
    BY <1>1, <1>3, <2>1 DEF AskHost
  <2>. QED
    BY <2>2, <2>3, <2>4, CalmThen
<1>. QED
  BY <1>2, <1>3

\* Activities are made and started; those for the loads of hosts, of hosts that the
\* slave has.
LEMMA CalmNew ==
    ASSUME NEW m \in SlaveState, NEW new \in Seq(Activity), ToSet(m.active) \subseteq DOMAIN m.acts,
           \A i \in DOMAIN new : new[i].kind = "loadHost" => new[i].host \in m.enrolled
    PROVE  StartActivities(m, new) \in SlaveState /\ Calm(m, StartActivities(m, new))
<1>1. PICK n : n = StartActivities(m, new)
  OBVIOUS
<1>2. PICK es : es = [i \in 1 .. Len(new) |-> StartEvent(Len(m.acts) + i)]
  OBVIOUS
<1>3. /\ n \in SlaveState /\ SameHosts(m, n) /\ n.active = m.active
      /\ n.posted = m.posted \o es /\ es \in Seq(Event)
  BY <1>1, <1>2, NewFacts
<1>4. /\ DOMAIN m.acts = 1 .. Len(m.acts)
      /\ \A a \in DOMAIN m.acts : a \in DOMAIN n.acts /\ n.acts[a] = m.acts[a]
      /\ \A a \in DOMAIN n.acts \ DOMAIN m.acts :
            a - Len(m.acts) \in DOMAIN new /\ n.acts[a] = new[a - Len(m.acts)]
      /\ \A a \in Nat : Ending(n, a) <=> Ending(m, a)
  <2>1. LET k == StartActivities(m, new)
        IN  /\ k \in SlaveState /\ SameControl(m, k) /\ SameHosts(m, k)
            /\ k.process = m.process /\ k.active = m.active /\ k.pending = m.pending
            /\ Len(k.acts) = Len(m.acts) + Len(new) /\ Len(m.acts) \in Nat
            /\ DOMAIN m.acts = 1 .. Len(m.acts)
            /\ DOMAIN k.acts = 1 .. Len(m.acts) + Len(new)
            /\ \A a \in DOMAIN m.acts : a \in DOMAIN k.acts /\ k.acts[a] = m.acts[a]
            /\ \A i \in DOMAIN new : /\ Len(m.acts) + i \in DOMAIN k.acts
                                     /\ k.acts[Len(m.acts) + i] = new[i]
            /\ \A a \in DOMAIN k.acts \ DOMAIN m.acts :
                  a - Len(m.acts) \in DOMAIN new /\ k.acts[a] = new[a - Len(m.acts)]
            /\ \A a \in Nat :
                  /\ Starting(k, a) <=> Starting(m, a) \/ a \in DOMAIN k.acts \ DOMAIN m.acts
                  /\ Ending(k, a) <=> Ending(m, a)
                  /\ Once(m.posted, {StartEvent(a)}) /\ (Starting(m, a) => a \in DOMAIN m.acts)
                     => Once(k.posted, {StartEvent(a)})
            /\ Requested(k) <=> Requested(m)
            /\ Once(m.posted, LoadRequests) => Once(k.posted, LoadRequests)
    BY Made, Zenon
  <2>. QED
    BY ONLY <1>1, <2>1, Zenon
<1>5. \A i \in DOMAIN es : es[i].type # "client"
  BY <1>2 DEF StartEvent
<1>6. m.posted \in Seq(Event) /\ \A a \in DOMAIN m.acts : a \in Nat
  BY <1>4, StateFacts
<1>7. \A c \in Clients : CalmPosted(m.posted, n.posted, c)
  BY <1>3, <1>5, <1>6, CalmConcat
<1>8. \A c \in Clients : Await(n, c) <=> Await(m, c)
  BY <1>3, <1>4, <1>6, SameAwait
<1>9. ASSUME NEW c \in Clients, c \in Known(n)
      PROVE  c \in Known(m)
  <2>1. CASE c \in n.enrolled
    BY <1>3, <2>1 DEF Known, SameHosts
  <2>2. CASE \E a \in DOMAIN n.acts : n.acts[a].kind = "loadHost" /\ n.acts[a].host = c
    <3>1. PICK a \in DOMAIN n.acts : n.acts[a].kind = "loadHost" /\ n.acts[a].host = c
      BY <2>2
    <3>2. CASE a \in DOMAIN m.acts
      BY <1>4, <3>1, <3>2 DEF Known
    <3>3. CASE a \notin DOMAIN m.acts
      BY <1>4, <3>1, <3>3 DEF Known
    <3>. QED
      BY <3>2, <3>3
  <2>. QED
    BY <1>9, <2>1, <2>2 DEF Known
<1>10. Calm(m, n)
  BY <1>3, <1>7, <1>8, <1>9 DEF Calm, CalmFor, CalmOut, SameHosts
<1>. QED
  BY <1>1, <1>3, <1>10

\* An activity changes, but neither its kind nor its host.
LEMMA CalmAct ==
    ASSUME NEW m \in SlaveState, NEW a \in DOMAIN m.acts, NEW act \in Activity,
           ToSet(m.active) \subseteq DOMAIN m.acts,
           act.kind = m.acts[a].kind, act.host = m.acts[a].host
    PROVE  LET n == [m EXCEPT !.acts[a] = act]
           IN  n \in SlaveState /\ Calm(m, n)
<1>1. PICK n : n = [m EXCEPT !.acts[a] = act]
  OBVIOUS
<1>2. /\ n \in SlaveState /\ n.posted = m.posted /\ n.active = m.active /\ SameHosts(m, n)
      /\ DOMAIN n.acts = DOMAIN m.acts /\ n.acts[a] = act
      /\ \A b \in DOMAIN m.acts : b # a => n.acts[b] = m.acts[b]
  BY <1>1, ActFacts
<1>3. \A b \in DOMAIN m.acts : n.acts[b].kind = m.acts[b].kind /\ n.acts[b].host = m.acts[b].host
  BY <1>2
<1>4. \A b : Ending(n, b) <=> Ending(m, b)
  BY <1>2 DEF Ending
<1>5. \A c \in Clients : Await(n, c) <=> Await(m, c)
  BY <1>2, <1>3, <1>4, SameAwait
<1>6. Known(n) = Known(m)
  BY <1>2, <1>3 DEF Known, SameHosts
<1>7. Calm(m, n)
  BY <1>2, <1>5, <1>6 DEF Calm, CalmFor, CalmOut, CalmPosted, SameHosts
<1>. QED
  BY <1>1, <1>2, <1>7

LEMMA CalmChildren ==
    ASSUME NEW m \in SlaveState, NEW a \in DOMAIN m.acts, NEW new \in Seq(Activity),
           ToSet(m.active) \subseteq DOMAIN m.acts, m.acts[a].kind # "loadHost",
           \A i \in DOMAIN new : new[i].kind = "loadHost" => new[i].host \in m.enrolled
    PROVE  Calm(m, StartChildren(m, a, new))
<1>1. CASE new = << >>
  <2>1. a \in Nat
    BY StateFacts
  <2>. QED
    BY <1>1, <2>1, CalmComplete DEF StartChildren
<1>2. CASE new # << >>
  <2>. DEFINE S == {Len(m.acts) + i : i \in DOMAIN new}
  <2>1. m.acts \in Seq(Activity) /\ m.acts[a] \in Activity /\ S \in SUBSET Nat
    BY StateFacts
  <2>2. PICK act : act = [m.acts[a] EXCEPT !.children = S]
    OBVIOUS
  <2>3. act \in Activity /\ act.kind = m.acts[a].kind /\ act.host = m.acts[a].host
    <3>1. PICK r, T : r = m.acts[a] /\ T = S
      OBVIOUS
    <3>2. r \in Activity /\ T \in SUBSET Nat /\ act = [r EXCEPT !.children = T]
      BY <2>1, <2>2, <3>1
    <3>3. act \in Activity /\ act.kind = r.kind /\ act.host = r.host
      BY ONLY <3>2, ActivityFacts
    <3>. QED
      BY <3>1, <3>3
  <2>4. PICK k : k = [m EXCEPT !.acts[a] = act]
    OBVIOUS
  <2>5. k \in SlaveState /\ Calm(m, k)
    BY <2>3, <2>4, CalmAct
  <2>6. /\ k.active = m.active /\ SameHosts(m, k) /\ DOMAIN k.acts = DOMAIN m.acts
    BY <2>3, <2>4, ActFacts
  <2>7. Calm(k, StartActivities(k, new))
    BY <2>5, <2>6, CalmNew DEF SameHosts
  <2>8. StartChildren(m, a, new) = StartActivities(k, new)
    <3>1. k = [m EXCEPT !.acts[a].children = S]
      BY <2>2, <2>4
    <3>. QED
      BY <1>2, <3>1 DEF StartChildren
  <2>. QED
    BY <2>5, <2>7, <2>8, CalmThen
<1>. QED
  BY <1>1, <1>2

\* An activity is made that is to start later.
LEMMA CalmMade ==
    ASSUME NEW m \in SlaveState, NEW n, NEW act, n.acts = Append(m.acts, act),
           act.kind # "loadHost", ToSet(m.active) \subseteq DOMAIN m.acts,
           n.posted = m.posted, n.active = m.active, SameHosts(m, n)
    PROVE  Calm(m, n)
<1>1. m.acts \in Seq(Activity)
  BY StateFacts
<1>2. /\ \A a \in DOMAIN m.acts : a \in DOMAIN n.acts /\ n.acts[a] = m.acts[a]
      /\ \A a \in DOMAIN n.acts : a \in DOMAIN m.acts \/ n.acts[a] = act
  BY <1>1
<1>3. \A a : Ending(n, a) <=> Ending(m, a)
  BY DEF Ending
<1>4. \A c \in Clients : Await(n, c) <=> Await(m, c)
  BY <1>2, <1>3, SameAwait
<1>5. Known(n) \subseteq Known(m)
  BY <1>2 DEF Known, SameHosts
<1>. QED
  BY <1>4, <1>5 DEF Calm, CalmFor, CalmOut, CalmPosted, SameHosts

LEMMA CalmTest ==
    ASSUME NEW m \in SlaveState, ToSet(m.active) \subseteq DOMAIN m.acts
    PROVE  LET n == StartActivities(m, <<NewActivity("testHosts")>>)
           IN  /\ n \in SlaveState /\ Calm(m, n) /\ SameControl(m, n) /\ SameHosts(m, n)
               /\ n.active = m.active /\ ToSet(n.active) \subseteq DOMAIN n.acts
<1>1. PICK act : act = NewActivity("testHosts")
  OBVIOUS
<1>2. act \in Activity /\ act.kind = "testHosts"
  BY <1>1, NewActivityFacts
<1>3. PICK new : new = <<act>>
  OBVIOUS
<1>4. new \in Seq(Activity) /\ \A i \in DOMAIN new : new[i].kind # "loadHost"
  BY <1>2, <1>3
<1>5. PICK n : n = StartActivities(m, new)
  OBVIOUS
<1>6. n \in SlaveState /\ Calm(m, n)
  BY <1>4, <1>5, CalmNew
<1>7. /\ SameControl(m, n) /\ SameHosts(m, n) /\ n.active = m.active /\ n.acts = m.acts \o new
  BY <1>4, <1>5, NewFacts
<1>8. DOMAIN m.acts \subseteq DOMAIN n.acts
  BY <1>4, <1>7, StateFacts, ConcatFacts
<1>. QED
  BY <1>1, <1>3, <1>5, <1>6, <1>7, <1>8

LEMMA CalmLoadRequest ==
    ASSUME NEW m \in SlaveState, NEW p \in Program, ToSet(m.active) \subseteq DOMAIN m.acts
    PROVE  Calm(m, LoadRequest(m, p))
<1>1. CASE m.loading # NoProgram
  <2>1. PICK n : n = [m EXCEPT !.loadsAnswered = @ + 1, !.outcome = "no"]
    OBVIOUS
  <2>2. /\ n.posted = m.posted /\ n.active = m.active /\ n.acts = m.acts /\ n.out = m.out
        /\ n.enrolled = m.enrolled
    BY <2>1 DEF SlaveState
  <2>3. LoadRequest(m, p) = n
    BY <1>1, <2>1 DEF LoadRequest
  <2>. QED
    BY <2>2, <2>3, CalmHosts
<1>2. CASE m.loading = NoProgram
  <2>1. PICK k, t : k = StartActivities(m, <<NewActivity("testHosts")>>) /\ t = Len(m.acts) + 1
    OBVIOUS
  <2>2. /\ k \in SlaveState /\ Calm(m, k) /\ ToSet(k.active) \subseteq DOMAIN k.acts
    BY <2>1, CalmTest
  <2>3. PICK act, acts : act = LoadHosts(p) /\ acts = Append(k.acts, act)
    OBVIOUS
  <2>4. PICK n : n = [k EXCEPT !.acts = acts, !.loading = p, !.loadTests = t, !.loadHosts = t + 1]
    OBVIOUS
  <2>5. /\ n.posted = k.posted /\ n.active = k.active /\ n.acts = acts /\ SameHosts(k, n)
    BY ONLY <2>2, <2>4 DEF SlaveState, SameHosts
  <2>6. LoadRequest(m, p) = n
    BY <1>2, <2>1, <2>3, <2>4 DEF LoadRequest
  <2>7. act.kind = "loadHosts"
    BY <2>3, NewActivityFacts
  <2>8. Calm(k, n)
    BY <2>2, <2>3, <2>5, <2>7, CalmMade
  <2>. QED
    BY <2>2, <2>6, <2>8, CalmThen
<1>. QED
  BY <1>1, <1>2

LEMMA CalmConfigRequest ==
    ASSUME NEW m \in SlaveState, NEW type \in Config, ToSet(m.active) \subseteq DOMAIN m.acts
    PROVE  Calm(m, ConfigRequest(m, type))
<1>1. CASE m.config # "none"
  BY <1>1, CalmSame DEF ConfigRequest
<1>2. CASE m.config = "none"
  <2>1. PICK k, t : k = StartActivities(m, <<NewActivity("testHosts")>>) /\ t = Len(m.acts) + 1
    OBVIOUS
  <2>2. /\ k \in SlaveState /\ Calm(m, k) /\ ToSet(k.active) \subseteq DOMAIN k.acts
    BY <2>1, CalmTest
  <2>3. PICK act, acts : act = HostsConfig(type) /\ acts = Append(k.acts, act)
    OBVIOUS
  <2>4. PICK n : n = [k EXCEPT !.acts = acts, !.config = type, !.configTests = t, !.configHosts = t + 1]
    OBVIOUS
  <2>5. /\ n.posted = k.posted /\ n.active = k.active /\ n.acts = acts /\ SameHosts(k, n)
    BY ONLY <2>2, <2>4 DEF SlaveState, SameHosts
  <2>6. ConfigRequest(m, type) = n
    BY <1>2, <2>1, <2>3, <2>4 DEF ConfigRequest
  <2>7. act.kind = "hostsConfig"
    BY <2>3, NewActivityFacts
  <2>8. Calm(k, n)
    BY <2>2, <2>3, <2>5, <2>7, CalmMade
  <2>. QED
    BY <2>2, <2>6, <2>8, CalmThen
<1>. QED
  BY <1>1, <1>2

LEMMA CalmPostStart ==
    ASSUME NEW m \in SlaveState, NEW a \in Nat
    PROVE  PostStart(m, a) \in SlaveState /\ Calm(m, PostStart(m, a))
<1>1. PICK e \in Event : e = StartEvent(a) /\ e.type = "start"
  BY EventFacts
<1>2. PICK n : n = PostStart(m, a)
  OBVIOUS
<1>3. n = Post(m, <<e>>)
  BY <1>1, <1>2 DEF PostStart
<1>4. /\ n \in SlaveState /\ n.posted = Append(m.posted, e)
      /\ SameQueue(m, n) /\ SameHosts(m, n)
  BY <1>3, PostOneFacts
<1>5. Calm(m, n)
  BY <1>1, <1>4, CalmPost DEF SameQueue, SameHosts
<1>. QED
  BY <1>2, <1>4, <1>5

LEMMA CalmLoadStep ==
    ASSUME NEW m \in SlaveState, NEW a
    PROVE  Calm(m, LoadStep(m, a))
<1>1. CASE a = m.loadTests
  BY <1>1, StateFacts, CalmPostStart DEF LoadStep
<1>2. CASE a # m.loadTests
  <2>1. PICK program, outcome : /\ program = IF m.acts[a].success THEN m.loading ELSE m.program
                                /\ outcome = IF m.acts[a].success THEN "yes" ELSE "no"
    OBVIOUS
  <2>2. PICK n : n = [m EXCEPT !.loadsAnswered = @ + 1, !.loading = NoProgram, !.program = program,
                               !.outcome = outcome]
    OBVIOUS
  <2>3. /\ n.posted = m.posted /\ n.active = m.active /\ n.acts = m.acts /\ n.out = m.out
        /\ n.enrolled = m.enrolled
    BY ONLY <2>2, m \in SlaveState DEF SlaveState
  <2>4. LoadStep(m, a) = n
    BY <1>2, <2>1, <2>2 DEF LoadStep
  <2>. QED
    BY <2>3, <2>4, CalmHosts
<1>. QED
  BY <1>1, <1>2

LEMMA CalmConfigStep ==
    ASSUME NEW m \in SlaveState, NEW a
    PROVE  Calm(m, ConfigStep(m, a))
<1>1. CASE a = m.configTests
  BY <1>1, StateFacts, CalmPostStart DEF ConfigStep
<1>2. CASE a # m.configTests
  <2>1. PICK n : n = [m EXCEPT !.configsAnswered = @ + 1, !.config = "none"]
    OBVIOUS
  <2>2. /\ n.posted = m.posted /\ n.active = m.active /\ n.acts = m.acts /\ n.out = m.out
        /\ n.enrolled = m.enrolled
    BY ONLY <2>1, m \in SlaveState DEF SlaveState
  <2>3. ConfigStep(m, a) = n
    BY <1>2, <2>1 DEF ConfigStep
  <2>. QED
    BY <2>2, <2>3, CalmHosts
<1>. QED
  BY <1>1, <1>2

\* Only one that waits for others has children.
LEMMA Parents ==
    ASSUME NEW m \in SlaveState, Queued(m), NEW p \in DOMAIN m.acts, NEW a \in m.acts[p].children
    PROVE  /\ a \in DOMAIN m.acts /\ p \in ToSet(m.active) /\ m.acts[p].kind \notin Singles
           /\ m.acts[a].kind = "loadHost" => m.acts[p].kind = "loadHosts"
<1>1. /\ a \in DOMAIN m.acts /\ p \in ToSet(m.active)
      /\ m.acts[a].kind = KindOfChild(m.acts[p].kind)
  BY DEF Queued, Family
<1>2. m.acts[a].kind \in Kinds /\ m.acts[p].kind \in Kinds
  BY <1>1, StateFacts, ActivityFacts
<1>. QED
  BY <1>1, <1>2 DEF KindOfChild, Kinds, Singles

LEMMA CalmChildDone ==
    ASSUME NEW m \in SlaveState, Queued(m), NEW p \in DOMAIN m.acts, NEW a \in m.acts[p].children
    PROVE  Calm(m, ChildDone(m, p, a))
<1>1. a \in DOMAIN m.acts /\ m.acts[p].kind # "loadHost"
  BY Parents DEF Singles
<1>2. PICK act, n : WithoutChild(m, p, a, act, n)
  BY <1>1, ChildDoneFacts
<1>3. n = [m EXCEPT !.acts[p] = act]
  BY <1>2 DEF WithoutChild
<1>4. /\ act \in Activity /\ act.kind = m.acts[p].kind /\ act.host = m.acts[p].host
      /\ ChildDone(m, p, a) \in {n, Complete(n, p)}
  BY <1>2 DEF WithoutChild
<1>5. ToSet(m.active) \subseteq DOMAIN m.acts /\ p \in Nat
  BY Indices
<1>6. n \in SlaveState /\ Calm(m, n)
  BY <1>3, <1>4, <1>5, CalmAct
<1>7. n.acts[p].kind # "loadHost"
  BY <1>1, <1>3, <1>4, StateFacts
<1>8. Calm(n, Complete(n, p))
  BY <1>5, <1>6, <1>7, CalmComplete
<1>. QED
  BY <1>4, <1>6, <1>8, CalmThen

-----------------------------------------------------------------------------
(***************************************************************************)
(* Which steps of the slave are calm.                                      *)
(***************************************************************************)
LEMMA CalmStart ==
    ASSUME NEW m \in SlaveState, Queued(m), NEW a \in ToSet(m.active),
           m.acts[a].kind # "loadHost", NEW n \in Start(m, a)
    PROVE  Calm(m, n)
<1>1. /\ a \in DOMAIN m.acts /\ a \in Nat /\ ToSet(m.active) \subseteq DOMAIN m.acts
      /\ m.acts[a] \in Activity
  BY Indices, StateFacts
<1>2. PICK act : act = m.acts[a] /\ act \in Activity
  BY <1>1
<1>3. act.kind \in Kinds /\ (act.kind \in Singles => act.host \in Clients)
  BY <1>1, <1>2, ActivityFacts DEF Queued, Family
<1>4. ASSUME NEW new \in Seq(Activity), NEW kind \in {"testHost", "hostConfig"},
             n = StartChildren(m, a, new), AsChild(new, kind)
      PROVE  Calm(m, n)
  BY <1>1, <1>4, CalmChildren DEF AsChild
<1>5. CASE act.kind = "testHosts"
  <2>1. n \in StartTestHosts(m, a)
    BY <1>2, <1>5 DEF Start
  <2>. QED
    BY <1>4, <2>1, TestHostsFacts
<1>6. CASE act.kind = "hostsConfig"
  <2>1. n \in StartHostsConfig(m, a) /\ m.acts[a].config \in Config
    BY <1>2, <1>6, ActivityFacts DEF Start
  <2>. QED
    BY <1>4, <2>1, HostsConfigFacts
<1>7. CASE act.kind = "loadHosts"
  <2>1. n \in StartLoadHosts(m, a)
    BY <1>2, <1>7 DEF Start
  <2>2. CASE n = Complete(m, a)
    BY <1>1, <2>2, CalmComplete
  <2>3. ASSUME NEW r, NEW k \in SlaveState, NEW new \in Seq(Activity),
               n = StartChildren(k, a, new), AsLoads(m, a, r, k, new)
        PROVE  Calm(m, n)
    <3>1. Calm(m, k)
      BY <2>3, CalmHosts DEF AsLoads, SameQueue
    <3>2. Calm(k, n)
      BY <1>1, <2>3, CalmChildren DEF AsLoads, SameQueue
    <3>. QED
      BY <3>1, <3>2, CalmThen
  <2>4. CASE n = [m EXCEPT !.process = "malformed"]
    <3>1. /\ n.acts = m.acts /\ n.posted = m.posted /\ n.active = m.active
          /\ n.out = m.out /\ n.enrolled = m.enrolled
      BY <2>4 DEF SlaveState
    <3>. QED
      BY <3>1, CalmHosts
  <2>. QED
    BY <1>1, <2>1, <2>2, <2>3, <2>4, LoadHostsFacts
<1>8. CASE act.kind = "testHost"
  <2>1. PICK order : order = [msg |-> "alive"]
    OBVIOUS
  <2>2. order \in Order /\ order.msg \notin {"load", "buffer"} /\ n = AskHost(m, a, order)
    BY <1>2, <1>8, <2>1, OrderFacts DEF Start
  <2>. QED
    BY <1>1, <1>2, <1>3, <1>8, <2>2, CalmAsk DEF Singles
<1>9. CASE act.kind = "hostConfig"
  <2>1. PICK order : order = [msg |-> act.config]
    OBVIOUS
  <2>2. order \in Order /\ order.msg \notin {"load", "buffer"}
    BY <1>2, <1>9, <2>1, ActivityFacts, OrderFacts DEF Config
  <2>3. n = AskHost(m, a, order)
    BY <1>2, <1>9, <2>1 DEF Start
  <2>. QED
    BY <1>1, <1>2, <1>3, <1>9, <2>2, <2>3, CalmAsk DEF Singles
<1>10. CASE act.kind = "front"
  BY <1>2, <1>10, CalmSame DEF Start
<1>. QED
  BY <1>2, <1>3, <1>5, <1>6, <1>7, <1>8, <1>9, <1>10 DEF Kinds

\* A handler is taken that is no answer to a load, and after a completion the one
\* that is complete is not active any more.
LEMMA CalmTaken ==
    ASSUME NEW m \in SlaveState, NEW n, m.posted # << >>,
           ~(Head(m.posted).type = "client" /\ Head(m.posted).msg = "load"),
           n.posted = Tail(m.posted), n.acts = m.acts, SameHosts(m, n),
           ToSet(n.active) =
              ToSet(m.active) \ {a \in Nat : Head(m.posted).type = "complete" /\ Head(m.posted).act = a}
    PROVE  Calm(m, n)
<1>1. m.posted \in Seq(Event) /\ m.active \in Seq(Nat)
  BY StateFacts
<1>2. \A c \in Clients : CalmPosted(m.posted, n.posted, c)
  BY <1>1, CalmTail
<1>3. PICK e : e = Head(m.posted)
  OBVIOUS
<1>4. \A a \in Nat : Ending(m, a) <=> Ending(n, a) \/ (e.type = "complete" /\ e.act = a)
  <2>1. Without(m, n, Head(m.posted))
    BY <1>3, Removed
  <2>. QED
    BY <1>3, <2>1 DEF Without
<1>5. \A a \in ToSet(m.active) : a \in Nat
  BY <1>1, ToSetFacts
<1>6. \A c \in Clients : Await(n, c) <=> Await(m, c)
  BY <1>3, <1>4, <1>5 DEF Await, Waits
<1>. QED
  BY <1>2, <1>6 DEF Calm, CalmFor, CalmOut, Known, SameHosts

LEMMA CalmEnroll ==
    ASSUME NEW m \in SlaveState, NEW h \in Clients, host[h].link # "off"
    PROVE  Calm(m, EnrollRequest(m, h))
<1>1. PICK k : k = Cardinality({c \in Clients : m.arrived[c] # 0})
  OBVIOUS
<1>2. 1 + k \in Nat
  <2>1. {c \in Clients : m.arrived[c] # 0} \in SUBSET Clients
    OBVIOUS
  <2>2. k \in Nat
    BY <1>1, <2>1, Constants, FS_Subset, FS_CardinalityType
  <2>. QED
    BY <2>2
<1>3. PICK enrolled, arrived : enrolled = m.enrolled \cup {h} /\ arrived = [m.arrived EXCEPT ![h] = 1 + k]
  OBVIOUS
<1>4. enrolled \in SUBSET Clients /\ arrived \in [Clients -> Nat]
  BY <1>2, <1>3, StateFacts
<1>5. PICK n : n = [m EXCEPT !.enrolled = enrolled, !.arrived = arrived]
  OBVIOUS
<1>6. /\ n \in SlaveState /\ n.posted = m.posted /\ SameQueue(m, n) /\ n.out = m.out
      /\ n.enrolled = enrolled
  BY <1>4, <1>5 DEF SlaveState, SameQueue
<1>7. PICK order : order = [msg |-> "enrolled"]
  OBVIOUS
<1>8. order \in Order /\ order.msg \notin {"load", "buffer"}
  BY <1>7, OrderFacts
<1>9. EnrollRequest(m, h) = SendHost(n, h, order)
  BY <1>1, <1>3, <1>5, <1>7 DEF EnrollRequest
<1>10. Calm(m, n)
  BY <1>3, <1>6, CalmHosts DEF SameQueue
<1>. QED
  BY <1>6, <1>8, <1>9, <1>10, CalmSendHost, CalmThen

LEMMA CalmEnrollEG ==
    ASSUME NEW m \in SlaveState, NEW h \in Clients, NEW n \in EnrollEGRequest(m, h)
    PROVE  Calm(m, n)
<1>1. PICK known : known = m.known \cup ({h} \cap m.enrolled)
  OBVIOUS
<1>2. known \in SUBSET Clients
  BY <1>1, StateFacts
<1>3. PICK met : met = [m EXCEPT !.known = known]
  OBVIOUS
<1>4. /\ met \in SlaveState /\ met.posted = m.posted /\ SameQueue(m, met) /\ met.out = m.out
      /\ met.enrolled = m.enrolled
  BY <1>2, <1>3 DEF SlaveState, SameQueue
<1>5. Calm(m, met)
  BY <1>4, CalmHosts DEF SameQueue
<1>6. \/ \E c \in Clients : n = SendHost(met, c, [msg |-> "egenrolled"])
      \/ n = [met EXCEPT !.process = "unknown"]
  <2>1. met.enrolled \subseteq Clients
    BY <1>4, StateFacts
  <2>. QED
    BY <1>1, <1>3, <2>1 DEF EnrollEGRequest
<1>7. ASSUME NEW c \in Clients, n = SendHost(met, c, [msg |-> "egenrolled"])
      PROVE  Calm(m, n)
  <2>1. PICK order : order = [msg |-> "egenrolled"]
    OBVIOUS
  <2>2. order \in Order /\ order.msg \notin {"load", "buffer"}
    BY <2>1, OrderFacts
  <2>. QED
    BY <1>4, <1>5, <1>7, <2>1, <2>2, CalmSendHost, CalmThen
<1>8. CASE n = [met EXCEPT !.process = "unknown"]
  <2>1. /\ n.acts = met.acts /\ n.posted = met.posted /\ n.active = met.active
        /\ n.out = met.out /\ n.enrolled = met.enrolled
    BY <1>4, <1>8 DEF SlaveState
  <2>. QED
    BY <1>5, <2>1, CalmHosts, CalmThen
<1>. QED
  BY <1>6, <1>7, <1>8

\* What an answer leaves, but for the completion it posts.
AsAnswered(m, k, a, ok) ==
    /\ Calm(m, k)
    /\ k.posted = m.posted /\ k.active = m.active /\ SameControl(m, k)
    /\ k.out = m.out /\ k.arrived = m.arrived
    /\ k.acts[a] = [m.acts[a] EXCEPT !.success = ok] /\ DOMAIN k.acts = DOMAIN m.acts
    /\ \A b \in DOMAIN m.acts \ {a} : k.acts[b] = m.acts[b]
    /\ IF m.acts[a].kind = "loadHost" /\ ~ok
       THEN /\ k.enrolled = m.enrolled \ {m.acts[a].host}
            /\ k.mapping = [n \in HostNames |->
                  IF m.mapping[n] = m.acts[a].host THEN NoClient ELSE m.mapping[n]]
       ELSE k.enrolled = m.enrolled /\ k.mapping = m.mapping

LEMMA AnswerFacts ==
    ASSUME NEW m \in SlaveState, Queued(m), NEW a \in ToSet(m.active), NEW ok \in BOOLEAN
    PROVE  \E k \in SlaveState : HostAnswer(m, a, ok) = Complete(k, a) /\ AsAnswered(m, k, a, ok)
<1>1. a \in DOMAIN m.acts /\ ToSet(m.active) \subseteq DOMAIN m.acts
  BY Indices
<1>2. PICK left : left = IF m.acts[a].kind = "loadHost" /\ ~ok
                         THEN RemoveClient(m, m.acts[a].host) ELSE m
  OBVIOUS
<1>3. /\ left \in SlaveState /\ Calm(m, left) /\ left.posted = m.posted /\ SameQueue(m, left)
      /\ SameControl(m, left) /\ left.out = m.out /\ left.arrived = m.arrived
      /\ IF m.acts[a].kind = "loadHost" /\ ~ok
         THEN /\ left.enrolled = m.enrolled \ {m.acts[a].host}
              /\ left.mapping = [n \in HostNames |->
                    IF m.mapping[n] = m.acts[a].host THEN NoClient ELSE m.mapping[n]]
         ELSE left.enrolled = m.enrolled /\ left.mapping = m.mapping
  <2>1. CASE m.acts[a].kind = "loadHost" /\ ~ok
    <3>1. left = RemoveClient(m, m.acts[a].host)
      BY <1>2, <2>1
    <3>. QED
      BY <2>1, <3>1, RemoveFacts, CalmRemove
  <2>2. CASE ~(m.acts[a].kind = "loadHost" /\ ~ok)
    BY <1>2, <2>2, CalmSame DEF SameQueue, SameControl
  <2>. QED
    BY <2>1, <2>2
<1>4. PICK act : act = [m.acts[a] EXCEPT !.success = ok]
  OBVIOUS
<1>5. act \in Activity /\ act.kind = m.acts[a].kind /\ act.host = m.acts[a].host
  BY <1>1, <1>4, StateFacts, ActivityFacts
<1>6. PICK k : k = [left EXCEPT !.acts[a] = act]
  OBVIOUS
<1>7. /\ k \in SlaveState /\ k.posted = left.posted /\ k.active = left.active
      /\ SameControl(left, k) /\ SameHosts(left, k) /\ DOMAIN k.acts = DOMAIN left.acts
      /\ k.acts[a] = act /\ \A b \in DOMAIN left.acts : b # a => k.acts[b] = left.acts[b]
  BY <1>1, <1>3, <1>5, <1>6, ActFacts, SMTT(30) DEF SameQueue
<1>8. Calm(left, k)
  BY <1>1, <1>3, <1>5, <1>6, CalmAct, SMTT(30) DEF SameQueue
<1>9. HostAnswer(m, a, ok) = Complete(k, a)
  BY <1>2, <1>3, <1>4, <1>6 DEF HostAnswer, SameQueue
<1>10. Calm(m, k)
  BY <1>3, <1>8, CalmThen
<1>11. /\ k.posted = m.posted /\ k.active = m.active /\ SameControl(m, k)
       /\ k.out = m.out /\ k.arrived = m.arrived
       /\ k.acts[a] = act /\ DOMAIN k.acts = DOMAIN m.acts
       /\ \A b \in DOMAIN m.acts \ {a} : k.acts[b] = m.acts[b]
       /\ k.enrolled = left.enrolled /\ k.mapping = left.mapping
  BY <1>3, <1>7 DEF SameQueue, SameControl, SameHosts
<1>12. IF m.acts[a].kind = "loadHost" /\ ~ok
       THEN /\ k.enrolled = m.enrolled \ {m.acts[a].host}
            /\ k.mapping = [n \in HostNames |->
                  IF m.mapping[n] = m.acts[a].host THEN NoClient ELSE m.mapping[n]]
       ELSE k.enrolled = m.enrolled /\ k.mapping = m.mapping
  BY <1>3, <1>11
<1>13. AsAnswered(m, k, a, ok)
  BY ONLY <1>4, <1>10, <1>11, <1>12 DEF AsAnswered
<1>. QED
  BY ONLY <1>7, <1>9, <1>13

LEMMA CalmAnswer ==
    ASSUME NEW m \in SlaveState, Queued(m), NEW a \in ToSet(m.active), NEW ok \in BOOLEAN,
           m.acts[a].kind # "loadHost"
    PROVE  Calm(m, HostAnswer(m, a, ok))
<1>1. PICK k \in SlaveState : HostAnswer(m, a, ok) = Complete(k, a) /\ AsAnswered(m, k, a, ok)
  BY AnswerFacts, Zenon
<1>2. a \in Nat /\ m.acts[a] \in Activity
  BY Indices, StateFacts
<1>3. k.acts[a].kind # "loadHost" /\ Calm(m, k)
  BY <1>1, <1>2, ActivityFacts DEF AsAnswered
<1>. QED
  BY <1>1, <1>2, <1>3, CalmComplete, CalmThen

-----------------------------------------------------------------------------
(***************************************************************************)
(* The slave's steps that are not: it asks a host to load, takes the       *)
(* answer, and gives the host its buffer.                                  *)
(***************************************************************************)
\* The loads of the hosts are children of m_pLoadHosts, each of a host of its own.
LEMMA HostLoads ==
    ASSUME NEW m \in SlaveState, Queued(m), NEW a \in DOMAIN m.acts, Live(m, a),
           m.acts[a].kind = "loadHost"
    PROVE  /\ m.loadHosts \in DOMAIN m.acts /\ a \in m.acts[m.loadHosts].children
           /\ m.loadHosts \in ToSet(m.active) /\ Busy(m) /\ Permanent \in ToSet(m.active)
           /\ m.acts[a].host \in Clients
           /\ \A b \in DOMAIN m.acts :
                 /\ Live(m, b) /\ m.acts[b].kind = "loadHost" /\ m.acts[b].host = m.acts[a].host
                 => b = a
<1>1. ASSUME NEW b \in DOMAIN m.acts, Live(m, b), m.acts[b].kind = "loadHost"
      PROVE  /\ m.loadHosts \in DOMAIN m.acts /\ b \in m.acts[m.loadHosts].children
             /\ m.loadHosts \in ToSet(m.active) /\ m.loadTests # 0
  <2>1. PICK p \in DOMAIN m.acts : b \in m.acts[p].children
    BY <1>1 DEF Queued, Family, Singles
  <2>2. p \in ToSet(m.active) /\ m.acts[p].kind = "loadHosts"
    BY <1>1, <2>1, Parents
  <2>3. p = m.loadHosts
    BY <2>1, <2>2 DEF Queued, Fronted, Stages, Live
  <2>. QED
    BY <2>1, <2>2, <2>3, Indices DEF Queued, Fronted, Stages
<1>2. Busy(m) /\ Permanent \in ToSet(m.active)
  BY <1>1 DEF Busy, Live, Queued, Fronted, Stages
<1>3. m.acts[a].host \in Clients
  BY DEF Queued, Family, Singles
<1>4. ASSUME NEW b \in DOMAIN m.acts, Live(m, b), m.acts[b].kind = "loadHost",
             m.acts[b].host = m.acts[a].host
      PROVE  b = a
  BY <1>1, <1>4 DEF Queued, Family
<1>. QED
  BY <1>1, <1>2, <1>3, <1>4

LEMMA AwaitLive ==
    ASSUME NEW m \in SlaveState, Queued(m), NEW a \in ToSet(m.active)
    PROVE  a \in DOMAIN m.acts /\ a \in Nat /\ Live(m, a)
BY Indices DEF Live

LEMMA LoadOrderOf ==
    ASSUME NEW act \in Activity
    PROVE  LET o == [msg |-> "load", name |-> act.name, program |-> act.program]
           IN  /\ o \in Order /\ o \in LoadOrders /\ o \notin BufferOrders
               /\ o.msg = "load" /\ o.name = act.name /\ o.program = act.program
<1>1. act.name \in HostNames \cup {NoName} /\ act.program \in Program
  BY ActivityFacts
<1>. QED
  BY <1>1 DEF Order, LoadOrders, BufferOrders

\* LoadHostProgramActivity::start.
LEMMA AccountedLoad ==
    ASSUME NEW m \in SlaveState, Queued(m), NEW k \in SlaveState, NEW a, Activated(m, k, a),
           m.posted # << >>, Head(m.posted) = StartEvent(a), m.acts[a].kind = "loadHost",
           NEW n \in Start(k, a), host \in [Clients -> HostState],
           \A c \in Clients : Accounted(m, host[c], c)
    PROVE  \A c \in Clients : Accounted(n, host[c], c)
<1>1. /\ k.posted = Tail(m.posted) /\ k.acts = m.acts /\ SameHosts(m, k)
      /\ Queued(k) /\ a \in DOMAIN m.acts /\ a \in Nat /\ ToSet(k.active) = ToSet(m.active) \cup {a}
      /\ a \notin ToSet(m.active) /\ Starting(m, a) /\ ~Ending(k, a) /\ Live(m, a)
  BY Indices DEF Activated, Live
<1>2. PICK act : act = m.acts[a] /\ act \in Activity
  BY <1>1, StateFacts
<1>3. PICK h \in Clients : h = act.host
  BY <1>1, <1>2, HostLoads
<1>4. PICK o : o = [msg |-> "load", name |-> act.name, program |-> act.program]
  OBVIOUS
<1>5. o \in Order /\ o \in LoadOrders /\ o \notin BufferOrders
  BY <1>2, <1>4, LoadOrderOf
<1>6. n = AskHost(k, a, o)
  BY <1>1, <1>2, <1>4 DEF Start
<1>7. \A b \in Nat : Ending(k, b) <=> Ending(m, b)
  <2>1. Without(m, k, Head(m.posted))
    BY <1>1, Removed
  <2>2. Head(m.posted).type = "start"
    BY <1>1, EventFacts
  <2>. QED
    BY <2>1, <2>2 DEF Without
<1>8. \A b \in ToSet(m.active) : b \in DOMAIN m.acts /\ b \in Nat /\ Live(m, b)
  BY AwaitLive
<1>9. \A b \in ToSet(m.active) : ~Waits(m, b, h)
  BY <1>1, <1>2, <1>3, <1>8, HostLoads DEF Waits
<1>10. Known(k) = Known(m) /\ h \in Known(m) /\ host[h].link # "off"
  <2>1. h \in Known(m)
    BY <1>1, <1>2, <1>3 DEF Known
  <2>. QED
    BY <1>1, <2>1 DEF Known, Accounted, Absent, SameHosts
<1>11. m.posted \in Seq(Event) /\ Head(m.posted).type = "start"
  BY <1>1, StateFacts, EventFacts
<1>12. \A c \in Clients : CalmPosted(m.posted, k.posted, c)
  BY <1>1, <1>11, CalmTail
<1>13. ASSUME NEW c \in Clients, c # h
       PROVE  CalmFor(m, k, c)
  <2>1. Await(k, c) <=> Await(m, c)
    BY <1>1, <1>2, <1>3, <1>7, <1>8, <1>13 DEF Await, Waits
  <2>. QED
    BY <1>1, <1>10, <1>12, <2>1 DEF CalmFor, CalmOut, SameHosts
<1>14. Await(k, h) /\ ~Await(m, h)
  BY <1>1, <1>2, <1>3, <1>9 DEF Await, Waits
<1>15. /\ ~LoadOut(m, h) /\ ~LoadDone(m, h) /\ host[h].load.stage = "none"
       /\ ~BufferOut(m, h) /\ ~BufferAsked(m, h)
  BY <1>14 DEF Accounted, Accounts, Buffers, SomeLoad
<1>16. k.out = m.out /\ ~LoadDone(k, h) /\ ~BufferAsked(k, h)
  BY <1>1, <1>12, <1>15 DEF SameHosts, LoadDone, BufferAsked, CalmPosted
<1>17. Once(k.posted, LoadAnswers(h)) /\ Once(k.posted, BufferRequests(h))
  BY <1>12 DEF CalmPosted, Accounted, Accounts, Buffers
<1>18. CASE host[h].link = "up"
  <2>1. PICK s : s = Send(k, h, o)
    OBVIOUS
  <2>2. n = s
    BY <1>1, <1>2, <1>3, <1>6, <1>18, <2>1 DEF AskHost, Sendable
  <2>3. /\ s.posted = k.posted /\ SameQueue(k, s) /\ s.enrolled = k.enrolled
        /\ \A c \in Clients : s.out[c] = IF c = h THEN Append(k.out[c], o) ELSE k.out[c]
    BY <1>5, <1>18, <2>1, SendFacts
  <2>4. /\ \A c \in Clients : Await(s, c) <=> Await(k, c)
        /\ Known(s) = Known(k)
    BY <2>3 DEF Await, Waits, Ending, Known, SameQueue
  <2>5. ASSUME NEW c \in Clients, c # h
        PROVE  Accounted(s, host[c], c)
    <3>1. CalmFor(m, s, c)
      BY <1>13, <1>16, <2>3, <2>4, <2>5 DEF CalmFor
    <3>. QED
      BY <2>5, <3>1, CalmAccounted
  <2>6. k.out[h] \in Seq(Order)
    BY StateFacts
  <2>7. /\ Once(k.out[h], LoadOrders) /\ Once(k.out[h], BufferOrders)
        /\ ~Has(k.out[h], LoadOrders) /\ ~Has(k.out[h], BufferOrders)
    BY <1>15, <1>16 DEF Accounted, Accounts, Buffers, LoadOut, BufferOut
  <2>8. /\ LoadOut(s, h) /\ ~BufferOut(s, h)
        /\ Once(s.out[h], LoadOrders) /\ Once(s.out[h], BufferOrders)
    BY <1>5, <2>3, <2>6, <2>7, HasOnceAppend DEF LoadOut, BufferOut
  <2>9. ~LoadDone(s, h) /\ ~BufferAsked(s, h) /\ Await(s, h)
        /\ Once(s.posted, LoadAnswers(h)) /\ Once(s.posted, BufferRequests(h))
    BY <1>14, <1>16, <1>17, <2>3, <2>4 DEF LoadDone, BufferAsked
  <2>10. Accounted(s, host[h], h)
    BY <1>15, <1>18, <2>8, <2>9 DEF Accounted, Accounts, Buffers, SomeLoad
  <2>. QED
    BY <2>2, <2>5, <2>10
<1>19. CASE host[h].link = "dead"
  <2>1. n = k
    BY <1>1, <1>2, <1>3, <1>6, <1>19 DEF AskHost, Sendable, Send
  <2>2. ASSUME NEW c \in Clients, c # h
        PROVE  Accounted(k, host[c], c)
    BY <1>13, <2>2, CalmAccounted
  <2>3. /\ ~LoadOut(k, h) /\ ~BufferOut(k, h)
        /\ Once(k.out[h], LoadOrders) /\ Once(k.out[h], BufferOrders)
    BY <1>15, <1>16 DEF LoadOut, BufferOut, Accounted, Accounts, Buffers
  <2>4. Accounted(k, host[h], h)
    BY <1>14, <1>15, <1>16, <1>17, <1>19, <2>3 DEF Accounted, Accounts, Buffers, SomeLoad
  <2>. QED
    BY <2>1, <2>2, <2>4
<1>20. CASE host[h].link = "gone"
  <2>1. PICK s : s = RemoveClient(k, h)
    OBVIOUS
  <2>2. /\ s \in SlaveState /\ s.posted = k.posted /\ s.out = k.out
        /\ SameQueue(k, s) /\ s.enrolled = k.enrolled \ {h}
    BY <2>1, RemoveFacts
  <2>3. /\ Complete(s, a) \in SlaveState
        /\ Complete(s, a).posted = Append(s.posted, CompleteEvent(a))
        /\ SameQueue(s, Complete(s, a)) /\ SameHosts(s, Complete(s, a))
    BY <1>1, <2>2, CompleteFacts
  <2>4. n = Complete(s, a)
    <3>1. ~Sendable(h)
      BY <1>20 DEF Sendable
    <3>. QED
      BY <1>1, <1>2, <1>3, <1>6, <2>1, <3>1 DEF AskHost
  <2>5. PICK e \in Event : e = CompleteEvent(a) /\ e.type = "complete" /\ e.act = a
    BY <1>1, EventFacts
  <2>6. \A b \in Nat : Ending(n, b) <=> Ending(k, b) \/ b = a
    <3>1. \A b \in Nat : Ending(s, b) <=> Ending(k, b)
      BY <2>2 DEF Ending
    <3>2. \A b \in Nat : Ending(n, b) <=> Ending(s, b) \/ a = b
      <4>1. n.posted = Append(s.posted, e) /\ s \in SlaveState
        BY <2>2, <2>3, <2>4, <2>5
      <4>2. \A b \in Nat : Ending(n, b) <=> Ending(s, b) \/ (e.type = "complete" /\ e.act = b)
        BY ONLY <4>1, e \in Event, Appended
      <4>. QED
        BY <2>5, <4>2
    <3>. QED
      BY <3>1, <3>2
  <2>7. n.active = k.active /\ n.acts = k.acts /\ n.out = k.out /\ n.enrolled \subseteq k.enrolled
    BY <2>2, <2>3, <2>4 DEF SameQueue, SameHosts
  <2>8. \A c \in Clients : Await(n, c) <=> Await(m, c)
    BY <1>1, <1>7, <1>8, <2>6, <2>7 DEF Await, Waits
  <2>9. \A c \in Clients : CalmPosted(k.posted, n.posted, c)
    <3>1. n.posted = Append(k.posted, e) /\ k.posted \in Seq(Event)
      BY <2>2, <2>3, <2>4, <2>5, StateFacts
    <3>. QED
      BY <2>5, <3>1, CalmAppended
  <2>10. \A c \in Clients : CalmPosted(m.posted, n.posted, c)
    BY <1>12, <2>9 DEF CalmPosted
  <2>11. Known(n) \subseteq Known(m)
    BY <1>1, <2>7 DEF Known, SameHosts
  <2>12. \A c \in Clients : CalmFor(m, n, c)
    BY <1>16, <2>7, <2>8, <2>10, <2>11 DEF CalmFor, CalmOut
  <2>. QED
    BY <2>12, CalmAccounted
<1>21. host[h].link \in {"off", "up", "dead", "gone"}
  BY HostStateFacts
<1>. QED
  BY <1>10, <1>18, <1>19, <1>20, <1>21

LEMMA CalmAll ==
    ASSUME NEW m, NEW n, Calm(m, n), \A c \in Clients : Accounted(m, host[c], c)
    PROVE  \A c \in Clients : Accounted(n, host[c], c)
BY CalmAccounted DEF Calm

LEMMA CalmActivated ==
    ASSUME NEW m \in SlaveState, NEW k, NEW a, Activated(m, k, a), m.posted # << >>,
           Head(m.posted) = StartEvent(a), m.acts[a].kind # "loadHost"
    PROVE  Calm(m, k)
<1>1. /\ k.posted = Tail(m.posted) /\ k.acts = m.acts /\ SameHosts(m, k)
      /\ a \in DOMAIN m.acts /\ a \in Nat /\ ToSet(k.active) = ToSet(m.active) \cup {a}
  BY StateFacts DEF Activated
<1>2. m.posted \in Seq(Event) /\ m.active \in Seq(Nat) /\ Head(m.posted).type = "start"
  BY <1>1, StateFacts, EventFacts
<1>3. \A c \in Clients : CalmPosted(m.posted, k.posted, c)
  BY <1>1, <1>2, CalmTail
<1>4. \A b \in Nat : Ending(k, b) <=> Ending(m, b)
  <2>1. Without(m, k, Head(m.posted))
    BY <1>1, <1>2, Removed
  <2>. QED
    BY <1>1, <1>2, <2>1 DEF Without
<1>5. \A b \in ToSet(m.active) : b \in Nat
  BY <1>2, ToSetFacts
<1>6. \A c \in Clients : Await(k, c) <=> Await(m, c)
  BY <1>1, <1>4, <1>5 DEF Await, Waits
<1>. QED
  BY <1>1, <1>3, <1>6 DEF Calm, CalmFor, CalmOut, Known, SameHosts

\* OnStartActivity.
LEMMA AccountedOnStart ==
    ASSUME NEW m \in SlaveState, Queued(m), m.posted # << >>, Head(m.posted).type = "start",
           NEW n \in AQ!Starts([m EXCEPT !.posted = Tail(@)], Head(m.posted).act),
           host \in [Clients -> HostState], \A c \in Clients : Accounted(m, host[c], c)
    PROVE  \A c \in Clients : Accounted(n, host[c], c)
<1>1. PICK a : a = Head(m.posted).act
  OBVIOUS
<1>2. PICK k \in SlaveState : Activated(m, k, a) /\ n \in Start(k, a)
  BY <1>1, StartsFacts, Zenon
<1>3. Head(m.posted) = StartEvent(a)
  <2>1. Head(m.posted) \in Event
    BY StateFacts, TailFacts
  <2>. QED
    BY <1>1, <2>1, EventFacts
<1>4. CASE m.acts[a].kind = "loadHost"
  BY <1>2, <1>3, <1>4, AccountedLoad
<1>5. CASE m.acts[a].kind # "loadHost"
  <2>1. Calm(m, k)
    BY <1>2, <1>3, <1>5, CalmActivated
  <2>2. Queued(k) /\ a \in ToSet(k.active) /\ k.acts[a].kind # "loadHost"
    BY <1>2, <1>5 DEF Activated
  <2>3. Calm(k, n)
    BY <1>2, <2>2, CalmStart
  <2>. QED
    BY <2>1, <2>3, CalmThen, CalmAll
<1>. QED
  BY <1>4, <1>5

\* OnServerMessage, but for what it takes.
LEMMA CalmOnServer ==
    ASSUME NEW m \in SlaveState, Queued(m), m.posted # << >>, Head(m.posted).type = "server"
    PROVE  LET t == [m EXCEPT !.posted = Tail(@)]
               e == Head(m.posted)
           IN  Calm(m, t) /\ Calm(m, LoadRequest(t, e.program))
               /\ (e.msg \in Config => Calm(m, ConfigRequest(t, e.msg)))
<1>1. PICK t, e : t = [m EXCEPT !.posted = Tail(@)] /\ e = Head(m.posted)
  OBVIOUS
<1>2. /\ t \in SlaveState /\ Queued(t) /\ t.posted = Tail(m.posted)
      /\ SameQueue(m, t) /\ SameHosts(m, t)
  BY <1>1, QueuedTaken
<1>3. Calm(m, t)
  BY <1>2, CalmTaken DEF SameQueue
<1>4. ToSet(t.active) \subseteq DOMAIN t.acts
  BY <1>2, Indices
<1>5. e \in Event /\ e.type = "server" /\ e.program \in Program
  BY <1>1, StateFacts, TailFacts, EventFacts
<1>6. Calm(m, LoadRequest(t, e.program))
  BY <1>2, <1>3, <1>4, <1>5, CalmLoadRequest, CalmThen
<1>7. ASSUME e.msg \in Config
      PROVE  Calm(m, ConfigRequest(t, e.msg))
  BY <1>2, <1>3, <1>4, <1>7, CalmConfigRequest, CalmThen
<1>. QED
  BY <1>1, <1>3, <1>6, <1>7

\* OnActivityComplete.
LEMMA CalmOnComplete ==
    ASSUME NEW m \in SlaveState, Queued(m), m.posted # << >>, Head(m.posted).type = "complete",
           Head(m.posted).act \in ToSet(m.active),
           NEW n \in AQ!Completed([m EXCEPT !.posted = Tail(@)], Head(m.posted).act)
    PROVE  Calm(m, n)
<1>1. PICK a : a = Head(m.posted).act
  OBVIOUS
<1>2. PICK u \in SlaveState : Left(m, u, a) /\ CompletedAs(m, u, n, a)
  BY <1>1, OnCompleteFacts, Zenon
<1>3. /\ Queued(u) /\ u.posted = Tail(m.posted) /\ ToSet(u.active) = ToSet(m.active) \ {a}
      /\ u.acts = m.acts /\ SameHosts(m, u) /\ a \in Nat
  BY <1>2, Indices DEF Left
<1>4. Calm(m, u)
  <2>1. {b \in Nat : Head(m.posted).type = "complete" /\ Head(m.posted).act = b} = {a}
    BY <1>1, <1>3
  <2>. QED
    BY <1>3, <2>1, CalmTaken
<1>5. CASE n = u
  BY <1>4, <1>5
<1>6. CASE n = LoadStep(u, a) \/ n = ConfigStep(u, a)
  BY <1>4, <1>6, CalmLoadStep, CalmConfigStep, CalmThen
<1>7. CASE \E p \in ToSet(u.active) : a \in u.acts[p].children /\ n = ChildDone(u, p, a)
  <2>1. PICK p \in ToSet(u.active) : a \in u.acts[p].children /\ n = ChildDone(u, p, a)
    BY <1>7
  <2>2. p \in DOMAIN u.acts
    BY <1>3, <2>1, Indices
  <2>3. Calm(u, n)
    BY <1>3, <2>1, <2>2, CalmChildDone
  <2>. QED
    BY <1>4, <2>3, CalmThen
<1>. QED
  BY <1>2, <1>5, <1>6, <1>7 DEF CompletedAs

\* The answer to a load, taken by the one activity that waits for it.
LEMMA AccountedAnswer ==
    ASSUME NEW m \in SlaveState, Queued(m), NEW t \in SlaveState, Queued(t),
           NEW h \in Clients, NEW ok \in BOOLEAN, m.posted # << >>,
           Head(m.posted) = ClientEvent(h, "load", ok), t.posted = Tail(m.posted),
           SameQueue(m, t), SameHosts(m, t), \A c \in Clients : Accounted(m, host[c], c)
    PROVE  /\ Permanent \in ToSet(m.active)
           /\ \E b \in ToSet(m.active) : Handles(m, b, Head(m.posted))
           /\ \A b \in ToSet(m.active) : Handles(m, b, Head(m.posted)) =>
                 \A c \in Clients : Accounted(HostAnswer(t, b, ok), host[c], c)
<1>1. PICK e : e = Head(m.posted)
  OBVIOUS
<1>2. /\ e \in Event /\ e.type = "client" /\ e.msg = "load" /\ e.from = h /\ e \in LoadAnswers(h)
      /\ e \in From(h) /\ m.posted \in Seq(Event)
  BY <1>1, StateFacts, EventFacts DEF LoadAnswers, From
<1>3. /\ LoadDone(m, h) /\ Has(m.posted, From(h)) /\ ~Has(t.posted, LoadAnswers(h))
      /\ Once(t.posted, LoadAnswers(h))
  BY <1>1, <1>2, HasOnceTail DEF LoadDone, Accounted, Accounts
<1>4. /\ Await(m, h) /\ host[h].link # "off" /\ host[h].load.stage = "none" /\ ~LoadOut(m, h)
      /\ ~BufferOut(m, h) /\ ~BufferAsked(m, h)
      /\ Once(m.out[h], LoadOrders) /\ Once(m.out[h], BufferOrders)
      /\ Once(m.posted, BufferRequests(h))
  BY <1>3 DEF Accounted, Accounts, Buffers, Absent, SomeLoad
<1>5. PICK b \in ToSet(m.active) : Waits(m, b, h)
  BY <1>4 DEF Await
<1>6. b \in DOMAIN m.acts /\ b \in Nat /\ Live(m, b) /\ m.acts[b].kind = "loadHost" /\ m.acts[b].host = h
  BY <1>5, AwaitLive DEF Waits
<1>7. Permanent \in ToSet(m.active)
  BY <1>6, HostLoads
<1>8. Handles(m, b, e)
  BY <1>2, <1>6 DEF Handles
<1>9. \A x \in ToSet(m.active) : m.acts[x].kind = "loadHost" /\ m.acts[x].host = h => x = b
  BY <1>6, AwaitLive, HostLoads
<1>10. \A x \in ToSet(m.active) : Handles(m, x, e) => x = b
  <2>1. ASSUME NEW x \in ToSet(m.active), Handles(m, x, e)
        PROVE  m.acts[x].kind = "loadHost" /\ m.acts[x].host = h
    <3>1. m.acts[x] \in Activity
      BY StateFacts, AwaitLive
    <3>2. m.acts[x].kind = "hostConfig" => m.acts[x].config # "load"
      BY <3>1, ActivityFacts DEF Config
    <3>. QED
      BY <1>2, <2>1, <3>2 DEF Handles
  <2>. QED
    BY <1>9, <2>1
<1>11. b \in ToSet(t.active)
  BY DEF SameQueue
<1>12. PICK n : n = HostAnswer(t, b, ok)
  OBVIOUS
<1>13. PICK k \in SlaveState : n = Complete(k, b) /\ AsAnswered(t, k, b, ok)
  BY <1>11, <1>12, AnswerFacts, Zenon
<1>14. /\ k.posted = Tail(m.posted) /\ k.active = m.active /\ k.out = m.out
       /\ \A x \in DOMAIN m.acts : /\ x \in DOMAIN k.acts /\ k.acts[x].kind = m.acts[x].kind
                                   /\ k.acts[x].host = m.acts[x].host
       /\ DOMAIN k.acts = DOMAIN m.acts /\ k.enrolled \subseteq m.enrolled
  <2>1. /\ k.posted = t.posted /\ k.active = t.active /\ k.out = t.out
        /\ k.acts[b] = [t.acts[b] EXCEPT !.success = ok] /\ DOMAIN k.acts = DOMAIN t.acts
        /\ \A x \in DOMAIN t.acts \ {b} : k.acts[x] = t.acts[x]
        /\ k.enrolled \subseteq t.enrolled
    BY <1>13 DEF AsAnswered
  <2>2. m.acts[b] \in Activity
    BY <1>6, StateFacts
  <2>3. k.acts[b].kind = m.acts[b].kind /\ k.acts[b].host = m.acts[b].host
    BY <2>1, <2>2, ActivityFacts DEF SameQueue
  <2>. QED
    BY <2>1, <2>3 DEF SameQueue, SameHosts
<1>15. PICK f \in Event : f = CompleteEvent(b) /\ f.type = "complete" /\ f.act = b
  BY <1>6, EventFacts
<1>16. /\ n.posted = Append(k.posted, f) /\ n.active = m.active /\ n.acts = k.acts /\ n.out = m.out
       /\ n.enrolled \subseteq m.enrolled /\ k.posted \in Seq(Event)
  <2>1. /\ n.posted = Append(k.posted, CompleteEvent(b))
        /\ SameQueue(k, n) /\ SameHosts(k, n)
    BY <1>6, <1>13, CompleteFacts
  <2>. QED
    BY <1>14, <1>15, <2>1, StateFacts DEF SameQueue, SameHosts
<1>17. \A x \in Nat : Ending(n, x) <=> Ending(m, x) \/ x = b
  <2>1. \A x \in Nat : Ending(n, x) <=> Ending(k, x) \/ (f.type = "complete" /\ f.act = x)
    BY ONLY k \in SlaveState, <1>16, f \in Event, Appended
  <2>2. \A x \in Nat : Ending(m, x) <=> Ending(k, x) \/ (e.type = "complete" /\ e.act = x)
    <3>1. Without(m, k, Head(m.posted))
      BY <1>1, <1>14, Removed
    <3>. QED
      BY <1>1, <1>14, <3>1 DEF Without
  <2>. QED
    BY <1>2, <1>15, <2>1, <2>2
<1>18. \A c \in Clients : CalmPosted(k.posted, n.posted, c)
  BY <1>15, <1>16, CalmAppended
<1>19. Known(n) \subseteq Known(m)
  BY <1>14, <1>16 DEF Known
<1>20. ASSUME NEW c \in Clients, c # h
       PROVE  Accounted(n, host[c], c)
  <2>1. CalmPosted(m.posted, k.posted, c)
    BY <1>1, <1>2, <1>14, <1>20, CalmTail
  <2>2. CalmPosted(m.posted, n.posted, c)
    BY <1>18, <2>1 DEF CalmPosted
  <2>3. Await(n, c) <=> Await(m, c)
    <3>1. \A x \in ToSet(m.active) : x \in DOMAIN m.acts /\ x \in Nat
      BY AwaitLive
    <3>. QED
      BY <1>6, <1>14, <1>16, <1>17, <1>20, <3>1, SMTT(30) DEF Await, Waits
  <2>4. CalmFor(m, n, c)
    BY <1>16, <1>19, <2>2, <2>3 DEF CalmFor, CalmOut
  <2>. QED
    BY <2>4, CalmAccounted
<1>21. Accounted(n, host[h], h)
  <2>1. ~LoadDone(n, h) /\ Once(n.posted, LoadAnswers(h))
    BY <1>3, <1>14, <1>18 DEF CalmPosted, LoadDone
  <2>2. ~BufferAsked(n, h) /\ Once(n.posted, BufferRequests(h))
    <3>1. ~Has(k.posted, BufferRequests(h)) /\ Once(k.posted, BufferRequests(h))
      BY <1>2, <1>4, <1>14, HasOnceTail DEF BufferAsked
    <3>. QED
      BY <1>18, <3>1 DEF CalmPosted, BufferAsked
  <2>3. ~Await(n, h)
    <3>1. \A x \in ToSet(m.active) : x \in DOMAIN m.acts /\ x \in Nat
      BY AwaitLive
    <3>. QED
      BY <1>9, <1>14, <1>16, <1>17, <3>1 DEF Await, Waits
  <2>4. ~LoadOut(n, h) /\ ~BufferOut(n, h)
    BY <1>4, <1>16 DEF LoadOut, BufferOut
  <2>. QED
    BY <1>4, <1>16, <2>1, <2>2, <2>3, <2>4 DEF Accounted, Accounts, Buffers, SomeLoad
<1>22. \A c \in Clients : Accounted(n, host[c], c)
  BY <1>20, <1>21
<1>. QED
  BY <1>1, <1>7, <1>8, <1>10, <1>12, <1>22

\* HostBufferActivity answers a host that asks for its buffer.
LEMMA AccountedBuffer ==
    ASSUME NEW m \in SlaveState, Queued(m), NEW t \in SlaveState, Calm(m, t),
           NEW h \in Clients, NEW ok \in BOOLEAN, m.posted # << >>,
           Head(m.posted) = ClientEvent(h, "buffer", ok), t.posted = Tail(m.posted),
           SameQueue(m, t), SameHosts(m, t), host \in [Clients -> HostState],
           \A c \in Clients : Accounted(m, host[c], c)
    PROVE  \A c \in Clients : Accounted(BufferRequest(t, h), host[c], c)
<1>1. PICK e : e = Head(m.posted)
  OBVIOUS
<1>2. /\ e \in Event /\ e \in BufferRequests(h) /\ e \in From(h) /\ m.posted \in Seq(Event)
  BY <1>1, StateFacts, EventFacts DEF BufferRequests, From
<1>3. /\ BufferAsked(m, h) /\ Has(m.posted, From(h)) /\ ~Has(t.posted, BufferRequests(h))
      /\ Once(t.posted, BufferRequests(h))
  BY <1>1, <1>2, HasOnceTail DEF BufferAsked, Accounted, Buffers
<1>4. /\ host[h].link # "off" /\ host[h].load.stage = "buffer" /\ ~BufferOut(m, h)
      /\ Once(m.out[h], BufferOrders)
  BY <1>3 DEF Accounted, Buffers, Absent
<1>5. \A c \in Clients : Accounted(t, host[c], c)
  BY CalmAll
<1>6. PICK o : o = [msg |-> "buffer"]
  OBVIOUS
<1>7. o \in Order /\ o.msg = "buffer" /\ o \in BufferOrders /\ o \notin LoadOrders
  BY <1>6, OrderFacts DEF BufferOrders, LoadOrders
<1>8. PICK n : n = BufferRequest(t, h)
  OBVIOUS
<1>9. n = SendHost(t, h, o)
  BY <1>6, <1>8 DEF BufferRequest
<1>10. CASE host[h].link = "gone"
  <2>1. n = RemoveClient(t, h)
    BY <1>9, <1>10 DEF SendHost, Sendable
  <2>. QED
    BY <1>5, <1>8, <2>1, CalmRemove, CalmAll
<1>11. CASE host[h].link = "dead"
  <2>1. n = t
    BY <1>9, <1>11 DEF SendHost, Sendable, Send
  <2>. QED
    BY <1>5, <1>8, <2>1
<1>12. CASE host[h].link = "up"
  <2>1. PICK s : s = Send(t, h, o)
    OBVIOUS
  <2>2. n = s
    BY <1>9, <1>12, <2>1 DEF SendHost, Sendable
  <2>3. /\ s.posted = t.posted /\ SameQueue(t, s) /\ s.enrolled = t.enrolled
        /\ \A c \in Clients : s.out[c] = IF c = h THEN Append(t.out[c], o) ELSE t.out[c]
    BY <1>7, <1>12, <2>1, SendFacts
  <2>4. /\ \A c \in Clients : Await(s, c) <=> Await(t, c)
        /\ Known(s) = Known(t)
    BY <2>3 DEF Await, Waits, Ending, Known, SameQueue
  <2>5. ASSUME NEW c \in Clients, c # h
        PROVE  Accounted(s, host[c], c)
    <3>1. CalmFor(t, s, c)
      BY <2>3, <2>4, <2>5 DEF CalmFor, CalmOut, CalmPosted
    <3>. QED
      BY <1>5, <2>5, <3>1, CalmAccounted
  <2>6. t.out[h] \in Seq(Order) /\ t.out = m.out
    BY StateFacts DEF SameHosts
  <2>7. /\ Once(t.out[h], LoadOrders) /\ Once(t.out[h], BufferOrders) /\ ~Has(t.out[h], BufferOrders)
    BY <1>4, <1>5, <2>6 DEF Accounted, Accounts, BufferOut
  <2>8. /\ LoadOut(s, h) <=> LoadOut(t, h)
        /\ Once(s.out[h], LoadOrders) /\ Once(s.out[h], BufferOrders)
    BY <1>7, <2>3, <2>6, <2>7, HasOnceAppend DEF LoadOut, BufferOut
  <2>9. (LoadDone(s, h) <=> LoadDone(t, h)) /\ Once(s.posted, LoadAnswers(h))
    BY <1>5, <2>3 DEF LoadDone, Accounted, Accounts
  <2>10. Accounts(s, host[h], h)
    BY <1>5, <2>4, <2>8, <2>9 DEF Accounted, Accounts, SomeLoad
  <2>11. Buffers(s, host[h], h)
    BY <1>3, <1>4, <2>3, <2>8 DEF Buffers, BufferAsked
  <2>12. Accounted(s, host[h], h)
    BY <1>4, <2>10, <2>11 DEF Accounted
  <2>. QED
    BY <1>8, <2>2, <2>5, <2>12
<1>13. host[h].link \in {"off", "up", "dead", "gone"}
  BY HostStateFacts
<1>. QED
  BY <1>4, <1>10, <1>11, <1>12, <1>13

\* OnClientMessage.
LEMMA AccountedOnClient ==
    ASSUME NEW m \in SlaveState, Queued(m), m.posted # << >>, Head(m.posted).type = "client",
           host \in [Clients -> HostState], \A c \in Clients : Accounted(m, host[c], c)
    PROVE  LET t == [m EXCEPT !.posted = Tail(@)]
               e == Head(m.posted)
           IN  /\ Permanent \notin ToSet(m.active) => \A c \in Clients : Accounted(t, host[c], c)
               /\ e.msg = "enroll" =>
                     \A c \in Clients : Accounted(EnrollRequest(t, e.from), host[c], c)
               /\ e.msg = "enrolleg" =>
                     \A n \in EnrollEGRequest(t, e.from) : \A c \in Clients : Accounted(n, host[c], c)
               /\ e.msg = "buffer" =>
                     \A c \in Clients : Accounted(BufferRequest(t, e.from), host[c], c)
               /\ e.msg = "load" => \E b \in ToSet(m.active) : Handles(m, b, e)
               /\ e.msg # "load" => \A c \in Clients : Accounted(t, host[c], c)
               /\ \A b \in ToSet(m.active) : Handles(m, b, e) =>
                     \A c \in Clients : Accounted(HostAnswer(t, b, e.success), host[c], c)
<1>1. PICK t, e : t = [m EXCEPT !.posted = Tail(@)] /\ e = Head(m.posted)
  OBVIOUS
<1>2. /\ t \in SlaveState /\ Queued(t) /\ t.posted = Tail(m.posted)
      /\ SameQueue(m, t) /\ SameHosts(m, t)
  BY <1>1, QueuedTaken
<1>3. e \in Event /\ e.from \in Clients /\ e.success \in BOOLEAN /\ e = ClientEvent(e.from, e.msg, e.success)
  BY <1>1, StateFacts, TailFacts, EventFacts
<1>4. ASSUME e.msg = "load"
      PROVE  /\ Permanent \in ToSet(m.active)
             /\ \E b \in ToSet(m.active) : Handles(m, b, e)
             /\ \A b \in ToSet(m.active) : Handles(m, b, e) =>
                   \A c \in Clients : Accounted(HostAnswer(t, b, e.success), host[c], c)
  BY <1>1, <1>2, <1>3, <1>4, AccountedAnswer
<1>5. ASSUME e.msg # "load"
      PROVE  Calm(m, t)
  BY <1>1, <1>2, <1>5, CalmTaken DEF SameQueue
<1>6. ASSUME e.msg # "load"
      PROVE  \A c \in Clients : Accounted(t, host[c], c)
  BY <1>5, <1>6, CalmAll
<1>7. ASSUME e.msg = "enroll"
      PROVE  \A c \in Clients : Accounted(EnrollRequest(t, e.from), host[c], c)
  <2>1. host[e.from].link # "off"
    <3>1. m.posted \in Seq(Event) /\ e \in From(e.from)
      BY <1>1, <1>3, StateFacts DEF From
    <3>2. Has(m.posted, From(e.from))
      BY <1>1, <3>1, HasOnceTail
    <3>. QED
      BY <1>3, <3>2 DEF Accounted, Absent
  <2>2. Calm(t, EnrollRequest(t, e.from))
    BY <1>2, <1>3, <2>1, CalmEnroll
  <2>. QED
    BY <1>6, <1>7, <2>2, CalmAll
<1>8. ASSUME e.msg = "enrolleg", NEW n \in EnrollEGRequest(t, e.from)
      PROVE  \A c \in Clients : Accounted(n, host[c], c)
  BY <1>2, <1>3, <1>6, <1>8, CalmEnrollEG, CalmAll
<1>9. ASSUME e.msg = "buffer"
      PROVE  \A c \in Clients : Accounted(BufferRequest(t, e.from), host[c], c)
  BY <1>1, <1>2, <1>3, <1>5, <1>9, AccountedBuffer
<1>10. ASSUME e.msg # "load", NEW b \in ToSet(m.active), Handles(m, b, e)
       PROVE  \A c \in Clients : Accounted(HostAnswer(t, b, e.success), host[c], c)
  <2>1. b \in ToSet(t.active) /\ t.acts[b].kind # "loadHost"
    BY <1>2, <1>10 DEF Handles, SameQueue
  <2>. QED
    BY <1>2, <1>3, <1>6, <1>10, <2>1, CalmAnswer, CalmAll
<1>. QED
  BY <1>1, <1>4, <1>6, <1>7, <1>8, <1>9, <1>10

-----------------------------------------------------------------------------
(***************************************************************************)
(* The actions keep the invariant: the queue, the slave's main thread and  *)
(* the master.                                                             *)
(***************************************************************************)
LEMMA LoadedNext ==
    ASSUME ILoaded, IQueued', host' = host, \A c \in Clients : Accounted(slave', host[c], c)
    PROVE  ILoaded'
BY DEF ILoaded

LEMMA LoadedOnStart ==
    ASSUME ILoaded, OnStartActivity
    PROVE  ILoaded'
<1>1. /\ IQueued /\ slave \in SlaveState /\ Queued(slave) /\ host \in [Clients -> HostState]
      /\ \A c \in Clients : Accounted(slave, host[c], c)
  BY DEF ILoaded, IQueued, TypeOK
<1>2. /\ slave.posted # << >> /\ Head(slave.posted).type = "start"
      /\ slave' \in AQ!Starts([slave EXCEPT !.posted = Tail(@)], Head(slave.posted).act)
      /\ host' = host
  BY DEF OnStartActivity, NextHandler, Taken
<1>3. \A c \in Clients : Accounted(slave', host[c], c)
  BY <1>1, <1>2, AccountedOnStart
<1>. QED
  BY <1>1, <1>2, <1>3, IQueuedOnStart, LoadedNext

LEMMA LoadedOnServer ==
    ASSUME ILoaded, OnServerMessage
    PROVE  ILoaded'
<1>1. /\ IQueued /\ slave \in SlaveState /\ Queued(slave)
      /\ \A c \in Clients : Accounted(slave, host[c], c)
  BY DEF ILoaded, IQueued, TypeOK
<1>2. PICK e, t : e = Head(slave.posted) /\ t = [slave EXCEPT !.posted = Tail(@)]
  OBVIOUS
<1>3. /\ slave.posted # << >> /\ e.type = "server"
      /\ slave' = CASE Permanent \notin ToSet(slave.active) -> t
                    [] Permanent \in ToSet(slave.active) /\ e.msg = "load" -> LoadRequest(t, e.program)
                    [] Permanent \in ToSet(slave.active) /\ e.msg \in Config -> ConfigRequest(t, e.msg)
      /\ host' = host
  BY <1>2 DEF OnServerMessage, NextHandler, Taken
<1>4. /\ Calm(slave, t) /\ Calm(slave, LoadRequest(t, e.program))
      /\ e.msg \in Config => Calm(slave, ConfigRequest(t, e.msg))
  BY <1>1, <1>2, <1>3, CalmOnServer
<1>5. e.msg \in {"load"} \cup Config /\ "load" \notin Config
  BY <1>1, <1>2, <1>3, StateFacts, TailFacts, EventFacts DEF Config
<1>6. Calm(slave, slave')
  <2>1. CASE Permanent \notin ToSet(slave.active)
    BY <1>3, <1>4, <2>1
  <2>2. CASE Permanent \in ToSet(slave.active) /\ e.msg = "load"
    BY <1>3, <1>4, <1>5, <2>2
  <2>3. CASE Permanent \in ToSet(slave.active) /\ e.msg \in Config
    BY <1>3, <1>4, <1>5, <2>3
  <2>. QED
    BY <1>5, <2>1, <2>2, <2>3
<1>. QED
  BY <1>1, <1>3, <1>6, CalmAll, IQueuedOnServer, LoadedNext

\* The answer of a host is taken by the activity that waits for it, if there is one.
LEMMA TakerFacts ==
    ASSUME ILoaded, OnClientMessage
    PROVE  LET e == Head(slave.posted)
               t == [slave EXCEPT !.posted = Tail(@)]
           IN  \/ slave' = t /\ (e.msg = "load" => Permanent \notin ToSet(slave.active))
               \/ e.msg = "enroll" /\ slave' = EnrollRequest(t, e.from)
               \/ e.msg = "enrolleg" /\ slave' \in EnrollEGRequest(t, e.from)
               \/ e.msg = "buffer" /\ slave' = BufferRequest(t, e.from)
               \/ \E b \in ToSet(slave.active) :
                     Handles(slave, b, e) /\ slave' = HostAnswer(t, b, e.success)
<1>1. /\ slave \in SlaveState /\ Queued(slave) /\ host \in [Clients -> HostState]
      /\ \A c \in Clients : Accounted(slave, host[c], c)
  BY DEF ILoaded, IQueued, TypeOK
<1>2. PICK e, t : e = Head(slave.posted) /\ t = [slave EXCEPT !.posted = Tail(@)]
  OBVIOUS
<1>3. PICK takers : takers = {i \in DOMAIN slave.active : Handles(slave, slave.active[i], e)}
  OBVIOUS
<1>4. PICK first : first = slave.active[CHOOSE i \in takers : \A j \in takers : i <= j]
  OBVIOUS
<1>5. /\ slave.posted # << >> /\ e.type = "client"
      /\ slave' \in IF Permanent \notin ToSet(slave.active) THEN {t}
                    ELSE CASE e.msg = "enroll" -> {EnrollRequest(t, e.from)}
                           [] e.msg = "enrolleg" -> EnrollEGRequest(t, e.from)
                           [] e.msg = "buffer" -> {BufferRequest(t, e.from)}
                           [] e.msg \in {"alive", "load"} \cup Config ->
                                  {IF takers = {} THEN t ELSE HostAnswer(t, first, e.success)}
  BY <1>2, <1>3, <1>4, Zenon DEF OnClientMessage, NextHandler, Taken
<1>6. e.msg = "load" => \E b \in ToSet(slave.active) : Handles(slave, b, e)
  BY <1>1, <1>2, <1>5, AccountedOnClient, Zenon
<1>7. e.msg \in {"enroll", "enrolleg", "alive", "load", "buffer"} \cup Config
  BY <1>1, <1>2, <1>5, StateFacts, TailFacts, EventFacts
<1>8. ASSUME takers # {}
      PROVE  first \in ToSet(slave.active) /\ Handles(slave, first, e)
  <2>1. takers \in SUBSET Nat
    BY <1>1, <1>3, StateFacts
  <2>2. PICK i \in takers : i = CHOOSE k \in takers : \A j \in takers : k <= j
    <3>1. \E x \in takers : \A y \in takers : x <= y
      BY <1>8, <2>1, Least
    <3>. QED
      BY <3>1, Zenon
  <2>3. first = slave.active[i] /\ i \in DOMAIN slave.active /\ Handles(slave, slave.active[i], e)
    <3>1. first = slave.active[i]
      BY <1>4, <2>2, Zenon
    <3>. QED
      BY <1>3, <3>1
  <2>. QED
    BY <2>3, IndexInToSet
<1>9. e.msg = "load" => takers # {}
  BY <1>3, <1>6, InToSet
<1>10. CASE Permanent \notin ToSet(slave.active)
  BY <1>2, <1>5, <1>10
<1>11. CASE Permanent \in ToSet(slave.active)
  <2>1. slave' \in CASE e.msg = "enroll" -> {EnrollRequest(t, e.from)}
                     [] e.msg = "enrolleg" -> EnrollEGRequest(t, e.from)
                     [] e.msg = "buffer" -> {BufferRequest(t, e.from)}
                     [] e.msg \in {"alive", "load"} \cup Config ->
                            {IF takers = {} THEN t ELSE HostAnswer(t, first, e.success)}
    BY <1>5, <1>11
  <2>2. {"enroll", "enrolleg", "buffer"} \cap ({"alive", "load"} \cup Config) = {}
    BY DEF Config
  <2>3. CASE e.msg \in {"enroll", "enrolleg", "buffer"}
    <3>1. \/ e.msg = "enroll" /\ slave' = EnrollRequest(t, e.from)
          \/ e.msg = "enrolleg" /\ slave' \in EnrollEGRequest(t, e.from)
          \/ e.msg = "buffer" /\ slave' = BufferRequest(t, e.from)
      BY <2>1, <2>2, <2>3
    <3>. QED
      BY <1>2, <3>1
  <2>4. CASE e.msg \in {"alive", "load"} \cup Config
    <3>1. slave' = IF takers = {} THEN t ELSE HostAnswer(t, first, e.success)
      BY <2>1, <2>2, <2>4
    <3>. QED
      BY <1>2, <1>8, <1>9, <3>1
  <2>. QED
    BY <1>7, <2>3, <2>4
<1>. QED
  BY <1>10, <1>11

LEMMA LoadedOnClient ==
    ASSUME ILoaded, OnClientMessage
    PROVE  ILoaded'
<1>1. /\ IQueued /\ slave \in SlaveState /\ Queued(slave) /\ host \in [Clients -> HostState]
      /\ \A c \in Clients : Accounted(slave, host[c], c)
  BY DEF ILoaded, IQueued, TypeOK
<1>2. PICK e, t : e = Head(slave.posted) /\ t = [slave EXCEPT !.posted = Tail(@)]
  OBVIOUS
<1>3. slave.posted # << >> /\ e.type = "client" /\ host' = host
  BY <1>2 DEF OnClientMessage, NextHandler
<1>4. /\ Permanent \notin ToSet(slave.active) => \A c \in Clients : Accounted(t, host[c], c)
      /\ e.msg = "enroll" =>
            \A c \in Clients : Accounted(EnrollRequest(t, e.from), host[c], c)
      /\ e.msg = "enrolleg" =>
            \A n \in EnrollEGRequest(t, e.from) : \A c \in Clients : Accounted(n, host[c], c)
      /\ e.msg = "buffer" =>
            \A c \in Clients : Accounted(BufferRequest(t, e.from), host[c], c)
      /\ e.msg = "load" => \E b \in ToSet(slave.active) : Handles(slave, b, e)
      /\ e.msg # "load" => \A c \in Clients : Accounted(t, host[c], c)
      /\ \A b \in ToSet(slave.active) : Handles(slave, b, e) =>
            \A c \in Clients : Accounted(HostAnswer(t, b, e.success), host[c], c)
  BY <1>1, <1>2, <1>3, AccountedOnClient, Zenon
<1>5. \/ slave' = t /\ (e.msg = "load" => Permanent \notin ToSet(slave.active))
      \/ e.msg = "enroll" /\ slave' = EnrollRequest(t, e.from)
      \/ e.msg = "enrolleg" /\ slave' \in EnrollEGRequest(t, e.from)
      \/ e.msg = "buffer" /\ slave' = BufferRequest(t, e.from)
      \/ \E b \in ToSet(slave.active) :
            Handles(slave, b, e) /\ slave' = HostAnswer(t, b, e.success)
  BY <1>2, TakerFacts, Zenon
<1>6. \A c \in Clients : Accounted(slave', host[c], c)
  BY ONLY <1>4, <1>5
<1>. QED
  BY <1>1, <1>3, <1>6, IQueuedOnClient, LoadedNext

LEMMA LoadedOnComplete ==
    ASSUME ILoaded, OnActivityComplete
    PROVE  ILoaded'
<1>1. /\ IQueued /\ slave \in SlaveState /\ Queued(slave)
      /\ \A c \in Clients : Accounted(slave, host[c], c)
  BY DEF ILoaded, IQueued, TypeOK
<1>2. PICK t, a : t = [slave EXCEPT !.posted = Tail(@)] /\ a = Head(slave.posted).act
  OBVIOUS
<1>3. /\ slave.posted # << >> /\ Head(slave.posted).type = "complete"
      /\ slave' \in IF a \in ToSet(slave.active) THEN AQ!Completed(t, a)
                    ELSE {[t EXCEPT !.process = "unfound"]}
      /\ host' = host
  BY <1>2, Zenon DEF OnActivityComplete, NextHandler, Taken
<1>4. Calm(slave, slave')
  <2>1. CASE a \in ToSet(slave.active)
    BY <1>1, <1>2, <1>3, <2>1, CalmOnComplete
  <2>2. CASE a \notin ToSet(slave.active)
    <3>1. /\ t \in SlaveState /\ t.posted = Tail(slave.posted)
          /\ SameQueue(slave, t) /\ SameHosts(slave, t)
      BY <1>1, <1>2, <1>3, QueuedTaken
    <3>2. PICK n : n = [t EXCEPT !.process = "unfound"]
      OBVIOUS
    <3>3. /\ n.acts = t.acts /\ n.posted = t.posted /\ n.active = t.active /\ SameHosts(t, n)
      BY <3>1, <3>2, ProcessFacts
    <3>4. ToSet(n.active) = ToSet(slave.active)
             \ {b \in Nat : Head(slave.posted).type = "complete" /\ Head(slave.posted).act = b}
      BY <1>2, <2>2, <3>1, <3>3 DEF SameQueue
    <3>5. n.posted = Tail(slave.posted) /\ n.acts = slave.acts /\ SameHosts(slave, n)
      BY <3>1, <3>3 DEF SameQueue, SameHosts
    <3>6. Calm(slave, n)
      BY <1>1, <1>3, <3>4, <3>5, CalmTaken
    <3>. QED
      BY <1>3, <2>2, <3>2, <3>6
  <2>. QED
    BY <2>1, <2>2
<1>. QED
  BY <1>1, <1>3, <1>4, CalmAll, IQueuedOnComplete, LoadedNext

LEMMA LoadedStartSlave ==
    ASSUME ILoaded, StartSlave
    PROVE  ILoaded'
<1>1. /\ IQueued /\ slave \in SlaveState
      /\ \A c \in Clients : Accounted(slave, host[c], c)
  BY DEF ILoaded, IQueued, TypeOK
<1>2. PICK k : k = [slave EXCEPT !.process = "up"]
  OBVIOUS
<1>3. slave' = PostStart(k, Permanent) /\ host' = host
  BY <1>2 DEF StartSlave
<1>4. /\ k \in SlaveState /\ k.acts = slave.acts /\ k.posted = slave.posted
      /\ k.active = slave.active /\ SameHosts(slave, k)
  BY <1>1, <1>2, ProcessFacts
<1>5. Calm(slave, k)
  BY <1>4, CalmHosts DEF SameHosts
<1>6. Calm(k, slave')
  BY <1>3, <1>4, CalmPostStart DEF Permanent
<1>. QED
  BY <1>1, <1>3, <1>5, <1>6, CalmThen, CalmAll, IQueuedStartSlave, LoadedNext

LEMMA LoadedEnrollment ==
    ASSUME ILoaded, NEW p \in ActiveAtMaster, OnEnrollment(p)
    PROVE  ILoaded'
<1>1. /\ IQueued /\ TypeOK
      /\ \A c \in Clients : Accounted(slave, host[c], c)
  BY DEF ILoaded, IQueued
<1>2. /\ SameQueue(slave, slave') /\ SameHosts(slave, slave')
      /\ slave'.posted = slave.posted /\ host' = host
  BY <1>1, EnrollmentFacts
<1>3. Calm(slave, slave')
  BY <1>2, CalmHosts DEF SameQueue, SameHosts
<1>. QED
  BY <1>1, <1>2, <1>3, CalmAll, IQueuedEnrollment, LoadedNext

LEMMA LoadedTest ==
    ASSUME ILoaded, Test
    PROVE  ILoaded'
<1>1. /\ IQueued /\ slave \in SlaveState /\ Queued(slave)
      /\ \A c \in Clients : Accounted(slave, host[c], c)
  BY DEF ILoaded, IQueued, TypeOK
<1>2. slave' = StartActivities(slave, <<NewActivity("testHosts")>>) /\ host' = host
  BY DEF Test
<1>3. ToSet(slave.active) \subseteq DOMAIN slave.acts
  BY <1>1, Indices
<1>4. Calm(slave, slave')
  BY <1>1, <1>2, <1>3, CalmTest
<1>. QED
  BY <1>1, <1>2, <1>4, CalmAll, IQueuedTest, LoadedNext

LEMMA CalmAsked ==
    ASSUME NEW m \in SlaveState, NEW p \in Program, NEW msg \in {"load"} \cup Config
    PROVE  Calm(m, Post(m, <<ServerEvent(msg, p)>>))
<1>1. PICK e : e = ServerEvent(msg, p) /\ e \in Event /\ e.type = "server"
  BY EventFacts
<1>2. PICK n : n = Post(m, <<e>>)
  OBVIOUS
<1>3. /\ n.posted = Append(m.posted, e) /\ SameQueue(m, n) /\ SameHosts(m, n)
  BY <1>1, <1>2, PostOneFacts
<1>. QED
  BY <1>1, <1>2, <1>3, CalmPost DEF SameQueue, SameHosts

LEMMA LoadedAsk ==
    ASSUME ILoaded, \/ \E p \in Program : AskLoad(p)
                    \/ \E type \in Config : AskConfig(type)
    PROVE  ILoaded'
<1>1. /\ IQueued /\ slave \in SlaveState
      /\ \A c \in Clients : Accounted(slave, host[c], c)
  BY DEF ILoaded, IQueued, TypeOK
<1>2. ASSUME NEW p \in Program, AskLoad(p)
      PROVE  ILoaded'
  <2>1. slave' = Post(slave, <<ServerEvent("load", p)>>) /\ host' = host
    BY <1>2 DEF AskLoad
  <2>2. Calm(slave, slave')
    BY <1>1, <2>1, CalmAsked
  <2>. QED
    BY <1>1, <1>2, <2>1, <2>2, CalmAll, IQueuedAskLoad, LoadedNext
<1>3. ASSUME NEW type \in Config, AskConfig(type)
      PROVE  ILoaded'
  <2>1. slave' = Post(slave, <<ServerEvent(type, NoProgram)>>) /\ host' = host
    BY <1>3 DEF AskConfig
  <2>2. Calm(slave, slave')
    BY <1>1, <2>1, Constants, CalmAsked
  <2>. QED
    BY <1>1, <1>3, <2>1, <2>2, CalmAll, IQueuedAskConfig, LoadedNext
<1>. QED
  BY <1>2, <1>3

-----------------------------------------------------------------------------
(***************************************************************************)
(* The actions keep the invariant: the hosts.                              *)
(***************************************************************************)
\* A step of host h.
HostStep(h) == StartHost(h) \/ HostQueue(h) \/ ArriveEG(h) \/ SimThread(h) \/ Crash(h) \/ Detect(h)

LEMMA HostAsks ==
    ASSUME NEW h \in Clients, HostStep(h)
    PROVE  asked' = asked
<1>1. CASE HostQueue(h)
  <2>1. \A type \in Config : ReceiveConfig(h, type) => asked' = asked
    BY DEF ReceiveConfig
  <2>. QED
    BY <1>1, <2>1 DEF HostQueue, ReceiveEnrolled, ReceiveEGEnrolled, ReceiveAlive, ReceiveLoad,
                      ReceiveBuffer, LoadJobComplete, ConfigJobComplete
<1>. QED
  BY <1>1 DEF HostStep, StartHost, ArriveEG, SimThread, RunLoadJob, RunConfigJob, Crash, Detect

LEMMA IQueuedHost ==
    ASSUME ILoaded, NEW h \in Clients, HostStep(h)
    PROVE  IQueued'
<1>1. /\ IQueued /\ slave \in SlaveState /\ Queued(slave) /\ TypeOK
      /\ host \in [Clients -> HostState]
      /\ Works(host[h]) /\ Accounted(slave, host[h], h)
  BY DEF ILoaded, IQueued, TypeOK
<1>2. asked' = asked
  BY HostAsks
<1>3. ASSUME slave' \in SlaveState, Queued(slave'), host' \in [Clients -> HostState]
      PROVE  IQueued'
  BY <1>1, <1>2, <1>3, QueuedNext
<1>4. \A r : Becomes(h, r) => host' \in [Clients -> HostState]
  BY DEF Becomes
<1>5. CASE StartHost(h)
  <2>1. slave' = Post(slave, <<ClientEvent(h, "enroll", TRUE)>>) /\ host' \in [Clients -> HostState]
    BY <1>1, <1>4, <1>5, StartHostFacts
  <2>. QED
    BY <1>1, <1>3, <2>1, QueuedTell
<1>6. CASE ReceiveEnrolled(h)
  <2>1. slave' = Read(h) /\ slave.out[h] # << >> /\ host' \in [Clients -> HostState]
    BY <1>1, <1>4, <1>6, ReceiveEnrolledFacts
  <2>. QED
    BY <1>1, <1>3, <2>1, QueuedRead
<1>7. CASE ReceiveEGEnrolled(h)
  <2>1. slave' = Read(h) /\ slave.out[h] # << >> /\ host' \in [Clients -> HostState]
    BY <1>1, <1>4, <1>7, ReceiveEGEnrolledFacts
  <2>. QED
    BY <1>1, <1>3, <2>1, QueuedRead
<1>8. CASE ReceiveAlive(h)
  <2>1. slave' = Answered(h, "alive", TRUE) /\ slave.out[h] # << >> /\ host' = host
    BY <1>1, <1>8, ReceiveAliveFacts
  <2>. QED
    BY <1>1, <1>3, <2>1, QueuedReply
<1>9. CASE ReceiveLoad(h)
  <2>1. slave.out[h] # << >> /\ host' \in [Clients -> HostState]
        /\ slave' \in {Read(h), Answered(h, "load", FALSE)}
    BY <1>1, <1>4, <1>9, ReceiveLoadFacts
  <2>. QED
    BY <1>1, <1>3, <2>1, QueuedRead, QueuedReply
<1>10. ASSUME NEW type \in Config, ReceiveConfig(h, type)
       PROVE  IQueued'
  <2>1. slave.out[h] # << >> /\ host' \in [Clients -> HostState]
        /\ slave' \in {Read(h), Answered(h, type, FALSE)}
    BY <1>1, <1>4, <1>10, ReceiveConfigFacts
  <2>. QED
    BY <1>1, <1>3, <2>1, QueuedRead, QueuedReply
<1>11. CASE ReceiveBuffer(h)
  <2>1. slave' = Read(h) /\ slave.out[h] # << >>
    BY <1>1, <1>11, ReceiveBufferFacts
  <2>3. PICK ok \in BOOLEAN : host' = Loaded(h, ok)
    BY <1>1, <1>11, ReceiveBufferFacts
  <2>2. host' \in [Clients -> HostState]
    <3>1. Head(slave.out[h]) \in BufferOrders /\ slave.out[h] \in Seq(Order)
      BY <1>1, <1>11, <2>1, ReceiveBufferFacts, ReadFacts, StateFacts, NotOrders
    <3>2. BufferOut(slave, h)
      BY <2>1, <3>1, HasOnceTail DEF BufferOut
    <3>3. host[h].jobs # << >>
      BY <1>1, <3>2 DEF Accounted, Buffers, Works, Has
    <3>. QED
      BY <1>1, <1>4, <2>1, <2>3, <3>3, LoadedFacts
  <2>. QED
    BY <1>1, <1>3, <2>1, <2>2, QueuedRead
<1>12. CASE LoadJobComplete(h)
  <2>1. slave' = Post(slave, <<ClientEvent(h, "load", host[h].load.stage = "succeeded")>>)
        /\ host' \in [Clients -> HostState]
    BY <1>1, <1>4, <1>12, LoadJobCompleteFacts
  <2>. QED
    BY <1>1, <1>3, <2>1, QueuedTell
<1>13. CASE ConfigJobComplete(h)
  <2>1. slave' = Post(slave, <<ClientEvent(h, host[h].config.type, host[h].config.stage = "succeeded")>>)
        /\ host' \in [Clients -> HostState]
    BY <1>1, <1>4, <1>13, ConfigJobCompleteFacts
  <2>2. host[h].config.type \in Config
    BY <1>1, <1>13, ConfigJobCompleteFacts DEF Works
  <2>. QED
    BY <1>1, <1>3, <2>1, <2>2, QueuedTell
<1>14. CASE ArriveEG(h)
  <2>1. slave' = Post(slave, <<ClientEvent(h, "enrolleg", TRUE)>>) /\ host' \in [Clients -> HostState]
    BY <1>1, <1>4, <1>14, ArriveEGFacts
  <2>. QED
    BY <1>1, <1>3, <2>1, QueuedTell
<1>15. CASE RunLoadJob(h)
  <2>1. host[h].jobs # << >>
    BY <1>1, <1>15, RunLoadJobFacts
  <2>2. slave' = slave \/ slave' = Post(slave, <<ClientEvent(h, "buffer", TRUE)>>)
    BY <1>1, <1>15, RunLoadJobFacts
  <2>3. host' \in [Clients -> HostState]
    <3>1. host' = Loaded(h, TRUE) \/ host' = Loaded(h, FALSE) => \E r : Becomes(h, r)
      BY <1>1, <2>1, LoadedFacts
    <3>2. host' = Loaded(h, TRUE) \/ host' = Loaded(h, FALSE) \/ \E r : Becomes(h, r)
      BY <1>1, <1>15, RunLoadJobFacts
    <3>. QED
      BY <1>4, <3>1, <3>2
  <2>. QED
    BY <1>1, <1>3, <2>2, <2>3, QueuedTell
<1>16. CASE RunConfigJob(h)
  BY <1>1, <1>3, <1>4, <1>16, RunConfigJobFacts
<1>17. CASE Crash(h)
  <2>1. /\ slave' \in SlaveState /\ slave'.posted = slave.posted
        /\ SameQueue(slave, slave') /\ SameControl(slave, slave')
        /\ host' \in [Clients -> HostState]
    BY <1>1, <1>4, <1>17, CrashFacts
  <2>2. Queued(slave')
    BY <1>1, <2>1, QueuedHosts DEF SameQueue
  <2>. QED
    BY <1>1, <1>3, <2>1, <2>2
<1>18. CASE Detect(h)
  BY <1>1, <1>3, <1>4, <1>18, DetectFacts
<1>. QED
  BY <1>5, <1>6, <1>7, <1>8, <1>9, <1>10, <1>11, <1>12, <1>13, <1>14, <1>15, <1>16, <1>17, <1>18
     DEF HostStep, HostQueue, SimThread

\* What a step of host h leaves of the slave.
HostFrame(h) ==
    /\ SameQueue(slave, slave') /\ slave'.enrolled = slave.enrolled
    /\ \A c \in Clients : c # h => slave'.out[c] = slave.out[c]
    /\ \/ slave'.posted = slave.posted
       \/ \E e \in Event : /\ e.type = "client" /\ e.from = h
                           /\ slave'.posted = Append(slave.posted, e)

LEMMA FrameFacts ==
    ASSUME slave \in SlaveState, NEW h \in Clients, HostFrame(h)
    PROVE  /\ \A c \in Clients : Await(slave', c) <=> Await(slave, c)
           /\ Known(slave') = Known(slave)
<1>1. \A a \in Nat : Ending(slave', a) <=> Ending(slave, a)
  <2>1. CASE slave'.posted = slave.posted
    BY <2>1 DEF Ending
  <2>2. ASSUME NEW e \in Event, e.type = "client", slave'.posted = Append(slave.posted, e)
        PROVE  \A a \in Nat : Ending(slave', a) <=> Ending(slave, a)
    <3>1. \A a \in Nat : Ending(slave', a) <=> Ending(slave, a) \/ (e.type = "complete" /\ e.act = a)
      BY ONLY slave \in SlaveState, e \in Event, <2>2, Appended
    <3>. QED
      BY <2>2, <3>1
  <2>. QED
    BY <2>1, <2>2 DEF HostFrame
<1>2. \A a \in ToSet(slave.active) : a \in Nat
  BY StateFacts, ToSetFacts
<1>. QED
  BY <1>1, <1>2 DEF HostFrame, SameQueue, Await, Waits, Known

\* The other hosts.
LEMMA FrameOthers ==
    ASSUME ILoaded, NEW h \in Clients, HostFrame(h), NEW c \in Clients, c # h, host'[c] = host[c]
    PROVE  Accounted(slave', host'[c], c) /\ Works(host'[c])
<1>1. slave \in SlaveState /\ Accounted(slave, host[c], c) /\ Works(host[c])
  BY DEF ILoaded, IQueued, TypeOK
<1>2. (Await(slave', c) <=> Await(slave, c)) /\ Known(slave') = Known(slave)
  BY <1>1, FrameFacts
<1>3. CalmPosted(slave.posted, slave'.posted, c)
  <2>1. CASE slave'.posted = slave.posted
    BY <2>1 DEF CalmPosted
  <2>2. ASSUME NEW e \in Event, e.from = h, e.type = "client", slave'.posted = Append(slave.posted, e)
        PROVE  CalmPosted(slave.posted, slave'.posted, c)
    <3>1. e \notin LoadAnswers(c) /\ e \notin BufferRequests(c) /\ e \notin From(c)
      BY <2>2, NotAnswers
    <3>2. slave.posted \in Seq(Event)
      BY <1>1, StateFacts
    <3>. QED
      BY <2>2, <3>1, <3>2, HasOnceAppend DEF CalmPosted
  <2>. QED
    BY <2>1, <2>2 DEF HostFrame
<1>4. CalmFor(slave, slave', c)
  BY <1>2, <1>3 DEF CalmFor, CalmOut, HostFrame
<1>. QED
  BY <1>1, <1>4, CalmAccounted

LEMMA LoadedHost ==
    ASSUME ILoaded, NEW h \in Clients, HostStep(h), HostFrame(h), NEW r, Becomes(h, r),
           Accounted(slave', r, h), Works(r)
    PROVE  ILoaded'
<1>1. IQueued'
  BY IQueuedHost
<1>2. ASSUME NEW c \in Clients
      PROVE  Accounted(slave', host'[c], c) /\ Works(host'[c])
  <2>1. CASE c = h
    BY <2>1 DEF Becomes
  <2>2. CASE c # h
    BY <2>2, FrameOthers DEF Becomes
  <2>. QED
    BY <2>1, <2>2
<1>. QED
  BY <1>1, <1>2 DEF ILoaded

\* Steps that have nothing to do with the load of the host, which changes from r to s.
LEMMA AccountedQuiet ==
    ASSUME NEW m, NEW n, NEW r, NEW s, NEW h \in Clients, Accounted(m, r, h),
           CalmOut(m.out[h], n.out[h]), Await(n, h) <=> Await(m, h), s.load.stage = r.load.stage,
           Has(n.posted, LoadAnswers(h)) <=> Has(m.posted, LoadAnswers(h)),
           Once(m.posted, LoadAnswers(h)) => Once(n.posted, LoadAnswers(h)),
           Has(n.posted, BufferRequests(h)) <=> Has(m.posted, BufferRequests(h)),
           Once(m.posted, BufferRequests(h)) => Once(n.posted, BufferRequests(h)),
           s.link = "up", r.link = "up" \/ ~Await(m, h)
    PROVE  Accounted(n, s, h)
<1>1. Accounts(n, s, h)
  BY DEF Accounted, Accounts, CalmOut, SomeLoad, LoadOut, LoadDone
<1>2. Buffers(n, s, h)
  BY DEF Accounted, Buffers, CalmOut, BufferOut, BufferAsked
<1>. QED
  BY <1>1, <1>2 DEF Accounted

\* What Post, Read and Answered do to the messages and to the queue.
LEMMA TellFacts ==
    ASSUME NEW m \in SlaveState, NEW h \in Clients, NEW ok \in BOOLEAN,
           NEW msg \in {"enroll", "enrolleg", "alive", "load", "buffer"} \cup Config
    PROVE  LET n == Post(m, <<ClientEvent(h, msg, ok)>>)
           IN  /\ n \in SlaveState /\ SameQueue(m, n) /\ n.enrolled = m.enrolled /\ n.out = m.out
               /\ \E e \in Event : /\ e.type = "client" /\ e.from = h /\ e.msg = msg
                                   /\ n.posted = Append(m.posted, e)
<1>1. PICK e : e = ClientEvent(h, msg, ok) /\ e \in Event /\ e.type = "client" /\ e.from = h /\ e.msg = msg
  BY EventFacts
<1>2. PICK n : n = Post(m, <<e>>)
  OBVIOUS
<1>3. n \in SlaveState /\ n.posted = Append(m.posted, e) /\ SameQueue(m, n) /\ SameHosts(m, n)
  BY <1>1, <1>2, PostOneFacts
<1>. QED
  BY <1>1, <1>2, <1>3 DEF SameHosts

\* What host h posts.
LEMMA PostedOnce ==
    ASSUME NEW s \in Seq(Event), NEW e \in Event, e.type = "client", NEW h \in Clients, e.from = h
    PROVE  LET t == Append(s, e)
           IN  /\ Has(t, LoadAnswers(h)) <=> Has(s, LoadAnswers(h)) \/ e.msg = "load"
               /\ Once(s, LoadAnswers(h)) /\ (e.msg = "load" => ~Has(s, LoadAnswers(h))) =>
                     Once(t, LoadAnswers(h))
               /\ Has(t, BufferRequests(h)) <=> Has(s, BufferRequests(h)) \/ e.msg = "buffer"
               /\ Once(s, BufferRequests(h)) /\ (e.msg = "buffer" => ~Has(s, BufferRequests(h))) =>
                     Once(t, BufferRequests(h))
<1>1. (e \in LoadAnswers(h) <=> e.msg = "load") /\ (e \in BufferRequests(h) <=> e.msg = "buffer")
  BY NotAnswers
<1>. QED
  BY <1>1, HasOnceAppend

\* What host h reads.
LEMMA ReadOnce ==
    ASSUME NEW s \in Seq(Order), s # << >>
    PROVE  /\ Has(s, LoadOrders) <=> Has(Tail(s), LoadOrders) \/ Head(s).msg = "load"
           /\ Once(s, LoadOrders) => /\ Once(Tail(s), LoadOrders)
                                     /\ Head(s).msg = "load" => ~Has(Tail(s), LoadOrders)
           /\ Has(s, BufferOrders) <=> Has(Tail(s), BufferOrders) \/ Head(s).msg = "buffer"
           /\ Once(s, BufferOrders) => /\ Once(Tail(s), BufferOrders)
                                       /\ Head(s).msg = "buffer" => ~Has(Tail(s), BufferOrders)
<1>1. (Head(s) \in LoadOrders <=> Head(s).msg = "load") /\ (Head(s) \in BufferOrders <=> Head(s).msg = "buffer")
  BY TailFacts, NotOrders
<1>. QED
  BY <1>1, HasOnceTail

LEMMA SlaveOf ==
    ASSUME ILoaded, NEW h \in Clients
    PROVE  /\ IQueued /\ TypeOK /\ slave \in SlaveState /\ host[h] \in HostState
           /\ slave.posted \in Seq(Event) /\ slave.out[h] \in Seq(Order)
           /\ host[h].jobs \in Seq({"load", "config"})
           /\ Accounted(slave, host[h], h) /\ Works(host[h])
BY StateFacts, HostStateFacts DEF ILoaded, IQueued, TypeOK

\* Host h reads something else than an order to load or a buffer, and may answer.
LEMMA QuietRead ==
    ASSUME ILoaded, NEW h \in Clients, HostStep(h), NEW r, Becomes(h, r), Works(r),
           host[h].link = "up", r.link = "up", r.load.stage = host[h].load.stage,
           slave.out[h] # << >>, Head(slave.out[h]).msg \notin {"load", "buffer"},
           slave' = Read(h)
    PROVE  ILoaded'
<1>1. slave \in SlaveState /\ slave.out[h] \in Seq(Order) /\ Accounted(slave, host[h], h)
  BY SlaveOf
<1>2. /\ slave'.posted = slave.posted /\ SameQueue(slave, slave') /\ slave'.enrolled = slave.enrolled
      /\ \A c \in Clients : slave'.out[c] = IF c = h THEN Tail(slave.out[h]) ELSE slave.out[c]
  BY <1>1, ReadFacts
<1>3. HostFrame(h)
  BY <1>2 DEF HostFrame
<1>4. CalmOut(slave.out[h], slave'.out[h])
  BY <1>1, <1>2, ReadOnce DEF CalmOut
<1>5. Await(slave', h) <=> Await(slave, h)
  BY <1>1, <1>3, FrameFacts
<1>6. Accounted(slave', r, h)
  BY <1>1, <1>2, <1>4, <1>5, AccountedQuiet
<1>. QED
  BY <1>3, <1>6, LoadedHost

LEMMA QuietAnswer ==
    ASSUME ILoaded, NEW h \in Clients, HostStep(h), host' = host, host[h].link = "up",
           slave.out[h] # << >>, Head(slave.out[h]).msg \notin {"load", "buffer"},
           NEW msg \in {"alive"} \cup Config, NEW ok \in BOOLEAN, slave' = Answered(h, msg, ok)
    PROVE  ILoaded'
<1>1. /\ slave \in SlaveState /\ slave.out[h] \in Seq(Order) /\ slave.posted \in Seq(Event)
      /\ Accounted(slave, host[h], h) /\ Works(host[h]) /\ TypeOK /\ host[h] \in HostState
  BY SlaveOf
<1>2. PICK m : m = Read(h)
  OBVIOUS
<1>3. /\ m \in SlaveState
      /\ m.posted = slave.posted /\ SameQueue(slave, m) /\ m.enrolled = slave.enrolled
      /\ \A c \in Clients : m.out[c] = IF c = h THEN Tail(slave.out[h]) ELSE slave.out[c]
  BY <1>1, <1>2, ReadFacts
<1>4. slave' = Post(m, <<ClientEvent(h, msg, ok)>>)
  BY <1>2 DEF Answered
<1>5. msg \notin {"load", "buffer"}
  BY DEF Config
<1>6. /\ SameQueue(m, slave') /\ slave'.enrolled = m.enrolled /\ slave'.out = m.out
      /\ \E e \in Event : /\ e.type = "client" /\ e.from = h /\ e.msg = msg
                          /\ slave'.posted = Append(m.posted, e)
  BY <1>3, <1>4, TellFacts
<1>7. PICK e \in Event : /\ e.type = "client" /\ e.from = h /\ e.msg = msg
                         /\ slave'.posted = Append(slave.posted, e)
  BY <1>3, <1>6
<1>8. HostFrame(h)
  BY <1>3, <1>6, <1>7 DEF HostFrame, SameQueue
<1>9. CalmOut(slave.out[h], slave'.out[h])
  BY <1>1, <1>3, <1>6, ReadOnce DEF CalmOut
<1>10. Await(slave', h) <=> Await(slave, h)
  BY <1>1, <1>8, FrameFacts
<1>11. Accounted(slave', host[h], h)
  <2>1. /\ Has(slave'.posted, LoadAnswers(h)) <=> Has(slave.posted, LoadAnswers(h))
        /\ Once(slave.posted, LoadAnswers(h)) => Once(slave'.posted, LoadAnswers(h))
        /\ Has(slave'.posted, BufferRequests(h)) <=> Has(slave.posted, BufferRequests(h))
        /\ Once(slave.posted, BufferRequests(h)) => Once(slave'.posted, BufferRequests(h))
    BY <1>1, <1>5, <1>7, PostedOnce
  <2>. QED
    BY <1>1, <1>9, <1>10, <2>1, AccountedQuiet
<1>12. Becomes(h, host[h])
  BY <1>1 DEF Becomes, TypeOK
<1>. QED
  BY <1>1, <1>8, <1>11, <1>12, LoadedHost

\* Host h posts something else than an answer to a load or a request for a buffer.
LEMMA QuietTell ==
    ASSUME ILoaded, NEW h \in Clients, HostStep(h), NEW r, Becomes(h, r), Works(r),
           host[h].link \in {"up", "off"}, r.link = "up", r.load.stage = host[h].load.stage,
           NEW msg \in {"enroll", "enrolleg"} \cup Config, NEW ok \in BOOLEAN,
           slave' = Post(slave, <<ClientEvent(h, msg, ok)>>)
    PROVE  ILoaded'
<1>1. /\ slave \in SlaveState /\ slave.posted \in Seq(Event) /\ Accounted(slave, host[h], h)
      /\ Queued(slave)
  BY SlaveOf DEF IQueued
<1>2. msg \notin {"load", "buffer"}
  BY DEF Config
<1>3. /\ SameQueue(slave, slave') /\ slave'.enrolled = slave.enrolled /\ slave'.out = slave.out
      /\ \E e \in Event : /\ e.type = "client" /\ e.from = h /\ e.msg = msg
                          /\ slave'.posted = Append(slave.posted, e)
  BY <1>1, TellFacts
<1>4. PICK e \in Event : /\ e.type = "client" /\ e.from = h /\ e.msg = msg
                         /\ slave'.posted = Append(slave.posted, e)
  BY <1>3
<1>5. HostFrame(h)
  BY <1>3, <1>4 DEF HostFrame
<1>6. Await(slave', h) <=> Await(slave, h)
  BY <1>1, <1>5, FrameFacts
<1>7. host[h].link = "up" \/ ~Await(slave, h)
  BY <1>1, AwaitLive DEF Accounted, Absent, Known, Await, Waits
<1>8. Accounted(slave', r, h)
  <2>1. /\ Has(slave'.posted, LoadAnswers(h)) <=> Has(slave.posted, LoadAnswers(h))
        /\ Once(slave.posted, LoadAnswers(h)) => Once(slave'.posted, LoadAnswers(h))
        /\ Has(slave'.posted, BufferRequests(h)) <=> Has(slave.posted, BufferRequests(h))
        /\ Once(slave.posted, BufferRequests(h)) => Once(slave'.posted, BufferRequests(h))
    BY ONLY <1>1, e \in Event, h \in Clients, <1>2, <1>4, PostedOnce
  <2>. QED
    BY <1>1, <1>3, <1>6, <1>7, <2>1, AccountedQuiet DEF CalmOut
<1>. QED
  BY <1>5, <1>8, LoadedHost

LEMMA IdleWorks ==
    ASSUME NEW r, NEW s, Works(r), Idles(r, s)
    PROVE  Works(s) /\ s.load.stage = r.load.stage
BY DEF Works, Idles

LEMMA LoadedEnrolling ==
    ASSUME ILoaded, NEW h \in Clients,
           StartHost(h) \/ ReceiveEnrolled(h) \/ ArriveEG(h) \/ ReceiveEGEnrolled(h)
    PROVE  ILoaded'
<1>1. TypeOK /\ Works(host[h])
  BY SlaveOf
<1>2. HostStep(h)
  BY DEF HostStep, HostQueue
<1>3. CASE StartHost(h)
  <2>1. host[h].link = "off" /\ slave' = Post(slave, <<ClientEvent(h, "enroll", TRUE)>>)
    BY <1>1, <1>3, StartHostFacts
  <2>2. PICK r : Becomes(h, r) /\ r.link = "up" /\ Idles(host[h], r)
    BY <1>1, <1>3, StartHostFacts
  <2>. QED
    BY <1>1, <1>2, <2>1, <2>2, IdleWorks, QuietTell
<1>4. CASE ReceiveEnrolled(h)
  <2>1. /\ host[h].link = "up" /\ slave.out[h] # << >> /\ Head(slave.out[h]).msg = "enrolled"
        /\ slave' = Read(h)
    BY <1>1, <1>4, ReceiveEnrolledFacts
  <2>2. PICK r : Becomes(h, r) /\ r.link = host[h].link /\ Idles(host[h], r)
    BY <1>1, <1>4, ReceiveEnrolledFacts
  <2>. QED
    BY <1>1, <1>2, <2>1, <2>2, IdleWorks, QuietRead
<1>5. CASE ArriveEG(h)
  <2>1. host[h].link = "up" /\ slave' = Post(slave, <<ClientEvent(h, "enrolleg", TRUE)>>)
    BY <1>1, <1>5, ArriveEGFacts
  <2>2. PICK r : Becomes(h, r) /\ r.link = host[h].link /\ Idles(host[h], r)
    BY <1>1, <1>5, ArriveEGFacts
  <2>. QED
    BY <1>1, <1>2, <2>1, <2>2, IdleWorks, QuietTell
<1>6. CASE ReceiveEGEnrolled(h)
  <2>1. /\ host[h].link = "up" /\ slave.out[h] # << >> /\ Head(slave.out[h]).msg = "egenrolled"
        /\ slave' = Read(h)
    BY <1>1, <1>6, ReceiveEGEnrolledFacts
  <2>2. PICK r : Becomes(h, r) /\ r.link = host[h].link /\ Idles(host[h], r)
    BY <1>1, <1>6, ReceiveEGEnrolledFacts
  <2>. QED
    BY <1>1, <1>2, <2>1, <2>2, IdleWorks, QuietRead
<1>. QED
  BY <1>3, <1>4, <1>5, <1>6

LEMMA LoadedAlive ==
    ASSUME ILoaded, NEW h \in Clients, ReceiveAlive(h)
    PROVE  ILoaded'
<1>1. TypeOK
  BY SlaveOf
<1>2. HostStep(h)
  BY DEF HostStep, HostQueue
<1>3. /\ host[h].link = "up" /\ slave.out[h] # << >> /\ Head(slave.out[h]).msg = "alive"
      /\ slave' = Answered(h, "alive", TRUE) /\ host' = host
  BY <1>1, ReceiveAliveFacts
<1>. QED
  BY <1>2, <1>3, QuietAnswer

LEMMA ConfigJobFacts ==
    ASSUME NEW r \in HostState, NEW s, Works(r), r.config.stage # "queued", s.load = r.load,
           s.jobs = Append(r.jobs, "config"), s.config.stage = "queued", s.config.type \in Config
    PROVE  Works(s)
<1>1. r.jobs \in Seq({"load", "config"}) /\ ~Has(r.jobs, {"config"})
  BY HostStateFacts DEF Works
<1>2. /\ Once(s.jobs, {"config"})
      /\ Has(s.jobs, {"load"}) <=> Has(r.jobs, {"load"})
      /\ Once(s.jobs, {"load"}) <=> Once(r.jobs, {"load"})
  BY <1>1, HasOnceAppend DEF Works
<1>3. ASSUME r.load.stage = "buffer"
      PROVE  Head(s.jobs) = "load"
  <2>1. r.jobs # << >> /\ Head(r.jobs) = "load"
    BY <1>1, <1>3 DEF Works, Has
  <2>. QED
    BY <1>1, <2>1
<1>. QED
  BY <1>2, <1>3 DEF Works

LEMMA LoadedConfig ==
    ASSUME ILoaded, NEW h \in Clients, NEW type \in Config, ReceiveConfig(h, type)
    PROVE  ILoaded'
<1>1. TypeOK /\ Works(host[h]) /\ host[h] \in HostState
  BY SlaveOf
<1>2. HostStep(h)
  BY DEF HostStep, HostQueue
<1>3. /\ host[h].link = "up" /\ slave.out[h] # << >> /\ Head(slave.out[h]).msg = type
      /\ type \notin {"load", "buffer"}
  BY <1>1, ReceiveConfigFacts DEF Config
<1>4. CASE host' = host /\ slave' = Answered(h, type, FALSE)
  BY <1>2, <1>3, <1>4, QuietAnswer
<1>5. ASSUME host[h].config.stage = "none", slave' = Read(h), NEW r, Becomes(h, r),
             r.link = host[h].link, r.load = host[h].load, r.config.stage = "queued",
             r.config.type = type, r.jobs = Append(host[h].jobs, "config")
      PROVE  ILoaded'
  <2>1. Works(r)
    BY <1>1, <1>5, ConfigJobFacts
  <2>. QED
    BY <1>2, <1>3, <1>5, <2>1, QuietRead
<1>. QED
  BY <1>1, <1>4, <1>5, ReceiveConfigFacts, ZenonT(60)

LEMMA LoadedConfigComplete ==
    ASSUME ILoaded, NEW h \in Clients, ConfigJobComplete(h)
    PROVE  ILoaded'
<1>1. TypeOK /\ Works(host[h])
  BY SlaveOf
<1>2. HostStep(h)
  BY DEF HostStep, HostQueue
<1>3. /\ host[h].link = "up" /\ host[h].config.stage \in {"succeeded", "failed"}
      /\ slave' = Post(slave, <<ClientEvent(h, host[h].config.type,
                                            host[h].config.stage = "succeeded")>>)
  BY <1>1, ConfigJobCompleteFacts
<1>4. PICK r : /\ Becomes(h, r) /\ r.link = host[h].link
               /\ r.runs = host[h].runs /\ r.load = host[h].load /\ r.jobs = host[h].jobs
               /\ r.config.stage = "none"
  BY <1>1, ConfigJobCompleteFacts
<1>5. PICK type, ok : type = host[h].config.type /\ ok = (host[h].config.stage = "succeeded")
  OBVIOUS
<1>6. type \in Config /\ ok \in BOOLEAN /\ slave' = Post(slave, <<ClientEvent(h, type, ok)>>)
  BY <1>1, <1>3, <1>5 DEF Works
<1>7. Works(r)
  BY <1>1, <1>3, <1>4 DEF Works
<1>. QED
  BY <1>2, <1>3, <1>4, <1>6, <1>7, QuietTell

\* The slave stays as it is.
LEMMA LoadedStill ==
    ASSUME ILoaded, NEW h \in Clients, HostStep(h), slave' = slave, NEW r, Becomes(h, r),
           Works(r), r.link # "off",
           r.load.stage # "none" <=> host[h].load.stage # "none",
           host[h].load.stage # "buffer",
           r.link = "up" => host[h].link = "up"
    PROVE  ILoaded'
<1>1. Accounted(slave, host[h], h)
  BY SlaveOf
<1>2. HostFrame(h)
  BY DEF HostFrame, SameQueue
<1>3. Accounted(slave', r, h)
  BY <1>1 DEF Accounted, Accounts, Buffers, SomeLoad
<1>. QED
  BY <1>2, <1>3, LoadedHost

LEMMA LoadedRunConfig ==
    ASSUME ILoaded, NEW h \in Clients, RunConfigJob(h)
    PROVE  ILoaded'
<1>1. TypeOK /\ Works(host[h]) /\ host[h].jobs \in Seq({"load", "config"})
  BY SlaveOf
<1>2. HostStep(h)
  BY DEF HostStep, SimThread
<1>3. /\ host[h].link = "up" /\ host[h].jobs # << >> /\ Head(host[h].jobs) = "config"
      /\ slave' = slave
  BY <1>1, RunConfigJobFacts
<1>4. PICK r : /\ Becomes(h, r) /\ r.link = host[h].link /\ r.load = host[h].load
               /\ r.runs = host[h].runs /\ r.config.type = host[h].config.type
               /\ r.jobs = Tail(host[h].jobs)
  BY <1>1, RunConfigJobFacts
<1>5. host[h].load.stage # "buffer" /\ host[h].config.stage # "none"
  <2>1. Has(host[h].jobs, {"config"})
    BY <1>1, <1>3, HasOnceTail
  <2>. QED
    BY <1>1, <1>3, <2>1 DEF Works
<1>6. Works(r)
  <2>1. /\ Once(r.jobs, {"config"}) /\ ~Has(r.jobs, {"config"})
        /\ Once(r.jobs, {"load"})
        /\ Has(r.jobs, {"load"}) <=> Has(host[h].jobs, {"load"})
    BY <1>1, <1>3, <1>4, HasOnceTail DEF Works
  <2>. QED
    BY <1>1, <1>4, <1>5, <2>1 DEF Works
<1>. QED
  BY <1>2, <1>3, <1>4, <1>5, <1>6, LoadedStill

LEMMA LoadJobFacts ==
    ASSUME NEW r \in HostState, NEW s, Works(r), r.load.stage \notin {"queued", "buffer"},
           s.config = r.config, s.jobs = Append(r.jobs, "load"), s.load.stage = "queued"
    PROVE  Works(s)
<1>1. r.jobs \in Seq({"load", "config"}) /\ ~Has(r.jobs, {"load"})
  BY HostStateFacts DEF Works
<1>2. /\ Once(s.jobs, {"load"}) /\ Has(s.jobs, {"load"})
      /\ Has(s.jobs, {"config"}) <=> Has(r.jobs, {"config"})
      /\ Once(s.jobs, {"config"})
  BY <1>1, HasOnceAppend DEF Works
<1>. QED
  BY <1>2 DEF Works

LEMMA LoadedReceive ==
    ASSUME ILoaded, NEW h \in Clients, ReceiveLoad(h)
    PROVE  ILoaded'
<1>1. /\ TypeOK /\ Works(host[h]) /\ host[h] \in HostState /\ slave \in SlaveState
      /\ slave.out[h] \in Seq(Order) /\ Accounted(slave, host[h], h)
  BY SlaveOf
<1>2. HostStep(h)
  BY DEF HostStep, HostQueue
<1>3. host[h].link = "up" /\ slave.out[h] # << >> /\ Head(slave.out[h]).msg = "load"
  BY <1>1, ReceiveLoadFacts
<1>4. /\ LoadOut(slave, h)
      /\ ~Has(Tail(slave.out[h]), LoadOrders) /\ Once(Tail(slave.out[h]), LoadOrders)
      /\ Has(Tail(slave.out[h]), BufferOrders) => BufferOut(slave, h)
      /\ Once(Tail(slave.out[h]), BufferOrders)
  BY <1>1, <1>3, ReadOnce DEF LoadOut, BufferOut, Accounted, Accounts, Buffers
<1>5. host[h].load.stage = "none" /\ ~LoadDone(slave, h) /\ Await(slave, h)
  BY <1>1, <1>4 DEF Accounted, Accounts, SomeLoad
<1>6. slave' = Read(h)
  BY <1>1, <1>5, ReceiveLoadFacts
<1>7. PICK r : /\ Becomes(h, r) /\ r.link = host[h].link
               /\ r.runs = host[h].runs /\ r.config = host[h].config
               /\ r.load.stage = "queued" /\ r.jobs = Append(host[h].jobs, "load")
  BY <1>1, <1>5, ReceiveLoadFacts
<1>8. /\ slave'.posted = slave.posted /\ SameQueue(slave, slave') /\ slave'.enrolled = slave.enrolled
      /\ \A c \in Clients : slave'.out[c] = IF c = h THEN Tail(slave.out[h]) ELSE slave.out[c]
  BY <1>1, <1>3, <1>6, ReadFacts
<1>9. HostFrame(h)
  BY <1>8 DEF HostFrame
<1>10. Await(slave', h)
  BY <1>1, <1>5, <1>9, FrameFacts
<1>11. Accounted(slave', r, h)
  <2>1. slave'.out[h] = Tail(slave.out[h])
    BY <1>8
  <2>2. Accounts(slave', r, h)
    BY <1>1, <1>4, <1>5, <1>7, <1>8, <1>10, <2>1
       DEF Accounted, Accounts, SomeLoad, LoadOut, LoadDone
  <2>3. Buffers(slave', r, h)
    BY <1>1, <1>4, <1>5, <1>8, <2>1 DEF Accounted, Buffers, BufferOut, BufferAsked
  <2>. QED
    BY <1>3, <1>7, <2>2, <2>3 DEF Accounted
<1>12. Works(r)
  BY <1>1, <1>5, <1>7, LoadJobFacts
<1>. QED
  BY <1>2, <1>7, <1>9, <1>11, <1>12, LoadedHost

\* The host's load ends, with the job.
LEMMA EndedWorks ==
    ASSUME NEW r \in HostState, NEW s, Works(r), r.jobs # << >>, Head(r.jobs) = "load",
           s.config = r.config, s.jobs = Tail(r.jobs), s.load.stage \in {"succeeded", "failed"}
    PROVE  Works(s)
<1>1. r.jobs \in Seq({"load", "config"})
  BY HostStateFacts
<1>2. /\ Once(s.jobs, {"load"}) /\ ~Has(s.jobs, {"load"})
      /\ Has(s.jobs, {"config"}) <=> Has(r.jobs, {"config"})
      /\ Once(s.jobs, {"config"})
  BY <1>1, HasOnceTail DEF Works
<1>. QED
  BY <1>2 DEF Works

LEMMA LoadedBuffer ==
    ASSUME ILoaded, NEW h \in Clients, ReceiveBuffer(h)
    PROVE  ILoaded'
<1>1. /\ TypeOK /\ Works(host[h]) /\ host[h] \in HostState /\ slave \in SlaveState
      /\ slave.out[h] \in Seq(Order) /\ Accounted(slave, host[h], h)
  BY SlaveOf
<1>2. HostStep(h)
  BY DEF HostStep, HostQueue
<1>3. /\ host[h].link = "up" /\ slave.out[h] # << >> /\ Head(slave.out[h]).msg = "buffer"
      /\ slave' = Read(h)
  BY <1>1, ReceiveBufferFacts
<1>0. PICK ok \in BOOLEAN : host' = Loaded(h, ok)
  BY <1>1, ReceiveBufferFacts
<1>4. /\ BufferOut(slave, h)
      /\ ~Has(Tail(slave.out[h]), BufferOrders) /\ Once(Tail(slave.out[h]), BufferOrders)
      /\ Has(Tail(slave.out[h]), LoadOrders) => LoadOut(slave, h)
      /\ Once(Tail(slave.out[h]), LoadOrders)
  BY <1>1, <1>3, ReadOnce DEF LoadOut, BufferOut, Accounted, Accounts, Buffers
<1>5. host[h].load.stage = "buffer" /\ ~BufferAsked(slave, h)
  BY <1>1, <1>4 DEF Accounted, Buffers
<1>6. ~LoadOut(slave, h) /\ ~LoadDone(slave, h) /\ Await(slave, h)
  BY <1>1, <1>5 DEF Accounted, Accounts, SomeLoad
<1>7. host[h].jobs # << >> /\ Head(host[h].jobs) = "load"
  BY <1>1, <1>5 DEF Works, Has
<1>8. PICK r : /\ Becomes(h, r) /\ r.link = host[h].link /\ r.config = host[h].config
               /\ r.load.stage \in {"succeeded", "failed"} /\ r.jobs = Tail(host[h].jobs)
  BY <1>0, <1>1, <1>3, <1>7, LoadedFacts
<1>9. /\ slave'.posted = slave.posted /\ SameQueue(slave, slave') /\ slave'.enrolled = slave.enrolled
      /\ \A c \in Clients : slave'.out[c] = IF c = h THEN Tail(slave.out[h]) ELSE slave.out[c]
  BY <1>1, <1>3, ReadFacts
<1>10. HostFrame(h)
  BY <1>9 DEF HostFrame
<1>11. Await(slave', h)
  BY <1>1, <1>6, <1>10, FrameFacts
<1>12. Accounted(slave', r, h)
  <2>1. slave'.out[h] = Tail(slave.out[h])
    BY <1>9
  <2>2. Accounts(slave', r, h)
    BY <1>1, <1>4, <1>6, <1>8, <1>9, <1>11, <2>1
       DEF Accounted, Accounts, SomeLoad, LoadOut, LoadDone
  <2>3. Buffers(slave', r, h)
    BY <1>1, <1>4, <1>5, <1>9, <2>1 DEF Accounted, Buffers, BufferOut, BufferAsked
  <2>. QED
    BY <1>3, <1>8, <2>2, <2>3 DEF Accounted
<1>13. Works(r)
  BY <1>1, <1>7, <1>8, EndedWorks
<1>. QED
  BY <1>2, <1>8, <1>10, <1>12, <1>13, LoadedHost

LEMMA LoadedJobComplete ==
    ASSUME ILoaded, NEW h \in Clients, LoadJobComplete(h)
    PROVE  ILoaded'
<1>1. /\ TypeOK /\ Works(host[h]) /\ slave \in SlaveState /\ slave.posted \in Seq(Event)
      /\ Accounted(slave, host[h], h)
  BY SlaveOf
<1>2. HostStep(h)
  BY DEF HostStep, HostQueue
<1>3. PICK ok \in BOOLEAN : slave' = Post(slave, <<ClientEvent(h, "load", ok)>>)
  BY <1>1, LoadJobCompleteFacts
<1>4. host[h].link = "up" /\ host[h].load.stage \in {"succeeded", "failed"}
  BY <1>1, LoadJobCompleteFacts
<1>5. PICK r : /\ Becomes(h, r) /\ r.link = host[h].link /\ r.config = host[h].config
               /\ r.load.stage = "none" /\ r.jobs = host[h].jobs
  BY <1>1, LoadJobCompleteFacts
<1>6. /\ SameQueue(slave, slave') /\ slave'.enrolled = slave.enrolled /\ slave'.out = slave.out
      /\ \E e \in Event : /\ e.type = "client" /\ e.from = h /\ e.msg = "load"
                          /\ slave'.posted = Append(slave.posted, e)
  BY <1>1, <1>3, TellFacts
<1>7. PICK e \in Event : /\ e.type = "client" /\ e.from = h /\ e.msg = "load"
                         /\ slave'.posted = Append(slave.posted, e)
  BY <1>6
<1>8. HostFrame(h)
  BY <1>6, <1>7 DEF HostFrame
<1>9. /\ ~LoadOut(slave, h) /\ ~LoadDone(slave, h) /\ Await(slave, h)
      /\ ~BufferOut(slave, h) /\ ~BufferAsked(slave, h)
  BY <1>1, <1>4 DEF Accounted, Accounts, Buffers, SomeLoad
<1>10. Await(slave', h)
  BY <1>1, <1>8, <1>9, FrameFacts
<1>11. /\ Has(slave'.posted, LoadAnswers(h)) /\ Once(slave'.posted, LoadAnswers(h))
       /\ ~Has(slave'.posted, BufferRequests(h)) /\ Once(slave'.posted, BufferRequests(h))
  <2>1. /\ ~Has(slave.posted, LoadAnswers(h)) /\ Once(slave.posted, LoadAnswers(h))
        /\ ~Has(slave.posted, BufferRequests(h)) /\ Once(slave.posted, BufferRequests(h))
    BY <1>1, <1>9 DEF Accounted, Accounts, Buffers, LoadDone, BufferAsked
  <2>. QED
    BY ONLY <1>1, e \in Event, h \in Clients, <1>7, <2>1, PostedOnce
<1>12. Accounted(slave', r, h)
  <2>1. Accounts(slave', r, h)
    BY <1>1, <1>5, <1>6, <1>9, <1>10, <1>11
       DEF Accounted, Accounts, SomeLoad, LoadOut, LoadDone
  <2>2. Buffers(slave', r, h)
    BY <1>1, <1>6, <1>9, <1>11 DEF Accounted, Buffers, BufferOut, BufferAsked
  <2>. QED
    BY <1>4, <1>5, <2>1, <2>2 DEF Accounted
<1>13. Works(r)
  BY <1>1, <1>4, <1>5 DEF Works
<1>. QED
  BY <1>2, <1>5, <1>8, <1>12, <1>13, LoadedHost

LEMMA LoadedRunLoad ==
    ASSUME ILoaded, NEW h \in Clients, RunLoadJob(h)
    PROVE  ILoaded'
<1>1. /\ TypeOK /\ Works(host[h]) /\ host[h] \in HostState /\ slave \in SlaveState
      /\ slave.posted \in Seq(Event) /\ Accounted(slave, host[h], h)
  BY SlaveOf
<1>2. HostStep(h)
  BY DEF HostStep, SimThread
<1>3. /\ host[h].link = "up" /\ host[h].jobs # << >> /\ Head(host[h].jobs) = "load"
      /\ host[h].load.stage = "queued"
  BY <1>1, RunLoadJobFacts
<1>4. ASSUME slave' = slave, NEW ok \in BOOLEAN, host' = Loaded(h, ok)
      PROVE  ILoaded'
  <2>1. PICK r : /\ Becomes(h, r) /\ r.link = host[h].link /\ r.config = host[h].config
                 /\ r.load.stage = (IF ok THEN "succeeded" ELSE "failed")
                 /\ r.jobs = Tail(host[h].jobs)
    BY <1>1, <1>3, <1>4, LoadedFacts
  <2>2. Works(r)
    BY <1>1, <1>3, <2>1, EndedWorks
  <2>. QED
    BY <1>2, <1>3, <1>4, <2>1, <2>2, LoadedStill
<1>5. ASSUME NEW ok \in BOOLEAN, slave' = Post(slave, <<ClientEvent(h, "buffer", ok)>>),
             host[h].load.what # Nothing, NEW r, Becomes(h, r), WaitsForBuffer(host[h], r)
      PROVE  ILoaded'
  <2>1. /\ SameQueue(slave, slave') /\ slave'.enrolled = slave.enrolled /\ slave'.out = slave.out
        /\ \E e \in Event : /\ e.type = "client" /\ e.from = h /\ e.msg = "buffer"
                            /\ slave'.posted = Append(slave.posted, e)
    <3>1. "buffer" \in {"enroll", "enrolleg", "alive", "load", "buffer"} \cup Config
      OBVIOUS
    <3>2. PICK msg : msg = "buffer"
      OBVIOUS
    <3>3. LET n == Post(slave, <<ClientEvent(h, msg, ok)>>)
          IN  /\ n \in SlaveState /\ SameQueue(slave, n)
              /\ n.enrolled = slave.enrolled /\ n.out = slave.out
              /\ \E e \in Event : /\ e.type = "client" /\ e.from = h /\ e.msg = msg
                                  /\ n.posted = Append(slave.posted, e)
      <4>1. slave \in SlaveState /\ msg \in {"enroll", "enrolleg", "alive", "load", "buffer"} \cup Config
        BY ONLY <1>1, <3>1, <3>2
      <4>. QED
        BY ONLY <4>1, h \in Clients, ok \in BOOLEAN, TellFacts, SMTT(60)
    <3>. QED
      BY ONLY <1>5, <3>2, <3>3
  <2>2. PICK e \in Event : /\ e.type = "client" /\ e.from = h /\ e.msg = "buffer"
                           /\ slave'.posted = Append(slave.posted, e)
    BY <2>1
  <2>3. HostFrame(h)
    BY <2>1, <2>2 DEF HostFrame
  <2>4. /\ ~LoadOut(slave, h) /\ ~LoadDone(slave, h) /\ Await(slave, h)
        /\ ~BufferOut(slave, h) /\ ~BufferAsked(slave, h)
    BY <1>1, <1>3 DEF Accounted, Accounts, Buffers, SomeLoad
  <2>5. Await(slave', h)
    BY <1>1, <2>3, <2>4, FrameFacts
  <2>6. /\ ~Has(slave'.posted, LoadAnswers(h)) /\ Once(slave'.posted, LoadAnswers(h))
        /\ Once(slave'.posted, BufferRequests(h))
    <3>1. /\ ~Has(slave.posted, LoadAnswers(h)) /\ Once(slave.posted, LoadAnswers(h))
          /\ ~Has(slave.posted, BufferRequests(h)) /\ Once(slave.posted, BufferRequests(h))
      BY <1>1, <2>4 DEF Accounted, Accounts, Buffers, LoadDone, BufferAsked
    <3>. QED
      BY ONLY <1>1, e \in Event, h \in Clients, <2>2, <3>1, PostedOnce
  <2>7. Accounted(slave', r, h)
    <3>1. Accounts(slave', r, h)
      BY <1>1, <1>5, <2>1, <2>4, <2>5, <2>6
         DEF Accounted, Accounts, SomeLoad, LoadOut, LoadDone, WaitsForBuffer
    <3>2. Buffers(slave', r, h)
      BY <1>1, <1>5, <2>1, <2>4, <2>6
         DEF Accounted, Buffers, BufferOut, BufferAsked, WaitsForBuffer
    <3>. QED
      BY <1>3, <1>5, <3>1, <3>2 DEF Accounted, WaitsForBuffer
  <2>8. Works(r)
    BY <1>1, <1>3, <1>5 DEF Works, WaitsForBuffer
  <2>. QED
    BY <1>2, <1>5, <2>3, <2>7, <2>8, LoadedHost
<1>6. \A ok \in BOOLEAN : \A r : slave' = Post(slave, <<ClientEvent(h, "buffer", ok)>>)
                              /\ host[h].load.what # Nothing
                              /\ Becomes(h, r) /\ WaitsForBuffer(host[h], r) => ILoaded'
  BY <1>5
<1>. QED
  BY <1>1, <1>4, <1>6, RunLoadJobFacts

LEMMA LoadedEnding ==
    ASSUME ILoaded, NEW h \in Clients, Crash(h) \/ Detect(h)
    PROVE  ILoaded'
<1>1. /\ TypeOK /\ Works(host[h]) /\ slave \in SlaveState /\ Accounted(slave, host[h], h)
  BY SlaveOf
<1>2. HostStep(h)
  BY DEF HostStep
<1>3. CASE Crash(h)
  <2>1. /\ host[h].link = "up" /\ slave'.posted = slave.posted /\ SameQueue(slave, slave')
        /\ slave'.enrolled = slave.enrolled
        /\ \A c \in Clients : slave'.out[c] = IF c = h THEN << >> ELSE slave.out[c]
    BY <1>1, <1>3, CrashFacts
  <2>2. PICK r : Becomes(h, r) /\ r.link = "dead" /\ Idles(host[h], r)
    BY <1>1, <1>3, CrashFacts
  <2>3. Works(r) /\ r.load.stage = host[h].load.stage
    BY <1>1, <2>2, IdleWorks
  <2>4. HostFrame(h)
    BY <2>1 DEF HostFrame
  <2>5. Await(slave', h) <=> Await(slave, h)
    BY <1>1, <2>4, FrameFacts
  <2>6. slave'.out[h] = << >> /\ (\A S : ~Has(<< >>, S) /\ Once(<< >>, S))
    BY <2>1 DEF Has, Once
  <2>7. Accounted(slave', r, h)
    <3>1. Accounts(slave', r, h)
      BY <1>1, <2>1, <2>2, <2>3, <2>5, <2>6
         DEF Accounted, Accounts, SomeLoad, LoadOut, LoadDone
    <3>2. Buffers(slave', r, h)
      BY <1>1, <2>1, <2>3, <2>6 DEF Accounted, Buffers, BufferOut, BufferAsked
    <3>. QED
      BY <2>2, <3>1, <3>2 DEF Accounted
  <2>. QED
    BY <1>2, <2>2, <2>3, <2>4, <2>7, LoadedHost
<1>4. CASE Detect(h)
  <2>1. host[h].link = "dead" /\ slave' = slave
    BY <1>1, <1>4, DetectFacts
  <2>2. PICK r : Becomes(h, r) /\ r.link = "gone" /\ Idles(host[h], r)
    BY <1>1, <1>4, DetectFacts
  <2>3. Works(r) /\ r.load.stage = host[h].load.stage
    BY <1>1, <2>2, IdleWorks
  <2>4. HostFrame(h)
    BY <2>1 DEF HostFrame, SameQueue
  <2>5. Accounted(slave', r, h)
    BY <1>1, <2>1, <2>2, <2>3 DEF Accounted, Accounts, Buffers, SomeLoad
  <2>. QED
    BY <1>2, <2>2, <2>3, <2>4, <2>5, LoadedHost
<1>. QED
  BY <1>3, <1>4

-----------------------------------------------------------------------------
(***************************************************************************)
(* The invariant, and what follows from it.                                *)
(***************************************************************************)
LEMMA InitTypes == Init => TypeOK
<1>. SUFFICES ASSUME Init PROVE TypeOK
  OBVIOUS
<1>1. slave \in SlaveState
  <2>1. NewActivity("front") \in Activity /\ <<NewActivity("front")>> \in Seq(Activity)
    BY NewActivityFacts
  <2>2. NoMapping \in Mapping /\ NoProgram \in Program
    BY Constants DEF NoMapping, Mapping
  <2>3. [c \in Clients |-> 0] \in [Clients -> Nat] /\ [c \in Clients |-> << >>] \in [Clients -> Seq(Order)]
    OBVIOUS
  <2>. QED
    BY <2>1, <2>2, <2>3 DEF Init, SlaveState
<1>2. host \in [Clients -> HostState]
  <2>1. Nothing \in [name : HostNames \cup {NoName}, program : Program]
    BY Constants DEF Nothing
  <2>. QED
    BY <2>1 DEF Init, HostState
<1>3. asked \in [loads : 0 .. MaxLoads, configs : 0 .. MaxConfigs, tests : 0 .. MaxTests]
  BY SlaveAssumption DEF Init
<1>. QED
  BY <1>1, <1>2, <1>3 DEF TypeOK

LEMMA InitLoaded == Init => ILoaded
<1>. SUFFICES ASSUME Init PROVE ILoaded
  OBVIOUS
<1>1. TypeOK
  BY InitTypes
<1>2. /\ slave.process = "starting" /\ slave.active = << >> /\ slave.pending = << >>
      /\ slave.posted = << >> /\ slave.acts = <<NewActivity("front")>>
      /\ slave.enrolled = {} /\ slave.loading = NoProgram
      /\ slave.loadTests = 0 /\ slave.loadHosts = 0 /\ slave.config = "none"
      /\ slave.configTests = 0 /\ slave.configHosts = 0 /\ slave.loadsAnswered = 0
      /\ \A c \in Clients : slave.out[c] = << >>
  BY DEF Init
<1>3. \A c \in Clients : /\ host[c].load.stage = "none" /\ host[c].jobs = << >>
                         /\ host[c].config.stage = "none"
  BY DEF Init
<1>4. /\ DOMAIN slave.acts = {1} /\ Len(slave.acts) = 1
      /\ slave.acts[1].kind = "front" /\ slave.acts[1].children = {}
  BY <1>2 DEF NewActivity
<1>5. /\ \A S : ~Has(<< >>, S) /\ Once(<< >>, S)
      /\ \A i \in Nat : i \notin DOMAIN << >>
      /\ ToSet(<< >>) = {}
  BY DEF Has, Once, ToSet
<1>6. \A a : ~Starting(slave, a) /\ ~Ending(slave, a) /\ ~Live(slave, a)
  BY <1>2, <1>5 DEF Starting, Ending, Live
<1>7. Line(slave)
  BY <1>2, <1>4, <1>5, <1>6 DEF Line
<1>8. Family(slave)
  BY <1>4, <1>6 DEF Family, Singles
<1>9. Ends(slave)
  BY <1>6 DEF Ends
<1>10. Fronted(slave)
  BY <1>2, <1>5, <1>6 DEF Fronted, Stages, Busy, Requested
<1>11. Asked(slave)
  BY <1>2, <1>5, <1>6 DEF Init, Asked, Busy, Requested
<1>12. ASSUME NEW c \in Clients
       PROVE  Accounted(slave, host[c], c) /\ Works(host[c])
  <2>1. ~Await(slave, c) /\ Known(slave) = {}
    BY <1>2, <1>4, <1>5 DEF Await, Known
  <2>2. /\ ~LoadOut(slave, c) /\ ~LoadDone(slave, c) /\ ~BufferOut(slave, c) /\ ~BufferAsked(slave, c)
        /\ Absent(slave, c)
    BY <1>2, <1>5, <2>1 DEF LoadOut, LoadDone, BufferOut, BufferAsked, Absent
  <2>. QED
    BY <1>2, <1>3, <1>5, <2>1, <2>2 DEF Accounted, Accounts, Buffers, SomeLoad, Works
<1>. QED
  BY <1>1, <1>7, <1>8, <1>9, <1>10, <1>11, <1>12 DEF ILoaded, IQueued, Queued

LEMMA NextLoaded == ILoaded /\ [Next]_vars => ILoaded'
<1>. SUFFICES ASSUME ILoaded, [Next]_vars PROVE ILoaded'
  OBVIOUS
<1>1. CASE Queue
  BY <1>1, LoadedOnStart, LoadedOnServer, LoadedOnClient, LoadedOnComplete DEF Queue
<1>2. CASE StartSlave
  BY <1>2, LoadedStartSlave
<1>3. CASE Test
  BY <1>3, LoadedTest
<1>7. CASE \E p \in ActiveAtMaster : OnEnrollment(p)
  BY <1>7, LoadedEnrollment
<1>4. CASE \/ \E p \in Program : AskLoad(p)
           \/ \E type \in Config : AskConfig(type)
  BY <1>4, LoadedAsk
<1>5. ASSUME NEW h \in Clients, HostStep(h)
      PROVE  ILoaded'
  <2>1. CASE StartHost(h) \/ ReceiveEnrolled(h) \/ ArriveEG(h) \/ ReceiveEGEnrolled(h)
    BY <2>1, LoadedEnrolling
  <2>2. CASE ReceiveAlive(h)
    BY <2>2, LoadedAlive
  <2>3. CASE ReceiveLoad(h)
    BY <2>3, LoadedReceive
  <2>4. ASSUME NEW type \in Config, ReceiveConfig(h, type)
        PROVE  ILoaded'
    BY <2>4, LoadedConfig
  <2>5. CASE ReceiveBuffer(h)
    BY <2>5, LoadedBuffer
  <2>6. CASE LoadJobComplete(h)
    BY <2>6, LoadedJobComplete
  <2>7. CASE ConfigJobComplete(h)
    BY <2>7, LoadedConfigComplete
  <2>8. CASE RunLoadJob(h)
    BY <2>8, LoadedRunLoad
  <2>9. CASE RunConfigJob(h)
    BY <2>9, LoadedRunConfig
  <2>10. CASE Crash(h) \/ Detect(h)
    BY <2>10, LoadedEnding
  <2>. QED
    BY <1>5, <2>1, <2>2, <2>3, <2>4, <2>5, <2>6, <2>7, <2>8, <2>9, <2>10
       DEF HostStep, HostQueue, SimThread
<1>6. CASE UNCHANGED vars
  BY <1>6 DEF vars, ILoaded, IQueued, TypeOK, Queued, Asked
<1>. QED
  BY <1>1, <1>2, <1>3, <1>4, <1>5, <1>6, <1>7 DEF Next, HostStep

LEMMA Invariance == Spec => []ILoaded
BY InitLoaded, NextLoaded, PTL DEF Spec

\* Every variable keeps its type: the slave's queue, its host map and the
\* messages between it and its hosts.
THEOREM TypeCorrect == Spec => []TypeOK
<1>1. ILoaded => TypeOK
  BY DEF ILoaded, IQueued
<1>. QED
  BY <1>1, Invariance, PTL

\* No activity of a slave ever waits in m_pendingActivities (activity.cpp).
THEOREM NeverPending == Spec => []NothingPends
<1>1. ILoaded => NothingPends
  BY DEF ILoaded, IQueued, Queued, Line, NothingPends
<1>. QED
  BY <1>1, Invariance, PTL

LEMMA OneOrNone ==
    ASSUME NEW S, \A x, y \in S : x = y
    PROVE  Cardinality(S) = IF S = {} THEN 0 ELSE 1
<1>1. CASE S = {}
  BY <1>1, FS_EmptySet
<1>2. ASSUME NEW x, x \in S
      PROVE  Cardinality(S) = 1
  <2>1. S = {x}
    BY <1>2
  <2>. QED
    BY <2>1, FS_Singleton
<1>. QED
  BY <1>1, <1>2

LEMMA LoadsOf ==
    ASSUME ILoaded, NEW h \in Clients
    PROVE  /\ \A x, y \in LoadsUnderWay(h) : x = y
           /\ LoadsUnderWay(h) # {} <=> SomeLoad(slave, host[h], h)
<1>1. /\ slave.posted \in Seq(Event) /\ slave.out[h] \in Seq(Order)
      /\ Accounts(slave, host[h], h)
  BY SlaveOf DEF Accounted
<1>2. \A j \in DOMAIN slave.out[h] : slave.out[h][j].msg = "load" <=> slave.out[h][j] \in LoadOrders
  BY <1>1, NotOrders
<1>3. ASSUME NEW j \in DOMAIN slave.posted
      PROVE  slave.posted[j] \in LoadAnswers(h) <=>
                slave.posted[j].type = "client" /\ slave.posted[j].from = h /\ slave.posted[j].msg = "load"
  <2>1. slave.posted[j] \in Event
    BY <1>1
  <2>2. slave.posted[j] \in LoadAnswers(h) =>
            slave.posted[j].type = "client" /\ slave.posted[j].from = h /\ slave.posted[j].msg = "load"
    BY DEF LoadAnswers, ClientEvent
  <2>. QED
    BY <2>1, <2>2, NotAnswers
<1>4. LoadsUnderWay(h) =
          {<<"out", i>> : i \in {j \in DOMAIN slave.out[h] : slave.out[h][j] \in LoadOrders}}
          \cup {<<"job", 0>> : g \in {c \in Clients : c = h /\ host[c].load.stage # "none"}}
          \cup {<<"posted", i>> : i \in {j \in DOMAIN slave.posted : slave.posted[j] \in LoadAnswers(h)}}
  BY <1>2, <1>3 DEF LoadsUnderWay
<1>5. LoadsUnderWay(h) # {} <=> SomeLoad(slave, host[h], h)
  BY <1>4 DEF SomeLoad, LoadOut, LoadDone, Has
<1>6. ASSUME NEW x \in LoadsUnderWay(h), NEW y \in LoadsUnderWay(h)
      PROVE  x = y
  <2>1. /\ \A i, j \in DOMAIN slave.out[h] :
              slave.out[h][i] \in LoadOrders /\ slave.out[h][j] \in LoadOrders => i = j
        /\ \A i, j \in DOMAIN slave.posted :
              slave.posted[i] \in LoadAnswers(h) /\ slave.posted[j] \in LoadAnswers(h) => i = j
    BY <1>1 DEF Accounts, Once
  <2>2. CASE LoadOut(slave, h)
    <3>1. host[h].load.stage = "none" /\ ~LoadDone(slave, h)
      BY <1>1, <2>2 DEF Accounts
    <3>. QED
      BY <1>4, <1>6, <2>1, <3>1 DEF LoadDone, Has
  <2>3. CASE ~LoadOut(slave, h) /\ host[h].load.stage # "none"
    <3>1. ~LoadDone(slave, h)
      BY <1>1, <2>3 DEF Accounts
    <3>. QED
      BY <1>4, <1>6, <2>3, <3>1 DEF LoadOut, LoadDone, Has
  <2>4. CASE ~LoadOut(slave, h) /\ host[h].load.stage = "none"
    BY <1>4, <1>6, <2>1, <2>4 DEF LoadOut, Has
  <2>. QED
    BY <2>2, <2>3, <2>4
<1>. QED
  BY <1>5, <1>6

LEMMA AwaitingOf ==
    ASSUME ILoaded, NEW h \in Clients
    PROVE  /\ \A x, y \in Awaiting(h) : x = y
           /\ Awaiting(h) # {} <=> Await(slave, h)
<1>1. slave \in SlaveState /\ Queued(slave)
  BY SlaveOf DEF IQueued
<1>2. \A a : CompleteEvent(a) \in ToSet(slave.posted) <=> Ending(slave, a)
  BY DEF Ending, Has, ToSet
<1>3. Awaiting(h) = {a \in ToSet(slave.active) : Waits(slave, a, h)}
  BY <1>2 DEF Awaiting, Waits
<1>4. ASSUME NEW a \in Awaiting(h), NEW b \in Awaiting(h)
      PROVE  a = b
  <2>1. /\ a \in DOMAIN slave.acts /\ Live(slave, a)
        /\ b \in DOMAIN slave.acts /\ Live(slave, b)
    BY <1>1, <1>3, AwaitLive
  <2>2. /\ slave.acts[a].kind = "loadHost" /\ slave.acts[b].kind = "loadHost"
        /\ slave.acts[a].host = slave.acts[b].host
    BY <1>3 DEF Waits
  <2>. QED
    BY <1>1, <2>1, <2>2, HostLoads
<1>. QED
  BY <1>3, <1>4 DEF Await

\* A host works on one load at most, just if the slave waits for its answer: so
\* LoadHostProgramActivity takes an answer for its own that is (slave/activities.cpp).
THEOREM LoadsAccounted == Spec => []HostLoadsAccounted
<1>1. ASSUME ILoaded
      PROVE  HostLoadsAccounted
  <2>1. SUFFICES ASSUME NEW h \in Clients
                 PROVE  /\ Cardinality(Awaiting(h)) <= 1
                        /\ host[h].link = "up" =>
                              Cardinality(LoadsUnderWay(h)) = Cardinality(Awaiting(h))
    BY DEF HostLoadsAccounted
  <2>2. Cardinality(Awaiting(h)) = IF Awaiting(h) = {} THEN 0 ELSE 1
    BY <1>1, AwaitingOf, OneOrNone
  <2>3. Cardinality(LoadsUnderWay(h)) = IF LoadsUnderWay(h) = {} THEN 0 ELSE 1
    BY <1>1, LoadsOf, OneOrNone
  <2>4. Accounts(slave, host[h], h)
    BY <1>1, SlaveOf DEF Accounted
  <2>5. host[h].link = "up" => (LoadsUnderWay(h) = {} <=> Awaiting(h) = {})
    BY <1>1, <2>4, LoadsOf, AwaitingOf DEF Accounts
  <2>. QED
    BY <2>2, <2>3, <2>5
<1>. QED
  BY <1>1, Invariance, PTL

\* The master is not answered while some host still loads (LoadProgramActivity).
THEOREM NotTooEarly == Spec => []AnsweredLast
<1>1. ASSUME ILoaded
      PROVE  AnsweredLast
  <2>1. SUFFICES ASSUME asked.loads = slave.loadsAnswered, NEW h \in Clients
                 PROVE  LoadsUnderWay(h) = {}
    BY DEF AnsweredLast
  <2>2. slave \in SlaveState /\ Queued(slave) /\ Accounts(slave, host[h], h)
    BY <1>1, SlaveOf DEF IQueued, Accounted
  <2>3. ~Busy(slave)
    BY <2>1, <2>2 DEF Queued, Asked
  <2>4. ~Await(slave, h)
    BY <2>2, <2>3, AwaitLive, HostLoads DEF Await, Waits
  <2>. QED
    BY <1>1, <2>2, <2>4, LoadsOf DEF Accounts
<1>. QED
  BY <1>1, Invariance, PTL
=============================================================================
