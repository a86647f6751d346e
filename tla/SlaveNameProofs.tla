--------------------------- MODULE SlaveNameProofs ---------------------------
(***************************************************************************)
(* TLAPS proofs about what the hosts of a slave run, on top of those about *)
(* their loads (SlaveProofs).  The third layer of the inductive invariant  *)
(* says of each host whose process has not ended (Named): what it is asked *)
(* to load is its name in the host map, of the program that is loading; if *)
(* it has not been asked yet, or has been and is done, it runs the name it *)
(* has in the map; and while the hosts load, one that is done runs the     *)
(* program or, without a name, nothing.  From it, and from what the queue  *)
(* has before the first activities are active (Opening), the slave is      *)
(* shown to implement ProgramLoads.                                        *)
(***************************************************************************)
EXTENDS SlaveProofs

\* Host c may be told this name by this program.
Wants(c, what) ==
    /\ what.name \in HostNames /\ what.program \in ProgramNames
    /\ \E k \in DOMAIN WantedBy[what.program] :
          WantedBy[what.program][k] = [process |-> ProcessOf[c], name |-> what.name]

Nameless(m, c) == \A k \in HostNames : m.mapping[k] # c

\* It is right that c loads this.
Right(m, c, what) ==
    \/ what = Nothing /\ Nameless(m, c)
    \/ Wants(c, what) /\ m.mapping[what.name] = c /\ what.program = m.loading

\* Its LoadHostProgramActivity a is about to start.
Begins(m, a, c) == Starting(m, a) /\ m.acts[a].kind = "loadHost" /\ m.acts[a].host = c

Failures(c) == {ClientEvent(c, "load", FALSE)}

\* Asked to load, but not done; done, and not yet taken out of the map.
Undone(m, r, c) ==
    \/ \E a \in DOMAIN m.acts : Begins(m, a, c)
    \/ \E o \in LoadOrders : Has(m.out[c], {o})
    \/ r.load.stage \in {"queued", "buffer"}
Failed(m, r, c) == r.load.stage = "failed" \/ Has(m.posted, Failures(c))

\* The hosts load a program, or unload.
Spreads(m) ==
    m.loadHosts \in ToSet(m.active) /\ m.loading \in Loadable \cup {NoProgram}

\* What host c is asked, whose state is r.
Asks(m, r, c) ==
    /\ \A a \in DOMAIN m.acts : Begins(m, a, c) => Right(m, c, LoadWhat(m.acts[a]))
    /\ \A o \in LoadOrders : Has(m.out[c], {o}) => Right(m, c, LoadWhat(o))
    /\ r.load.stage \in {"queued", "buffer"} => Right(m, c, r.load.what)

\* And what it runs.
Runs(m, r, c) ==
    /\ Failed(m, r, c) => r.runs = Nothing
    /\ r.runs # Nothing =>
          /\ c \in m.enrolled /\ Wants(c, r.runs)
          /\ ~Undone(m, r, c) \/ r.runs.program = m.loading => m.mapping[r.runs.name] = c
    /\ Spreads(m) /\ ~Undone(m, r, c) /\ ~Failed(m, r, c) =>
          \/ r.runs # Nothing /\ r.runs.program = m.loading
          \/ r.runs = Nothing /\ Nameless(m, c)

Named(m, r, c) == r.link \in {"off", "up"} => Asks(m, r, c) /\ Runs(m, r, c)

Mapped(m) ==
    /\ \A k \in HostNames : m.mapping[k] # NoClient => m.mapping[k] \in m.enrolled
    /\ OneName(m)

AllNamed(m) == Mapped(m) /\ \A c \in Clients : Named(m, host[c], c)

INamed == ILoaded /\ OneRunner /\ AllNamed(slave)

-----------------------------------------------------------------------------
(***************************************************************************)
(* A handler of the slave that keeps what the hosts are asked, the names   *)
(* of those that still run, and what is posted of the loads that failed.   *)
(***************************************************************************)
\* The load of host c begins in n just as in m.
SameBegins(m, n, c) ==
    /\ \A a \in DOMAIN n.acts : Begins(n, a, c) =>
          /\ a \in DOMAIN m.acts /\ Begins(m, a, c)
          /\ LoadWhat(n.acts[a]) = LoadWhat(m.acts[a])
    /\ \A a \in DOMAIN m.acts : Begins(m, a, c) => a \in DOMAIN n.acts /\ Begins(n, a, c)

SameOrders(s, t) == \A o \in LoadOrders : Has(t, {o}) <=> Has(s, {o})
SameFailures(m, n, c) == Has(n.posted, Failures(c)) <=> Has(m.posted, Failures(c))

KeptFor(m, n, c) ==
    /\ SameBegins(m, n, c) /\ SameOrders(m.out[c], n.out[c]) /\ SameFailures(m, n, c)
    /\ c \in m.enrolled => c \in n.enrolled
    /\ \A k \in HostNames : n.mapping[k] = c <=> m.mapping[k] = c

\* The host's process has not ended, or has not started.
Present(c) == host[c].link \in {"off", "up"}

Kept(m, n) ==
    /\ \A c \in Clients : Present(c) => KeptFor(m, n, c)
    /\ Mapped(m) => Mapped(n)

\* The same program is loading, and its load does not begin.
SameLoad(m, n) == n.loading = m.loading /\ (Spreads(n) => Spreads(m))

\* The programs whose loads are asked for, but not taken up.
Requests(m) == {p \in Program : Has(m.posted, {ServerEvent("load", p)})}

\* No load is asked for, taken up or answered, and the first activities stay active.
Onward(m, n) ==
    /\ n.loading = m.loading /\ n.program = m.program /\ n.loadsAnswered = m.loadsAnswered
    /\ n.outcome = m.outcome /\ Requests(n) = Requests(m)
    /\ Permanent \in ToSet(m.active) => Permanent \in ToSet(n.active)

Stay(m, n) == Kept(m, n) /\ SameLoad(m, n) /\ Onward(m, n)

LEMMA StaySame == \A m : Stay(m, m)
BY DEF Stay, Kept, SameLoad, Onward, KeptFor, SameBegins, SameOrders, SameFailures

LEMMA OnwardThen ==
    ASSUME NEW m, NEW k, NEW n, Onward(m, k), Onward(k, n)
    PROVE  Onward(m, n)
BY DEF Onward

\* Nothing, or nothing that has to do with loads, happens to the queue.
LEMMA OnwardSame ==
    ASSUME NEW m, NEW n, n.posted = m.posted, n.active = m.active, SameControl(m, n)
    PROVE  Onward(m, n)
BY DEF Onward, Requests, SameControl

LEMMA NoRequest ==
    ASSUME NEW e, ~(e.type = "server" /\ e.msg = "load")
    PROVE  \A p \in Program : e \notin {ServerEvent("load", p)}
BY DEF ServerEvent

LEMMA OnwardPost ==
    ASSUME NEW m \in SlaveState, NEW n, NEW e \in Event, n.posted = Append(m.posted, e),
           ~(e.type = "server" /\ e.msg = "load"), n.active = m.active, SameControl(m, n)
    PROVE  Onward(m, n)
<1>1. m.posted \in Seq(Event)
  BY StateFacts
<1>2. \A p \in Program : Has(n.posted, {ServerEvent("load", p)}) <=> Has(m.posted, {ServerEvent("load", p)})
  BY <1>1, NoRequest, HasOnceAppend
<1>. QED
  BY <1>2 DEF Onward, Requests, SameControl

LEMMA OnwardTaken ==
    ASSUME NEW m \in SlaveState, NEW n, m.posted # << >>, n.posted = Tail(m.posted),
           ~(Head(m.posted).type = "server" /\ Head(m.posted).msg = "load"), SameControl(m, n),
           Permanent \in ToSet(m.active) => Permanent \in ToSet(n.active)
    PROVE  Onward(m, n)
<1>1. m.posted \in Seq(Event)
  BY StateFacts
<1>2. \A p \in Program : Has(n.posted, {ServerEvent("load", p)}) <=> Has(m.posted, {ServerEvent("load", p)})
  BY <1>1, NoRequest, HasOnceTail
<1>. QED
  BY <1>2 DEF Onward, Requests, SameControl

LEMMA OnwardNew ==
    ASSUME NEW m \in SlaveState, NEW new \in Seq(Activity)
    PROVE  Onward(m, StartActivities(m, new))
<1>1. PICK n, es : n = StartActivities(m, new) /\ es = [i \in 1 .. Len(new) |-> StartEvent(Len(m.acts) + i)]
  OBVIOUS
<1>2. n.posted = m.posted \o es /\ es \in Seq(Event) /\ n.active = m.active /\ SameControl(m, n)
  BY <1>1, NewFacts
<1>3. ASSUME NEW p \in Program
      PROVE  ~Has(es, {ServerEvent("load", p)})
  BY <1>1 DEF Has, StartEvent, ServerEvent
<1>4. m.posted \in Seq(Event)
  BY StateFacts
<1>5. \A p \in Program : Has(n.posted, {ServerEvent("load", p)}) <=> Has(m.posted, {ServerEvent("load", p)})
  BY <1>2, <1>3, <1>4, HasOnceConcat
<1>. QED
  BY <1>1, <1>2, <1>5 DEF Onward, Requests, SameControl

LEMMA KeptForThen ==
    ASSUME NEW m, NEW k, NEW n, NEW c, KeptFor(m, k, c), KeptFor(k, n, c)
    PROVE  KeptFor(m, n, c)
<1>1. SameBegins(m, n, c)
  BY DEF KeptFor, SameBegins
<1>2. SameOrders(m.out[c], n.out[c]) /\ SameFailures(m, n, c)
  BY DEF KeptFor, SameOrders, SameFailures
<1>. QED
  BY <1>1, <1>2 DEF KeptFor

LEMMA KeptThen ==
    ASSUME NEW m, NEW k, NEW n, Kept(m, k), Kept(k, n)
    PROVE  Kept(m, n)
BY KeptForThen DEF Kept

LEMMA StayThen ==
    ASSUME NEW m, NEW k, NEW n, Stay(m, k), Stay(k, n)
    PROVE  Stay(m, n)
BY KeptThen, OnwardThen DEF Stay, SameLoad

LEMMA KeptUndone ==
    ASSUME NEW m, NEW n, NEW c, KeptFor(m, n, c), NEW r
    PROVE  /\ Undone(n, r, c) <=> Undone(m, r, c)
           /\ Failed(n, r, c) <=> Failed(m, r, c)
BY DEF KeptFor, SameBegins, SameOrders, SameFailures, Undone, Failed

\* Such a step keeps the invariant of a host, as long as the same program loads ...
LEMMA StayNamed ==
    ASSUME NEW m, NEW n, NEW c \in Clients, KeptFor(m, n, c), SameLoad(m, n),
           NEW r, Named(m, r, c)
    PROVE  Named(n, r, c)
<1>. SUFFICES ASSUME r.link \in {"off", "up"}
              PROVE  Asks(n, r, c) /\ Runs(n, r, c)
  BY DEF Named
<1>1. (Undone(n, r, c) <=> Undone(m, r, c)) /\ (Failed(n, r, c) <=> Failed(m, r, c))
  BY KeptUndone
<1>2. Asks(m, r, c) /\ Runs(m, r, c) /\ n.loading = m.loading
  BY DEF Named, SameLoad
<1>3. /\ c \in m.enrolled => c \in n.enrolled
      /\ \A k \in HostNames : n.mapping[k] = c <=> m.mapping[k] = c
  BY DEF KeptFor
<1>4. Nameless(n, c) <=> Nameless(m, c)
  BY <1>3 DEF Nameless
<1>5. \A what : Right(m, c, what) => Right(n, c, what)
  BY <1>2, <1>3, <1>4 DEF Right, Wants
<1>6. Asks(n, r, c)
  BY <1>2, <1>5 DEF Asks, KeptFor, SameBegins, SameOrders
<1>7. Runs(n, r, c)
  BY <1>1, <1>2, <1>3, <1>4 DEF Runs, Wants, SameLoad
<1>. QED
  BY <1>6, <1>7

\* ... or as none does, and the host has done what it was asked.
LEMMA IdleNamed ==
    ASSUME NEW m, NEW n, NEW c, KeptFor(m, n, c), NEW r, Named(m, r, c),
           ~Undone(m, r, c), ~Spreads(n)
    PROVE  Named(n, r, c)
<1>. SUFFICES ASSUME r.link \in {"off", "up"}
              PROVE  Asks(n, r, c) /\ Runs(n, r, c)
  BY DEF Named
<1>1. ~Undone(n, r, c) /\ (Failed(n, r, c) <=> Failed(m, r, c))
  BY KeptUndone
<1>2. Runs(m, r, c)
  BY DEF Named
<1>3. /\ c \in m.enrolled => c \in n.enrolled
      /\ \A k \in HostNames : n.mapping[k] = c <=> m.mapping[k] = c
  BY DEF KeptFor
<1>4. Asks(n, r, c)
  BY <1>1 DEF Asks, Undone
<1>5. Runs(n, r, c)
  BY <1>1, <1>2, <1>3 DEF Runs, Wants
<1>. QED
  BY <1>4, <1>5

\* What two steps have in common whose activities differ only in what is left out here.
KeptActs(m, n) ==
    /\ \A a \in DOMAIN m.acts :
          /\ a \in DOMAIN n.acts /\ n.acts[a].kind = m.acts[a].kind
          /\ n.acts[a].host = m.acts[a].host /\ n.acts[a].name = m.acts[a].name
          /\ n.acts[a].program = m.acts[a].program
    /\ \A a \in DOMAIN n.acts : a \notin DOMAIN m.acts => n.acts[a].kind # "loadHost"
    /\ \A a \in DOMAIN m.acts : m.acts[a].kind = "loadHost" => (Starting(n, a) <=> Starting(m, a))

LEMMA KeptBegins ==
    ASSUME NEW m, NEW n, KeptActs(m, n)
    PROVE  \A c : SameBegins(m, n, c)
BY DEF KeptActs, SameBegins, Begins, LoadWhat

\* The queue changes, but the load of no host is about to start or starts.
LEMMA KeptQueue ==
    ASSUME NEW m, NEW n, KeptActs(m, n), SameHosts(m, n), \A c \in Clients : SameFailures(m, n, c)
    PROVE  Kept(m, n)
<1>1. \A c \in Clients : KeptFor(m, n, c)
  BY KeptBegins DEF KeptFor, SameHosts, SameOrders
<1>2. Mapped(m) => Mapped(n)
  BY DEF Mapped, OneName, SameHosts
<1>. QED
  BY <1>1, <1>2 DEF Kept

LEMMA StayQueue ==
    ASSUME NEW m, NEW n, KeptActs(m, n), SameHosts(m, n), \A c \in Clients : SameFailures(m, n, c),
           n.loadHosts \in ToSet(n.active) => m.loadHosts \in ToSet(m.active), Onward(m, n)
    PROVE  Stay(m, n)
BY KeptQueue DEF Stay, SameLoad, Spreads, Onward

\* Something is posted that is neither of a host's load nor from a host.
LEMMA KeptPost ==
    ASSUME NEW m \in SlaveState, NEW n, NEW e \in Event, n.posted = Append(m.posted, e),
           e.type # "client", e.type = "start" /\ e.act \in DOMAIN m.acts => m.acts[e.act].kind # "loadHost",
           n.acts = m.acts, n.active = m.active, SameControl(m, n), SameHosts(m, n)
    PROVE  Kept(m, n) /\ SameLoad(m, n)
<1>1. m.posted \in Seq(Event) /\ \A a \in DOMAIN m.acts : a \in Nat
  BY StateFacts
<1>2. \A a \in Nat : Starting(n, a) <=> Starting(m, a) \/ (e.type = "start" /\ e.act = a)
  BY ONLY m \in SlaveState, e \in Event, n.posted = Append(m.posted, e), Appended
<1>3. KeptActs(m, n)
  BY <1>1, <1>2 DEF KeptActs
<1>4. ASSUME NEW c \in Clients
      PROVE  SameFailures(m, n, c)
  <2>1. e \notin Failures(c)
    BY DEF Failures, ClientEvent
  <2>. QED
    BY <1>1, <2>1, HasOnceAppend DEF SameFailures
<1>. QED
  BY <1>3, <1>4, KeptQueue DEF SameLoad, Spreads, SameControl

\* Nor that a load is asked for.
LEMMA StayPost ==
    ASSUME NEW m \in SlaveState, NEW n, NEW e \in Event, n.posted = Append(m.posted, e),
           e.type # "client", e.type = "start" /\ e.act \in DOMAIN m.acts => m.acts[e.act].kind # "loadHost",
           ~(e.type = "server" /\ e.msg = "load"),
           n.acts = m.acts, n.active = m.active, SameControl(m, n), SameHosts(m, n)
    PROVE  Stay(m, n)
<1>1. Kept(m, n) /\ SameLoad(m, n)
  BY KeptPost
<1>. QED
  BY <1>1, OnwardPost DEF Stay

LEMMA StayComplete ==
    ASSUME NEW m \in SlaveState, NEW a \in Nat
    PROVE  Complete(m, a) \in SlaveState /\ Stay(m, Complete(m, a))
<1>1. PICK n : n = Complete(m, a)
  OBVIOUS
<1>2. /\ n \in SlaveState /\ n.posted = Append(m.posted, CompleteEvent(a))
      /\ SameQueue(m, n) /\ SameControl(m, n) /\ SameHosts(m, n)
  BY <1>1, CompleteFacts
<1>3. PICK e \in Event : e = CompleteEvent(a) /\ e.type = "complete"
  BY EventFacts
<1>. QED
  BY <1>1, <1>2, <1>3, StayPost DEF SameQueue

LEMMA StayPostStart ==
    ASSUME NEW m \in SlaveState, NEW a \in Nat, a \in DOMAIN m.acts => m.acts[a].kind # "loadHost"
    PROVE  Stay(m, PostStart(m, a))
<1>1. PICK e \in Event : e = StartEvent(a) /\ e.type = "start" /\ e.act = a
  BY EventFacts
<1>2. PICK n : n = PostStart(m, a)
  OBVIOUS
<1>3. n = Post(m, <<e>>)
  BY <1>1, <1>2 DEF PostStart
<1>4. n.posted = Append(m.posted, e) /\ SameQueue(m, n) /\ SameControl(m, n) /\ SameHosts(m, n)
  BY <1>3, PostOneFacts
<1>. QED
  BY <1>1, <1>2, <1>4, StayPost DEF SameQueue

LEMMA StayAsked ==
    ASSUME NEW m \in SlaveState, NEW p \in Program, NEW msg \in {"load"} \cup Config
    PROVE  LET n == Post(m, <<ServerEvent(msg, p)>>)
           IN  Kept(m, n) /\ SameLoad(m, n) /\ (msg # "load" => Stay(m, n))
<1>1. PICK e : e = ServerEvent(msg, p) /\ e \in Event /\ e.type = "server" /\ e.msg = msg
  BY EventFacts
<1>2. PICK n : n = Post(m, <<e>>)
  OBVIOUS
<1>3. n.posted = Append(m.posted, e) /\ SameQueue(m, n) /\ SameControl(m, n) /\ SameHosts(m, n)
  BY <1>1, <1>2, PostOneFacts
<1>4. Kept(m, n) /\ SameLoad(m, n)
  BY <1>1, <1>3, KeptPost DEF SameQueue
<1>5. msg # "load" => Stay(m, n)
  BY <1>1, <1>3, StayPost DEF SameQueue
<1>. QED
  BY <1>1, <1>2, <1>4, <1>5

\* Nothing but the host map changes, which keeps the hosts that have not ended.
LEMMA StayMap ==
    ASSUME NEW m, NEW n, n.posted = m.posted, n.active = m.active, n.acts = m.acts, n.out = m.out,
           SameControl(m, n),
           \A c \in Clients : Present(c) =>
              /\ c \in m.enrolled => c \in n.enrolled
              /\ \A k \in HostNames : n.mapping[k] = c <=> m.mapping[k] = c,
           Mapped(m) => Mapped(n)
    PROVE  Stay(m, n)
<1>1. KeptActs(m, n)
  BY DEF KeptActs, Starting
<1>2. \A c : SameBegins(m, n, c)
  BY <1>1, KeptBegins
<1>3. \A c \in Clients : Present(c) => KeptFor(m, n, c)
  BY <1>2 DEF KeptFor, SameOrders, SameFailures
<1>4. Kept(m, n)
  BY <1>3 DEF Kept
<1>. QED
  BY <1>4, OnwardSame DEF Stay, SameLoad, Spreads, SameControl

LEMMA StayHosts ==
    ASSUME NEW m, NEW n, n.posted = m.posted, n.active = m.active, n.acts = m.acts, n.out = m.out,
           SameControl(m, n), n.mapping = m.mapping, m.enrolled \subseteq n.enrolled
    PROVE  Stay(m, n)
<1>1. Mapped(m) => Mapped(n)
  BY DEF Mapped, OneName
<1>. QED
  BY <1>1, StayMap

LEMMA RemovedMap ==
    ASSUME NEW m, NEW n, NEW h, n.enrolled = m.enrolled \ {h}, h # NoClient,
           n.mapping = [k \in HostNames |-> IF m.mapping[k] = h THEN NoClient ELSE m.mapping[k]]
    PROVE  /\ Mapped(m) => Mapped(n)
           /\ \A c : c # h /\ c # NoClient => \A k \in HostNames : n.mapping[k] = c <=> m.mapping[k] = c
           /\ Nameless(n, h)
<1>1. \A k \in HostNames : n.mapping[k] = IF m.mapping[k] = h THEN NoClient ELSE m.mapping[k]
  OBVIOUS
<1>2. ASSUME Mapped(m)
      PROVE  Mapped(n)
  <2>1. \A k \in HostNames : n.mapping[k] # NoClient =>
            n.mapping[k] = m.mapping[k] /\ n.mapping[k] # h
    BY ONLY <1>1
  <2>2. \A k \in HostNames : n.mapping[k] # NoClient => n.mapping[k] \in n.enrolled
    BY <1>2, <2>1 DEF Mapped
  <2>3. OneName(n)
    BY <1>2, <2>1 DEF Mapped, OneName
  <2>. QED
    BY <2>2, <2>3 DEF Mapped
<1>3. \A c : c # h /\ c # NoClient => \A k \in HostNames : n.mapping[k] = c <=> m.mapping[k] = c
  BY ONLY <1>1
<1>4. Nameless(n, h)
  BY ONLY <1>1, h # NoClient DEF Nameless
<1>. QED
  BY <1>2, <1>3, <1>4

LEMMA StayRemove ==
    ASSUME NEW m \in SlaveState, NEW h \in Clients, ~Present(h)
    PROVE  RemoveClient(m, h) \in SlaveState /\ Stay(m, RemoveClient(m, h))
<1>1. PICK n : n = RemoveClient(m, h)
  OBVIOUS
<1>2. /\ n \in SlaveState /\ n.posted = m.posted /\ n.out = m.out
      /\ SameQueue(m, n) /\ SameControl(m, n) /\ n.enrolled = m.enrolled \ {h}
      /\ n.mapping = [k \in HostNames |-> IF m.mapping[k] = h THEN NoClient ELSE m.mapping[k]]
  BY <1>1, RemoveFacts
<1>3. h # NoClient /\ \A c \in Clients : c # NoClient
  BY Constants
<1>4. /\ Mapped(m) => Mapped(n)
      /\ \A c : c # h /\ c # NoClient => \A k \in HostNames : n.mapping[k] = c <=> m.mapping[k] = c
  <2>1. /\ n.enrolled = m.enrolled \ {h} /\ h # NoClient
        /\ n.mapping = [k \in HostNames |-> IF m.mapping[k] = h THEN NoClient ELSE m.mapping[k]]
    BY <1>2, <1>3
  <2>. QED
    BY ONLY <2>1, RemovedMap
<1>5. \A c \in Clients : Present(c) =>
              /\ c \in m.enrolled => c \in n.enrolled
              /\ \A k \in HostNames : n.mapping[k] = c <=> m.mapping[k] = c
  BY <1>2, <1>3, <1>4
<1>6. Stay(m, n)
  BY <1>2, <1>4, <1>5, StayMap DEF SameQueue
<1>. QED
  BY <1>1, <1>2, <1>6

LEMMA StaySend ==
    ASSUME NEW m \in SlaveState, NEW h \in Clients, NEW o \in Order, o.msg # "load"
    PROVE  Send(m, h, o) \in SlaveState /\ Stay(m, Send(m, h, o))
<1>1. PICK n : n = Send(m, h, o)
  OBVIOUS
<1>2. /\ n \in SlaveState /\ n.posted = m.posted /\ SameQueue(m, n) /\ SameControl(m, n)
      /\ n.enrolled = m.enrolled /\ n.mapping = m.mapping
      /\ \A c \in Clients : n.out[c] = IF c = h /\ host[h].link = "up"
                                       THEN Append(m.out[c], o) ELSE m.out[c]
  BY <1>1, SendFacts
<1>3. \A c \in Clients : m.out[c] \in Seq(Order)
  BY StateFacts
<1>4. o \notin LoadOrders
  BY NotOrders
<1>5. \A c \in Clients : SameOrders(m.out[c], Append(m.out[c], o))
  BY <1>3, <1>4, HasOnceAppend DEF SameOrders
<1>6. \A c \in Clients : SameOrders(m.out[c], n.out[c])
  BY <1>2, <1>5 DEF SameOrders
<1>7. \A c : SameBegins(m, n, c)
  <2>1. KeptActs(m, n)
    BY <1>2 DEF KeptActs, Starting, SameQueue
  <2>. QED
    BY <2>1, KeptBegins
<1>8. \A c \in Clients : KeptFor(m, n, c)
  BY <1>2, <1>6, <1>7 DEF KeptFor, SameFailures
<1>9. Kept(m, n) /\ SameLoad(m, n)
  BY <1>2, <1>8 DEF Kept, SameLoad, Spreads, Mapped, OneName, SameQueue, SameControl
<1>10. Onward(m, n)
  BY <1>2, OnwardSame DEF SameQueue
<1>. QED
  BY <1>1, <1>2, <1>9, <1>10 DEF Stay

LEMMA StaySendHost ==
    ASSUME NEW m \in SlaveState, NEW h \in Clients, NEW o \in Order, o.msg # "load"
    PROVE  SendHost(m, h, o) \in SlaveState /\ Stay(m, SendHost(m, h, o))
<1>1. CASE Sendable(h)
  BY <1>1, StaySend DEF SendHost
<1>2. CASE ~Sendable(h)
  BY <1>2, StayRemove DEF SendHost, Sendable, Present
<1>. QED
  BY <1>1, <1>2

LEMMA StayAsk ==
    ASSUME NEW m \in SlaveState, NEW a \in Nat, m.acts[a].host \in Clients,
           NEW o \in Order, o.msg # "load"
    PROVE  Stay(m, AskHost(m, a, o))
<1>1. PICK h \in Clients : h = m.acts[a].host
  OBVIOUS
<1>2. CASE Sendable(h)
  BY <1>1, <1>2, StaySend DEF AskHost
<1>3. CASE ~Sendable(h)
  <2>1. PICK k : k = RemoveClient(m, h)
    OBVIOUS
  <2>2. k \in SlaveState /\ Stay(m, k)
    BY <1>3, <2>1, StayRemove DEF Sendable, Present
  <2>3. Stay(k, Complete(k, a))
    BY <2>2, StayComplete
  <2>4. AskHost(m, a, o) = Complete(k, a)
    BY <1>1, <1>3, <2>1 DEF AskHost
  <2>. QED
    BY <2>2, <2>3, <2>4, StayThen
<1>. QED
  BY <1>2, <1>3

\* Activities are made and started, none for the load of a host.
LEMMA StayNew ==
    ASSUME NEW m \in SlaveState, NEW new \in Seq(Activity),
           \A i \in DOMAIN new : new[i].kind # "loadHost"
    PROVE  StartActivities(m, new) \in SlaveState /\ Stay(m, StartActivities(m, new))
<1>1. PICK n : n = StartActivities(m, new)
  OBVIOUS
<1>2. PICK es : es = [i \in 1 .. Len(new) |-> StartEvent(Len(m.acts) + i)]
  OBVIOUS
<1>3. /\ n \in SlaveState /\ SameControl(m, n) /\ SameHosts(m, n) /\ n.active = m.active
      /\ n.posted = m.posted \o es /\ es \in Seq(Event)
  BY <1>1, <1>2, NewFacts
<1>4. /\ \A a \in DOMAIN m.acts : a \in DOMAIN n.acts /\ n.acts[a] = m.acts[a]
      /\ \A a \in DOMAIN n.acts \ DOMAIN m.acts :
            a - Len(m.acts) \in DOMAIN new /\ n.acts[a] = new[a - Len(m.acts)]
      /\ \A a \in Nat : Starting(n, a) <=> Starting(m, a) \/ a \in DOMAIN n.acts \ DOMAIN m.acts
  <2>1. LET k == StartActivities(m, new)
        IN  /\ k \in SlaveState /\ SameControl(m, k) /\ SameHosts(m, k)
            /\ k.process = m.process /\ k.active = m.active /\ k.pending = m.pending
            /\ Len(k.acts) = Len(m.acts) + Len(new) /\ Len(m.acts) \in Nat
            /\ DOMAIN m.acts = 1 .. Len(m.acts)
            /\ DOMAIN k.acts = 1 .. Len(m.acts) + Len(new)
            /\ \A a \in DOMAIN m.acts : a \in DOMAIN k.acts /\ k.acts[a] = m.acts[a]
            /\ \A i \in DOMAIN new : /\ Len(m.acts) + i \in DOMAIN k.acts
                                     /\ k.acts[Len(m.acts) + i] = new[i]
            /\ \A a \in DOMAIN k.acts \ DOMAIN m.acts :
                  a - Len(m.acts) \in DOMAIN new /\ k.acts[a] = new[a - Len(m.acts)]
            /\ \A a \in Nat :
                  /\ Starting(k, a) <=> Starting(m, a) \/ a \in DOMAIN k.acts \ DOMAIN m.acts
                  /\ Ending(k, a) <=> Ending(m, a)
                  /\ Once(m.posted, {StartEvent(a)}) /\ (Starting(m, a) => a \in DOMAIN m.acts)
                     => Once(k.posted, {StartEvent(a)})
            /\ Requested(k) <=> Requested(m)
            /\ Once(m.posted, LoadRequests) => Once(k.posted, LoadRequests)
    BY Made, Zenon
  <2>. QED
    BY ONLY <1>1, <2>1, Zenon
<1>5. \A a \in DOMAIN m.acts : a \in Nat
  BY StateFacts
<1>6. KeptActs(m, n)
  BY <1>4, <1>5 DEF KeptActs
<1>7. ASSUME NEW c \in Clients
      PROVE  SameFailures(m, n, c)
  <2>1. \A i \in DOMAIN es : es[i] \notin Failures(c)
    BY <1>2 DEF StartEvent, Failures, ClientEvent
  <2>2. ~Has(es, Failures(c))
    BY <2>1 DEF Has
  <2>3. m.posted \in Seq(Event)
    BY StateFacts
  <2>. QED
    BY <1>3, <2>2, <2>3, HasOnceConcat DEF SameFailures
<1>8. Onward(m, n)
  BY <1>1, OnwardNew
<1>9. Stay(m, n)
  BY <1>3, <1>6, <1>7, <1>8, StayQueue DEF SameControl
<1>. QED
  BY <1>1, <1>3, <1>9

\* An activity changes, but not what is asked for it.
LEMMA StayAct ==
    ASSUME NEW m \in SlaveState, NEW a \in DOMAIN m.acts, NEW act \in Activity,
           act.kind = m.acts[a].kind, act.host = m.acts[a].host, act.name = m.acts[a].name,
           act.program = m.acts[a].program
    PROVE  LET n == [m EXCEPT !.acts[a] = act]
           IN  n \in SlaveState /\ Stay(m, n)
<1>1. PICK n : n = [m EXCEPT !.acts[a] = act]
  OBVIOUS
<1>2. /\ n \in SlaveState /\ n.posted = m.posted /\ n.active = m.active
      /\ SameControl(m, n) /\ SameHosts(m, n)
      /\ DOMAIN n.acts = DOMAIN m.acts /\ n.acts[a] = act
      /\ \A b \in DOMAIN m.acts : b # a => n.acts[b] = m.acts[b]
  BY <1>1, ActFacts
<1>3. KeptActs(m, n)
  <2>1. \A b \in DOMAIN m.acts :
          /\ n.acts[b].kind = m.acts[b].kind /\ n.acts[b].host = m.acts[b].host
          /\ n.acts[b].name = m.acts[b].name /\ n.acts[b].program = m.acts[b].program
    BY <1>2
  <2>. QED
    BY <1>2, <2>1 DEF KeptActs, Starting
<1>4. \A c \in Clients : SameFailures(m, n, c)
  BY <1>2 DEF SameFailures
<1>5. Stay(m, n)
  BY <1>2, <1>3, <1>4, StayQueue, OnwardSame DEF SameControl
<1>. QED
  BY <1>1, <1>2, <1>5

LEMMA StayChildren ==
    ASSUME NEW m \in SlaveState, NEW a \in DOMAIN m.acts, NEW new \in Seq(Activity),
           \A i \in DOMAIN new : new[i].kind # "loadHost"
    PROVE  Stay(m, StartChildren(m, a, new))
<1>1. CASE new = << >>
  <2>1. a \in Nat
    BY StateFacts
  <2>. QED
    BY <1>1, <2>1, StayComplete DEF StartChildren
<1>2. CASE new # << >>
  <2>1. PICK S, act : S = {Len(m.acts) + i : i \in DOMAIN new} /\ act = [m.acts[a] EXCEPT !.children = S]
    OBVIOUS
  <2>2. m.acts[a] \in Activity /\ S \in SUBSET Nat
    BY <2>1, StateFacts
  <2>3. /\ act \in Activity /\ act.kind = m.acts[a].kind /\ act.host = m.acts[a].host
        /\ act.name = m.acts[a].name /\ act.program = m.acts[a].program
    <3>1. PICK r : r = m.acts[a]
      OBVIOUS
    <3>2. r \in Activity /\ act = [r EXCEPT !.children = S]
      BY <2>1, <2>2, <3>1
    <3>3. /\ act \in Activity /\ act.kind = r.kind /\ act.host = r.host /\ act.name = r.name
          /\ act.program = r.program
      BY ONLY <2>2, <3>2, ActivityFacts
    <3>. QED
      BY <3>1, <3>3
  <2>4. PICK k : k = [m EXCEPT !.acts[a] = act]
    OBVIOUS
  <2>5. k \in SlaveState /\ Stay(m, k)
    BY <2>3, <2>4, StayAct
  <2>6. Stay(k, StartActivities(k, new))
    BY <2>5, StayNew
  <2>7. StartChildren(m, a, new) = StartActivities(k, new)
    <3>1. k = [m EXCEPT !.acts[a].children = S]
      BY <2>1, <2>4
    <3>. QED
      BY <1>2, <2>1, <3>1 DEF StartChildren
  <2>. QED
    BY <2>5, <2>6, <2>7, StayThen
<1>. QED
  BY <1>1, <1>2

\* An activity is made that is to start later.
LEMMA KeptMade ==
    ASSUME NEW m \in SlaveState, NEW n, NEW act, n.acts = Append(m.acts, act),
           act.kind # "loadHost", n.posted = m.posted, SameHosts(m, n)
    PROVE  Kept(m, n)
<1>1. m.acts \in Seq(Activity)
  BY StateFacts
<1>2. /\ \A a \in DOMAIN m.acts : a \in DOMAIN n.acts /\ n.acts[a] = m.acts[a]
      /\ \A a \in DOMAIN n.acts : a \in DOMAIN m.acts \/ n.acts[a] = act
  BY <1>1
<1>3. KeptActs(m, n)
  BY <1>2 DEF KeptActs, Starting
<1>4. \A c \in Clients : SameFailures(m, n, c)
  BY DEF SameFailures
<1>. QED
  BY <1>3, <1>4, KeptQueue

LEMMA StayTest ==
    ASSUME NEW m \in SlaveState
    PROVE  LET n == StartActivities(m, <<NewActivity("testHosts")>>)
           IN  n \in SlaveState /\ Stay(m, n) /\ SameControl(m, n) /\ n.active = m.active
<1>1. PICK act : act = NewActivity("testHosts")
  OBVIOUS
<1>2. act \in Activity /\ act.kind = "testHosts"
  BY <1>1, NewActivityFacts
<1>3. PICK new : new = <<act>>
  OBVIOUS
<1>4. new \in Seq(Activity) /\ \A i \in DOMAIN new : new[i].kind # "loadHost"
  BY <1>2, <1>3
<1>5. PICK n : n = StartActivities(m, new)
  OBVIOUS
<1>6. n \in SlaveState /\ Stay(m, n)
  BY <1>4, <1>5, StayNew
<1>7. SameControl(m, n) /\ n.active = m.active
  BY <1>4, <1>5, NewFacts
<1>. QED
  BY <1>1, <1>3, <1>5, <1>6, <1>7

\* A load is taken up.
LEMMA KeptLoadRequest ==
    ASSUME NEW m \in SlaveState, NEW p \in Program, m.loading = NoProgram
    PROVE  LET n == LoadRequest(m, p)
           IN  /\ Kept(m, n) /\ n.program = m.program /\ n.active = m.active
               /\ n.loading = p /\ n.loadHosts = Len(m.acts) + 2
               /\ n.loadsAnswered = m.loadsAnswered /\ n.outcome = m.outcome
               /\ Requests(n) = Requests(m)
<1>1. PICK k, t : k = StartActivities(m, <<NewActivity("testHosts")>>) /\ t = Len(m.acts) + 1
  OBVIOUS
<1>2. /\ k \in SlaveState /\ Stay(m, k) /\ SameControl(m, k) /\ k.active = m.active
  BY <1>1, StayTest
<1>3. PICK act, acts : act = LoadHosts(p) /\ acts = Append(k.acts, act)
  OBVIOUS
<1>4. PICK n : n = [k EXCEPT !.acts = acts, !.loading = p, !.loadTests = t, !.loadHosts = t + 1]
  OBVIOUS
<1>5. /\ n.posted = k.posted /\ n.active = k.active /\ n.acts = acts /\ SameHosts(k, n)
      /\ n.loadHosts = t + 1 /\ n.program = k.program /\ n.loading = p
      /\ n.loadsAnswered = k.loadsAnswered /\ n.outcome = k.outcome
  BY ONLY <1>2, <1>4 DEF SlaveState, SameHosts
<1>6. LoadRequest(m, p) = n
  BY <1>1, <1>3, <1>4 DEF LoadRequest
<1>7. act.kind = "loadHosts"
  BY <1>3, NewActivityFacts
<1>8. Kept(k, n)
  BY <1>2, <1>3, <1>5, <1>7, KeptMade
<1>9. Kept(m, n)
  BY <1>2, <1>8, KeptThen DEF Stay
<1>10. t + 1 = Len(m.acts) + 2 /\ Len(m.acts) \in Nat
  BY <1>1, StateFacts, LenProperties
<1>11. /\ n.program = m.program /\ n.active = m.active /\ n.loadHosts = Len(m.acts) + 2
       /\ n.loadsAnswered = m.loadsAnswered /\ n.outcome = m.outcome
  BY <1>2, <1>5, <1>10 DEF SameControl
<1>12. Requests(n) = Requests(m)
  BY <1>2, <1>5 DEF Stay, Onward, Requests
<1>. QED
  BY <1>5, <1>6, <1>9, <1>11, <1>12

LEMMA StayConfigRequest ==
    ASSUME NEW m \in SlaveState, NEW type \in Config
    PROVE  Stay(m, ConfigRequest(m, type))
<1>1. CASE m.config # "none"
  BY <1>1, StaySame DEF ConfigRequest
<1>2. CASE m.config = "none"
  <2>1. PICK k, t : k = StartActivities(m, <<NewActivity("testHosts")>>) /\ t = Len(m.acts) + 1
    OBVIOUS
  <2>2. k \in SlaveState /\ Stay(m, k)
    BY <2>1, StayTest
  <2>3. PICK act, acts : act = HostsConfig(type) /\ acts = Append(k.acts, act)
    OBVIOUS
  <2>4. PICK n : n = [k EXCEPT !.acts = acts, !.config = type, !.configTests = t, !.configHosts = t + 1]
    OBVIOUS
  <2>5. /\ n.posted = k.posted /\ n.active = k.active /\ n.acts = acts /\ SameHosts(k, n)
        /\ n.loading = k.loading /\ n.program = k.program /\ n.loadHosts = k.loadHosts
        /\ n.loadsAnswered = k.loadsAnswered /\ n.outcome = k.outcome
    BY ONLY <2>2, <2>4 DEF SlaveState, SameHosts
  <2>6. ConfigRequest(m, type) = n
    BY <1>2, <2>1, <2>3, <2>4 DEF ConfigRequest
  <2>7. act.kind = "hostsConfig"
    BY <2>3, NewActivityFacts
  <2>8. Kept(k, n)
    BY <2>2, <2>3, <2>5, <2>7, KeptMade
  <2>9. Stay(k, n)
    BY <2>5, <2>8 DEF Stay, SameLoad, Spreads, Onward, Requests
  <2>. QED
    BY <2>2, <2>6, <2>9, StayThen
<1>. QED
  BY <1>1, <1>2

\* After the test of a load or of a config.
LEMMA StayStep ==
    ASSUME NEW m \in SlaveState, Fronted(m)
    PROVE  /\ m.loadTests # 0 => Stay(m, LoadStep(m, m.loadTests))
           /\ m.configTests # 0 => \A a : Stay(m, ConfigStep(m, a))
<1>1. m.loadHosts \in Nat /\ m.configHosts \in Nat
  BY StateFacts
<1>2. ASSUME m.loadTests # 0
      PROVE  Stay(m, LoadStep(m, m.loadTests))
  <2>1. m.acts[m.loadHosts].kind = "loadHosts"
    BY <1>2 DEF Fronted, Stages
  <2>. QED
    BY <1>1, <2>1, StayPostStart DEF LoadStep
<1>3. ASSUME m.configTests # 0, NEW a, a = m.configTests
      PROVE  Stay(m, ConfigStep(m, a))
  <2>1. m.acts[m.configHosts].kind = "hostsConfig"
    BY <1>3 DEF Fronted, Stages
  <2>. QED
    BY <1>1, <1>3, <2>1, StayPostStart DEF ConfigStep
<1>4. ASSUME NEW a, a # m.configTests
      PROVE  Stay(m, ConfigStep(m, a))
  <2>1. PICK n : n = [m EXCEPT !.configsAnswered = @ + 1, !.config = "none"]
    OBVIOUS
  <2>2. /\ n.posted = m.posted /\ n.active = m.active /\ n.acts = m.acts /\ SameHosts(m, n)
        /\ n.loading = m.loading /\ n.program = m.program /\ n.loadHosts = m.loadHosts
        /\ n.loadsAnswered = m.loadsAnswered /\ n.outcome = m.outcome
    BY ONLY <2>1, m \in SlaveState DEF SlaveState, SameHosts
  <2>3. KeptActs(m, n) /\ \A c \in Clients : SameFailures(m, n, c)
    BY <2>2 DEF KeptActs, Starting, SameFailures
  <2>4. Onward(m, n)
    BY <2>2 DEF Onward, Requests
  <2>5. Stay(m, n)
    BY <2>2, <2>3, <2>4, StayQueue
  <2>. QED
    BY <1>4, <2>1, <2>5 DEF ConfigStep
<1>. QED
  BY <1>2, <1>3, <1>4

\* The load ends.
LEMMA KeptLoadEnd ==
    ASSUME NEW m \in SlaveState, NEW a, a # m.loadTests
    PROVE  LET n == LoadStep(m, a)
           IN  /\ Kept(m, n) /\ n.active = m.active /\ n.loadHosts = m.loadHosts
               /\ n.mapping = m.mapping /\ n.loading = NoProgram
               /\ \/ n.outcome = "yes" /\ n.program = m.loading
                  \/ n.outcome = "no" /\ n.program = m.program
               /\ n.loadsAnswered = m.loadsAnswered + 1
<1>1. PICK program, outcome :
         /\ program = IF m.acts[a].success THEN m.loading ELSE m.program
         /\ outcome = IF m.acts[a].success THEN "yes" ELSE "no"
  OBVIOUS
<1>2. PICK n : n = [m EXCEPT !.loadsAnswered = @ + 1, !.loading = NoProgram, !.program = program,
                             !.outcome = outcome]
  OBVIOUS
<1>3. /\ n.posted = m.posted /\ n.active = m.active /\ n.acts = m.acts
      /\ n.loadHosts = m.loadHosts /\ SameHosts(m, n) /\ n.program = program
      /\ n.loading = NoProgram /\ n.loadsAnswered = m.loadsAnswered + 1
      /\ n.outcome = outcome
  BY ONLY <1>2, m \in SlaveState DEF SlaveState, SameHosts
<1>4. LoadStep(m, a) = n
  BY <1>1, <1>2 DEF LoadStep
<1>5. KeptActs(m, n) /\ \A c \in Clients : SameFailures(m, n, c)
  BY <1>3 DEF KeptActs, Starting, SameFailures
<1>6. Kept(m, n)
  BY <1>3, <1>5, KeptQueue
<1>. QED
  BY <1>1, <1>3, <1>4, <1>6 DEF SameHosts

LEMMA StayChildDone ==
    ASSUME NEW m \in SlaveState, Queued(m), NEW p \in DOMAIN m.acts, NEW a \in m.acts[p].children
    PROVE  Stay(m, ChildDone(m, p, a))
<1>1. a \in DOMAIN m.acts
  BY Parents
<1>2. PICK act, n : WithoutChild(m, p, a, act, n)
  BY <1>1, ChildDoneFacts
<1>3. n = [m EXCEPT !.acts[p] = act]
  BY <1>2 DEF WithoutChild
<1>4. /\ act \in Activity /\ act.kind = m.acts[p].kind /\ act.host = m.acts[p].host
      /\ act.name = m.acts[p].name /\ act.program = m.acts[p].program
      /\ ChildDone(m, p, a) \in {n, Complete(n, p)}
  BY <1>2 DEF WithoutChild
<1>5. p \in Nat
  BY Indices
<1>6. n \in SlaveState /\ Stay(m, n)
  BY <1>3, <1>4, StayAct
<1>7. Stay(n, Complete(n, p))
  BY <1>5, <1>6, StayComplete
<1>. QED
  BY <1>4, <1>6, <1>7, StayThen

-----------------------------------------------------------------------------
(***************************************************************************)
(* What the slave's handlers keep.                                         *)
(***************************************************************************)
\* A handler is taken that is not the start of a host's load.
LEMMA TakenFor ==
    ASSUME NEW m \in SlaveState, NEW n, m.posted # << >>,
           Head(m.posted).type = "start" /\ Head(m.posted).act \in DOMAIN m.acts =>
              m.acts[Head(m.posted).act].kind # "loadHost",
           n.posted = Tail(m.posted), n.acts = m.acts, SameHosts(m, n)
    PROVE  /\ \A c \in Clients : Head(m.posted) \notin Failures(c) => KeptFor(m, n, c)
           /\ Mapped(m) => Mapped(n)
<1>1. m.posted \in Seq(Event) /\ \A a \in DOMAIN m.acts : a \in Nat
  BY StateFacts
<1>2. PICK e : e = Head(m.posted)
  OBVIOUS
<1>3. \A a \in Nat : Starting(m, a) <=> Starting(n, a) \/ (e.type = "start" /\ e.act = a)
  <2>1. Without(m, n, Head(m.posted))
    BY <1>2, Removed
  <2>. QED
    BY <1>2, <2>1 DEF Without
<1>4. KeptActs(m, n)
  BY <1>1, <1>2, <1>3 DEF KeptActs
<1>5. \A c : SameBegins(m, n, c)
  BY <1>4, KeptBegins
<1>6. \A c \in Clients : e \notin Failures(c) => SameFailures(m, n, c)
  BY <1>1, <1>2, HasOnceTail DEF SameFailures
<1>7. \A c \in Clients : e \notin Failures(c) => KeptFor(m, n, c)
  BY <1>5, <1>6 DEF KeptFor, SameHosts, SameOrders
<1>8. Mapped(m) => Mapped(n)
  BY DEF Mapped, OneName, SameHosts
<1>. QED
  BY <1>2, <1>7, <1>8

LEMMA StayTaken ==
    ASSUME NEW m \in SlaveState, NEW n, m.posted # << >>,
           Head(m.posted).type = "start" /\ Head(m.posted).act \in DOMAIN m.acts =>
              m.acts[Head(m.posted).act].kind # "loadHost",
           ~(Head(m.posted).type \in {"server", "client"} /\ Head(m.posted).msg = "load"),
           n.posted = Tail(m.posted), n.acts = m.acts, SameHosts(m, n), SameControl(m, n),
           n.loadHosts \in ToSet(n.active) => n.loadHosts \in ToSet(m.active),
           Permanent \in ToSet(m.active) => Permanent \in ToSet(n.active)
    PROVE  Stay(m, n)
<1>1. \A c : Head(m.posted) \notin Failures(c)
  BY DEF Failures, ClientEvent
<1>2. Kept(m, n)
  BY <1>1, TakenFor DEF Kept
<1>3. Onward(m, n)
  BY OnwardTaken
<1>. QED
  BY <1>2, <1>3 DEF Stay, SameLoad, Spreads, SameControl

\* Any activity starts but those of a load.
LEMMA StayStart ==
    ASSUME NEW m \in SlaveState, Queued(m), NEW a \in ToSet(m.active),
           m.acts[a].kind \notin {"loadHost", "loadHosts"}, NEW n \in Start(m, a)
    PROVE  Stay(m, n)
<1>1. a \in DOMAIN m.acts /\ a \in Nat /\ m.acts[a] \in Activity
  BY Indices, StateFacts
<1>2. PICK act : act = m.acts[a] /\ act \in Activity
  BY <1>1
<1>3. act.kind \in Kinds /\ (act.kind \in Singles => act.host \in Clients)
  BY <1>1, <1>2, ActivityFacts DEF Queued, Family
<1>4. ASSUME NEW new \in Seq(Activity), NEW kind \in {"testHost", "hostConfig"},
             n = StartChildren(m, a, new), AsChild(new, kind)
      PROVE  Stay(m, n)
  BY <1>1, <1>4, StayChildren DEF AsChild
<1>5. CASE act.kind = "testHosts"
  <2>1. n \in StartTestHosts(m, a)
    BY <1>2, <1>5 DEF Start
  <2>. QED
    BY <1>4, <2>1, TestHostsFacts
<1>6. CASE act.kind = "hostsConfig"
  <2>1. n \in StartHostsConfig(m, a) /\ m.acts[a].config \in Config
    BY <1>2, <1>6, ActivityFacts DEF Start
  <2>. QED
    BY <1>4, <2>1, HostsConfigFacts
<1>7. CASE act.kind = "testHost"
  <2>1. PICK order : order = [msg |-> "alive"]
    OBVIOUS
  <2>2. order \in Order /\ order.msg # "load" /\ n = AskHost(m, a, order)
    BY <1>2, <1>7, <2>1, OrderFacts DEF Start
  <2>. QED
    BY <1>1, <1>2, <1>3, <1>7, <2>2, StayAsk DEF Singles
<1>8. CASE act.kind = "hostConfig"
  <2>1. PICK order : order = [msg |-> act.config]
    OBVIOUS
  <2>2. order \in Order /\ order.msg # "load"
    BY <1>2, <1>8, <2>1, ActivityFacts, OrderFacts DEF Config
  <2>3. n = AskHost(m, a, order)
    BY <1>2, <1>8, <2>1 DEF Start
  <2>. QED
    BY <1>1, <1>2, <1>3, <1>8, <2>2, <2>3, StayAsk DEF Singles
<1>9. CASE act.kind = "front"
  BY <1>2, <1>9, StaySame DEF Start
<1>. QED
  BY <1>2, <1>3, <1>5, <1>6, <1>7, <1>8, <1>9 DEF Kinds

LEMMA StayEnroll ==
    ASSUME NEW m \in SlaveState, NEW h \in Clients
    PROVE  Stay(m, EnrollRequest(m, h))
<1>1. PICK k : k = Cardinality({c \in Clients : m.arrived[c] # 0})
  OBVIOUS
<1>2. 1 + k \in Nat
  <2>1. {c \in Clients : m.arrived[c] # 0} \in SUBSET Clients
    OBVIOUS
  <2>2. k \in Nat
    BY <1>1, <2>1, Constants, FS_Subset, FS_CardinalityType
  <2>. QED
    BY <2>2
<1>3. PICK enrolled, arrived : enrolled = m.enrolled \cup {h} /\ arrived = [m.arrived EXCEPT ![h] = 1 + k]
  OBVIOUS
<1>4. enrolled \in SUBSET Clients /\ arrived \in [Clients -> Nat]
  BY <1>2, <1>3, StateFacts
<1>5. PICK n : n = [m EXCEPT !.enrolled = enrolled, !.arrived = arrived]
  OBVIOUS
<1>6. /\ n \in SlaveState /\ n.posted = m.posted /\ SameQueue(m, n) /\ n.out = m.out
      /\ n.enrolled = enrolled /\ SameControl(m, n) /\ n.mapping = m.mapping
  BY <1>4, <1>5 DEF SlaveState, SameQueue, SameControl
<1>7. PICK order : order = [msg |-> "enrolled"]
  OBVIOUS
<1>8. order \in Order /\ order.msg # "load"
  BY <1>7, OrderFacts
<1>9. EnrollRequest(m, h) = SendHost(n, h, order)
  BY <1>1, <1>3, <1>5, <1>7 DEF EnrollRequest
<1>10. Stay(m, n)
  BY <1>3, <1>6, StayHosts DEF SameQueue
<1>. QED
  BY <1>6, <1>8, <1>9, <1>10, StaySendHost, StayThen

LEMMA StayEnrollEG ==
    ASSUME NEW m \in SlaveState, NEW h \in Clients, NEW n \in EnrollEGRequest(m, h)
    PROVE  Stay(m, n)
<1>1. PICK known : known = m.known \cup ({h} \cap m.enrolled)
  OBVIOUS
<1>2. known \in SUBSET Clients
  BY <1>1, StateFacts
<1>3. PICK met : met = [m EXCEPT !.known = known]
  OBVIOUS
<1>4. /\ met \in SlaveState /\ met.posted = m.posted /\ SameQueue(m, met) /\ met.out = m.out
      /\ met.enrolled = m.enrolled /\ SameControl(m, met) /\ met.mapping = m.mapping
  BY <1>2, <1>3 DEF SlaveState, SameQueue, SameControl
<1>5. Stay(m, met)
  BY <1>4, StayHosts DEF SameQueue
<1>6. \/ \E c \in Clients : n = SendHost(met, c, [msg |-> "egenrolled"])
      \/ n = [met EXCEPT !.process = "unknown"]
  <2>1. met.enrolled \subseteq Clients
    BY <1>4, StateFacts
  <2>. QED
    BY <1>1, <1>3, <2>1 DEF EnrollEGRequest
<1>7. ASSUME NEW c \in Clients, n = SendHost(met, c, [msg |-> "egenrolled"])
      PROVE  Stay(m, n)
  <2>1. PICK order : order = [msg |-> "egenrolled"]
    OBVIOUS
  <2>2. order \in Order /\ order.msg # "load"
    BY <2>1, OrderFacts
  <2>. QED
    BY <1>4, <1>5, <1>7, <2>1, <2>2, StaySendHost, StayThen
<1>8. CASE n = [met EXCEPT !.process = "unknown"]
  <2>1. /\ n.acts = met.acts /\ n.posted = met.posted /\ n.active = met.active
        /\ SameControl(met, n) /\ SameHosts(met, n)
    BY <1>4, <1>8, ProcessFacts
  <2>2. Stay(met, n)
    BY <2>1, StayHosts DEF SameHosts
  <2>. QED
    BY <1>5, <2>2, StayThen
<1>. QED
  BY <1>6, <1>7, <1>8

LEMMA StayBuffer ==
    ASSUME NEW m \in SlaveState, NEW h \in Clients
    PROVE  Stay(m, BufferRequest(m, h))
<1>1. PICK order : order = [msg |-> "buffer"]
  OBVIOUS
<1>2. order \in Order /\ order.msg # "load"
  BY <1>1, OrderFacts
<1>. QED
  BY <1>1, <1>2, StaySendHost DEF BufferRequest

\* An answer changes the host map first, if it is that a host failed to load.
LEMMA StayAnswer ==
    ASSUME NEW m \in SlaveState, NEW a \in DOMAIN m.acts, NEW ok \in BOOLEAN
    PROVE  LET left == IF m.acts[a].kind = "loadHost" /\ ~ok
                       THEN RemoveClient(m, m.acts[a].host) ELSE m
           IN  left \in SlaveState /\ Stay(left, HostAnswer(m, a, ok))
<1>1. PICK left : left = IF m.acts[a].kind = "loadHost" /\ ~ok
                         THEN RemoveClient(m, m.acts[a].host) ELSE m
  OBVIOUS
<1>2. left \in SlaveState /\ left.acts = m.acts
  <2>1. CASE left = m
    BY <2>1
  <2>2. CASE left = RemoveClient(m, m.acts[a].host)
    BY <2>2, RemoveFacts DEF SameQueue
  <2>. QED
    BY <1>1, <2>1, <2>2
<1>3. PICK act : act = [m.acts[a] EXCEPT !.success = ok]
  OBVIOUS
<1>4. /\ act \in Activity /\ act.kind = m.acts[a].kind /\ act.host = m.acts[a].host
      /\ act.name = m.acts[a].name /\ act.program = m.acts[a].program
  <2>1. m.acts[a] \in Activity
    BY StateFacts
  <2>. QED
    BY ONLY <2>1, <1>3, ok \in BOOLEAN, ActivityFacts
<1>5. PICK k : k = [left EXCEPT !.acts[a] = act]
  OBVIOUS
<1>6. k \in SlaveState /\ Stay(left, k)
  BY <1>2, <1>4, <1>5, StayAct
<1>7. HostAnswer(m, a, ok) = Complete(k, a)
  BY <1>1, <1>2, <1>3, <1>5 DEF HostAnswer
<1>8. a \in Nat
  BY StateFacts
<1>9. Stay(left, HostAnswer(m, a, ok))
  BY <1>6, <1>7, <1>8, StayComplete, StayThen
<1>. QED
  BY <1>1, <1>2, <1>9

LEMMA AllKept ==
    ASSUME NEW m, NEW n, Kept(m, n), SameLoad(m, n), AllNamed(m)
    PROVE  AllNamed(n)
<1>1. ASSUME NEW c \in Clients
      PROVE  Named(n, host[c], c)
  <2>1. CASE Present(c)
    BY <2>1, StayNamed DEF Kept, AllNamed
  <2>2. CASE ~Present(c)
    BY <2>2 DEF Present, Named
  <2>. QED
    BY <2>1, <2>2
<1>. QED
  BY <1>1 DEF AllNamed, Kept

LEMMA StayAll ==
    ASSUME NEW m, NEW n, Stay(m, n), AllNamed(m)
    PROVE  AllNamed(n) /\ Onward(m, n)
BY AllKept DEF Stay

\* While the hosts do not load, each is done.
LEMMA Idle ==
    ASSUME NEW m \in SlaveState, Queued(m), NEW r, NEW c, Accounted(m, r, c),
           m.loadHosts \notin ToSet(m.active) \/ m.acts[m.loadHosts].children = {}
    PROVE  ~Undone(m, r, c) /\ ~Failed(m, r, c)
<1>1. \A a \in DOMAIN m.acts : ~(Live(m, a) /\ m.acts[a].kind = "loadHost")
  BY HostLoads
<1>2. \A a \in DOMAIN m.acts : ~Begins(m, a, c)
  BY <1>1 DEF Begins, Live
<1>3. ~Await(m, c)
  BY <1>1, AwaitLive DEF Await, Waits
<1>4. ~SomeLoad(m, r, c)
  BY <1>3 DEF Accounted, Accounts
<1>5. \A o \in LoadOrders : ~Has(m.out[c], {o})
  BY <1>4 DEF SomeLoad, LoadOut, Has
<1>6. ~Has(m.posted, Failures(c))
  <2>1. Failures(c) \subseteq LoadAnswers(c)
    BY DEF Failures, LoadAnswers
  <2>. QED
    BY <1>4, <2>1 DEF SomeLoad, LoadDone, Has
<1>7. r.load.stage = "none"
  BY <1>4 DEF SomeLoad
<1>. QED
  BY <1>2, <1>5, <1>6, <1>7 DEF Undone, Failed

\* So the program to load may change then, and whether it is loading.
LEMMA IdleAll ==
    ASSUME NEW m \in SlaveState, Queued(m), \A c \in Clients : Accounted(m, host[c], c),
           m.loadHosts \notin ToSet(m.active) \/ m.acts[m.loadHosts].children = {},
           AllNamed(m), NEW n, Kept(m, n), ~Spreads(n)
    PROVE  AllNamed(n)
<1>1. ASSUME NEW c \in Clients
      PROVE  Named(n, host[c], c)
  <2>1. CASE Present(c)
    <3>1. ~Undone(m, host[c], c)
      BY Idle
    <3>2. KeptFor(m, n, c) /\ Named(m, host[c], c)
      BY <2>1 DEF Kept, AllNamed
    <3>. QED
      BY <3>1, <3>2, IdleNamed
  <2>2. CASE ~Present(c)
    BY <2>2 DEF Present, Named
  <2>. QED
    BY <2>1, <2>2
<1>. QED
  BY <1>1 DEF AllNamed, Kept

-----------------------------------------------------------------------------
(***************************************************************************)
(* The handlers that do more: a load begins or ends, a host is asked, and  *)
(* a host that failed is taken out of the map.                             *)
(***************************************************************************)
\* A load is taken up, the only one asked for; and one ends.
LoadBegins(m, n) ==
    /\ Requests(m) = {n.loading} /\ Requests(n) = {}
    /\ n.program = m.program /\ n.loadsAnswered = m.loadsAnswered
    /\ n.outcome = m.outcome /\ n.active = m.active

LoadsEnd(m, n) ==
    /\ m.loadHosts \in ToSet(m.active) /\ m.acts[m.loadHosts].children = {}
    /\ \/ n.outcome = "yes" /\ n.program = m.loading
       \/ n.outcome = "no" /\ n.program = m.program
    /\ n.mapping = m.mapping
    /\ n.loadsAnswered = m.loadsAnswered + 1
    /\ Permanent \in ToSet(n.active)

\* There is one request at most.
LEMMA OneRequest ==
    ASSUME NEW m \in SlaveState, NEW p \in Program, m.posted # << >>,
           Head(m.posted) = ServerEvent("load", p), Once(m.posted, LoadRequests)
    PROVE  Requests(m) = {p}
<1>1. PICK s : s = m.posted /\ 1 \in DOMAIN s /\ s[1] = ServerEvent("load", p)
  BY StateFacts, TailFacts
<1>2. p \in Requests(m)
  BY <1>1 DEF Requests, Has
<1>3. ASSUME NEW q \in Requests(m)
      PROVE  q = p
  <2>1. q \in Program /\ Has(s, {ServerEvent("load", q)})
    BY <1>1 DEF Requests
  <2>2. PICK i \in DOMAIN s : s[i] = ServerEvent("load", q)
    BY <2>1 DEF Has
  <2>3. s[i] \in LoadRequests /\ s[1] \in LoadRequests
    BY <1>1, <2>1, <2>2 DEF LoadRequests
  <2>4. i = 1
    BY <1>1, <2>3 DEF Once
  <2>. QED
    BY <1>1, <2>2, <2>4 DEF ServerEvent
<1>. QED
  BY <1>2, <1>3

LEMMA NoneRequested ==
    ASSUME NEW m
    PROVE  ~Requested(m) <=> Requests(m) = {}
BY DEF Requested, Requests, LoadRequests, Has

\* OnServerMessage, but for what it takes.
LEMMA NamedOnServer ==
    ASSUME NEW m \in SlaveState, Queued(m), m.posted # << >>, Head(m.posted).type = "server",
           \A c \in Clients : Accounted(m, host[c], c), AllNamed(m)
    PROVE  LET t == [m EXCEPT !.posted = Tail(@)]
               e == Head(m.posted)
           IN  /\ AllNamed(t)
               /\ e.msg = "load" => /\ AllNamed(LoadRequest(t, e.program))
                                    /\ LoadBegins(m, LoadRequest(t, e.program))
               /\ e.msg \in Config => /\ AllNamed(ConfigRequest(t, e.msg))
                                      /\ Onward(m, ConfigRequest(t, e.msg))
<1>1. PICK t, e : t = [m EXCEPT !.posted = Tail(@)] /\ e = Head(m.posted)
  OBVIOUS
<1>2. /\ t \in SlaveState /\ Queued(t) /\ t.posted = Tail(m.posted)
      /\ SameQueue(m, t) /\ SameHosts(m, t) /\ SameControl(m, t)
  BY <1>1, QueuedTaken
<1>3. Kept(m, t) /\ SameLoad(m, t)
  <2>1. \A c : Head(m.posted) \notin Failures(c)
    BY DEF Failures, ClientEvent
  <2>2. Kept(m, t)
    BY <1>2, <2>1, TakenFor DEF Kept, SameQueue
  <2>. QED
    BY <1>2, <2>2 DEF SameLoad, Spreads, SameControl, SameQueue
<1>4. e \in Event /\ e.type = "server" /\ e.program \in Program /\ e = ServerEvent(e.msg, e.program)
  BY <1>1, StateFacts, TailFacts, EventFacts
<1>5. ASSUME e.msg \in Config
      PROVE  Stay(m, ConfigRequest(t, e.msg))
  <2>1. Stay(m, t)
    BY <1>1, <1>2, <1>5, StayTaken DEF SameQueue, SameControl, Config
  <2>. QED
    BY <1>2, <1>5, <2>1, StayConfigRequest, StayThen
<1>6. ASSUME e.msg = "load"
      PROVE  /\ AllNamed(LoadRequest(t, e.program))
             /\ LoadBegins(m, LoadRequest(t, e.program))
  <2>1. Requested(m) /\ ~Requested(t)
    BY <1>1, <1>2, <1>4, <1>6, QueuedTaken
  <2>2. ~Busy(m) /\ m.loading = NoProgram
    BY <2>1 DEF Queued, Fronted
  <2>3. m.loadHosts \notin ToSet(m.active)
    BY <2>2 DEF Busy, Live
  <2>4. PICK p, n : p = e.program /\ p \in Program /\ n = LoadRequest(t, p)
    BY <1>4
  <2>5. /\ Kept(t, n) /\ n.program = t.program /\ n.active = t.active
        /\ n.loading = p /\ n.loadHosts = Len(t.acts) + 2
        /\ n.loadsAnswered = t.loadsAnswered /\ n.outcome = t.outcome
        /\ Requests(n) = Requests(t)
    BY <1>2, <2>2, <2>4, KeptLoadRequest DEF SameControl
  <2>6. ToSet(t.active) \subseteq DOMAIN t.acts
    BY <1>2, Indices
  <2>7. DOMAIN t.acts = 1 .. Len(t.acts) /\ Len(t.acts) \in Nat
    BY <1>2, StateFacts, LenProperties
  <2>8. n.loadHosts \notin ToSet(n.active)
    BY <2>5, <2>6, <2>7
  <2>9. ~Spreads(n)
    BY <2>8 DEF Spreads
  <2>10. Kept(m, n)
    BY <1>3, <2>5, KeptThen
  <2>11. AllNamed(n)
    BY <2>3, <2>9, <2>10, IdleAll
  <2>12. Requests(n) = {}
    BY <2>1, <2>5, NoneRequested
  <2>13. Requests(m) = {p}
    BY <1>1, <1>4, <1>6, <2>4, OneRequest DEF Queued, Fronted
  <2>14. LoadBegins(m, n)
    BY <1>2, <2>5, <2>12, <2>13 DEF LoadBegins, SameControl, SameQueue
  <2>. QED
    BY <2>4, <2>11, <2>14
<1>7. AllNamed(t)
  BY <1>3, AllKept
<1>. QED
  BY <1>1, <1>5, <1>6, <1>7, StayAll

\* OnActivityComplete.
LEMMA NamedOnComplete ==
    ASSUME NEW m \in SlaveState, Queued(m), m.posted # << >>, Head(m.posted).type = "complete",
           Head(m.posted).act \in ToSet(m.active),
           NEW n \in AQ!Completed([m EXCEPT !.posted = Tail(@)], Head(m.posted).act),
           \A c \in Clients : Accounted(m, host[c], c), AllNamed(m)
    PROVE  AllNamed(n) /\ (Onward(m, n) \/ LoadsEnd(m, n))
<1>1. PICK a : a = Head(m.posted).act
  OBVIOUS
<1>2. PICK u \in SlaveState : Left(m, u, a) /\ CompletedAs(m, u, n, a)
  BY <1>1, OnCompleteFacts, Zenon
<1>3. /\ Queued(u) /\ u.posted = Tail(m.posted) /\ ToSet(u.active) = ToSet(m.active) \ {a}
      /\ u.acts = m.acts /\ SameHosts(m, u) /\ SameControl(m, u) /\ a \in Nat
      /\ a \in ToSet(m.active) /\ CanEnd(m, a)
  BY <1>2, Indices DEF Left
<1>4. Stay(m, u)
  <2>1. a # Permanent
    BY <1>3 DEF CanEnd, Queued, Family, Permanent
  <2>. QED
    BY <1>3, <2>1, StayTaken DEF SameControl
<1>5. CASE n = u
  BY <1>4, <1>5, StayAll
<1>6. CASE /\ Permanent \in ToSet(m.active) /\ a \in {m.loadTests, m.loadHosts} /\ n = LoadStep(u, a)
  <2>1. a # 0
    BY <1>3, Indices
  <2>2. CASE a = m.loadTests
    <3>1. a = u.loadTests /\ u.loadTests # 0 /\ Fronted(u)
      BY <1>3, <2>1, <2>2 DEF SameControl, Queued
    <3>2. Stay(u, n)
      BY <1>6, <3>1, StayStep
    <3>. QED
      BY <1>4, <3>2, StayThen, StayAll
  <2>3. CASE a # m.loadTests
    <3>1. a = m.loadHosts /\ a # u.loadTests /\ m.acts[m.loadHosts].children = {}
      BY <1>3, <1>6, <2>3 DEF CanEnd, SameControl
    <3>2. /\ Kept(u, n) /\ n.active = u.active /\ n.loadHosts = u.loadHosts
          /\ n.mapping = u.mapping /\ n.loadsAnswered = u.loadsAnswered + 1
          /\ \/ n.outcome = "yes" /\ n.program = u.loading
             \/ n.outcome = "no" /\ n.program = u.program
      BY <1>6, <3>1, KeptLoadEnd
    <3>3. Kept(m, n)
      BY <1>4, <3>2, KeptThen DEF Stay
    <3>4. ~Spreads(n)
      BY <1>3, <3>1, <3>2 DEF Spreads, SameControl
    <3>5. AllNamed(n)
      BY <3>1, <3>3, <3>4, IdleAll
    <3>6. Permanent \in ToSet(n.active)
      BY <1>4, <1>6, <3>2 DEF Stay, Onward
    <3>. QED
      BY <1>3, <3>1, <3>2, <3>5, <3>6 DEF LoadsEnd, SameControl, SameHosts
  <2>. QED
    BY <2>2, <2>3
<1>7. CASE /\ Permanent \in ToSet(m.active) /\ a \in {m.configTests, m.configHosts} /\ n = ConfigStep(u, a)
  <2>1. a # 0 /\ (m.configTests = 0 <=> m.configHosts = 0)
    BY <1>3, Indices DEF Queued, Fronted, Stages
  <2>2. u.configTests # 0 /\ Fronted(u)
    BY <1>3, <1>7, <2>1 DEF SameControl, Queued
  <2>3. Stay(u, n)
    BY <1>7, <2>2, StayStep
  <2>. QED
    BY <1>4, <2>3, StayThen, StayAll
<1>8. CASE \E p \in ToSet(u.active) : a \in u.acts[p].children /\ n = ChildDone(u, p, a)
  <2>1. PICK p \in ToSet(u.active) : a \in u.acts[p].children /\ n = ChildDone(u, p, a)
    BY <1>8
  <2>2. p \in DOMAIN u.acts
    BY <1>3, <2>1, Indices
  <2>3. Stay(u, n)
    BY <1>3, <2>1, <2>2, StayChildDone
  <2>. QED
    BY <1>4, <2>3, StayThen, StayAll
<1>. QED
  BY <1>2, <1>5, <1>6, <1>7, <1>8 DEF CompletedAs

\* A host that failed to load runs nothing and loses its name.
LEMMA NamedFailed ==
    ASSUME NEW m \in SlaveState, Queued(m), m.posted # << >>,
           NEW e, e = Head(m.posted), NEW h \in Clients, e = ClientEvent(h, "load", FALSE),
           NEW t \in SlaveState, t.posted = Tail(m.posted), SameQueue(m, t), SameHosts(m, t),
           SameControl(m, t), AllNamed(m), Accounted(m, host[h], h),
           NEW n, Stay(RemoveClient(t, h), n)
    PROVE  AllNamed(n) /\ Onward(m, n)
<1>1. m.posted \in Seq(Event) /\ e.type = "client" /\ e \in Failures(h)
  BY StateFacts DEF ClientEvent, Failures
<1>2. PICK k : k = RemoveClient(t, h)
  OBVIOUS
<1>3. /\ k \in SlaveState /\ k.posted = t.posted /\ k.out = t.out
      /\ SameQueue(t, k) /\ SameControl(t, k) /\ k.enrolled = t.enrolled \ {h}
      /\ k.mapping = [x \in HostNames |-> IF t.mapping[x] = h THEN NoClient ELSE t.mapping[x]]
  BY <1>2, RemoveFacts
<1>4. h # NoClient /\ \A c \in Clients : c # NoClient
  BY Constants
<1>5. /\ Mapped(t) => Mapped(k)
      /\ \A c : c # h /\ c # NoClient => \A x \in HostNames : k.mapping[x] = c <=> t.mapping[x] = c
      /\ Nameless(k, h)
  <2>1. /\ k.enrolled = t.enrolled \ {h} /\ h # NoClient
        /\ k.mapping = [x \in HostNames |-> IF t.mapping[x] = h THEN NoClient ELSE t.mapping[x]]
    BY <1>3, <1>4
  <2>. QED
    BY ONLY <2>1, RemovedMap
<1>6. /\ \A c \in Clients : e \notin Failures(c) => KeptFor(m, t, c)
      /\ Mapped(m) => Mapped(t)
  BY <1>1, TakenFor DEF SameQueue
<1>7. \A c \in Clients : c # h => e \notin Failures(c)
  BY DEF Failures, ClientEvent
<1>8. \A c : SameBegins(t, k, c)
  <2>1. KeptActs(t, k)
    BY <1>3 DEF KeptActs, Starting, SameQueue
  <2>. QED
    BY <2>1, KeptBegins
<1>9. \A c \in Clients : c # h => KeptFor(t, k, c)
  BY <1>3, <1>4, <1>5, <1>8 DEF KeptFor, SameOrders, SameFailures
<1>10. SameLoad(m, k)
  BY <1>3 DEF SameLoad, Spreads, SameControl, SameQueue
<1>11. ASSUME NEW c \in Clients, c # h
       PROVE  Named(k, host[c], c)
  <2>1. KeptFor(m, k, c)
    BY <1>6, <1>7, <1>9, <1>11, KeptForThen
  <2>. QED
    BY <1>10, <2>1, StayNamed DEF AllNamed
<1>12. Named(k, host[h], h)
  <2>. SUFFICES ASSUME host[h].link \in {"off", "up"}
                PROVE  Asks(k, host[h], h) /\ Runs(k, host[h], h)
    BY DEF Named
  <2>1. Failed(m, host[h], h)
    BY <1>1, HasOnceTail DEF Failed
  <2>2. host[h].runs = Nothing
    BY <2>1 DEF AllNamed, Named, Runs
  <2>3. LoadDone(m, h)
    <3>1. e \in LoadAnswers(h)
      BY DEF LoadAnswers
    <3>. QED
      BY <1>1, <3>1, HasOnceTail DEF LoadDone
  <2>4. ~LoadOut(m, h) /\ host[h].load.stage = "none"
    BY <2>3 DEF Accounted, Accounts
  <2>5. \A o \in LoadOrders : ~Has(k.out[h], {o})
    BY <1>3, <2>4 DEF LoadOut, Has, SameHosts
  <2>6. \A a \in DOMAIN k.acts : ~Begins(k, a, h)
    <3>1. Await(m, h)
      BY <2>3 DEF Accounted, Accounts, SomeLoad
    <3>2. PICK b \in ToSet(m.active) : m.acts[b].kind = "loadHost" /\ m.acts[b].host = h
      BY <3>1 DEF Await, Waits
    <3>3. b \in DOMAIN m.acts /\ Live(m, b)
      BY <3>2, AwaitLive
    <3>4. ASSUME NEW a \in DOMAIN k.acts, Begins(k, a, h)
          PROVE  FALSE
      <4>1. a \in DOMAIN m.acts /\ a \in Nat /\ m.acts[a].kind = "loadHost" /\ m.acts[a].host = h
        BY <1>3, <3>4, StateFacts DEF Begins, SameQueue
      <4>2. Starting(m, a)
        <5>1. Starting(t, a)
          BY <1>3, <3>4 DEF Begins, Starting
        <5>2. Without(m, t, Head(m.posted))
          BY Removed
        <5>. QED
          BY <4>1, <5>1, <5>2 DEF Without
      <4>3. a = b
        BY <3>2, <3>3, <4>1, <4>2, HostLoads DEF Live
      <4>. QED
        BY <4>2, <4>3, <3>2 DEF Queued, Line
    <3>. QED
      BY <3>4
  <2>7. Asks(k, host[h], h)
    BY <2>4, <2>5, <2>6 DEF Asks
  <2>8. Runs(k, host[h], h)
    BY <1>5, <2>2 DEF Runs
  <2>. QED
    BY <2>7, <2>8
<1>13. AllNamed(k)
  BY <1>5, <1>6, <1>11, <1>12 DEF AllNamed
<1>14. Onward(m, t) /\ Onward(t, k)
  BY <1>1, <1>3, OnwardTaken, OnwardSame DEF SameQueue
<1>. QED
  BY <1>2, <1>13, <1>14, StayAll, OnwardThen

\* OnClientMessage, but for what it takes.
LEMMA NamedOnClient ==
    ASSUME NEW m \in SlaveState, Queued(m), m.posted # << >>, Head(m.posted).type = "client",
           \A c \in Clients : Accounted(m, host[c], c), AllNamed(m)
    PROVE  LET t == [m EXCEPT !.posted = Tail(@)]
               e == Head(m.posted)
           IN  /\ e.msg = "load" => Permanent \in ToSet(m.active)
               /\ e.msg # "load" => AllNamed(t) /\ Onward(m, t)
               /\ e.msg = "enroll" =>
                     AllNamed(EnrollRequest(t, e.from)) /\ Onward(m, EnrollRequest(t, e.from))
               /\ e.msg = "enrolleg" => \A n \in EnrollEGRequest(t, e.from) :
                     AllNamed(n) /\ Onward(m, n)
               /\ e.msg = "buffer" =>
                     AllNamed(BufferRequest(t, e.from)) /\ Onward(m, BufferRequest(t, e.from))
               /\ \A b \in ToSet(m.active) : Handles(m, b, e) =>
                     /\ AllNamed(HostAnswer(t, b, e.success))
                     /\ Onward(m, HostAnswer(t, b, e.success))
<1>1. PICK t, e : t = [m EXCEPT !.posted = Tail(@)] /\ e = Head(m.posted)
  OBVIOUS
<1>2. /\ t \in SlaveState /\ Queued(t) /\ t.posted = Tail(m.posted)
      /\ SameQueue(m, t) /\ SameHosts(m, t) /\ SameControl(m, t)
  BY <1>1, QueuedTaken
<1>3. e \in Event /\ e.from \in Clients /\ e.success \in BOOLEAN /\ e = ClientEvent(e.from, e.msg, e.success)
  BY <1>1, StateFacts, TailFacts, EventFacts
<1>4. ASSUME e.msg = "load"
      PROVE  Permanent \in ToSet(m.active)
  <2>1. m.posted \in Seq(Event) /\ e \in LoadAnswers(e.from)
    BY <1>3, <1>4, StateFacts DEF LoadAnswers
  <2>2. LoadDone(m, e.from)
    BY <1>1, <2>1, HasOnceTail DEF LoadDone
  <2>3. Await(m, e.from)
    BY <1>3, <2>2 DEF Accounted, Accounts, SomeLoad
  <2>. QED
    BY <2>3, AwaitLive, HostLoads DEF Await, Waits
<1>5. ASSUME e.msg # "load"
      PROVE  Stay(m, t)
  BY <1>1, <1>2, <1>5, StayTaken DEF SameQueue, SameControl
<1>6. ASSUME e.msg = "enroll"
      PROVE  Stay(m, EnrollRequest(t, e.from))
  BY <1>2, <1>3, <1>5, <1>6, StayEnroll, StayThen
<1>7. ASSUME e.msg = "enrolleg", NEW n \in EnrollEGRequest(t, e.from)
      PROVE  Stay(m, n)
  BY <1>2, <1>3, <1>5, <1>7, StayEnrollEG, StayThen
<1>8. ASSUME e.msg = "buffer"
      PROVE  Stay(m, BufferRequest(t, e.from))
  BY <1>2, <1>3, <1>5, <1>8, StayBuffer, StayThen
<1>9. ASSUME NEW b \in ToSet(m.active), Handles(m, b, e)
      PROVE  /\ AllNamed(HostAnswer(t, b, e.success))
             /\ Onward(m, HostAnswer(t, b, e.success))
  <2>1. b \in DOMAIN t.acts /\ t.acts = m.acts
    BY <1>2, Indices DEF SameQueue
  <2>2. PICK ok \in BOOLEAN : ok = e.success
    BY <1>3
  <2>3. PICK n : n = HostAnswer(t, b, ok)
    OBVIOUS
  <2>4. LET left == IF t.acts[b].kind = "loadHost" /\ ~ok
                    THEN RemoveClient(t, t.acts[b].host) ELSE t
        IN  left \in SlaveState /\ Stay(left, n)
    BY ONLY <1>2, <2>1, <2>3, StayAnswer
  <2>5. CASE t.acts[b].kind = "loadHost" /\ ~ok
    <3>1. t.acts[b].host = e.from /\ e.msg = "load"
      BY <1>9, <2>1, <2>5 DEF Handles
    <3>2. Stay(RemoveClient(t, e.from), n)
      BY <2>4, <2>5, <3>1
    <3>3. e = ClientEvent(e.from, "load", FALSE)
      BY <1>3, <2>2, <2>5, <3>1
    <3>4. PICK h \in Clients : h = e.from
      BY <1>3
    <3>5. e = Head(m.posted) /\ e = ClientEvent(h, "load", FALSE) /\ Accounted(m, host[h], h)
          /\ Stay(RemoveClient(t, h), n)
      BY <1>1, <3>2, <3>3, <3>4
    <3>6. AllNamed(n) /\ Onward(m, n)
      BY <1>2, <3>5, NamedFailed
    <3>. QED
      BY <2>2, <2>3, <3>6
  <2>6. CASE ~(t.acts[b].kind = "loadHost" /\ ~ok)
    <3>1. Stay(t, n)
      BY <2>4, <2>6
    <3>2. Stay(m, t)
      <4>1. \A c : e \notin Failures(c)
        <5>1. \A c : e \in Failures(c) => e.msg = "load" /\ e.success = FALSE
          BY DEF Failures, ClientEvent
        <5>2. e.msg = "load" => t.acts[b].kind = "loadHost"
          <6>1. m.acts[b].config \in Config \cup {"none"}
            BY <2>1, StateFacts, ActivityFacts
          <6>. QED
            BY <1>9, <2>1, <6>1 DEF Handles, Config
        <5>. QED
          BY <2>2, <2>6, <5>1, <5>2
      <4>2. Kept(m, t)
        BY <1>1, <1>2, <4>1, TakenFor DEF Kept, SameQueue
      <4>3. Onward(m, t)
        BY <1>1, <1>2, OnwardTaken DEF SameQueue
      <4>. QED
        BY <1>2, <4>2, <4>3 DEF Stay, SameLoad, Spreads, SameControl, SameQueue
    <3>. QED
      BY <2>2, <2>3, <3>1, <3>2, StayThen, StayAll
  <2>. QED
    BY <2>5, <2>6
<1>10. ASSUME e.msg # "load"
       PROVE  AllNamed(t) /\ Onward(m, t)
  BY <1>5, <1>10, StayAll
<1>11. ASSUME e.msg = "enroll"
       PROVE  AllNamed(EnrollRequest(t, e.from)) /\ Onward(m, EnrollRequest(t, e.from))
  BY <1>6, <1>11, StayAll
<1>12. ASSUME e.msg = "enrolleg", NEW n \in EnrollEGRequest(t, e.from)
       PROVE  AllNamed(n) /\ Onward(m, n)
  BY <1>7, <1>12, StayAll
<1>13. ASSUME e.msg = "buffer"
       PROVE  AllNamed(BufferRequest(t, e.from)) /\ Onward(m, BufferRequest(t, e.from))
  BY <1>8, <1>13, StayAll
<1>. QED
  BY ONLY <1>1, <1>4, <1>9, <1>10, <1>11, <1>12, <1>13

\* LoadHostProgramActivity starts: its host is asked to load.
LEMMA NamedLoadHost ==
    ASSUME NEW m \in SlaveState, Queued(m), m.posted # << >>,
           NEW a, Head(m.posted) = StartEvent(a), NEW k \in SlaveState, Activated(m, k, a),
           m.acts[a].kind = "loadHost", NEW n \in Start(k, a),
           \A c \in Clients : Accounted(m, host[c], c), AllNamed(m)
    PROVE  AllNamed(n) /\ Onward(m, n)
<1>1. /\ k.posted = Tail(m.posted) /\ k.acts = m.acts /\ SameControl(m, k) /\ SameHosts(m, k)
      /\ a \in DOMAIN m.acts /\ a \in Nat /\ ToSet(k.active) = ToSet(m.active) \cup {a}
      /\ Starting(m, a)
  BY StateFacts DEF Activated
<1>2. PICK act : act = m.acts[a] /\ act \in Activity
  BY <1>1, StateFacts
<1>3. PICK h \in Clients : h = act.host
  BY <1>1, <1>2 DEF Queued, Family, Singles
<1>4. PICK o : o = [msg |-> "load", name |-> act.name, program |-> act.program]
  OBVIOUS
<1>5. o \in Order /\ o \in LoadOrders /\ LoadWhat(o) = LoadWhat(act)
  BY <1>2, <1>4, LoadOrderOf DEF LoadWhat
<1>6. n = AskHost(k, a, o)
  BY <1>1, <1>2, <1>4 DEF Start
<1>7. m.posted \in Seq(Event) /\ \A c \in Clients : m.out[c] \in Seq(Order)
  BY StateFacts
<1>8. \A b \in Nat : Starting(m, b) <=> Starting(k, b) \/ b = a
  <2>1. Head(m.posted).type = "start" /\ Head(m.posted).act = a
    BY <1>1, EventFacts
  <2>2. Without(m, k, Head(m.posted))
    BY <1>1, Removed
  <2>. QED
    BY <2>1, <2>2 DEF Without
<1>9. \A b \in DOMAIN m.acts : b \in Nat
  BY StateFacts
<1>10. \A c \in Clients : SameFailures(m, k, c)
  <2>1. \A c : Head(m.posted) \notin Failures(c)
    BY DEF Failures, ClientEvent, StartEvent
  <2>. QED
    BY <1>1, <1>7, <2>1, HasOnceTail DEF SameFailures
<1>11. ASSUME NEW c \in Clients, c # h
       PROVE  KeptFor(m, k, c)
  <2>1. SameBegins(m, k, c)
    BY <1>1, <1>2, <1>3, <1>8, <1>9, <1>11 DEF SameBegins, Begins
  <2>. QED
    BY <1>1, <1>10, <2>1 DEF KeptFor, SameHosts, SameOrders
<1>12. Mapped(m) => Mapped(k)
  BY <1>1 DEF Mapped, OneName, SameHosts
<1>13. SameLoad(m, k)
  <2>1. m.loadHosts # a
    BY <1>1 DEF Queued, Fronted, Stages, Live
  <2>. QED
    BY <1>1, <2>1 DEF SameLoad, Spreads, SameControl
<1>14. \A c \in Clients : c # h => Named(k, host[c], c)
  BY <1>11, <1>13, StayNamed DEF AllNamed
<1>18. Onward(m, k)
  <2>1. Head(m.posted).type = "start"
    BY <1>1, EventFacts
  <2>. QED
    BY <1>1, <2>1, OnwardTaken
<1>15. host[h].link # "off"
  <2>1. h \in Known(m)
    BY <1>1, <1>2, <1>3 DEF Known
  <2>. QED
    BY <1>3, <2>1 DEF Accounted, Absent
<1>16. CASE ~Present(h)
  <2>1. Named(k, host[h], h)
    BY <1>16 DEF Named, Present
  <2>2. AllNamed(k)
    BY <1>12, <1>14, <2>1 DEF AllNamed
  <2>3. Stay(k, n)
    <3>1. CASE Sendable(h)
      <4>1. n = Send(k, h, o)
        BY <1>1, <1>2, <1>3, <1>6, <3>1 DEF AskHost
      <4>2. n = k
        BY <1>16, <4>1 DEF Send, Present
      <4>. QED
        BY <4>2, StaySame
    <3>2. CASE ~Sendable(h)
      <4>1. PICK left : left = RemoveClient(k, h)
        OBVIOUS
      <4>2. left \in SlaveState /\ Stay(k, left)
        BY <1>16, <4>1, StayRemove
      <4>3. Stay(left, Complete(left, a))
        BY <1>1, <4>2, StayComplete
      <4>4. n = Complete(left, a)
        BY <1>1, <1>2, <1>3, <1>6, <3>2, <4>1 DEF AskHost
      <4>. QED
        BY <4>2, <4>3, <4>4, StayThen
    <3>. QED
      BY <3>1, <3>2
  <2>. QED
    BY <1>18, <2>2, <2>3, StayAll, OnwardThen
<1>17. CASE Present(h)
  <2>1. host[h].link = "up" /\ Sendable(h)
    BY <1>15, <1>17 DEF Present, Sendable
  <2>2. n = Send(k, h, o)
    BY <1>1, <1>2, <1>3, <1>6, <2>1 DEF AskHost
  <2>3. /\ n.posted = k.posted /\ SameQueue(k, n) /\ SameControl(k, n)
        /\ n.enrolled = k.enrolled /\ n.mapping = k.mapping
        /\ \A c \in Clients : n.out[c] = IF c = h /\ host[h].link = "up"
                                         THEN Append(k.out[c], o) ELSE k.out[c]
    BY <1>5, <2>2, SendFacts
  <2>4. \A c : SameBegins(k, n, c)
    <3>1. KeptActs(k, n)
      BY <2>3 DEF KeptActs, Starting, SameQueue
    <3>. QED
      BY <3>1, KeptBegins
  <2>5. \A c \in Clients : c # h => KeptFor(k, n, c)
    BY <2>3, <2>4 DEF KeptFor, SameOrders, SameFailures
  <2>6. SameLoad(k, n)
    BY <2>3 DEF SameLoad, Spreads, SameControl, SameQueue
  <2>7. \A c \in Clients : c # h => Named(n, host[c], c)
    BY <1>14, <2>5, <2>6, StayNamed
  <2>8. Mapped(n)
    BY <1>12, <2>3 DEF Mapped, OneName, AllNamed
  <2>9. Begins(m, a, h)
    BY <1>1, <1>2, <1>3 DEF Begins
  <2>10. Asks(m, host[h], h) /\ Runs(m, host[h], h) /\ Undone(m, host[h], h)
    BY <1>1, <1>17, <2>9 DEF AllNamed, Named, Present, Undone
  <2>11. /\ n.loading = m.loading /\ n.mapping = m.mapping /\ n.enrolled = m.enrolled
         /\ n.acts = m.acts /\ n.posted = k.posted
         /\ n.out[h] = Append(m.out[h], o)
    BY <1>1, <2>1, <2>3 DEF SameControl, SameHosts, SameQueue
  <2>12. \A what : Right(m, h, what) => Right(n, h, what)
    BY <2>11 DEF Right, Nameless
  <2>13. \A b \in DOMAIN n.acts : Begins(n, b, h) => Begins(m, b, h)
    BY <1>8, <1>9, <2>11 DEF Begins, Starting
  <2>14. \A p \in LoadOrders : Has(n.out[h], {p}) <=> Has(m.out[h], {p}) \/ o \in {p}
    BY <1>5, <1>7, <2>11, HasOnceAppend
  <2>15. Right(m, h, LoadWhat(o))
    BY <1>1, <1>2, <1>5, <2>9, <2>10 DEF Asks
  <2>16. Asks(n, host[h], h)
    BY <2>10, <2>11, <2>12, <2>13, <2>14, <2>15 DEF Asks
  <2>17. Undone(n, host[h], h)
    BY <1>5, <2>14 DEF Undone
  <2>18. Failed(n, host[h], h) <=> Failed(m, host[h], h)
    BY <1>10, <2>11 DEF Failed, SameFailures
  <2>19. Runs(n, host[h], h)
    BY <2>10, <2>11, <2>17, <2>18 DEF Runs
  <2>20. Named(n, host[h], h)
    BY <2>16, <2>19 DEF Named
  <2>21. Onward(k, n)
    BY <2>3, OnwardSame DEF SameQueue
  <2>. QED
    BY <1>18, <2>7, <2>8, <2>20, <2>21, OnwardThen DEF AllNamed
<1>. QED
  BY <1>16, <1>17

\* LoadHostsProgramActivity makes a LoadHostProgramActivity for each host.
LEMMA LoadsBegin ==
    ASSUME NEW m \in SlaveState, NEW a \in DOMAIN m.acts, NEW new \in Seq(Activity),
           \A i \in DOMAIN new : new[i].kind = "loadHost"
    PROVE  LET n == StartChildren(m, a, new)
           IN  /\ Onward(m, n) /\ SameHosts(m, n)
               /\ \A c \in Clients : SameFailures(m, n, c)
               /\ \A c : \A b \in DOMAIN n.acts : Begins(n, b, c) =>
                     \/ b \in DOMAIN m.acts /\ Begins(m, b, c)
                     \/ \E i \in DOMAIN new : n.acts[b] = new[i]
               /\ \A i \in DOMAIN new : \E b \in DOMAIN n.acts : Begins(n, b, new[i].host)
<1>1. CASE new = << >>
  <2>1. a \in Nat
    BY StateFacts
  <2>2. PICK n : n = Complete(m, a)
    OBVIOUS
  <2>3. n.posted = Append(m.posted, CompleteEvent(a)) /\ SameQueue(m, n) /\ SameControl(m, n) /\ SameHosts(m, n)
    BY <2>1, <2>2, CompleteFacts
  <2>4. m.posted \in Seq(Event) /\ CompleteEvent(a) \in Event
    BY <2>1, StateFacts, EventFacts
  <2>5. \A c \in Clients : SameFailures(m, n, c)
    <3>1. \A c : CompleteEvent(a) \notin Failures(c)
      BY DEF Failures, ClientEvent, CompleteEvent
    <3>. QED
      BY <2>3, <2>4, <3>1, HasOnceAppend DEF SameFailures
  <2>6. \A c : \A b \in DOMAIN n.acts : Begins(n, b, c) => b \in DOMAIN m.acts /\ Begins(m, b, c)
    <3>1. \A b : CompleteEvent(a) # StartEvent(b)
      BY DEF CompleteEvent, StartEvent
    <3>2. \A b : Starting(n, b) <=> Starting(m, b)
      BY <2>3, <2>4, <3>1, HasOnceAppend DEF Starting
    <3>. QED
      BY <2>3, <3>2 DEF Begins, SameQueue
  <2>7. StartChildren(m, a, new) = n
    BY <1>1, <2>2 DEF StartChildren
  <2>8. Onward(m, n)
    BY <2>1, <2>2, StayComplete DEF Stay
  <2>. QED
    BY <1>1, <2>3, <2>5, <2>6, <2>7, <2>8
<1>2. CASE new # << >>
  <2>1. PICK S, act : S = {Len(m.acts) + i : i \in DOMAIN new} /\ act = [m.acts[a] EXCEPT !.children = S]
    OBVIOUS
  <2>2. m.acts[a] \in Activity /\ S \in SUBSET Nat
    BY <2>1, StateFacts
  <2>3. /\ act \in Activity /\ act.kind = m.acts[a].kind /\ act.host = m.acts[a].host
        /\ act.name = m.acts[a].name /\ act.program = m.acts[a].program
    <3>1. PICK r : r = m.acts[a]
      OBVIOUS
    <3>2. r \in Activity /\ act = [r EXCEPT !.children = S]
      BY <2>1, <2>2, <3>1
    <3>3. /\ act \in Activity /\ act.kind = r.kind /\ act.host = r.host /\ act.name = r.name
          /\ act.program = r.program
      BY ONLY <2>2, <3>2, ActivityFacts
    <3>. QED
      BY <3>1, <3>3
  <2>4. PICK k : k = [m EXCEPT !.acts[a] = act]
    OBVIOUS
  <2>5. /\ k \in SlaveState /\ k.posted = m.posted /\ SameControl(m, k) /\ SameHosts(m, k)
        /\ k.active = m.active /\ DOMAIN k.acts = DOMAIN m.acts /\ k.acts[a] = act
        /\ \A b \in DOMAIN m.acts : b # a => k.acts[b] = m.acts[b]
    BY <2>3, <2>4, ActFacts
  <2>6. PICK n : n = StartActivities(k, new)
    OBVIOUS
  <2>7. PICK es : es = [i \in 1 .. Len(new) |-> StartEvent(Len(k.acts) + i)]
    OBVIOUS
  <2>8. SameControl(k, n) /\ SameHosts(k, n) /\ n.posted = k.posted \o es /\ es \in Seq(Event)
    BY <2>5, <2>6, <2>7, NewFacts
  <2>9. /\ \A b \in DOMAIN k.acts : b \in DOMAIN n.acts /\ n.acts[b] = k.acts[b]
        /\ \A i \in DOMAIN new : /\ Len(k.acts) + i \in DOMAIN n.acts
                                 /\ n.acts[Len(k.acts) + i] = new[i]
        /\ \A b \in DOMAIN n.acts \ DOMAIN k.acts :
              b - Len(k.acts) \in DOMAIN new /\ n.acts[b] = new[b - Len(k.acts)]
        /\ \A b \in Nat : Starting(n, b) <=> Starting(k, b) \/ b \in DOMAIN n.acts \ DOMAIN k.acts
        /\ DOMAIN k.acts = 1 .. Len(k.acts) /\ Len(k.acts) \in Nat
        /\ DOMAIN n.acts = 1 .. Len(k.acts) + Len(new)
    <3>1. LET u == StartActivities(k, new)
          IN  /\ u \in SlaveState /\ SameControl(k, u) /\ SameHosts(k, u)
              /\ u.process = k.process /\ u.active = k.active /\ u.pending = k.pending
              /\ Len(u.acts) = Len(k.acts) + Len(new) /\ Len(k.acts) \in Nat
              /\ DOMAIN k.acts = 1 .. Len(k.acts)
              /\ DOMAIN u.acts = 1 .. Len(k.acts) + Len(new)
              /\ \A b \in DOMAIN k.acts : b \in DOMAIN u.acts /\ u.acts[b] = k.acts[b]
              /\ \A i \in DOMAIN new : /\ Len(k.acts) + i \in DOMAIN u.acts
                                       /\ u.acts[Len(k.acts) + i] = new[i]
              /\ \A b \in DOMAIN u.acts \ DOMAIN k.acts :
                    b - Len(k.acts) \in DOMAIN new /\ u.acts[b] = new[b - Len(k.acts)]
              /\ \A b \in Nat :
                    /\ Starting(u, b) <=> Starting(k, b) \/ b \in DOMAIN u.acts \ DOMAIN k.acts
                    /\ Ending(u, b) <=> Ending(k, b)
                    /\ Once(k.posted, {StartEvent(b)}) /\ (Starting(k, b) => b \in DOMAIN k.acts)
                       => Once(u.posted, {StartEvent(b)})
              /\ Requested(u) <=> Requested(k)
              /\ Once(k.posted, LoadRequests) => Once(u.posted, LoadRequests)
      BY <2>5, Made, Zenon
    <3>. QED
      BY ONLY <2>6, <3>1, Zenon
  <2>10. DOMAIN new \subseteq Nat /\ \A i \in DOMAIN new : i >= 1
    BY LenProperties
  <2>11. ASSUME NEW i \in DOMAIN new
         PROVE  \E b \in DOMAIN n.acts : Begins(n, b, new[i].host)
    <3>1. PICK b : b = Len(k.acts) + i
      OBVIOUS
    <3>2. b \in Nat /\ b \notin DOMAIN k.acts
      BY <2>9, <2>10, <3>1
    <3>3. b \in DOMAIN n.acts /\ n.acts[b] = new[i]
      BY <2>9, <3>1
    <3>4. Begins(n, b, new[i].host)
      BY <2>9, <3>2, <3>3 DEF Begins
    <3>. QED
      BY <3>3, <3>4
  <2>12. ASSUME NEW c, NEW b \in DOMAIN n.acts, Begins(n, b, c)
         PROVE  \/ b \in DOMAIN m.acts /\ Begins(m, b, c)
                \/ \E i \in DOMAIN new : n.acts[b] = new[i]
    <3>1. CASE b \in DOMAIN k.acts
      <4>1. b \in Nat /\ Starting(k, b)
        BY <2>9, <2>12, <3>1 DEF Begins
      <4>2. n.acts[b] = k.acts[b] /\ k.acts[b].kind = m.acts[b].kind /\ k.acts[b].host = m.acts[b].host
        BY <2>3, <2>5, <2>9, <3>1
      <4>. QED
        BY <2>5, <2>12, <3>1, <4>1, <4>2 DEF Begins, Starting
    <3>2. CASE b \notin DOMAIN k.acts
      BY <2>9, <3>2
    <3>. QED
      BY <3>1, <3>2
  <2>13. ASSUME NEW c \in Clients
         PROVE  SameFailures(m, n, c)
    <3>1. \A i \in DOMAIN es : es[i] \notin Failures(c)
      BY <2>7 DEF StartEvent, Failures, ClientEvent
    <3>2. ~Has(es, Failures(c))
      BY <3>1 DEF Has
    <3>3. k.posted \in Seq(Event)
      BY <2>5, StateFacts
    <3>. QED
      BY <2>5, <2>8, <3>2, <3>3, HasOnceConcat DEF SameFailures
  <2>14. StartChildren(m, a, new) = n
    <3>1. k = [m EXCEPT !.acts[a].children = S]
      BY <2>1, <2>4
    <3>. QED
      BY <1>2, <2>1, <2>6, <3>1 DEF StartChildren
  <2>15. SameHosts(m, n)
    BY <2>5, <2>8 DEF SameHosts
  <2>16. Onward(m, n)
    BY <2>5, <2>6, OnwardSame, OnwardNew, OnwardThen
  <2>. QED
    BY ONLY <2>11, <2>12, <2>13, <2>14, <2>15, <2>16
<1>. QED
  BY <1>1, <1>2

\* LoadHostsProgramActivity starts: with the map the names are anew; a host that
\* keeps its name, or has none, is right before and after.
LEMMA NamedLoads ==
    ASSUME NEW m \in SlaveState, Queued(m), NEW c \in Clients, NEW h, Accounted(m, h, c),
           m.loadHosts \notin ToSet(m.active), Named(m, h, c), OneName(m),
           NEW r, Assigning(r, m, Wanted(m.loading)),
           NEW new \in Seq(Activity),
           \A i \in DOMAIN new : new[i].kind = "loadHost" /\ Rightly(new[i], r, m.loading),
           \A d \in m.enrolled : \E i \in DOMAIN new : new[i].host = d,
           NEW n, n.loading = m.loading, n.mapping = r.new, n.enrolled = m.enrolled,
           n.out = m.out, SameFailures(m, n, c),
           \A b \in DOMAIN n.acts : Begins(n, b, c) =>
              (b \in DOMAIN m.acts /\ Begins(m, b, c)) \/ \E i \in DOMAIN new : n.acts[b] = new[i],
           \A i \in DOMAIN new : \E b \in DOMAIN n.acts : Begins(n, b, new[i].host)
    PROVE  Named(n, h, c)
<1>. SUFFICES ASSUME h.link \in {"off", "up"}
              PROVE  Asks(n, h, c) /\ Runs(n, h, c)
  BY DEF Named
<1>1. PICK p, w : p \in Program /\ p = m.loading /\ w = Wanted(p)
  BY StateFacts
<1>2. ~Undone(m, h, c) /\ ~Failed(m, h, c)
  BY Idle
<1>3. Runs(m, h, c)
  BY DEF Named
<1>4. /\ Fits(r, m, w)
      /\ \A j \in DOMAIN w : Stays(m, w, j) => r.new[w[j].name] = m.mapping[w[j].name]
  BY <1>1 DEF Assigning
<1>5. /\ \A x \in HostNames : r.new[x] # NoClient =>
            /\ r.new[x] \in m.enrolled \ r.avail
            /\ \E j \in DOMAIN w : w[j] = [process |-> ProcessOf[r.new[x]], name |-> x]
      /\ r.avail \subseteq m.enrolled /\ c # NoClient
  BY <1>4, Constants DEF Fits
<1>6. p # NoProgram => p \in ProgramNames /\ w = WantedBy[p]
  BY <1>1, Constants DEF Wanted, Program
<1>7. p = NoProgram => DOMAIN w = {}
  BY <1>1 DEF Wanted
<1>8. ASSUME NEW i \in DOMAIN new, new[i].host = c
      PROVE  Right(n, c, LoadWhat(new[i]))
  <2>1. CASE c \in r.avail
    <3>1. new[i].name = NoName /\ new[i].program = NoProgram
      BY <1>8, <2>1 DEF Rightly
    <3>2. Nameless(n, c)
      BY <1>5, <2>1 DEF Nameless
    <3>. QED
      BY <3>1, <3>2 DEF Right, LoadWhat, Nothing
  <2>2. CASE c \notin r.avail
    <3>1. new[i].name \in HostNames /\ new[i].program = p /\ r.new[new[i].name] = c
      BY <1>1, <1>8, <2>2 DEF Rightly
    <3>2. \E j \in DOMAIN w : w[j] = [process |-> ProcessOf[c], name |-> new[i].name]
      BY <1>5, <3>1
    <3>3. p \in ProgramNames /\ w = WantedBy[p]
      BY <1>6, <1>7, <3>2
    <3>. QED
      BY <1>1, <3>1, <3>2, <3>3 DEF Right, Wants, LoadWhat
  <2>. QED
    BY <2>1, <2>2
<1>9. ASSUME NEW b \in DOMAIN n.acts, Begins(n, b, c)
      PROVE  Right(n, c, LoadWhat(n.acts[b]))
  <2>1. PICK i \in DOMAIN new : n.acts[b] = new[i]
    BY <1>2, <1>9 DEF Undone
  <2>. QED
    BY <1>8, <1>9, <2>1 DEF Begins
<1>10. Asks(n, h, c)
  BY <1>2, <1>9 DEF Asks, Undone
<1>11. ~Failed(n, h, c)
  BY <1>2 DEF Failed, SameFailures
<1>12. c \in m.enrolled => Undone(n, h, c)
  BY DEF Undone
<1>13. ASSUME h.runs # Nothing
       PROVE  /\ c \in n.enrolled /\ Wants(c, h.runs)
              /\ h.runs.program = n.loading => n.mapping[h.runs.name] = c
  <2>1. c \in m.enrolled /\ Wants(c, h.runs) /\ m.mapping[h.runs.name] = c
    BY <1>2, <1>3, <1>13 DEF Runs
  <2>2. ASSUME h.runs.program = p
        PROVE  r.new[h.runs.name] = c
    <3>1. p \in ProgramNames /\ w = WantedBy[p]
      BY <1>6, <2>1, <2>2, Constants DEF Wants
    <3>2. PICK j \in DOMAIN w : w[j] = [process |-> ProcessOf[c], name |-> h.runs.name]
      BY <2>1, <2>2, <3>1 DEF Wants
    <3>3. Stays(m, w, j)
      BY <2>1, <3>2 DEF Stays
    <3>. QED
      BY <1>4, <2>1, <3>2, <3>3
  <2>. QED
    BY <1>1, <2>1, <2>2
<1>14. c \notin m.enrolled => h.runs = Nothing /\ Nameless(n, c)
  BY <1>5, <1>13 DEF Nameless
<1>15. Runs(n, h, c)
  BY <1>11, <1>12, <1>13, <1>14 DEF Runs
<1>. QED
  BY <1>10, <1>15

LEMMA NamedLoadHosts ==
    ASSUME NEW m \in SlaveState, Queued(m), m.posted # << >>,
           NEW a, Head(m.posted) = StartEvent(a), NEW k \in SlaveState, Activated(m, k, a),
           m.acts[a].kind = "loadHosts", NEW n \in Start(k, a),
           \A c \in Clients : Accounted(m, host[c], c), AllNamed(m)
    PROVE  AllNamed(n) /\ Onward(m, n)
<1>1. /\ k.posted = Tail(m.posted) /\ k.acts = m.acts /\ SameControl(m, k) /\ SameHosts(m, k)
      /\ a \in DOMAIN m.acts /\ a \in Nat /\ a \notin ToSet(m.active) /\ Starting(m, a)
  BY StateFacts DEF Activated
<1>2. a = m.loadHosts /\ m.loading = m.acts[a].program
  BY <1>1 DEF Queued, Fronted, Stages, Live, Busy
<1>3. /\ \A c \in Clients : KeptFor(m, k, c)
      /\ Mapped(k) /\ Onward(m, k)
  <2>1. Head(m.posted).type = "start" /\ Head(m.posted).act = a
    BY <1>1, EventFacts
  <2>2. \A c : Head(m.posted) \notin Failures(c)
    BY DEF Failures, ClientEvent, StartEvent
  <2>3. (\A c \in Clients : KeptFor(m, k, c)) /\ Mapped(k)
    BY <1>1, <2>1, <2>2, TakenFor DEF AllNamed
  <2>4. ToSet(k.active) = ToSet(m.active) \cup {a}
    BY DEF Activated
  <2>5. Onward(m, k)
    BY <1>1, <2>1, <2>4, OnwardTaken
  <2>. QED
    BY <2>3, <2>5
<1>4. n \in StartLoadHosts(k, a) /\ a \in DOMAIN k.acts
  BY <1>1 DEF Start
<1>5. PICK w, r : w = Wanted(m.loading) /\ r = Remapped(k, w)
  OBVIOUS
<1>6. /\ Assigning(r, k, w)
      /\ \/ n = Complete(k, a) /\ m.loading \in ProgramNames \ Readable
         \/ n = [k EXCEPT !.process = "malformed"] /\ m.loading \in Malformed
         \/ \E l \in SlaveState, new \in Seq(Activity) :
               n = StartChildren(l, a, new) /\ AsLoads(k, a, r, l, new)
  BY <1>1, <1>2, <1>4, <1>5, LoadHostsFacts
<1>7. CASE \/ n = Complete(k, a) /\ m.loading \in ProgramNames \ Readable
           \/ n = [k EXCEPT !.process = "malformed"] /\ m.loading \in Malformed
  <2>1. Stay(k, n)
    <3>1. CASE n = Complete(k, a)
      BY <1>1, <3>1, StayComplete
    <3>2. CASE n = [k EXCEPT !.process = "malformed"]
      BY <3>2, ProcessFacts, StayHosts DEF SameHosts
    <3>. QED
      BY <1>7, <3>1, <3>2
  <2>2. Onward(m, n)
    BY <1>3, <2>1, OnwardThen DEF Stay
  <2>3. ~Spreads(n)
    <3>1. m.loading \notin Loadable \cup {NoProgram}
      BY <1>7, Constants, SlaveAssumption DEF Loadable
    <3>2. n.loading = m.loading
      BY <2>2 DEF Onward
    <3>. QED
      BY ONLY <3>1, <3>2 DEF Spreads
  <2>4. Kept(m, n)
    BY <1>3, <2>1, KeptThen DEF Stay, Kept
  <2>5. AllNamed(n)
    BY <1>1, <1>2, <2>3, <2>4, IdleAll
  <2>. QED
    BY <2>2, <2>5
<1>8. ASSUME NEW l \in SlaveState, NEW new \in Seq(Activity),
             n = StartChildren(l, a, new), AsLoads(k, a, r, l, new)
      PROVE  AllNamed(n) /\ Onward(m, n)
  <2>1. /\ l.mapping = r.new /\ l.enrolled = k.enrolled /\ l.out = k.out /\ l.posted = k.posted
        /\ l.acts = k.acts /\ l.active = k.active /\ SameControl(k, l)
        /\ \A i \in DOMAIN new : /\ new[i].kind = "loadHost"
                                 /\ Rightly(new[i], r, m.loading)
        /\ \A c \in k.enrolled : \E i \in DOMAIN new : new[i].host = c
    BY <1>1, <1>2, <1>8 DEF AsLoads, SameQueue
  <2>2. /\ Onward(l, n) /\ SameHosts(l, n)
        /\ \A c \in Clients : SameFailures(l, n, c)
        /\ \A c : \A b \in DOMAIN n.acts : Begins(n, b, c) =>
              \/ b \in DOMAIN l.acts /\ Begins(l, b, c)
              \/ \E i \in DOMAIN new : n.acts[b] = new[i]
        /\ \A i \in DOMAIN new : \E b \in DOMAIN n.acts : Begins(n, b, new[i].host)
    BY <1>1, <1>8, <2>1, LoadsBegin
  <2>9. Onward(m, n)
    BY <1>3, <2>1, <2>2, OnwardSame, OnwardThen
  <2>3. /\ n.loading = m.loading /\ n.mapping = r.new
        /\ n.enrolled = m.enrolled /\ n.out = m.out
    BY <1>1, <2>1, <2>2, <2>9 DEF SameHosts, Onward
  <2>4. \A c \in Clients : SameFailures(m, n, c)
    BY <1>3, <2>1, <2>2 DEF KeptFor, SameFailures
  <2>5. ASSUME NEW c \in Clients, NEW b \in DOMAIN n.acts, Begins(n, b, c)
        PROVE  \/ b \in DOMAIN m.acts /\ Begins(m, b, c)
               \/ \E i \in DOMAIN new : n.acts[b] = new[i]
    <3>1. CASE b \in DOMAIN l.acts /\ Begins(l, b, c)
      <4>1. b \in DOMAIN k.acts /\ Begins(k, b, c)
        BY <2>1, <3>1 DEF Begins, Starting
      <4>. QED
        BY <1>3, <4>1 DEF KeptFor, SameBegins
    <3>. QED
      BY <2>2, <2>5, <3>1
  <2>6. Assigning(r, m, w)
    BY <1>1, <1>6 DEF Assigning, Fits, OneName, Stays, SameHosts
  <2>7. ASSUME NEW c \in Clients
        PROVE  Named(n, host[c], c)
    <3>1. Named(m, host[c], c) /\ OneName(m) /\ Accounted(m, host[c], c)
      BY DEF AllNamed, Mapped
    <3>2. /\ Assigning(r, m, Wanted(m.loading)) /\ m.loadHosts \notin ToSet(m.active)
          /\ \A d \in m.enrolled : \E i \in DOMAIN new : new[i].host = d
      BY <1>1, <1>2, <1>5, <2>1, <2>6 DEF SameHosts
    <3>. QED
      BY <2>1, <2>2, <2>3, <2>4, <2>5, <3>1, <3>2, NamedLoads
  <2>8. Mapped(n)
    <3>1. /\ \A x \in HostNames : r.new[x] # NoClient => r.new[x] \in m.enrolled
          /\ \A i, x \in HostNames : r.new[i] = r.new[x] /\ r.new[i] # NoClient => i = x
      BY <2>6 DEF Assigning, Fits
    <3>. QED
      BY <2>3, <3>1 DEF Mapped, OneName
  <2>. QED
    BY <2>7, <2>8, <2>9 DEF AllNamed
<1>. QED
  BY <1>6, <1>7, <1>8

\* OnStartActivity.
LEMMA NamedOnStart ==
    ASSUME NEW m \in SlaveState, Queued(m), m.posted # << >>, Head(m.posted).type = "start",
           NEW n \in AQ!Starts([m EXCEPT !.posted = Tail(@)], Head(m.posted).act),
           \A c \in Clients : Accounted(m, host[c], c), AllNamed(m)
    PROVE  AllNamed(n) /\ Onward(m, n)
<1>1. PICK a : a = Head(m.posted).act
  OBVIOUS
<1>2. PICK k \in SlaveState : Activated(m, k, a) /\ n \in Start(k, a)
  BY <1>1, StartsFacts, Zenon
<1>3. Head(m.posted) = StartEvent(a)
  <2>1. Head(m.posted) \in Event
    BY StateFacts, TailFacts
  <2>. QED
    BY <1>1, <2>1, EventFacts
<1>4. CASE m.acts[a].kind = "loadHost"
  BY <1>2, <1>3, <1>4, NamedLoadHost
<1>5. CASE m.acts[a].kind = "loadHosts"
  BY <1>2, <1>3, <1>5, NamedLoadHosts
<1>6. CASE m.acts[a].kind \notin {"loadHost", "loadHosts"}
  <2>1. /\ k.posted = Tail(m.posted) /\ k.acts = m.acts /\ SameControl(m, k) /\ SameHosts(m, k)
        /\ a \in DOMAIN m.acts /\ ToSet(k.active) = ToSet(m.active) \cup {a} /\ Queued(k)
    BY <1>2 DEF Activated
  <2>2. k.loadHosts # a
    BY <1>6, <2>1, Indices DEF Queued, Fronted, Stages, SameControl
  <2>3. Stay(m, k)
    BY <1>1, <1>6, <2>1, <2>2, StayTaken
  <2>4. Stay(k, n)
    BY <1>2, <1>6, <2>1, StayStart
  <2>. QED
    BY <2>3, <2>4, StayThen, StayAll
<1>. QED
  BY <1>4, <1>5, <1>6

-----------------------------------------------------------------------------
(***************************************************************************)
(* The actions keep the invariant, and do one thing to a load: the queue,  *)
(* the slave's main thread and the master.                                 *)
(***************************************************************************)
\* The last is that of a request that comes before anybody listens.
Changes ==
    \/ Onward(slave, slave')
    \/ LoadBegins(slave, slave')
    \/ LoadsEnd(slave, slave')
    \/ \E p \in Program : AskLoad(p)
    \/ \E p \in ActiveAtMaster : OnEnrollment(p)
    \/ OnServerMessage /\ Permanent \notin ToSet(slave.active)

LEMMA NamedNext ==
    ASSUME INamed, ILoaded', host' = host, AllNamed(slave')
    PROVE  INamed'
<1>1. OneRunner'
  BY DEF INamed, OneRunner
<1>2. AllNamed(slave)'
  BY DEF AllNamed
<1>. QED
  BY <1>1, <1>2 DEF INamed

LEMMA NamedOf ==
    ASSUME INamed
    PROVE  /\ ILoaded /\ TypeOK /\ slave \in SlaveState /\ Queued(slave)
           /\ \A c \in Clients : Accounted(slave, host[c], c)
           /\ AllNamed(slave)
BY DEF INamed, ILoaded, IQueued, TypeOK

LEMMA NamedStart ==
    ASSUME INamed, OnStartActivity
    PROVE  INamed' /\ Changes
<1>1. /\ slave.posted # << >> /\ Head(slave.posted).type = "start" /\ host' = host
      /\ slave' \in AQ!Starts([slave EXCEPT !.posted = Tail(@)], Head(slave.posted).act)
  BY DEF OnStartActivity, NextHandler, Taken
<1>2. AllNamed(slave') /\ Onward(slave, slave')
  BY <1>1, NamedOf, NamedOnStart
<1>. QED
  BY <1>1, <1>2, NamedOf, LoadedOnStart, NamedNext DEF Changes

LEMMA NamedServer ==
    ASSUME INamed, OnServerMessage
    PROVE  INamed' /\ Changes
<1>1. PICK e, t : e = Head(slave.posted) /\ t = [slave EXCEPT !.posted = Tail(@)]
  OBVIOUS
<1>2. /\ slave.posted # << >> /\ e.type = "server" /\ host' = host
      /\ slave' = CASE Permanent \notin ToSet(slave.active) -> t
                    [] Permanent \in ToSet(slave.active) /\ e.msg = "load" -> LoadRequest(t, e.program)
                    [] Permanent \in ToSet(slave.active) /\ e.msg \in Config -> ConfigRequest(t, e.msg)
  BY <1>1 DEF OnServerMessage, NextHandler, Taken
<1>3. /\ AllNamed(t)
      /\ e.msg = "load" => /\ AllNamed(LoadRequest(t, e.program))
                           /\ LoadBegins(slave, LoadRequest(t, e.program))
      /\ e.msg \in Config => /\ AllNamed(ConfigRequest(t, e.msg))
                             /\ Onward(slave, ConfigRequest(t, e.msg))
  BY <1>1, <1>2, NamedOf, NamedOnServer, Zenon
<1>4. e.msg \in {"load"} \cup Config /\ "load" \notin Config
  BY <1>1, <1>2, NamedOf, StateFacts, TailFacts, EventFacts DEF Config
<1>5. AllNamed(slave') /\ Changes
  <2>. USE DEF Changes
  <2>1. CASE Permanent \notin ToSet(slave.active)
    BY <1>2, <1>3, <2>1
  <2>2. CASE Permanent \in ToSet(slave.active) /\ e.msg = "load"
    BY <1>2, <1>3, <1>4, <2>2
  <2>3. CASE Permanent \in ToSet(slave.active) /\ e.msg \in Config
    BY <1>2, <1>3, <1>4, <2>3
  <2>. QED
    BY <1>4, <2>1, <2>2, <2>3
<1>. QED
  BY <1>2, <1>5, NamedOf, LoadedOnServer, NamedNext

LEMMA NamedClient ==
    ASSUME INamed, OnClientMessage
    PROVE  INamed' /\ Changes
<1>1. PICK e, t : e = Head(slave.posted) /\ t = [slave EXCEPT !.posted = Tail(@)]
  OBVIOUS
<1>2. slave.posted # << >> /\ e.type = "client" /\ host' = host
  BY <1>1 DEF OnClientMessage, NextHandler
<1>3. \/ slave' = t /\ (e.msg = "load" => Permanent \notin ToSet(slave.active))
      \/ e.msg = "enroll" /\ slave' = EnrollRequest(t, e.from)
      \/ e.msg = "enrolleg" /\ slave' \in EnrollEGRequest(t, e.from)
      \/ e.msg = "buffer" /\ slave' = BufferRequest(t, e.from)
      \/ \E b \in ToSet(slave.active) :
            Handles(slave, b, e) /\ slave' = HostAnswer(t, b, e.success)
  BY <1>1, NamedOf, TakerFacts, Zenon
<1>4. /\ e.msg = "load" => Permanent \in ToSet(slave.active)
      /\ e.msg # "load" => AllNamed(t) /\ Onward(slave, t)
      /\ e.msg = "enroll" =>
            AllNamed(EnrollRequest(t, e.from)) /\ Onward(slave, EnrollRequest(t, e.from))
      /\ e.msg = "enrolleg" => \A n \in EnrollEGRequest(t, e.from) :
            AllNamed(n) /\ Onward(slave, n)
      /\ e.msg = "buffer" =>
            AllNamed(BufferRequest(t, e.from)) /\ Onward(slave, BufferRequest(t, e.from))
      /\ \A b \in ToSet(slave.active) : Handles(slave, b, e) =>
            /\ AllNamed(HostAnswer(t, b, e.success))
            /\ Onward(slave, HostAnswer(t, b, e.success))
  BY <1>1, <1>2, NamedOf, NamedOnClient, Zenon
<1>5. AllNamed(slave') /\ Onward(slave, slave')
  BY ONLY <1>3, <1>4
<1>. QED
  BY <1>2, <1>5, NamedOf, LoadedOnClient, NamedNext DEF Changes

LEMMA NamedComplete ==
    ASSUME INamed, OnActivityComplete
    PROVE  INamed' /\ Changes
<1>1. PICK t, a : t = [slave EXCEPT !.posted = Tail(@)] /\ a = Head(slave.posted).act
  OBVIOUS
<1>2. /\ slave.posted # << >> /\ Head(slave.posted).type = "complete" /\ host' = host
      /\ slave' \in IF a \in ToSet(slave.active) THEN AQ!Completed(t, a)
                    ELSE {[t EXCEPT !.process = "unfound"]}
  BY <1>1, Zenon DEF OnActivityComplete, NextHandler, Taken
<1>3. AllNamed(slave') /\ (Onward(slave, slave') \/ LoadsEnd(slave, slave'))
  <2>1. CASE a \in ToSet(slave.active)
    BY <1>1, <1>2, <2>1, NamedOf, NamedOnComplete
  <2>2. CASE a \notin ToSet(slave.active)
    <3>1. /\ t \in SlaveState /\ t.posted = Tail(slave.posted)
          /\ SameQueue(slave, t) /\ SameHosts(slave, t) /\ SameControl(slave, t)
      BY <1>1, <1>2, NamedOf, QueuedTaken
    <3>2. PICK n : n = [t EXCEPT !.process = "unfound"]
      OBVIOUS
    <3>3. /\ n.acts = t.acts /\ n.posted = t.posted /\ n.active = t.active
          /\ SameHosts(t, n) /\ SameControl(t, n)
      BY <3>1, <3>2, ProcessFacts
    <3>4. /\ n.acts = slave.acts /\ n.posted = Tail(slave.posted) /\ n.active = slave.active
          /\ SameHosts(slave, n) /\ SameControl(slave, n)
      BY <3>1, <3>3 DEF SameQueue, SameHosts, SameControl
    <3>5. Stay(slave, n)
      BY <1>2, <3>4, NamedOf, StayTaken
    <3>. QED
      BY <1>2, <2>2, <3>2, <3>5, NamedOf, StayAll
  <2>. QED
    BY <2>1, <2>2
<1>. QED
  BY <1>2, <1>3, NamedOf, LoadedOnComplete, NamedNext DEF Changes

\* Handlers and commands that neither change what the hosts load nor the program.
LEMMA NamedStays ==
    ASSUME INamed, ILoaded', host' = host, Stay(slave, slave')
    PROVE  INamed' /\ Changes
BY NamedOf, StayAll, NamedNext DEF Changes

LEMMA NamedStartSlave ==
    ASSUME INamed, StartSlave
    PROVE  INamed' /\ Changes
<1>1. PICK k : k = [slave EXCEPT !.process = "up"]
  OBVIOUS
<1>2. slave' = PostStart(k, Permanent) /\ host' = host
  BY <1>1 DEF StartSlave
<1>3. /\ k \in SlaveState /\ k.acts = slave.acts /\ k.posted = slave.posted
      /\ k.active = slave.active /\ SameControl(slave, k) /\ SameHosts(slave, k)
  BY <1>1, NamedOf, ProcessFacts
<1>4. Stay(slave, k)
  BY <1>3, StayHosts DEF SameHosts
<1>5. k.acts[Permanent].kind # "loadHost"
  BY <1>3, NamedOf DEF Queued, Family, Permanent
<1>6. Stay(k, slave')
  BY <1>2, <1>3, <1>5, StayPostStart DEF Permanent
<1>. QED
  BY <1>2, <1>4, <1>6, StayThen, NamedOf, LoadedStartSlave, NamedStays

LEMMA NamedEnrollment ==
    ASSUME INamed, NEW p \in ActiveAtMaster, OnEnrollment(p)
    PROVE  INamed' /\ Changes
<1>1. /\ SameQueue(slave, slave') /\ SameHosts(slave, slave') /\ slave'.posted = slave.posted
      /\ slave'.loading = slave.loading /\ slave'.loadHosts = slave.loadHosts /\ host' = host
  BY NamedOf, EnrollmentFacts
<1>2. KeptActs(slave, slave') /\ \A c \in Clients : SameFailures(slave, slave', c)
  BY <1>1 DEF KeptActs, Starting, SameFailures, SameQueue
<1>3. Kept(slave, slave')
  BY <1>1, <1>2, KeptQueue
<1>4. SameLoad(slave, slave')
  BY <1>1 DEF SameLoad, Spreads, SameQueue
<1>. QED
  BY <1>1, <1>3, <1>4, NamedOf, AllKept, LoadedEnrollment, NamedNext DEF Changes

LEMMA NamedTest ==
    ASSUME INamed, Test
    PROVE  INamed' /\ Changes
<1>1. slave' = StartActivities(slave, <<NewActivity("testHosts")>>) /\ host' = host
  BY DEF Test
<1>2. Stay(slave, slave')
  BY <1>1, NamedOf, StayTest
<1>. QED
  BY <1>1, <1>2, NamedOf, LoadedTest, NamedStays

LEMMA NamedAsk ==
    ASSUME INamed, \/ \E p \in Program : AskLoad(p)
                   \/ \E type \in Config : AskConfig(type)
    PROVE  INamed' /\ Changes
<1>1. host' = host /\ ILoaded'
  BY NamedOf, LoadedAsk DEF AskLoad, AskConfig
<1>2. ASSUME NEW p \in Program, AskLoad(p)
      PROVE  INamed' /\ Changes
  <2>1. slave' = Post(slave, <<ServerEvent("load", p)>>)
    BY <1>2 DEF AskLoad
  <2>2. Kept(slave, slave') /\ SameLoad(slave, slave')
    BY <2>1, NamedOf, StayAsked
  <2>. QED
    BY <1>1, <1>2, <2>2, NamedOf, AllKept, NamedNext DEF Changes
<1>3. ASSUME NEW type \in Config, AskConfig(type)
      PROVE  INamed' /\ Changes
  <2>1. slave' = Post(slave, <<ServerEvent(type, NoProgram)>>)
    BY <1>3 DEF AskConfig
  <2>2. Stay(slave, slave')
    BY <2>1, NamedOf, Constants, StayAsked DEF Config
  <2>. QED
    BY <1>1, <2>2, NamedStays
<1>. QED
  BY <1>2, <1>3

-----------------------------------------------------------------------------
(***************************************************************************)
(* The actions keep the invariant: the hosts.                              *)
(***************************************************************************)
\* A step of host h leaves the queue of the slave and its host map, and what the
\* other hosts are asked and have answered.
Framed(h) ==
    /\ SameQueue(slave, slave') /\ SameControl(slave, slave')
    /\ slave'.enrolled = slave.enrolled /\ slave'.mapping = slave.mapping
    /\ \A c \in Clients : c # h => slave'.out[c] = slave.out[c]
    /\ \/ slave'.posted = slave.posted
       \/ \E e \in Event : /\ e.type = "client" /\ e.from = h
                           /\ slave'.posted = Append(slave.posted, e)

LEMMA FramedFacts ==
    ASSUME slave \in SlaveState, NEW h \in Clients, Framed(h)
    PROVE  /\ \A c : SameBegins(slave, slave', c)
           /\ \A c \in Clients : c # h => KeptFor(slave, slave', c)
           /\ Mapped(slave) => Mapped(slave')
           /\ SameLoad(slave, slave') /\ (Spreads(slave) => Spreads(slave'))
           /\ Onward(slave, slave')
<1>1. slave.posted \in Seq(Event) /\ \A a \in DOMAIN slave.acts : a \in Nat
  BY StateFacts
<1>2. \A a \in Nat : Starting(slave', a) <=> Starting(slave, a)
  <2>1. CASE slave'.posted = slave.posted
    BY <2>1 DEF Starting
  <2>2. ASSUME NEW e \in Event, e.type = "client", slave'.posted = Append(slave.posted, e)
        PROVE  \A a \in Nat : Starting(slave', a) <=> Starting(slave, a)
    <3>1. \A a \in Nat : Starting(slave', a) <=> Starting(slave, a) \/ (e.type = "start" /\ e.act = a)
      BY ONLY slave \in SlaveState, e \in Event, <2>2, Appended
    <3>. QED
      BY <2>2, <3>1
  <2>. QED
    BY <2>1, <2>2 DEF Framed
<1>3. KeptActs(slave, slave')
  BY <1>1, <1>2 DEF KeptActs, Framed, SameQueue
<1>4. \A c : SameBegins(slave, slave', c)
  BY <1>3, KeptBegins
<1>5. ASSUME NEW c \in Clients, c # h
      PROVE  KeptFor(slave, slave', c)
  <2>1. SameFailures(slave, slave', c)
    <3>1. CASE slave'.posted = slave.posted
      BY <3>1 DEF SameFailures
    <3>2. ASSUME NEW e \in Event, e.from = h, slave'.posted = Append(slave.posted, e)
          PROVE  SameFailures(slave, slave', c)
      <4>1. e \notin Failures(c)
        BY <1>5, <3>2 DEF Failures, ClientEvent
      <4>. QED
        BY <1>1, <3>2, <4>1, HasOnceAppend DEF SameFailures
    <3>. QED
      BY <3>1, <3>2 DEF Framed
  <2>2. slave'.out[c] = slave.out[c]
    BY <1>5 DEF Framed
  <2>. QED
    BY <1>4, <2>1, <2>2 DEF KeptFor, SameOrders, Framed
<1>6. Mapped(slave) => Mapped(slave')
  BY DEF Mapped, OneName, Framed
<1>7. SameLoad(slave, slave') /\ (Spreads(slave) => Spreads(slave'))
  BY DEF SameLoad, Spreads, Framed, SameQueue, SameControl
<1>8. Onward(slave, slave')
  BY OnwardSame, OnwardPost DEF Framed, SameQueue
<1>. QED
  BY <1>4, <1>5, <1>6, <1>7, <1>8

\* Host h, then in state r, runs what it did, nothing, or what it was asked to load,
\* and no other host runs.
Takes(h, r) ==
    \/ r.link # "up" \/ r.runs = Nothing
    \/ host[h].link = "up" /\ r.runs = host[h].runs
    \/ /\ host[h].link = "up" /\ host[h].load.stage # "none"
       /\ Wants(h, r.runs) /\ r.runs.program = slave.loading
       /\ \A g \in Clients : g # h /\ host[g].link = "up" => host[g].runs # r.runs

HostGoes(h) == Framed(h) /\ \E r : Becomes(h, r) /\ Takes(h, r)

\* The names that hosts run stay different.
LEMMA RunnerNext ==
    ASSUME OneRunner, NEW h \in Clients, NEW r, Becomes(h, r), Takes(h, r)
    PROVE  OneRunner'
<1>0. r.link = "up" /\ r.runs # Nothing =>
         \A g \in Clients : g # h /\ host[g].link = "up" => host[g].runs # r.runs
  BY DEF OneRunner, Takes
<1>1. SUFFICES ASSUME NEW f \in Clients, NEW g \in Clients,
                      host'[f].link = "up", host'[g].link = "up",
                      host'[f].runs = host'[g].runs, host'[f].runs # Nothing, f # g
               PROVE  FALSE
  BY DEF OneRunner
<1>2. CASE f # h /\ g # h
  BY <1>1, <1>2 DEF OneRunner, Becomes
<1>3. CASE f = h
  BY <1>0, <1>1, <1>3 DEF Becomes
<1>4. CASE g = h
  BY <1>0, <1>1, <1>4 DEF Becomes
<1>. QED
  BY <1>2, <1>3, <1>4

LEMMA NamedHost ==
    ASSUME INamed, ILoaded', NEW h \in Clients, Framed(h), NEW r, Becomes(h, r),
           Named(slave', r, h), Takes(h, r)
    PROVE  INamed' /\ HostGoes(h)
<1>1. OneRunner'
  BY RunnerNext DEF INamed
<1>2. slave \in SlaveState /\ AllNamed(slave)
  BY NamedOf
<1>3. ASSUME NEW c \in Clients
      PROVE  Named(slave', host'[c], c)
  <2>1. CASE c = h
    BY <2>1 DEF Becomes
  <2>2. CASE c # h
    <3>1. host'[c] = host[c]
      BY <2>2 DEF Becomes
    <3>2. Named(slave', host[c], c)
      BY <1>2, <2>2, FramedFacts, StayNamed DEF AllNamed
    <3>. QED
      BY <3>1, <3>2
  <2>. QED
    BY <2>1, <2>2
<1>4. Mapped(slave')
  BY <1>2, FramedFacts DEF AllNamed
<1>5. AllNamed(slave)'
  BY <1>3, <1>4 DEF AllNamed
<1>. QED
  BY <1>1, <1>2, <1>5 DEF INamed, HostGoes

\* The state of host h changes from r to s, but not what it runs.
LEMMA NamedTo ==
    ASSUME slave \in SlaveState, NEW h \in Clients, Framed(h),
           NEW r, Named(slave, r, h), r.link \in {"off", "up"},
           NEW s, s.runs = r.runs,
           \A o \in LoadOrders : Has(slave'.out[h], {o}) => Has(slave.out[h], {o}),
           s.load.stage \in {"queued", "buffer"} => Right(slave, h, s.load.what),
           Undone(slave', s, h) <=> Undone(slave, r, h),
           Failed(slave', s, h) <=> Failed(slave, r, h)
    PROVE  Named(slave', s, h)
<1>1. Asks(slave, r, h) /\ Runs(slave, r, h)
  BY DEF Named
<1>2. /\ SameBegins(slave, slave', h) /\ SameLoad(slave, slave')
      /\ slave'.enrolled = slave.enrolled /\ slave'.mapping = slave.mapping
  BY FramedFacts DEF Framed
<1>3. \A what : Right(slave, h, what) => Right(slave', h, what)
  BY <1>2 DEF Right, Nameless, SameLoad
<1>4. Asks(slave', s, h)
  BY <1>1, <1>2, <1>3 DEF Asks, SameBegins
<1>5. Runs(slave', s, h)
  BY <1>1, <1>2 DEF Runs, Nameless, SameLoad
<1>. QED
  BY <1>4, <1>5 DEF Named

\* Nor what it is asked.
LEMMA NamedQuiet ==
    ASSUME INamed, ILoaded', NEW h \in Clients, Framed(h),
           SameOrders(slave.out[h], slave'.out[h]), SameFailures(slave, slave', h),
           NEW r, Becomes(h, r), r.runs = host[h].runs, r.load = host[h].load,
           host[h].link \in {"off", "up"}
    PROVE  INamed' /\ HostGoes(h)
<1>1. slave \in SlaveState /\ Named(slave, host[h], h) /\ Accounted(slave, host[h], h)
  BY NamedOf DEF AllNamed
<1>2. SameBegins(slave, slave', h)
  BY <1>1, FramedFacts
<1>3. /\ Undone(slave', r, h) <=> Undone(slave, host[h], h)
      /\ Failed(slave', r, h) <=> Failed(slave, host[h], h)
  BY <1>2 DEF Undone, Failed, SameBegins, SameOrders, SameFailures
<1>4. r.load.stage \in {"queued", "buffer"} => Right(slave, h, r.load.what)
  BY <1>1 DEF Named, Asks
<1>5. Named(slave', r, h)
  BY <1>1, <1>3, <1>4, NamedTo DEF SameOrders
<1>6. CASE host[h].link = "up"
  BY <1>5, <1>6, NamedHost DEF Takes
<1>7. CASE host[h].link = "off"
  <2>1. host[h].runs = Nothing
    BY <1>1, <1>7 DEF Named, Runs, Accounted, Absent, Known
  <2>. QED
    BY <1>5, <2>1, NamedHost DEF Takes
<1>. QED
  BY <1>6, <1>7

\* Host h reads a message, and posts one.
LEMMA FramedRead ==
    ASSUME slave \in SlaveState, NEW h \in Clients, slave.out[h] # << >>, slave' = Read(h)
    PROVE  /\ Framed(h) /\ slave'.posted = slave.posted /\ slave'.out[h] = Tail(slave.out[h])
           /\ Head(slave.out[h]).msg # "load" => SameOrders(slave.out[h], slave'.out[h])
           /\ SameFailures(slave, slave', h)
<1>1. /\ slave'.posted = slave.posted /\ SameQueue(slave, slave') /\ SameControl(slave, slave')
      /\ slave'.enrolled = slave.enrolled /\ slave'.mapping = slave.mapping
      /\ \A c \in Clients : slave'.out[c] = IF c = h THEN Tail(slave.out[h]) ELSE slave.out[c]
  BY ReadFacts
<1>2. slave.out[h] \in Seq(Order)
  BY StateFacts
<1>3. ASSUME Head(slave.out[h]).msg # "load"
      PROVE  SameOrders(slave.out[h], slave'.out[h])
  <2>1. \A o \in LoadOrders : Head(slave.out[h]) \notin {o}
    BY <1>3 DEF LoadOrders
  <2>2. slave'.out[h] = Tail(slave.out[h])
    BY <1>1
  <2>. QED
    BY <1>2, <2>1, <2>2, HasOnceTail DEF SameOrders
<1>. QED
  BY <1>1, <1>3 DEF Framed, SameFailures

LEMMA FramedTell ==
    ASSUME slave \in SlaveState, NEW m \in SlaveState, NEW h \in Clients, NEW ok \in BOOLEAN,
           NEW msg \in {"enroll", "enrolleg", "alive", "load", "buffer"} \cup Config,
           SameQueue(slave, m), SameControl(slave, m), m.enrolled = slave.enrolled,
           m.mapping = slave.mapping, m.posted = slave.posted,
           \A c \in Clients : c # h => m.out[c] = slave.out[c],
           slave' = Post(m, <<ClientEvent(h, msg, ok)>>)
    PROVE  /\ Framed(h) /\ slave'.out = m.out
           /\ Has(slave'.posted, Failures(h)) <=>
                 Has(slave.posted, Failures(h)) \/ (msg = "load" /\ ~ok)
<1>1. PICK e : /\ e = ClientEvent(h, msg, ok) /\ e \in Event /\ e.type = "client" /\ e.from = h
               /\ e.msg = msg /\ e.success = ok
  BY EventFacts
<1>2. PICK n : n = Post(m, <<e>>)
  OBVIOUS
<1>3. /\ n.posted = Append(m.posted, e) /\ SameQueue(m, n) /\ SameControl(m, n) /\ SameHosts(m, n)
  BY <1>1, <1>2, PostOneFacts
<1>4. slave' = n
  BY <1>1, <1>2
<1>5. Framed(h)
  BY <1>1, <1>3, <1>4, ZenonT(60) DEF Framed, SameQueue, SameControl, SameHosts
<1>6. e \in Failures(h) <=> msg = "load" /\ ~ok
  <2>1. e \in Failures(h) => msg = "load" /\ ~ok
    BY <1>1 DEF Failures, ClientEvent
  <2>2. msg = "load" /\ ~ok => e \in Failures(h)
    BY <1>1 DEF Failures
  <2>. QED
    BY <2>1, <2>2
<1>7. Has(slave'.posted, Failures(h)) <=> Has(slave.posted, Failures(h)) \/ e \in Failures(h)
  <2>1. PICK s : s = slave.posted /\ s \in Seq(Event) /\ slave'.posted = Append(s, e)
    BY <1>3, <1>4, StateFacts
  <2>2. PICK F : F = Failures(h)
    OBVIOUS
  <2>3. e \in Event
    BY <1>1
  <2>4. Has(Append(s, e), F) <=> Has(s, F) \/ e \in F
    BY ONLY <2>1, <2>3, HasOnceAppend
  <2>. QED
    BY <2>1, <2>2, <2>4
<1>. QED
  BY <1>3, <1>4, <1>5, <1>6, <1>7 DEF SameHosts

LEMMA FramedPost ==
    ASSUME slave \in SlaveState, NEW h \in Clients, NEW ok \in BOOLEAN,
           NEW msg \in {"enroll", "enrolleg", "alive", "load", "buffer"} \cup Config,
           slave' = Post(slave, <<ClientEvent(h, msg, ok)>>)
    PROVE  /\ Framed(h) /\ slave'.out = slave.out
           /\ Has(slave'.posted, Failures(h)) <=>
                 Has(slave.posted, Failures(h)) \/ (msg = "load" /\ ~ok)
BY FramedTell DEF SameQueue, SameControl

\* What a host reads or posts that has nothing to do with its load.
LEMMA QuietNamedRead ==
    ASSUME INamed, ILoaded', NEW h \in Clients, host[h].link = "up", slave.out[h] # << >>,
           Head(slave.out[h]).msg # "load", slave' = Read(h),
           NEW r, Becomes(h, r), r.runs = host[h].runs, r.load = host[h].load
    PROVE  INamed' /\ HostGoes(h)
BY NamedOf, FramedRead, NamedQuiet

LEMMA QuietNamedPost ==
    ASSUME INamed, ILoaded', NEW h \in Clients, host[h].link \in {"off", "up"},
           NEW msg \in {"enroll", "enrolleg"} \cup Config, NEW ok \in BOOLEAN,
           slave' = Post(slave, <<ClientEvent(h, msg, ok)>>),
           NEW r, Becomes(h, r), r.runs = host[h].runs, r.load = host[h].load
    PROVE  INamed' /\ HostGoes(h)
<1>1. msg # "load" /\ msg \in {"enroll", "enrolleg", "alive", "load", "buffer"} \cup Config
  BY DEF Config
<1>2. /\ Framed(h) /\ slave'.out = slave.out
      /\ Has(slave'.posted, Failures(h)) <=>
            Has(slave.posted, Failures(h)) \/ (msg = "load" /\ ~ok)
  BY <1>1, NamedOf, FramedPost
<1>. QED
  BY <1>1, <1>2, NamedQuiet DEF SameOrders, SameFailures

LEMMA QuietNamedAnswer ==
    ASSUME INamed, ILoaded', NEW h \in Clients, host[h].link = "up", slave.out[h] # << >>,
           Head(slave.out[h]).msg # "load",
           NEW msg \in {"alive"} \cup Config, NEW ok \in BOOLEAN,
           slave' = Answered(h, msg, ok), host' = host
    PROVE  INamed' /\ HostGoes(h)
<1>1. slave \in SlaveState /\ slave.out[h] \in Seq(Order) /\ TypeOK
  BY NamedOf, StateFacts
<1>2. msg # "load" /\ msg \in {"enroll", "enrolleg", "alive", "load", "buffer"} \cup Config
  BY DEF Config
<1>3. PICK m : m = Read(h)
  OBVIOUS
<1>4. /\ m \in SlaveState
      /\ m.posted = slave.posted /\ SameQueue(slave, m) /\ SameControl(slave, m)
      /\ m.enrolled = slave.enrolled /\ m.mapping = slave.mapping
      /\ \A c \in Clients : m.out[c] = IF c = h THEN Tail(slave.out[h]) ELSE slave.out[c]
  BY <1>1, <1>3, ReadFacts
<1>5. slave' = Post(m, <<ClientEvent(h, msg, ok)>>)
  BY <1>3 DEF Answered
<1>6. /\ Framed(h) /\ slave'.out = m.out
      /\ Has(slave'.posted, Failures(h)) <=>
            Has(slave.posted, Failures(h)) \/ (msg = "load" /\ ~ok)
  BY <1>1, <1>2, <1>4, <1>5, FramedTell
<1>7. SameOrders(slave.out[h], slave'.out[h])
  <2>1. \A o \in LoadOrders : Head(slave.out[h]) \notin {o}
    BY DEF LoadOrders
  <2>2. slave'.out[h] = Tail(slave.out[h])
    BY <1>4, <1>6
  <2>. QED
    BY <1>1, <2>1, <2>2, HasOnceTail DEF SameOrders
<1>8. Becomes(h, host[h])
  BY <1>1 DEF Becomes, TypeOK
<1>. QED
  BY <1>2, <1>6, <1>7, <1>8, NamedQuiet DEF SameFailures

LEMMA NamedEnrolling ==
    ASSUME INamed, ILoaded', NEW h \in Clients,
           StartHost(h) \/ ReceiveEnrolled(h) \/ ArriveEG(h) \/ ReceiveEGEnrolled(h)
    PROVE  INamed' /\ HostGoes(h)
<1>1. TypeOK
  BY NamedOf
<1>2. CASE StartHost(h)
  <2>1. host[h].link = "off" /\ slave' = Post(slave, <<ClientEvent(h, "enroll", TRUE)>>)
    BY <1>1, <1>2, StartHostFacts
  <2>2. PICK r : Becomes(h, r) /\ Idles(host[h], r)
    BY <1>1, <1>2, StartHostFacts
  <2>. QED
    BY <2>1, <2>2, QuietNamedPost DEF Idles
<1>3. CASE ReceiveEnrolled(h)
  <2>1. /\ host[h].link = "up" /\ slave.out[h] # << >> /\ Head(slave.out[h]).msg = "enrolled"
        /\ slave' = Read(h)
    BY <1>1, <1>3, ReceiveEnrolledFacts
  <2>2. PICK r : Becomes(h, r) /\ Idles(host[h], r)
    BY <1>1, <1>3, ReceiveEnrolledFacts
  <2>. QED
    BY <2>1, <2>2, QuietNamedRead DEF Idles
<1>4. CASE ArriveEG(h)
  <2>1. host[h].link = "up" /\ slave' = Post(slave, <<ClientEvent(h, "enrolleg", TRUE)>>)
    BY <1>1, <1>4, ArriveEGFacts
  <2>2. PICK r : Becomes(h, r) /\ Idles(host[h], r)
    BY <1>1, <1>4, ArriveEGFacts
  <2>. QED
    BY <2>1, <2>2, QuietNamedPost DEF Idles
<1>5. CASE ReceiveEGEnrolled(h)
  <2>1. /\ host[h].link = "up" /\ slave.out[h] # << >> /\ Head(slave.out[h]).msg = "egenrolled"
        /\ slave' = Read(h)
    BY <1>1, <1>5, ReceiveEGEnrolledFacts
  <2>2. PICK r : Becomes(h, r) /\ Idles(host[h], r)
    BY <1>1, <1>5, ReceiveEGEnrolledFacts
  <2>. QED
    BY <2>1, <2>2, QuietNamedRead DEF Idles
<1>. QED
  BY <1>2, <1>3, <1>4, <1>5

LEMMA NamedAlive ==
    ASSUME INamed, ILoaded', NEW h \in Clients, ReceiveAlive(h)
    PROVE  INamed' /\ HostGoes(h)
<1>1. /\ host[h].link = "up" /\ slave.out[h] # << >> /\ Head(slave.out[h]).msg = "alive"
      /\ slave' = Answered(h, "alive", TRUE) /\ host' = host
  BY NamedOf, ReceiveAliveFacts
<1>. QED
  BY <1>1, QuietNamedAnswer

\* The host's jobs to load or save a config.
LEMMA NamedConfig ==
    ASSUME INamed, ILoaded', NEW h \in Clients,
           \/ \E type \in Config : ReceiveConfig(h, type)
           \/ ConfigJobComplete(h) \/ RunConfigJob(h)
    PROVE  INamed' /\ HostGoes(h)
<1>1. TypeOK /\ Works(host[h])
  BY NamedOf, SlaveOf
<1>2. ASSUME NEW type \in Config, ReceiveConfig(h, type)
      PROVE  INamed' /\ HostGoes(h)
  <2>1. /\ host[h].link = "up" /\ slave.out[h] # << >> /\ Head(slave.out[h]).msg = type
        /\ type # "load"
    BY <1>1, <1>2, ReceiveConfigFacts DEF Config
  <2>2. CASE host' = host /\ slave' = Answered(h, type, FALSE)
    BY <2>1, <2>2, QuietNamedAnswer
  <2>3. ASSUME slave' = Read(h), NEW r, Becomes(h, r), r.load = host[h].load, r.runs = host[h].runs
        PROVE  INamed' /\ HostGoes(h)
    BY <2>1, <2>3, QuietNamedRead
  <2>. QED
    BY <1>1, <1>2, <2>2, <2>3, ReceiveConfigFacts, ZenonT(60)
<1>3. CASE ConfigJobComplete(h)
  <2>1. /\ host[h].link = "up" /\ host[h].config.stage \in {"succeeded", "failed"}
        /\ slave' = Post(slave, <<ClientEvent(h, host[h].config.type,
                                              host[h].config.stage = "succeeded")>>)
    BY <1>1, <1>3, ConfigJobCompleteFacts
  <2>2. PICK r : Becomes(h, r) /\ r.runs = host[h].runs /\ r.load = host[h].load
    BY <1>1, <1>3, ConfigJobCompleteFacts
  <2>3. PICK type, ok : type = host[h].config.type /\ ok = (host[h].config.stage = "succeeded")
    OBVIOUS
  <2>4. type \in Config /\ ok \in BOOLEAN /\ slave' = Post(slave, <<ClientEvent(h, type, ok)>>)
    BY <1>1, <2>1, <2>3 DEF Works
  <2>. QED
    BY <2>1, <2>2, <2>4, QuietNamedPost
<1>4. CASE RunConfigJob(h)
  <2>1. host[h].link = "up" /\ slave' = slave
    BY <1>1, <1>4, RunConfigJobFacts
  <2>2. PICK r : Becomes(h, r) /\ r.load = host[h].load /\ r.runs = host[h].runs
    BY <1>1, <1>4, RunConfigJobFacts
  <2>3. Framed(h)
    BY <2>1 DEF Framed, SameQueue, SameControl
  <2>. QED
    BY <2>1, <2>2, <2>3, NamedQuiet DEF SameOrders, SameFailures
<1>. QED
  BY <1>2, <1>3, <1>4

LEMMA NamedEnding ==
    ASSUME INamed, ILoaded', NEW h \in Clients, Crash(h) \/ Detect(h)
    PROVE  INamed' /\ HostGoes(h)
<1>1. TypeOK
  BY NamedOf
<1>2. ASSUME Framed(h), NEW r, Becomes(h, r), r.link \in {"dead", "gone"}
      PROVE  INamed' /\ HostGoes(h)
  BY <1>2, NamedHost DEF Named, Takes
<1>3. CASE Crash(h)
  <2>1. PICK r : Becomes(h, r) /\ r.link = "dead"
    BY <1>1, <1>3, CrashFacts
  <2>2. Framed(h)
    BY <1>1, <1>3, CrashFacts DEF Framed
  <2>. QED
    BY <1>2, <2>1, <2>2
<1>4. CASE Detect(h)
  <2>1. PICK r : Becomes(h, r) /\ r.link = "gone"
    BY <1>1, <1>4, DetectFacts
  <2>2. slave' = slave
    BY <1>1, <1>4, DetectFacts
  <2>3. Framed(h)
    BY <2>2 DEF Framed, SameQueue, SameControl
  <2>. QED
    BY <1>2, <2>1, <2>3
<1>. QED
  BY <1>3, <1>4

\* The host's load: the order becomes a job.
LEMMA NamedReceive ==
    ASSUME INamed, ILoaded', NEW h \in Clients, ReceiveLoad(h)
    PROVE  INamed' /\ HostGoes(h)
<1>1. /\ TypeOK /\ slave \in SlaveState /\ slave.out[h] \in Seq(Order)
      /\ Accounted(slave, host[h], h) /\ Named(slave, host[h], h)
  BY NamedOf, SlaveOf DEF AllNamed
<1>2. host[h].link = "up" /\ slave.out[h] # << >> /\ Head(slave.out[h]).msg = "load"
  BY <1>1, ReceiveLoadFacts
<1>3. PICK o : o = Head(slave.out[h])
  OBVIOUS
<1>4. /\ o \in LoadOrders /\ Has(slave.out[h], {o}) /\ Has(slave.out[h], LoadOrders)
      /\ \A x \in LoadOrders : Has(Tail(slave.out[h]), {x}) => Has(slave.out[h], {x})
  BY <1>1, <1>2, <1>3, TailFacts, NotOrders, HasOnceTail
<1>5. host[h].load.stage = "none"
  BY <1>1, <1>4 DEF Accounted, Accounts, LoadOut
<1>6. slave' = Read(h)
  BY <1>1, <1>5, ReceiveLoadFacts
<1>7. PICK r : /\ Becomes(h, r) /\ r.link = host[h].link /\ r.runs = host[h].runs
               /\ r.load.stage = "queued" /\ r.load.what = LoadWhat(o)
  BY <1>1, <1>3, <1>5, ReceiveLoadFacts
<1>8. Framed(h) /\ slave'.out[h] = Tail(slave.out[h]) /\ SameFailures(slave, slave', h)
  BY <1>1, <1>2, <1>6, FramedRead
<1>9. Right(slave, h, r.load.what)
  BY <1>1, <1>2, <1>4, <1>7 DEF Named, Asks
<1>10. Undone(slave', r, h) <=> Undone(slave, host[h], h)
  BY <1>4, <1>7 DEF Undone
<1>11. Failed(slave', r, h) <=> Failed(slave, host[h], h)
  BY <1>5, <1>7, <1>8 DEF Failed, SameFailures
<1>12. Named(slave', r, h)
  BY <1>1, <1>2, <1>4, <1>7, <1>8, <1>9, <1>10, <1>11, NamedTo
<1>. QED
  BY <1>2, <1>7, <1>8, <1>12, NamedHost DEF Takes

\* The job is answered for.
LEMMA NamedJobComplete ==
    ASSUME INamed, ILoaded', NEW h \in Clients, LoadJobComplete(h)
    PROVE  INamed' /\ HostGoes(h)
<1>1. TypeOK /\ slave \in SlaveState /\ Named(slave, host[h], h)
  BY NamedOf DEF AllNamed
<1>2. PICK ok : ok = (host[h].load.stage = "succeeded")
  OBVIOUS
<1>3. /\ host[h].link = "up" /\ host[h].load.stage \in {"succeeded", "failed"} /\ ok \in BOOLEAN
      /\ slave' = Post(slave, <<ClientEvent(h, "load", ok)>>)
  BY <1>1, <1>2, LoadJobCompleteFacts
<1>4. PICK r : Becomes(h, r) /\ r.link = host[h].link /\ r.runs = host[h].runs /\ r.load.stage = "none"
  BY <1>1, LoadJobCompleteFacts
<1>5. /\ Framed(h) /\ slave'.out = slave.out
      /\ Has(slave'.posted, Failures(h)) <=> Has(slave.posted, Failures(h)) \/ ~ok
  BY <1>1, <1>3, FramedPost
<1>6. SameBegins(slave, slave', h)
  BY <1>1, <1>5, FramedFacts
<1>7. Undone(slave', r, h) <=> Undone(slave, host[h], h)
  BY <1>3, <1>4, <1>5, <1>6 DEF Undone, SameBegins
<1>8. Failed(slave', r, h) <=> Failed(slave, host[h], h)
  BY <1>2, <1>3, <1>4, <1>5 DEF Failed
<1>9. Named(slave', r, h)
  BY <1>1, <1>3, <1>4, <1>5, <1>7, <1>8, NamedTo
<1>. QED
  BY <1>3, <1>4, <1>5, <1>9, NamedHost DEF Takes

\* While a host loads it has been asked, and nothing of the load is left but the job.
LEMMA LoadsAlone ==
    ASSUME NEW m \in SlaveState, Queued(m), NEW r, NEW c, Accounted(m, r, c),
           r.load.stage # "none"
    PROVE  /\ \A a \in DOMAIN m.acts : ~Begins(m, a, c)
           /\ \A o \in LoadOrders : ~Has(m.out[c], {o})
           /\ ~Has(m.posted, Failures(c))
<1>1. Accounts(m, r, c) /\ SomeLoad(m, r, c)
  BY DEF Accounted, SomeLoad
<1>2. PICK a \in ToSet(m.active) : Waits(m, a, c)
  BY <1>1 DEF Accounts, Await
<1>3. a \in DOMAIN m.acts /\ Live(m, a) /\ ~Starting(m, a)
  BY AwaitLive DEF Queued, Line
<1>4. ASSUME NEW b \in DOMAIN m.acts, Begins(m, b, c)
      PROVE  FALSE
  <2>1. Live(m, b) /\ m.acts[b].kind = "loadHost" /\ m.acts[b].host = c
    BY <1>4 DEF Begins, Live
  <2>2. b = a
    BY <1>2, <1>3, <2>1, HostLoads DEF Waits
  <2>. QED
    BY <1>3, <1>4, <2>2 DEF Begins
<1>5. \A o \in LoadOrders : ~Has(m.out[c], {o})
  BY <1>1 DEF Accounts, LoadOut, Has
<1>6. ~Has(m.posted, Failures(c))
  <2>1. Failures(c) \subseteq LoadAnswers(c)
    BY DEF Failures, LoadAnswers
  <2>. QED
    BY <1>1, <2>1 DEF Accounts, LoadDone, Has
<1>. QED
  BY <1>4, <1>5, <1>6

\* The job of a host is done, and it runs the program or nothing.
LEMMA NamedLoaded ==
    ASSUME INamed, ILoaded', NEW h \in Clients, Framed(h), slave'.posted = slave.posted,
           \A o \in LoadOrders : Has(slave'.out[h], {o}) => Has(slave.out[h], {o}),
           host[h].link = "up", host[h].load.stage \in {"queued", "buffer"}, host[h].jobs # << >>,
           NEW ok \in BOOLEAN, host' = Loaded(h, ok)
    PROVE  INamed' /\ HostGoes(h)
<1>1. /\ TypeOK /\ slave \in SlaveState /\ Queued(slave) /\ Accounted(slave, host[h], h)
      /\ AllNamed(slave) /\ Named(slave, host[h], h)
  BY NamedOf DEF AllNamed
<1>2. PICK r : /\ Becomes(h, r) /\ r.link = host[h].link
               /\ r.runs = (IF ok THEN host[h].load.what ELSE Nothing)
               /\ r.load.stage = IF ok THEN "succeeded" ELSE "failed"
  BY <1>1, LoadedFacts
<1>3. /\ \A a \in DOMAIN slave.acts : ~Begins(slave, a, h)
      /\ \A o \in LoadOrders : ~Has(slave.out[h], {o})
      /\ ~Has(slave.posted, Failures(h))
  BY <1>1, LoadsAlone
<1>4. ~Undone(slave', r, h)
  BY <1>1, <1>2, <1>3, FramedFacts DEF Undone, SameBegins
<1>5. Asks(slave', r, h)
  BY <1>4 DEF Asks, Undone
<1>6. Failed(slave', r, h) <=> ~ok
  BY <1>2, <1>3 DEF Failed
<1>7. Right(slave, h, host[h].load.what)
  BY <1>1 DEF Named, Asks
<1>8. slave'.enrolled = slave.enrolled /\ slave'.mapping = slave.mapping /\ slave'.loading = slave.loading
  BY DEF Framed, SameControl
<1>9. ASSUME r.runs # Nothing
      PROVE  /\ ok /\ r.runs = host[h].load.what /\ Wants(h, r.runs)
             /\ slave.mapping[r.runs.name] = h /\ r.runs.program = slave.loading
             /\ h \in slave.enrolled
  <2>1. ok /\ r.runs = host[h].load.what
    BY <1>2, <1>9
  <2>2. /\ Wants(h, r.runs) /\ slave.mapping[r.runs.name] = h
        /\ r.runs.program = slave.loading
    BY <1>7, <1>9, <2>1 DEF Right
  <2>3. h \in slave.enrolled
    BY <1>1, <2>2, Constants DEF AllNamed, Mapped, Wants
  <2>. QED
    BY <2>1, <2>2, <2>3
<1>10. ASSUME r.runs = Nothing, ok
       PROVE  Nameless(slave, h)
  <2>1. host[h].load.what = Nothing
    BY <1>2, <1>10
  <2>. QED
    BY <1>7, <2>1, Constants DEF Right, Wants, Nothing
<1>11. Runs(slave', r, h)
  <2>1. Failed(slave', r, h) => r.runs = Nothing
    BY <1>2, <1>6
  <2>2. r.runs # Nothing =>
            /\ h \in slave'.enrolled /\ Wants(h, r.runs)
            /\ slave'.mapping[r.runs.name] = h
    BY <1>8, <1>9
  <2>3. ~Failed(slave', r, h) =>
            \/ r.runs # Nothing /\ r.runs.program = slave'.loading
            \/ r.runs = Nothing /\ Nameless(slave', h)
    BY <1>6, <1>8, <1>9, <1>10 DEF Nameless
  <2>. QED
    BY <2>1, <2>2, <2>3 DEF Runs
<1>12. Named(slave', r, h)
  BY <1>5, <1>11 DEF Named
<1>13. ASSUME r.runs # Nothing, NEW g \in Clients, g # h, host[g].link = "up"
       PROVE  host[g].runs # r.runs
  <2>1. Runs(slave, host[g], g)
    BY <1>1, <1>13 DEF AllNamed, Named
  <2>. QED
    BY <1>9, <1>13, <2>1 DEF Runs
<1>14. Takes(h, r)
  BY <1>2, <1>9, <1>13 DEF Takes
<1>. QED
  BY <1>2, <1>12, <1>14, NamedHost

LEMMA NamedRunLoad ==
    ASSUME INamed, ILoaded', NEW h \in Clients, RunLoadJob(h)
    PROVE  INamed' /\ HostGoes(h)
<1>1. TypeOK /\ slave \in SlaveState /\ Named(slave, host[h], h)
  BY NamedOf DEF AllNamed
<1>2. host[h].link = "up" /\ host[h].jobs # << >> /\ host[h].load.stage = "queued"
  BY <1>1, RunLoadJobFacts
<1>3. ASSUME slave' = slave, NEW ok \in BOOLEAN, host' = Loaded(h, ok)
      PROVE  INamed' /\ HostGoes(h)
  <2>1. Framed(h)
    BY <1>3 DEF Framed, SameQueue, SameControl
  <2>2. slave'.posted = slave.posted /\ slave'.out = slave.out
    BY <1>3
  <2>. QED
    BY <1>2, <1>3, <2>1, <2>2, NamedLoaded
<1>4. ASSUME NEW msg, msg = "buffer", NEW ok \in BOOLEAN,
             slave' = Post(slave, <<ClientEvent(h, msg, ok)>>),
             NEW r, Becomes(h, r), WaitsForBuffer(host[h], r)
      PROVE  INamed' /\ HostGoes(h)
  <2>1. msg \in {"enroll", "enrolleg", "alive", "load", "buffer"} \cup Config /\ msg # "load"
    BY <1>4
  <2>2. /\ Framed(h) /\ slave'.out = slave.out
        /\ Has(slave'.posted, Failures(h)) <=>
              Has(slave.posted, Failures(h)) \/ (msg = "load" /\ ~ok)
    BY ONLY <1>1, <1>4, <2>1, h \in Clients, ok \in BOOLEAN, FramedPost
  <2>3. r.link = host[h].link /\ r.runs = host[h].runs
        /\ r.load.stage = "buffer" /\ r.load.what = host[h].load.what
    BY <1>4 DEF WaitsForBuffer
  <2>4. SameBegins(slave, slave', h)
    BY <1>1, <2>2, FramedFacts
  <2>5. Undone(slave', r, h) <=> Undone(slave, host[h], h)
    BY <1>2, <2>3 DEF Undone
  <2>6. Failed(slave', r, h) <=> Failed(slave, host[h], h)
    BY <1>2, <2>1, <2>2, <2>3 DEF Failed
  <2>7. Right(slave, h, r.load.what)
    BY <1>1, <1>2, <2>3 DEF Named, Asks
  <2>8. Named(slave', r, h)
    BY <1>1, <1>2, <2>2, <2>3, <2>5, <2>6, <2>7, NamedTo
  <2>. QED
    BY <1>2, <1>4, <2>2, <2>3, <2>8, NamedHost DEF Takes
<1>5. \A ok \in BOOLEAN : \A r : slave' = Post(slave, <<ClientEvent(h, "buffer", ok)>>)
                              /\ Becomes(h, r) /\ WaitsForBuffer(host[h], r) => INamed' /\ HostGoes(h)
  BY <1>4
<1>. QED
  BY <1>1, <1>3, <1>5, RunLoadJobFacts

LEMMA NamedBuffer ==
    ASSUME INamed, ILoaded', NEW h \in Clients, ReceiveBuffer(h)
    PROVE  INamed' /\ HostGoes(h)
<1>1. /\ TypeOK /\ Works(host[h]) /\ slave \in SlaveState
      /\ slave.out[h] \in Seq(Order) /\ Accounted(slave, host[h], h)
  BY NamedOf, SlaveOf
<1>2. /\ host[h].link = "up" /\ slave.out[h] # << >> /\ Head(slave.out[h]).msg = "buffer"
      /\ slave' = Read(h)
  BY <1>1, ReceiveBufferFacts
<1>3. host[h].load.stage = "buffer" /\ host[h].jobs # << >>
  <2>1. BufferOut(slave, h)
    BY <1>1, <1>2, ReadOnce DEF BufferOut
  <2>. QED
    BY <1>1, <2>1 DEF Accounted, Buffers, Works, Has
<1>4. /\ Framed(h) /\ slave'.posted = slave.posted /\ SameOrders(slave.out[h], slave'.out[h])
  BY <1>1, <1>2, FramedRead
<1>5. PICK ok \in BOOLEAN : host' = Loaded(h, ok)
  BY <1>1, ReceiveBufferFacts
<1>. QED
  BY <1>2, <1>3, <1>4, <1>5, NamedLoaded DEF SameOrders

-----------------------------------------------------------------------------
(***************************************************************************)
(* The invariant, and what follows from it.                                *)
(***************************************************************************)
LEMMA InitNamed == Init => INamed
<1>. SUFFICES ASSUME Init PROVE INamed
  OBVIOUS
<1>1. ILoaded
  BY InitLoaded
<1>2. /\ slave.posted = << >> /\ slave.active = << >> /\ slave.acts = <<NewActivity("front")>>
      /\ slave.mapping = NoMapping /\ \A c \in Clients : slave.out[c] = << >>
  BY DEF Init
<1>3. \A c \in Clients : host[c].load.stage = "none" /\ host[c].runs = Nothing
  BY DEF Init
<1>4. \A S : ~Has(<< >>, S)
  BY DEF Has
<1>5. ASSUME NEW c \in Clients
      PROVE  Named(slave, host[c], c)
  <2>1. ~Undone(slave, host[c], c) /\ ~Failed(slave, host[c], c)
    BY <1>2, <1>3, <1>4 DEF Undone, Failed, Begins, Starting
  <2>2. ~Spreads(slave)
    BY <1>2 DEF Spreads, ToSet
  <2>. QED
    BY <1>3, <2>1, <2>2 DEF Named, Asks, Runs, Undone
<1>6. Mapped(slave)
  BY <1>2 DEF Mapped, OneName, NoMapping
<1>. QED
  BY <1>1, <1>3, <1>5, <1>6 DEF INamed, OneRunner, AllNamed

LEMMA NamedHostStep ==
    ASSUME INamed, NEW h \in Clients, HostStep(h)
    PROVE  INamed' /\ HostGoes(h)
<1>1. ILoaded'
  BY NextLoaded DEF INamed, Next, HostStep
<1>2. CASE StartHost(h) \/ ReceiveEnrolled(h) \/ ArriveEG(h) \/ ReceiveEGEnrolled(h)
  BY <1>1, <1>2, NamedEnrolling
<1>3. CASE ReceiveAlive(h)
  BY <1>1, <1>3, NamedAlive
<1>4. CASE \/ \E type \in Config : ReceiveConfig(h, type)
           \/ ConfigJobComplete(h) \/ RunConfigJob(h)
  BY <1>1, <1>4, NamedConfig
<1>5. CASE ReceiveLoad(h)
  BY <1>1, <1>5, NamedReceive
<1>6. CASE RunLoadJob(h)
  BY <1>1, <1>6, NamedRunLoad
<1>7. CASE ReceiveBuffer(h)
  BY <1>1, <1>7, NamedBuffer
<1>8. CASE LoadJobComplete(h)
  BY <1>1, <1>8, NamedJobComplete
<1>9. CASE Crash(h) \/ Detect(h)
  BY <1>1, <1>9, NamedEnding
<1>. QED
  BY <1>2, <1>3, <1>4, <1>5, <1>6, <1>7, <1>8, <1>9 DEF HostStep, HostQueue, SimThread

LEMMA NextNamed ==
    ASSUME INamed, [Next]_vars
    PROVE  INamed' /\ Changes
<1>1. ILoaded'
  BY NextLoaded DEF INamed
<1>2. CASE Queue
  BY <1>2, NamedStart, NamedServer, NamedClient, NamedComplete DEF Queue
<1>3. CASE StartSlave
  BY <1>3, NamedStartSlave
<1>4. CASE Test
  BY <1>4, NamedTest
<1>5. CASE \/ \E p \in Program : AskLoad(p)
           \/ \E type \in Config : AskConfig(type)
  BY <1>5, NamedAsk
<1>6. ASSUME NEW h \in Clients, HostStep(h)
      PROVE  INamed' /\ Onward(slave, slave')
  BY <1>6, NamedHostStep, NamedOf, FramedFacts DEF HostGoes
<1>7. CASE UNCHANGED vars
  <2>1. Onward(slave, slave')
    BY <1>7, StaySame DEF vars, Stay
  <2>. QED
    BY <1>1, <1>7, <2>1 DEF vars, INamed, OneRunner, AllNamed, Changes
<1>8. CASE \E p \in ActiveAtMaster : OnEnrollment(p)
  BY <1>8, NamedEnrollment
<1>. QED
  BY <1>2, <1>3, <1>4, <1>5, <1>6, <1>7, <1>8 DEF Next, HostStep, Changes

\* Loads are answered as they end: before the first activities are active none is
\* denied, since nothing loads, and after that none is asked for while one loads.
LEMMA AnsweredAtEnd ==
    ASSUME INamed, Changes, slave'.loadsAnswered # slave.loadsAnswered
    PROVE  LoadsEnd(slave, slave')
<1>1. ASSUME NEW p \in Program, AskLoad(p)
      PROVE  FALSE
  <2>1. PICK e, n : e \in Event /\ e = ServerEvent("load", p) /\ n = Post(slave, <<e>>)
    BY EventFacts
  <2>2. SameControl(slave, n) /\ slave' = n
    BY <1>1, <2>1, NamedOf, PostOneFacts DEF AskLoad
  <2>. QED
    BY <2>2 DEF SameControl
<1>2. CASE OnServerMessage /\ Permanent \notin ToSet(slave.active)
  <2>1. slave' = [slave EXCEPT !.posted = Tail(@)]
    BY <1>2 DEF OnServerMessage, Taken
  <2>. QED
    BY <2>1, NamedOf DEF SlaveState
<1>3. ASSUME NEW p \in ActiveAtMaster, OnEnrollment(p)
      PROVE  FALSE
  BY <1>3, NamedOf, EnrollmentFacts
<1>. QED
  BY <1>1, <1>2, <1>3 DEF Changes, Onward, LoadBegins

LEMMA NamedInvariance == Spec => []INamed
<1>1. INamed /\ [Next]_vars => INamed'
  BY NextNamed
<1>. QED
  BY <1>1, InitNamed, PTL DEF Spec

\* No two hosts run one host name of one program at a time: a host that gets the
\* name of another is asked only once that one has unloaded (HostMap, LoadHosts).
THEOREM OneRunnerOfAName == Spec => []OneRunner
<1>1. INamed => OneRunner
  BY DEF INamed
<1>. QED
  BY <1>1, NamedInvariance, PTL

\* When the load of a program ends a host runs it under its name, or nothing.
LEMMA SpreadRuns ==
    ASSUME INamed, slave.loadHosts \in ToSet(slave.active), slave.acts[slave.loadHosts].children = {},
           slave.loading \in Loadable \cup {NoProgram}, NEW h \in Clients, host[h].link = "up"
    PROVE  \/ host[h].runs = Nothing /\ Nameless(slave, h)
           \/ \E n \in HostNames : /\ slave.mapping[n] = h
                                   /\ host[h].runs = [name |-> n, program |-> slave.loading]
<1>1. Spreads(slave)
  BY DEF Spreads
<1>2. ~Undone(slave, host[h], h) /\ ~Failed(slave, host[h], h)
  BY NamedOf, Idle
<1>3. Runs(slave, host[h], h)
  BY NamedOf DEF AllNamed, Named
<1>4. PICK runs : runs = host[h].runs /\ runs \in Whats
  BY NamedOf, SlaveOf, HostStateFacts
<1>5. CASE runs # Nothing /\ runs.program = slave.loading
  <2>1. runs.name \in HostNames /\ slave.mapping[runs.name] = h
    BY <1>2, <1>3, <1>4, <1>5 DEF Runs, Wants
  <2>2. runs = [name |-> runs.name, program |-> slave.loading]
    BY <1>4, <1>5 DEF Whats
  <2>. QED
    BY <1>4, <2>1, <2>2
<1>. QED
  BY <1>1, <1>2, <1>3, <1>4, <1>5 DEF Runs

\* As LoadProgramActivity answers that a program is loaded, the active one already
\* or not, each host that is there runs it under its name in the map, or nothing
\* without one.
THEOREM HostsRunAsMapped == Spec => RunsAsMapped
<1>1. ASSUME INamed, [Next]_vars
      PROVE  [LoadSucceeds /\ slave'.program \in Loadable \cup {NoProgram} =>
                \A h \in Clients : host[h].link = "up" =>
                    host[h].runs \in
                        {[name |-> n, program |-> slave'.program] :
                             n \in {n \in HostNames : slave'.mapping[n] = h}}
                        \cup (IF \E n \in HostNames : slave'.mapping[n] = h
                              THEN {} ELSE {Nothing})]_vars
  <2>1. SUFFICES ASSUME LoadSucceeds, slave'.program \in Loadable \cup {NoProgram},
                        NEW h \in Clients, host[h].link = "up"
                 PROVE  host[h].runs \in
                            {[name |-> n, program |-> slave'.program] :
                                 n \in {n \in HostNames : slave'.mapping[n] = h}}
                            \cup (IF \E n \in HostNames : slave'.mapping[n] = h
                                  THEN {} ELSE {Nothing})
    OBVIOUS
  <2>2. LoadsEnd(slave, slave')
    BY <1>1, <2>1, NextNamed, AnsweredAtEnd DEF LoadSucceeds
  <2>3. slave'.program = slave.loading /\ slave'.mapping = slave.mapping
    BY <2>1, <2>2 DEF LoadsEnd, LoadSucceeds
  <2>4. \/ host[h].runs = Nothing /\ Nameless(slave, h)
        \/ \E n \in HostNames : /\ slave.mapping[n] = h
                                /\ host[h].runs = [name |-> n, program |-> slave.loading]
    BY <1>1, <2>1, <2>2, <2>3, SpreadRuns DEF LoadsEnd
  <2>. QED
    BY <2>3, <2>4 DEF Nameless
<1>. QED
  BY <1>1, NamedInvariance, PTL DEF Spec, RunsAsMapped

-----------------------------------------------------------------------------
(***************************************************************************)
(* The first handlers: until the first activities are active nobody        *)
(* listens, but until then only hosts post anything, since the process     *)
(* asks for nothing before their start is posted.                          *)
(***************************************************************************)
Opens(s) ==
    \A i \in DOMAIN s : s[i].type # "client" =>
        \E k \in DOMAIN s : k <= i /\ s[k] = StartEvent(Permanent)

Opening(m) ==
    \/ Permanent \in ToSet(m.active)
    \/ Opens(m.posted) /\ (m.process = "up" => Starting(m, Permanent))

LEMMA OpensHead ==
    ASSUME NEW s \in Seq(Event), s # << >>, Opens(s), Head(s).type # "client"
    PROVE  Head(s) = StartEvent(Permanent)
<1>1. Head(s) = s[1] /\ 1 \in DOMAIN s /\ DOMAIN s = 1 .. Len(s)
  BY TailFacts, LenProperties
<1>2. PICK k \in DOMAIN s : k <= 1 /\ s[k] = StartEvent(Permanent)
  BY <1>1 DEF Opens
<1>3. k = 1
  BY <1>1, <1>2
<1>. QED
  BY <1>1, <1>2, <1>3

LEMMA OpensTail ==
    ASSUME NEW s \in Seq(Event), s # << >>, Opens(s), Head(s).type = "client"
    PROVE  Opens(Tail(s)) /\ (Has(s, {StartEvent(Permanent)}) => Has(Tail(s), {StartEvent(Permanent)}))
<1>1. Head(s) # StartEvent(Permanent)
  BY DEF StartEvent
<1>2. PICK t : t = Tail(s)
  OBVIOUS
<1>3. /\ Head(s) = s[1] /\ DOMAIN t = 1 .. Len(s) - 1 /\ DOMAIN s = 1 .. Len(s) /\ Len(s) \in Nat
      /\ \A i \in DOMAIN t : i + 1 \in DOMAIN s /\ t[i] = s[i + 1]
  BY <1>2, TailFacts, LenProperties
<1>4. ASSUME NEW i \in DOMAIN t, t[i].type # "client"
      PROVE  \E k \in DOMAIN t : k <= i /\ t[k] = StartEvent(Permanent)
  <2>1. s[i + 1].type # "client" /\ i + 1 \in DOMAIN s
    BY <1>3, <1>4
  <2>2. PICK k \in DOMAIN s : k <= i + 1 /\ s[k] = StartEvent(Permanent)
    BY <2>1 DEF Opens
  <2>3. k # 1
    BY <1>1, <1>3, <2>2
  <2>4. k - 1 \in DOMAIN t /\ k - 1 <= i /\ (k - 1) + 1 = k
    BY <1>3, <1>4, <2>2, <2>3
  <2>5. t[k - 1] = s[k]
    BY <1>3, <2>4
  <2>. QED
    BY <2>2, <2>4, <2>5
<1>5. Opens(t)
  BY <1>4 DEF Opens
<1>. QED
  BY <1>1, <1>2, <1>5, HasOnceTail

LEMMA OpensConcat ==
    ASSUME NEW s \in Seq(Event), NEW t \in Seq(Event), Opens(s),
           \/ Has(s, {StartEvent(Permanent)})
           \/ \A i \in DOMAIN t : t[i].type = "client" \/ t[i] = StartEvent(Permanent)
    PROVE  /\ Opens(s \o t)
           /\ Has(s, {StartEvent(Permanent)}) => Has(s \o t, {StartEvent(Permanent)})
<1>1. PICK st : st = s \o t
  OBVIOUS
<1>2. /\ \A i \in DOMAIN st : \/ i \in DOMAIN s /\ st[i] = s[i]
                              \/ i \notin DOMAIN s /\ \E j \in DOMAIN t : st[i] = t[j]
      /\ \A i \in DOMAIN s : i \in DOMAIN st /\ st[i] = s[i]
      /\ DOMAIN st = 1 .. Len(s) + Len(t) /\ DOMAIN s = 1 .. Len(s)
      /\ Len(s) \in Nat /\ Len(t) \in Nat
  BY <1>1, ConcatFacts, LenProperties
<1>3. ASSUME NEW i \in DOMAIN st, st[i].type # "client"
      PROVE  \E k \in DOMAIN st : k <= i /\ st[k] = StartEvent(Permanent)
  <2>1. CASE i \in DOMAIN s
    <3>1. s[i].type # "client"
      BY <1>2, <1>3, <2>1
    <3>2. PICK k \in DOMAIN s : k <= i /\ s[k] = StartEvent(Permanent)
      BY <2>1, <3>1 DEF Opens
    <3>. QED
      BY <1>2, <3>2
  <2>2. CASE i \notin DOMAIN s /\ st[i] = StartEvent(Permanent)
    <3>1. i <= i
      BY <1>2
    <3>. QED
      BY <2>2, <3>1
  <2>3. CASE i \notin DOMAIN s /\ st[i] # StartEvent(Permanent)
    <3>1. Has(s, {StartEvent(Permanent)})
      BY <1>2, <1>3, <2>3
    <3>2. PICK k \in DOMAIN s : s[k] = StartEvent(Permanent)
      BY <3>1 DEF Has
    <3>3. k <= i
      BY <1>2, <2>3
    <3>. QED
      BY <1>2, <3>2, <3>3
  <2>. QED
    BY <2>1, <2>2, <2>3
<1>4. Opens(st)
  BY <1>3 DEF Opens
<1>. QED
  BY <1>1, <1>4, HasOnceConcat

\* So the head that is not a host's is the start of the first activities.
LEMMA OpeningHead ==
    ASSUME NEW m \in SlaveState, Opening(m), Permanent \notin ToSet(m.active),
           m.posted # << >>, Head(m.posted).type # "client"
    PROVE  Head(m.posted) = StartEvent(Permanent)
BY StateFacts, OpensHead DEF Opening

LEMMA OpeningPosts ==
    ASSUME NEW m \in SlaveState, NEW n, Opening(m), n.process = m.process, n.active = m.active,
           NEW es \in Seq(Event), n.posted = m.posted \o es,
           m.process = "up" \/ \A i \in DOMAIN es : es[i].type = "client"
    PROVE  Opening(n)
<1>1. m.posted \in Seq(Event)
  BY StateFacts
<1>2. CASE Opens(m.posted) /\ (m.process = "up" => Starting(m, Permanent))
  BY <1>1, <1>2, OpensConcat DEF Opening, Starting
<1>. QED
  BY <1>2 DEF Opening

LEMMA NextOpening ==
    ASSUME INamed, Opening(slave), [Next]_vars
    PROVE  Opening(slave')
<1>1. slave \in SlaveState /\ Queued(slave) /\ slave.posted \in Seq(Event) /\ Changes
  BY NextNamed, NamedOf, StateFacts
<1>2. PICK t : t = [slave EXCEPT !.posted = Tail(@)]
  OBVIOUS
<1>3. /\ t.posted = Tail(slave.posted) /\ t.active = slave.active /\ t.process = slave.process
  BY <1>1, <1>2 DEF SlaveState
<1>4. ASSUME NEW p \in Program, NEW msg \in {"load"} \cup Config, slave.process = "up",
             slave' = Post(slave, <<ServerEvent(msg, p)>>)
      PROVE  Opening(slave')
  <2>1. PICK e, n : e = ServerEvent(msg, p) /\ e \in Event /\ n = Post(slave, <<e>>)
    BY EventFacts
  <2>2. n.posted = Append(slave.posted, e) /\ SameQueue(slave, n)
    BY <1>1, <2>1, PostOneFacts
  <2>3. <<e>> \in Seq(Event) /\ n.posted = slave.posted \o <<e>>
    BY <1>1, <2>1, <2>2, AppendFacts
  <2>4. Opening(n)
    BY <1>1, <1>4, <2>2, <2>3, OpeningPosts DEF SameQueue
  <2>. QED
    BY <1>4, <2>1, <2>4
<1>5. CASE (\E p \in Program : AskLoad(p)) \/ (\E type \in Config : AskConfig(type))
  <2>1. NoProgram \in Program
    BY Constants
  <2>. QED
    BY <1>4, <1>5, <2>1 DEF AskLoad, AskConfig, Enrolled
<1>6. CASE /\ Permanent \in ToSet(slave.active) /\ ~\E p \in Program : AskLoad(p)
           /\ ~\E p \in ActiveAtMaster : OnEnrollment(p)
  BY <1>1, <1>6 DEF Opening, Changes, Onward, LoadBegins, LoadsEnd
<1>7. ASSUME Permanent \notin ToSet(slave.active)
      PROVE  /\ Opens(slave.posted) /\ (slave.process = "up" => Starting(slave, Permanent))
             /\ slave.posted # << >> /\ Head(slave.posted).type # "client" =>
                   Head(slave.posted) = StartEvent(Permanent)
  BY <1>1, <1>7, OpeningHead DEF Opening
<1>8. CASE Permanent \notin ToSet(slave.active) /\ OnStartActivity
  <2>1. /\ slave.posted # << >> /\ Head(slave.posted).type = "start"
        /\ slave' \in AQ!Starts(t, Head(slave.posted).act)
    BY <1>2, <1>8 DEF OnStartActivity, NextHandler, Taken
  <2>2. Head(slave.posted).act = Permanent
    BY <1>7, <1>8, <2>1 DEF StartEvent
  <2>3. PICK k \in SlaveState : Activated(slave, k, Permanent) /\ slave' \in Start(k, Permanent)
    BY <1>1, <1>2, <2>1, <2>2, StartsFacts, Zenon
  <2>4. Queued(k) /\ Permanent \in ToSet(k.active) /\ k.acts[Permanent].kind = "front"
    BY <2>3 DEF Activated, Queued, Family, Permanent
  <2>5. Stay(k, slave')
    BY <2>3, <2>4, StayStart
  <2>. QED
    BY <2>4, <2>5 DEF Stay, Onward, Opening
<1>9. CASE Permanent \notin ToSet(slave.active) /\ (OnServerMessage \/ OnActivityComplete)
  <2>1. slave.posted # << >> /\ Head(slave.posted).type \in {"server", "complete"}
    BY <1>9 DEF OnServerMessage, OnActivityComplete, NextHandler
  <2>. QED
    BY <1>7, <1>9, <2>1 DEF StartEvent
<1>10. CASE Permanent \notin ToSet(slave.active) /\ OnClientMessage
  <2>1. slave.posted # << >> /\ Head(slave.posted).type = "client" /\ slave' = t
    BY <1>2, <1>10 DEF OnClientMessage, NextHandler, Taken
  <2>. QED
    BY <1>1, <1>3, <1>7, <1>10, <2>1, OpensTail DEF Opening, Starting
<1>11. CASE Permanent \notin ToSet(slave.active) /\ StartSlave
  <2>1. PICK e : e = StartEvent(Permanent) /\ e \in Event
    BY EventFacts DEF Permanent
  <2>2. PICK k, n : k = [slave EXCEPT !.process = "up"] /\ n = Post(k, <<e>>)
    OBVIOUS
  <2>3. slave' = n
    BY <1>11, <2>1, <2>2 DEF StartSlave, PostStart
  <2>4. k \in SlaveState /\ k.posted = slave.posted
    BY <1>1, <2>2, ProcessFacts
  <2>5. n.posted = Append(slave.posted, e)
    BY <2>1, <2>2, <2>4, PostOneFacts
  <2>6. Has(n.posted, {e})
    BY <1>1, <2>1, <2>5, HasOnceAppend
  <2>7. /\ <<e>> \in Seq(Event) /\ n.posted = slave.posted \o <<e>>
        /\ \A i \in DOMAIN <<e>> : <<e>>[i] = e
    BY <1>1, <2>1, <2>5, AppendFacts
  <2>8. Opens(n.posted)
    BY <1>1, <1>7, <1>11, <2>1, <2>7, OpensConcat
  <2>. QED
    BY <2>1, <2>3, <2>6, <2>8 DEF Opening, Starting
<1>12. CASE Test
  <2>1. PICK new, n, es : /\ new = <<NewActivity("testHosts")>> /\ n = StartActivities(slave, new)
                          /\ es = [i \in 1 .. Len(new) |-> StartEvent(Len(slave.acts) + i)]
    OBVIOUS
  <2>2. new \in Seq(Activity)
    BY <2>1, NewActivityFacts
  <2>3. n.posted = slave.posted \o es /\ es \in Seq(Event) /\ n.process = slave.process
       /\ n.active = slave.active
    BY <1>1, <2>1, <2>2, NewFacts
  <2>. QED
    BY <1>1, <1>12, <2>1, <2>3, OpeningPosts DEF Test, Enrolled
<1>13. ASSUME NEW h \in Clients, HostStep(h)
       PROVE  Opening(slave')
  <2>1. Framed(h)
    BY <1>13, NamedHostStep DEF HostGoes
  <2>2. CASE slave'.posted = slave.posted
    BY <2>1, <2>2 DEF Opening, Starting, Framed, SameQueue
  <2>3. ASSUME NEW e \in Event, e.type = "client", slave'.posted = Append(slave.posted, e)
        PROVE  Opening(slave')
    <3>1. /\ <<e>> \in Seq(Event) /\ slave'.posted = slave.posted \o <<e>>
          /\ \A i \in DOMAIN <<e>> : <<e>>[i].type = "client"
      BY <1>1, <2>3, AppendFacts
    <3>. QED
      BY <1>1, <2>1, <3>1, OpeningPosts DEF Framed, SameQueue
  <2>. QED
    BY <2>1, <2>2, <2>3 DEF Framed
<1>14. CASE UNCHANGED vars
  BY <1>14 DEF vars
<1>15. CASE \E p \in ActiveAtMaster : OnEnrollment(p)
  BY <1>15, NamedOf, EnrollmentFacts DEF Opening, OnEnrollment, SameQueue
<1>. QED
  BY <1>5, <1>6, <1>8, <1>9, <1>10, <1>11, <1>12, <1>13, <1>14, <1>15 DEF Next, Queue, HostStep

-----------------------------------------------------------------------------
(***************************************************************************)
(* The slave implements ProgramLoads.                                      *)
(***************************************************************************)
Shown == [h \in Clients |-> IF host[h].link = "up" THEN host[h].runs ELSE Nothing]

UnderWay(n, m) ==
    IF n = m.loadsAnswered THEN {} ELSE IF Requests(m) # {} THEN Requests(m) ELSE {m.loading}

LEMMA LoadUnderWayIs ==
    /\ LoadUnderWay = UnderWay(asked.loads, slave)
    /\ LoadUnderWay' = UnderWay(asked'.loads, slave')
<1>1. \A s, x : Has(s, {x}) <=> x \in ToSet(s)
  BY DEF Has, ToSet
<1>. QED
  BY <1>1 DEF LoadUnderWay, UnderWay, Requests

\* The abstract steps, in terms of the slave's state.
LEMMA LoadsStutter ==
    ASSUME LoadUnderWay' = LoadUnderWay, slave'.program = slave.program,
           slave'.outcome = slave.outcome, Shown' = Shown
    PROVE  UNCHANGED Loads!vars
BY DEF Loads!vars, Shown

LEMMA LoadsEnroll ==
    ASSUME INamed, NEW p \in ActiveAtMaster, OnEnrollment(p)
    PROVE  Loads!Next
<1>1. /\ slave'.posted = slave.posted /\ slave'.loading = slave.loading
      /\ slave'.loadsAnswered = slave.loadsAnswered /\ slave'.program = p /\ p \in Program
      /\ slave.outcome = "none" /\ slave'.outcome = "enrolled" /\ host' = host /\ asked' = asked
  BY NamedOf, EnrollmentFacts
<1>2. LoadUnderWay' = LoadUnderWay /\ Shown' = Shown
  BY <1>1, LoadUnderWayIs DEF UnderWay, Requests, Shown
<1>. QED
  BY <1>1, <1>2 DEF Loads!Next, Loads!Enroll, Shown

LEMMA LoadsRequest ==
    ASSUME NEW p \in Program, LoadUnderWay = {}, LoadUnderWay' = {p}, slave.outcome # "none",
           slave'.program = slave.program, slave'.outcome = slave.outcome, Shown' = Shown
    PROVE  Loads!Next
BY DEF Loads!Next, Loads!Request, Shown

LEMMA LoadsEnded ==
    ASSUME NEW h \in Clients, Shown' = [Shown EXCEPT ![h] = Nothing],
           LoadUnderWay' = LoadUnderWay, slave'.program = slave.program,
           slave'.outcome = slave.outcome
    PROVE  Loads!Next
<1>1. Loads!End(h)
  BY DEF Loads!End, Loads!Nothing, Nothing, NoName, NoProgram, Shown
<1>. QED
  BY <1>1 DEF Loads!Next

LEMMA LoadsReply ==
    ASSUME NEW p, LoadUnderWay = {p}, LoadUnderWay' = {}, Shown' = Shown,
           \/ slave'.outcome = "yes" /\ slave'.program = p
           \/ slave'.outcome = "no" /\ slave'.program = slave.program,
           p \in Loadable \cup {NoProgram} =>
              \A h \in Clients : \/ Shown[h] = Nothing
                                 \/ \E n \in HostNames : Shown[h] = [name |-> n, program |-> p]
    PROVE  Loads!Next
<1>1. p \in Loadable \cup {NoProgram} =>
         \A h \in Clients : Shown[h] \in {Loads!Nothing} \cup Loads!Parts(p)
  BY DEF Loads!Parts, Loads!Nothing, Nothing, NoName, NoProgram
<1>2. Loads!Reply
  BY <1>1 DEF Loads!Reply, Shown
<1>. QED
  BY <1>2 DEF Loads!Next

\* While a host loads, a load is under way: that of the program which is loading.
LEMMA HostLoading ==
    ASSUME INamed, NEW h \in Clients, host[h].load.stage # "none"
    PROVE  LoadUnderWay = {slave.loading}
<1>1. slave \in SlaveState /\ Queued(slave) /\ Accounts(slave, host[h], h)
  BY NamedOf DEF Accounted
<1>2. Await(slave, h)
  BY <1>1 DEF Accounts, SomeLoad
<1>3. Busy(slave)
  BY <1>1, <1>2, AwaitLive, HostLoads DEF Await, Waits
<1>4. asked.loads # slave.loadsAnswered /\ ~Requested(slave)
  BY <1>1, <1>3 DEF Queued, Asked, Fronted
<1>. QED
  BY <1>4, LoadUnderWayIs, NoneRequested DEF UnderWay

LEMMA LoadsHostStep ==
    ASSUME INamed, NEW h \in Clients, HostStep(h)
    PROVE  Loads!Next \/ UNCHANGED Loads!vars
<1>1. HostGoes(h) /\ asked' = asked /\ slave \in SlaveState /\ host \in [Clients -> HostState]
  BY NamedHostStep, HostAsks, NamedOf DEF TypeOK
<1>2. Onward(slave, slave')
  BY <1>1, FramedFacts DEF HostGoes
<1>3. /\ LoadUnderWay' = LoadUnderWay /\ slave'.program = slave.program
      /\ slave'.outcome = slave.outcome
  BY <1>1, <1>2, LoadUnderWayIs DEF Onward, UnderWay
<1>4. PICK r : Becomes(h, r) /\ Takes(h, r)
  BY <1>1 DEF HostGoes
<1>5. PICK part : part = IF r.link = "up" THEN r.runs ELSE Nothing
  OBVIOUS
<1>6. Shown' = [Shown EXCEPT ![h] = part]
  BY <1>4, <1>5 DEF Shown, Becomes
<1>7. CASE part = Nothing
  BY <1>3, <1>6, <1>7, LoadsEnded
<1>8. CASE part = Shown[h]
  <2>1. Shown' = Shown
    BY <1>6, <1>8 DEF Shown
  <2>. QED
    BY <1>3, <2>1, LoadsStutter
<1>9. CASE part # Nothing /\ part # Shown[h]
  <2>1. r.link = "up" /\ part = r.runs /\ r.runs # Nothing
    BY <1>5, <1>9
  <2>2. ~(host[h].link = "up" /\ r.runs = host[h].runs)
    BY <1>9, <2>1 DEF Shown
  <2>3. /\ host[h].load.stage # "none" /\ Wants(h, part) /\ part.program = slave.loading
        /\ \A g \in Clients : g # h /\ host[g].link = "up" => host[g].runs # part
    BY <1>4, <2>1, <2>2 DEF Takes
  <2>4. part \in Whats
    BY <1>4, <2>1, HostStateFacts DEF Becomes
  <2>5. PICK n \in HostNames : part = [name |-> n, program |-> slave.loading]
    BY <2>3, <2>4 DEF Wants, Whats
  <2>6. \A g \in Clients : Shown[g] # part
    BY <1>9, <2>3 DEF Shown
  <2>7. slave.loading \in LoadUnderWay
    BY <2>3, HostLoading
  <2>8. Loads!Change(h)
    <3>1. part \in Loads!Parts(slave.loading)
      BY <2>5 DEF Loads!Parts
    <3>. QED
      BY <1>3, <1>6, <2>6, <2>7, <3>1 DEF Loads!Change, Shown
  <2>. QED
    BY <2>8 DEF Loads!Next
<1>. QED
  BY <1>7, <1>8, <1>9

\* A load is asked for.
LEMMA LoadsAsked ==
    ASSUME INamed, NEW p \in Program, AskLoad(p)
    PROVE  Loads!Next
<1>1. slave \in SlaveState /\ Queued(slave) /\ TypeOK /\ slave.posted \in Seq(Event)
  BY NamedOf, StateFacts
<1>2. PICK e, n : e = ServerEvent("load", p) /\ e \in Event /\ n = Post(slave, <<e>>)
  BY EventFacts
<1>3. n.posted = Append(slave.posted, e) /\ SameControl(slave, n)
  BY <1>1, <1>2, PostOneFacts
<1>4. slave' = n /\ host' = host /\ asked.loads = slave.loadsAnswered
      /\ asked' = [asked EXCEPT !.loads = @ + 1] /\ slave.outcome # "none"
  BY <1>2 DEF AskLoad, Enrolled
<1>5. asked'.loads = asked.loads + 1 /\ asked.loads \in Nat
  BY <1>1, <1>4, SlaveAssumption DEF TypeOK
<1>6. Requests(slave) = {}
  BY <1>1, <1>4, NoneRequested DEF Queued, Asked
<1>7. Requests(n) = {p}
  <2>1. ASSUME NEW q \in Program
        PROVE  Has(n.posted, {ServerEvent("load", q)}) <=> q = p
    <3>1. ~Has(slave.posted, {ServerEvent("load", q)})
      BY <1>6 DEF Requests
    <3>2. e \in {ServerEvent("load", q)} <=> q = p
      BY <1>2 DEF ServerEvent
    <3>3. PICK S : S = {ServerEvent("load", q)}
      OBVIOUS
    <3>4. Has(Append(slave.posted, e), S) <=> Has(slave.posted, S) \/ e \in S
      BY ONLY <1>1, <1>2, HasOnceAppend
    <3>. QED
      BY <1>3, <3>1, <3>2, <3>3, <3>4
  <2>. QED
    BY <2>1 DEF Requests
<1>8. LoadUnderWay = {}
  BY <1>4, LoadUnderWayIs DEF UnderWay
<1>9. asked'.loads # slave'.loadsAnswered
  BY <1>3, <1>4, <1>5 DEF SameControl
<1>10. LoadUnderWay' = {p}
  BY <1>4, <1>7, <1>9, LoadUnderWayIs DEF UnderWay
<1>11. slave'.program = slave.program /\ slave'.outcome = slave.outcome /\ Shown' = Shown
  BY <1>3, <1>4 DEF SameControl, Shown
<1>. QED
  BY <1>4, <1>8, <1>10, <1>11, LoadsRequest

\* Another step of the slave.
LEMMA LoadsSlaveStep ==
    ASSUME INamed, Opening(slave), Changes, \A p \in Program : ~AskLoad(p),
           \A p \in ActiveAtMaster : ~OnEnrollment(p), host' = host, asked'.loads = asked.loads
    PROVE  Loads!Next \/ UNCHANGED Loads!vars
<1>1. slave \in SlaveState /\ Queued(slave) /\ asked.loads \in Nat /\ slave.loadsAnswered \in Nat
  BY NamedOf, StateFacts, SlaveAssumption DEF TypeOK
<1>2. Shown' = Shown
  BY DEF Shown
<1>3. CASE Onward(slave, slave')
  <2>1. /\ LoadUnderWay' = LoadUnderWay /\ slave'.program = slave.program
        /\ slave'.outcome = slave.outcome
    BY <1>3, LoadUnderWayIs DEF Onward, UnderWay
  <2>. QED
    BY <1>2, <2>1, LoadsStutter
<1>4. CASE LoadBegins(slave, slave')
  <2>1. Requested(slave)
    BY <1>4, NoneRequested DEF LoadBegins
  <2>2. asked.loads # slave.loadsAnswered
    BY <1>1, <2>1 DEF Queued, Asked
  <2>3. /\ LoadUnderWay' = LoadUnderWay /\ slave'.program = slave.program
        /\ slave'.outcome = slave.outcome
    BY <1>4, <2>2, LoadUnderWayIs DEF LoadBegins, UnderWay
  <2>. QED
    BY <1>2, <2>3, LoadsStutter
<1>5. CASE LoadsEnd(slave, slave')
  <2>1. Busy(slave)
    BY <1>5 DEF LoadsEnd, Busy, Live
  <2>2. asked.loads = slave.loadsAnswered + 1 /\ ~Requested(slave)
    BY <1>1, <2>1 DEF Queued, Asked, Fronted
  <2>3. LoadUnderWay = {slave.loading}
    BY <1>1, <2>2, LoadUnderWayIs, NoneRequested DEF UnderWay
  <2>4. LoadUnderWay' = {}
    BY <1>5, <2>2, LoadUnderWayIs DEF UnderWay, LoadsEnd
  <2>5. \/ slave'.outcome = "yes" /\ slave'.program = slave.loading
        \/ slave'.outcome = "no" /\ slave'.program = slave.program
    BY <1>5 DEF LoadsEnd
  <2>6. slave.loading \in Loadable \cup {NoProgram} =>
           \A h \in Clients :
              \/ Shown[h] = Nothing
              \/ \E n \in HostNames : Shown[h] = [name |-> n, program |-> slave.loading]
    BY <1>5, SpreadRuns DEF LoadsEnd, Shown
  <2>. QED
    BY <1>2, <2>3, <2>4, <2>5, <2>6, LoadsReply
<1>6. ~(OnServerMessage /\ Permanent \notin ToSet(slave.active))
  <2>1. OnServerMessage => slave.posted # << >> /\ Head(slave.posted).type = "server"
    BY DEF OnServerMessage, NextHandler
  <2>. QED
    BY <1>1, <2>1, OpeningHead DEF StartEvent
<1>. QED
  BY <1>3, <1>4, <1>5, <1>6 DEF Changes

LEMMA LoadsNext ==
    ASSUME INamed, Opening(slave), [Next]_vars
    PROVE  Loads!Next \/ UNCHANGED Loads!vars
<1>1. CASE \E h \in Clients : HostStep(h)
  BY <1>1, LoadsHostStep
<1>2. CASE \E p \in Program : AskLoad(p)
  BY <1>2, LoadsAsked
<1>3. CASE \E p \in ActiveAtMaster : OnEnrollment(p)
  BY <1>3, LoadsEnroll
<1>4. CASE /\ ~\E h \in Clients : HostStep(h)
           /\ \A p \in Program : ~AskLoad(p)
           /\ \A p \in ActiveAtMaster : ~OnEnrollment(p)
  <2>1. TypeOK
    BY NamedOf
  <2>2. \/ Queue \/ StartSlave \/ Test \/ (\E type \in Config : AskConfig(type))
        \/ UNCHANGED vars
    BY <1>4 DEF Next, HostStep
  <2>3. host' = host /\ asked'.loads = asked.loads
    BY <2>1, <2>2 DEF Queue, OnStartActivity, OnServerMessage, OnClientMessage, OnActivityComplete,
                      StartSlave, Test, AskConfig, TypeOK, vars
  <2>. QED
    BY <1>4, <2>3, NextNamed, LoadsSlaveStep
<1>. QED
  BY <1>1, <1>2, <1>3, <1>4

LEMMA LoadsInit == Init => Loads!Init
<1>. SUFFICES ASSUME Init PROVE Loads!Init
  OBVIOUS
<1>1. LoadUnderWay = {}
  BY LoadUnderWayIs DEF UnderWay, Init
<1>2. slave.program = NoProgram /\ slave.outcome = "none" /\ Shown = [h \in Clients |-> Nothing]
  BY DEF Init, Shown
<1>. QED
  BY <1>1, <1>2 DEF Loads!Init, Loads!Nothing, Nothing, NoName, NoProgram, Shown

\* What the hosts run changes only between the request of a load and its answer, to
\* a part of that program that no other host runs; the slave's program changes with
\* the enrollment and with a success, which leaves no host running another, whether
\* the program was active before or not: the slave implements ProgramLoads
\* (slave/activitiesMaster.cpp, slave/activitiesHost.cpp).
THEOREM LoadsImplemented == Spec => ImplementsLoads
<1>1. Init => INamed /\ Opening(slave)
  BY InitNamed DEF Init, Opening, Opens
<1>2. INamed /\ Opening(slave) /\ [Next]_vars => (INamed /\ Opening(slave))'
  BY NextNamed, NextOpening
<1>3. INamed /\ Opening(slave) /\ [Next]_vars => [Loads!Next]_(Loads!vars)
  BY LoadsNext
<1>. QED
  BY <1>1, <1>2, <1>3, LoadsInit, PTL DEF Spec, ImplementsLoads, Loads!Spec
=============================================================================
