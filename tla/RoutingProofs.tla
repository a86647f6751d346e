--------------------------- MODULE RoutingProofs ----------------------------
(***************************************************************************)
(* TLAPS proofs about the routing of requests.                             *)
(***************************************************************************)
EXTENDS Routing, FiniteSetTheorems, TLAPS

-----------------------------------------------------------------------------
(***************************************************************************)
(* Messages.                                                               *)
(***************************************************************************)
LEMMA OnFacts ==
    ASSUME NEW m \in Message, NEW l \in Links, NEW e \in Hosts \cup Slaves
    PROVE  /\ On(m, l, e) \in Message
           /\ On(m, l, e).link = l /\ On(m, l, e).end = e
           /\ On(m, l, e).kind = m.kind /\ On(m, l, e).type = m.type
           /\ On(m, l, e).coordinator = m.coordinator /\ On(m, l, e).host = m.host
           /\ On(m, l, e).asker = m.asker /\ On(m, l, e).program = m.program
BY DEF On, Message

\* What an error keeps of the request.
LEMMA ErrorFacts ==
    ASSUME NEW m \in Message, NEW c \in Ids \cup {UnMapped}, NEW h \in Ids \cup {UnMapped}
    PROVE  /\ ErrorTo(m, c, h) \in Message
           /\ ErrorTo(m, c, h).kind = "error"
           /\ ErrorTo(m, c, h).coordinator = c /\ ErrorTo(m, c, h).host = h
           /\ ErrorTo(m, c, h).link = m.link /\ ErrorTo(m, c, h).end = m.end
           /\ ErrorTo(m, c, h).type = m.type
           /\ ErrorTo(m, c, h).asker = m.asker /\ ErrorTo(m, c, h).program = m.program
BY DEF ErrorTo, Message

\* The id of a socket is an id, and no special value.
LEMMA IdFacts ==
    /\ \A h \in Hosts : SlaveOf[h] \in Slaves
    /\ \A h \in Hosts : EgId[h] \in Ids /\ EgId[h] \notin Special
    /\ \A h \in Hosts : MegaId[h] \in Ids /\ MegaId[h] \notin Special
    /\ \A s \in Slaves : ClientId[s] \in Ids /\ ClientId[s] \notin Special
    /\ \A s, t \in Slaves : ClientId[s] = ClientId[t] => s = t
    /\ \A g, h \in Hosts : SlaveOf[g] = SlaveOf[h] /\ EgId[g] = EgId[h] => g = h
    /\ \A g, h \in Hosts : SlaveOf[g] = SlaveOf[h] /\ MegaId[g] = MegaId[h] => g = h
BY RoutingAssumption, IdAssumption DEF Ids

-----------------------------------------------------------------------------
(***************************************************************************)
(* Where a message can be, and which ids it then has.  They always lead    *)
(* back to the host that asked: host is its eg id, coordinator its slave,  *)
(* unless the message has not left that slave.                             *)
(***************************************************************************)
HomeId(m) == ClientId[SlaveOf[m.asker]]

LeadsBack(m) ==
    /\ m.host = EgId[m.asker]
    /\ \/ m.coordinator = HomeId(m)
       \/ m.coordinator = UnMapped /\ SlaveOf[m.end] = SlaveOf[m.asker]

Way(m) ==
    \/ /\ m.link = "hostToSlave" /\ m.kind = "request"
       /\ m.end = m.asker /\ m.coordinator = UnMapped /\ m.host = UnMapped
    \/ m.link = "hostToSlave" /\ m.kind # "request" /\ LeadsBack(m)
    \/ m.link = "toHost" /\ m.kind = "request" /\ LeadsBack(m)
    \/ /\ m.link = "slaveToMaster" /\ m.kind = "request"
       /\ m.end = SlaveOf[m.asker] /\ m.coordinator = UnMapped /\ m.host = EgId[m.asker]
    \/ /\ m.link = "slaveToMaster" /\ m.kind # "request"
       /\ m.coordinator = HomeId(m) /\ m.host = EgId[m.asker]
    \/ /\ m.link = "masterToSlave" /\ m.kind = "request"
       /\ m.coordinator = HomeId(m) /\ m.host = EgId[m.asker]
    \/ /\ m.link = "masterToSlave" /\ m.kind # "request"
       /\ m.end = SlaveOf[m.asker] /\ m.host = EgId[m.asker]
    \/ m.link = "toHostEG" /\ m.kind # "request" /\ m.end = m.asker

Ends(m) ==
    IF m.link \in {"slaveToMaster", "masterToSlave"} THEN m.end \in Slaves
    ELSE m.end \in Hosts /\ (m.link # "hostToSlave" => process[m.end] = "up")

Asked(m) ==
    /\ process[m.asker] # "off"
    /\ process[m.asker] = "up" => asks[m.asker] \in Waits

\* There is one message of a host at a time.
Messages ==
    /\ \A m \in msgs : Way(m) /\ Ends(m) /\ Asked(m)
    /\ \A m, n \in msgs : m.asker = n.asker => m = n

\* A load under way is of a program or of none.
Loading == load # NoLoad => load.program \in Programs \cup {NoProgram}

IInv == TypeOK /\ Loading /\ Messages

HostSets == enrolled \in SUBSET Hosts /\ exposed \in SUBSET Hosts

-----------------------------------------------------------------------------
\* A message becomes one message at most, of the same host.
LEMMA Handled ==
    ASSUME IInv, NEW m \in msgs, NEW out, Becomes(m, out),
           UNCHANGED <<process, asks>>,
           \A o \in out : o \in Message /\ Way(o) /\ Ends(o) /\ o.asker = m.asker,
           \A o, p \in out : o = p
    PROVE  msgs' \in SUBSET Message /\ Messages'
<1>1. msgs' = (msgs \ {m}) \cup out
  BY DEF Becomes
<1>2. msgs' \in SUBSET Message
  BY <1>1 DEF IInv, TypeOK
<1>3. ASSUME NEW n \in msgs'
      PROVE  Way(n)' /\ Ends(n)' /\ Asked(n)'
  <2>1. CASE n \in msgs
    BY <2>1 DEF IInv, Messages, Way, LeadsBack, HomeId, Ends, Asked
  <2>2. CASE n \in out
    <3>1. Asked(m)
      BY DEF IInv, Messages
    <3>. QED
      BY <2>2, <3>1 DEF Way, LeadsBack, HomeId, Ends, Asked
  <2>. QED
    BY <1>1, <2>1, <2>2
<1>4. ASSUME NEW n \in msgs', NEW o \in msgs', n.asker = o.asker
      PROVE  n = o
  BY <1>1, <1>4 DEF IInv, Messages
<1>. QED
  BY <1>2, <1>3, <1>4 DEF Messages

\* What Slave::sendHost and sendHostEG make of a message.
LEMMA SendToFacts ==
    ASSUME IInv, NEW s \in Slaves, NEW m \in msgs, NEW out \in Message,
           NEW l \in {"toHost", "toHostEG"}, NEW id,
           SendTo(s, m, out, l, id), out.asker = m.asker, UNCHANGED <<process, asks>>,
           \A h \in Hosts : SlaveOf[h] = s /\ (IF l = "toHost" THEN MegaId[h] ELSE EgId[h]) = id =>
               Way(On(out, l, h))
    PROVE  msgs' \in SUBSET Message /\ Messages' /\ HostSets'
<1>. DEFINE socket == IF l = "toHost" THEN MegaId ELSE EgId
            owner == {h \in Hosts : SlaveOf[h] = s /\ socket[h] = id}
            there == {h \in owner : process[h] = "up"}
            sent == {On(out, l, h) : h \in there}
<1>0. m.asker \in Hosts
  BY DEF IInv, TypeOK, Message
<1>1. Becomes(m, sent) /\ enrolled' \in SUBSET enrolled /\ exposed' \in SUBSET (exposed \cup {m.asker})
  BY DEF SendTo
<1>2. \A g, h \in there : g = h
  BY IdFacts
<1>3. \A h \in there : (IF l = "toHost" THEN MegaId[h] ELSE EgId[h]) = id
  OBVIOUS
<1>4. \A o \in sent : o \in Message /\ Way(o) /\ Ends(o) /\ o.asker = m.asker
  <2>1. SUFFICES ASSUME NEW h \in there
                 PROVE  /\ On(out, l, h) \in Message /\ Way(On(out, l, h))
                        /\ Ends(On(out, l, h)) /\ On(out, l, h).asker = m.asker
    OBVIOUS
  <2>2. Way(On(out, l, h))
    BY <1>3
  <2>3. l \in Links /\ l \notin {"slaveToMaster", "masterToSlave"} /\ h \in Hosts
    BY DEF Links
  <2>4. /\ On(out, l, h) \in Message /\ On(out, l, h).asker = m.asker
        /\ On(out, l, h).link = l /\ On(out, l, h).end = h
    BY <2>3, OnFacts
  <2>. QED
    BY <2>2, <2>3, <2>4 DEF Ends
<1>5. \A o, p \in sent : o = p
  BY <1>2
<1>6. msgs' \in SUBSET Message /\ Messages'
  BY <1>1, <1>4, <1>5, Handled
<1>7. HostSets'
  BY <1>0, <1>1 DEF HostSets, IInv, TypeOK
<1>. QED
  BY <1>6, <1>7

\* The messages stay as they are when no host that asked changes.
LEMMA NoMessage ==
    ASSUME IInv, UNCHANGED msgs,
           \A h \in Hosts : \/ process'[h] = process[h] /\ asks'[h] = asks[h]
                            \/ process[h] = "off" /\ process'[h] = "up"
    PROVE  Messages'
<1>1. SUFFICES ASSUME NEW m \in msgs PROVE Way(m)' /\ Ends(m)' /\ Asked(m)'
  BY DEF IInv, Messages
<1>2. m \in Message /\ Way(m) /\ Ends(m) /\ Asked(m)
  BY DEF IInv, TypeOK, Messages
<1>3. m.asker \in Hosts
  BY <1>2 DEF Message
<1>4. Way(m)'
  BY <1>2 DEF Way, LeadsBack, HomeId
<1>5. Ends(m)'
  BY <1>2 DEF Ends
<1>6. Asked(m)'
  BY <1>2, <1>3 DEF Asked
<1>. QED
  BY <1>4, <1>5, <1>6

\* At the start there are no messages.
LEMMA InitStep == Init => IInv
<1>. SUFFICES ASSUME Init PROVE IInv
  OBVIOUS
<1>1. TypeOK
  BY RoutingAssumption DEF Init, TypeOK, NoLoad
<1>2. Messages /\ Loading
  BY DEF Init, Messages, Loading
<1>. QED
  BY <1>1, <1>2 DEF IInv

\* A host that enrolls has asked for nothing.
LEMMA EnrollStep == ASSUME IInv, NEW h \in Hosts, Enroll(h) PROVE IInv'
<1>1. TypeOK'
  BY DEF IInv, TypeOK, Enroll, loadVars
<1>2. Messages'
  <2>1. process \in [Hosts -> {"off", "up", "dead"}]
    BY DEF IInv, TypeOK
  <2>. QED
    BY <2>1, NoMessage DEF Enroll
<1>L. Loading'
  BY DEF IInv, TypeOK, Loading, NoLoad, Enroll, loadVars
<1>. QED
  BY <1>L, <1>1, <1>2 DEF IInv

\* A host that ends loses what it was sent, and no longer waits.
LEMMA CrashStep == ASSUME IInv, NEW h \in Hosts, Crash(h) PROVE IInv'
<1>0. \A m \in msgs : m.asker \in Hosts
  BY DEF IInv, TypeOK, Message
<1>1. TypeOK'
  BY <1>0 DEF IInv, TypeOK, Crash, loadVars
<1>2. ASSUME NEW m \in msgs' PROVE Way(m)' /\ Ends(m)' /\ Asked(m)'
  <2>1. m \in msgs /\ (m.link \in {"toHost", "toHostEG"} => m.end # h)
    BY <1>2 DEF Crash
  <2>2. m \in Message /\ Way(m) /\ Ends(m) /\ Asked(m)
    BY <2>1 DEF IInv, TypeOK, Messages
  <2>3. m.asker \in Hosts /\ m.link \in Links /\ process \in [Hosts -> {"off", "up", "dead"}]
    BY <2>2 DEF Message, IInv, TypeOK
  <2>4. Way(m)'
    BY <2>2 DEF Way, LeadsBack, HomeId
  <2>5. Ends(m)'
    BY <2>1, <2>2, <2>3 DEF Ends, Crash, Links
  <2>6. Asked(m)'
    BY <2>2, <2>3 DEF Asked, Crash, IInv, TypeOK
  <2>. QED
    BY <2>4, <2>5, <2>6
<1>3. msgs' \in SUBSET msgs
  BY DEF Crash
<1>4. Messages'
  BY <1>2, <1>3 DEF Messages, IInv
<1>L. Loading'
  BY DEF IInv, TypeOK, Loading, NoLoad, Crash, loadVars
<1>. QED
  BY <1>L, <1>1, <1>4 DEF IInv

\* A load begins.
LEMMA StartLoadStep ==
    ASSUME IInv, NEW p \in Programs \cup {NoProgram}, StartLoad(p) PROVE IInv'
<1>1. TypeOK'
  BY RoutingAssumption DEF IInv, TypeOK, StartLoad, hostVars
<1>2. Messages'
  BY NoMessage DEF StartLoad, hostVars
<1>L. Loading'
  BY DEF IInv, TypeOK, Loading, NoLoad, StartLoad, loadVars
<1>. QED
  BY <1>L, <1>1, <1>2 DEF IInv

\* The table of a slave maps types to ids.
LEMMA SlaveTableType ==
    ASSUME IInv, NEW s \in Slaves, NEW p, NEW f \in Mappings(s, p)
    PROVE  SlaveTable(s, p, f) \in Table
<1>. DEFINE mine == {n \in HostNames : p \in Programs /\ HomeOf[n] = s}
<1>1. enrolled \in SUBSET Hosts
  BY DEF IInv, TypeOK
<1>2. f \in [mine -> {MegaId[h] : h \in enrolled} \cup {UnMapped}]
  BY DEF Mappings
<1>3. \A n \in mine : f[n] \in Ids \cup Special
  BY <1>1, <1>2, IdFacts DEF Special
<1>4. DOMAIN f = mine
  BY <1>2
<1>. QED
  BY <1>3, <1>4 DEF SlaveTable, Table, Special

\* A slave makes its table and asks its hosts to load.
LEMMA SlaveLoadsStep == ASSUME IInv, NEW s \in Slaves, SlaveLoads(s) PROVE IInv'
<1>1. PICK f \in Mappings(s, load.program), found \in Database(load.program) :
          stable' = [stable EXCEPT ![s] = IF found THEN SlaveTable(s, load.program, f) ELSE NoTable]
  BY DEF SlaveLoads
<1>2. stable' \in [Slaves -> Table \cup {NoTable}]
  BY <1>1, SlaveTableType DEF IInv, TypeOK
<1>3. load' \in [program : Programs \cup {NoProgram, Idle}, todo : SUBSET Slaves,
                 hosts : SUBSET Hosts, named : SUBSET Hosts]
      /\ load'.program = load.program
  <2>1. PICK g \in Mappings(s, load.program) :
            load' = [load EXCEPT
                       !.todo = @ \ {s},
                       !.hosts = @ \cup {h \in enrolled : SlaveOf[h] = s},
                       !.named = @ \cup {h \in enrolled : /\ SlaveOf[h] = s
                                                         /\ \E n \in DOMAIN g : g[n] = MegaId[h]}]
    BY DEF SlaveLoads
  <2>2. enrolled \in SUBSET Hosts
    BY DEF IInv, TypeOK
  <2>. QED
    BY <2>1, <2>2 DEF IInv, TypeOK
<1>4. exposed' \in SUBSET Hosts
  BY DEF SlaveLoads, IInv, TypeOK, Uses
<1>5. TypeOK'
  BY <1>2, <1>3, <1>4 DEF IInv, TypeOK, SlaveLoads, hostVars
<1>6. Messages'
  BY NoMessage DEF SlaveLoads, hostVars
<1>7. load # NoLoad
  BY DEF SlaveLoads, NoLoad
<1>8. Loading'
  BY <1>3, <1>7 DEF IInv, Loading
<1>. QED
  BY <1>5, <1>6, <1>8 DEF IInv

\* A host loads the program only between cycles, when it waits for nothing.
LEMMA HostLoadsStep == ASSUME IInv, NEW h \in Hosts, HostLoads(h) PROVE IInv'
<1>1. load \in [program : Programs \cup {NoProgram, Idle}, todo : SUBSET Slaves,
                hosts : SUBSET Hosts, named : SUBSET Hosts]
      /\ runs \in [Hosts -> Programs \cup {NoProgram}]
  BY DEF IInv, TypeOK
<1>2. load # NoLoad
  BY DEF HostLoads, NoLoad
<1>3. load.program \in Programs \cup {NoProgram}
  BY <1>2 DEF IInv, Loading
<1>4. runs' \in [Hosts -> Programs \cup {NoProgram}] /\ enrolled' \in SUBSET enrolled
  BY <1>1, <1>3 DEF HostLoads
<1>5. TypeOK'
  BY <1>1, <1>4 DEF IInv, TypeOK, HostLoads
<1>6. Messages'
  BY NoMessage DEF HostLoads
<1>7. Loading'
  BY <1>1, <1>3 DEF Loading, HostLoads
<1>. QED
  BY <1>5, <1>6, <1>7 DEF IInv

\* A host is removed when it cannot be asked to load.
LEMMA HostGoneStep == ASSUME IInv, NEW h \in Hosts, HostGone(h) PROVE IInv'
<1>1. TypeOK'
  BY DEF IInv, TypeOK, HostGone, hostVars
<1>2. Messages'
  BY NoMessage DEF HostGone, hostVars
<1>L. Loading'
  BY DEF IInv, TypeOK, Loading, NoLoad, HostGone, loadVars
<1>. QED
  BY <1>L, <1>1, <1>2 DEF IInv

\* The master makes its table.
LEMMA MasterLoadedStep == ASSUME IInv, MasterLoaded PROVE IInv'
<1>1. PICK found \in Database(load.program) :
          mtable' = IF found THEN MasterTable(load.program) ELSE NoTable
  BY DEF MasterLoaded
<1>2. ASSUME found PROVE MasterTable(load.program) \in Table
  <2>1. load.program \in Programs
    BY <1>2, RoutingAssumption DEF Database
  <2>2. \A t \in Types : Place[load.program][t] \in HostNames \cup Slaves
    BY <2>1, RoutingAssumption
  <2>3. \A t \in Types : Coordinator(load.program, t) \in Slaves
    BY <2>2, RoutingAssumption DEF Coordinator
  <2>. QED
    BY <2>3, IdFacts DEF MasterTable, Table
<1>3. mtable' \in Table \cup {NoTable}
  BY <1>1, <1>2
<1>4. exposed' \in SUBSET Hosts
  BY DEF MasterLoaded, IInv, TypeOK, Uses
<1>5. TypeOK'
  BY <1>3, <1>4 DEF IInv, TypeOK, MasterLoaded, hostVars, NoLoad
<1>6. Messages'
  BY NoMessage DEF MasterLoaded, hostVars
<1>7. Loading'
  BY DEF Loading, MasterLoaded
<1>. QED
  BY <1>5, <1>6, <1>7 DEF IInv

-----------------------------------------------------------------------------
(***************************************************************************)
(* Messages on their way.                                                  *)
(***************************************************************************)
LEMMA MessageFacts ==
    ASSUME IInv, NEW m \in msgs
    PROVE  /\ m \in Message /\ Way(m) /\ Ends(m) /\ Asked(m)
           /\ m.asker \in Hosts /\ SlaveOf[m.asker] \in Slaves
           /\ EgId[m.asker] \in Ids /\ EgId[m.asker] \notin Special
           /\ HomeId(m) \in Ids /\ HomeId(m) \notin Special
<1>1. m \in Message /\ Way(m) /\ Ends(m) /\ Asked(m)
  BY DEF IInv, TypeOK, Messages
<1>2. m.asker \in Hosts
  BY <1>1 DEF Message
<1>. QED
  BY <1>1, <1>2, IdFacts DEF HomeId

\* What Master::send makes of a message.
LEMMA SendSlaveFacts ==
    ASSUME IInv, NEW m \in msgs, NEW out \in Message, NEW id, SendSlave(m, out, id),
           out.asker = m.asker, UNCHANGED <<process, asks>>,
           \A s \in Slaves : ClientId[s] = id => Way(On(out, "masterToSlave", s))
    PROVE  msgs' \in SUBSET Message /\ Messages'
<1>. DEFINE there == {s \in Slaves : ClientId[s] = id}
            sent == {On(out, "masterToSlave", s) : s \in there}
<1>1. Becomes(m, sent)
  BY DEF SendSlave
<1>2. \A s, t \in there : s = t
  BY IdFacts
<1>3. ASSUME NEW s \in there
      PROVE  /\ On(out, "masterToSlave", s) \in Message /\ Way(On(out, "masterToSlave", s))
             /\ Ends(On(out, "masterToSlave", s)) /\ On(out, "masterToSlave", s).asker = m.asker
  <2>1. "masterToSlave" \in Links
    BY DEF Links
  <2>2. /\ On(out, "masterToSlave", s) \in Message /\ On(out, "masterToSlave", s).asker = m.asker
        /\ On(out, "masterToSlave", s).link = "masterToSlave" /\ On(out, "masterToSlave", s).end = s
    BY <2>1, OnFacts
  <2>. QED
    BY <2>2 DEF Ends
<1>4. \A o \in sent : o \in Message /\ Way(o) /\ Ends(o) /\ o.asker = m.asker
  BY <1>3
<1>5. \A o, p \in sent : o = p
  BY <1>2
<1>. QED
  BY <1>1, <1>4, <1>5, Handled

\* A message that is dropped leaves the others as they are.
LEMMA DropFacts ==
    ASSUME IInv, NEW m \in msgs, Drop(m), UNCHANGED <<process, asks>>
    PROVE  msgs' \in SUBSET Message /\ Messages'
BY Handled DEF Drop

\* An abort leaves the messages as they are.
LEMMA AbortFacts ==
    ASSUME IInv, NEW who \in Slaves \cup {"master"}, Abort(who), UNCHANGED <<msgs, process, asks>>
    PROVE  /\ msgs' \in SUBSET Message /\ Messages'
           /\ aborted' \in SUBSET (Slaves \cup {"master"})
<1>1. Messages'
  BY NoMessage
<1>2. msgs' \in SUBSET Message /\ aborted' \in SUBSET (Slaves \cup {"master"})
  BY DEF IInv, TypeOK, Abort
<1>. QED
  BY <1>1, <1>2

\* What the routing may change.
LEMMA RoutedFacts ==
    ASSUME IInv, msgs' \in SUBSET Message /\ Messages',
           HostSets', aborted' \in SUBSET (Slaves \cup {"master"}),
           UNCHANGED <<hostVars, loadVars>>
    PROVE  IInv'
BY DEF HostSets, IInv, TypeOK, Loading, NoLoad, hostVars, loadVars

\* A host asks when it waits for nothing: none of its messages is on its way.
LEMMA AskStep == ASSUME IInv, NEW h \in Hosts, NEW t \in Types, Ask(h, t) PROVE IInv'
<1>. DEFINE r == [kind |-> "request", type |-> t, coordinator |-> UnMapped, host |-> UnMapped,
                  link |-> "hostToSlave", end |-> h, asker |-> h, program |-> runs[h]]
<1>1. runs[h] \in Programs
  BY DEF Ask, IInv, TypeOK
<1>2. r \in Message
  BY <1>1 DEF Message, Links
<1>3. msgs' = msgs \cup {r}
  BY DEF Ask
<1>4. /\ asks' \in [Hosts -> {Quiet, Failed} \cup Waits] /\ asks'[h] \in Waits
      /\ \A g \in Hosts \ {h} : asks'[g] = asks[g]
  BY DEF Ask, IInv, TypeOK, Waits
<1>5. TypeOK'
  BY <1>2, <1>3, <1>4 DEF IInv, TypeOK, Ask, loadVars
<1>6. \A m \in msgs : m.asker # h
  BY MessageFacts DEF Asked, Ask, Quiet, Waits
<1>7. Way(r) /\ Ends(r)
  BY DEF Way, Ends
<1>8. ASSUME NEW m \in msgs' PROVE Way(m)' /\ Ends(m)' /\ Asked(m)'
  <2>1. CASE m \in msgs
    BY <2>1, <1>4, <1>6, MessageFacts DEF Way, LeadsBack, HomeId, Ends, Asked, Ask
  <2>2. CASE m = r
    BY <2>2, <1>4, <1>7 DEF Way, LeadsBack, HomeId, Ends, Asked, Ask
  <2>. QED
    BY <1>3, <2>1, <2>2
<1>9. \A m, n \in msgs' : m.asker = n.asker => m = n
  BY <1>3, <1>6 DEF IInv, Messages
<1>10. Messages'
  BY <1>8, <1>9 DEF Messages
<1>11. Loading'
  BY DEF IInv, Loading, NoLoad, Ask, loadVars
<1>. QED
  BY <1>5, <1>10, <1>11 DEF IInv

\* The owner answers with the ids of the request.
LEMMA ServeStep == ASSUME IInv, NEW m \in msgs, Serve(m) PROVE IInv'
<1>1. PICK kind \in {"response", "error"} :
          Becomes(m, {[On(m, "hostToSlave", m.end) EXCEPT !.kind = kind]})
  BY DEF Serve
<1>. DEFINE out == [On(m, "hostToSlave", m.end) EXCEPT !.kind = kind]
<1>2. m.end \in Hosts \cup Slaves /\ "hostToSlave" \in Links
  BY MessageFacts DEF Message, Links
<1>3. /\ out \in Message /\ out.asker = m.asker /\ out.kind = kind
      /\ out.link = "hostToSlave" /\ out.end = m.end
      /\ out.coordinator = m.coordinator /\ out.host = m.host
  BY <1>2, MessageFacts DEF On, Message
<1>. HIDE DEF out
<1>4. Way(m) /\ m.link = "toHost" /\ m.end \in Hosts
  BY MessageFacts DEF Serve, Ends
<1>5. Way(out)
  BY <1>3, <1>4 DEF Way, LeadsBack, HomeId
<1>6. Ends(out)
  BY <1>3, <1>4 DEF Ends
<1>7. msgs' \in SUBSET Message /\ Messages'
  <2>1. Becomes(m, {out}) /\ UNCHANGED <<process, asks>>
    BY <1>1 DEF Serve, hostVars, out
  <2>. QED
    BY <2>1, <1>3, <1>5, <1>6, Handled
<1>8. HostSets' /\ aborted' \in SUBSET (Slaves \cup {"master"})
  BY DEF Serve, IInv, TypeOK, HostSets
<1>. QED
  BY <1>7, <1>8, RoutedFacts DEF Serve

\* The answer is the only message of the host that asked.
LEMMA ReceiveStep == ASSUME IInv, NEW m \in msgs, ReceiveAnswer(m) PROVE IInv'
<1>1. m.end = m.asker /\ m.end \in Hosts
  BY MessageFacts DEF ReceiveAnswer, Way
<1>2. /\ asks' \in [Hosts -> {Quiet, Failed} \cup Waits]
      /\ \A g \in Hosts \ {m.end} : asks'[g] = asks[g]
  BY <1>1 DEF ReceiveAnswer, IInv, TypeOK
<1>3. msgs' = msgs \ {m}
  BY DEF ReceiveAnswer, Drop, Becomes
<1>4. TypeOK'
  BY <1>2, <1>3 DEF IInv, TypeOK, ReceiveAnswer, loadVars
<1>5. \A n \in msgs' : n \in msgs /\ n.asker # m.asker
  BY <1>3 DEF IInv, Messages
<1>6. ASSUME NEW n \in msgs' PROVE Way(n)' /\ Ends(n)' /\ Asked(n)'
  <2>1. n \in msgs /\ n.asker # m.asker /\ n.asker \in Hosts
    BY <1>5, MessageFacts
  <2>2. Way(n) /\ Ends(n) /\ Asked(n)
    BY <2>1, MessageFacts
  <2>3. Asked(n)'
    BY <1>1, <1>2, <2>1, <2>2 DEF Asked, ReceiveAnswer
  <2>. QED
    BY <2>2, <2>3 DEF Way, LeadsBack, HomeId, Ends, ReceiveAnswer
<1>7. Messages' /\ Loading'
  BY <1>3, <1>6 DEF IInv, Messages, Loading, NoLoad, ReceiveAnswer, loadVars
<1>. QED
  BY <1>4, <1>7 DEF IInv

\* A slave handles a request of one of its hosts.
LEMMA HostRequestStep ==
    ASSUME IInv, NEW s \in Slaves, NEW m \in msgs, RouteHostRequest(s, m) PROVE IInv'
<1>. DEFINE id == EgId[m.end]
            target == stable[s][m.type]
            request == [m EXCEPT !.host = id]
<1>0. SUFFICES /\ msgs' \in SUBSET Message /\ Messages' /\ HostSets'
               /\ aborted' \in SUBSET (Slaves \cup {"master"})
  BY RoutedFacts DEF RouteHostRequest
<1>1. /\ m \in Message /\ m.end = m.asker /\ m.asker \in Hosts /\ SlaveOf[m.asker] = s
      /\ m.coordinator = UnMapped /\ m.host = UnMapped /\ m.kind = "request"
  BY MessageFacts DEF RouteHostRequest, OfSlave, Way
<1>2. UNCHANGED <<process, asks>>
  BY DEF RouteHostRequest, hostVars
<1>3. HostSets /\ aborted \in SUBSET (Slaves \cup {"master"})
  BY DEF IInv, TypeOK, HostSets
<1>4. id \in Ids /\ request \in Message /\ request.asker = m.asker /\ request.host = EgId[m.asker]
      /\ request.coordinator = UnMapped /\ request.kind = "request"
  BY <1>1, MessageFacts DEF Message
<1>. HIDE DEF request
<1>5. \/ Drop(m) /\ UNCHANGED <<enrolled, exposed, aborted>>
      \/ Abort(s) /\ UNCHANGED <<enrolled, exposed, msgs>>
      \/ Becomes(m, {On(request, "slaveToMaster", s)}) /\ UNCHANGED <<enrolled, exposed, aborted>>
      \/ SendTo(s, m, ErrorTo(m, m.coordinator, m.host), "toHostEG", id) /\ UNCHANGED aborted
      \/ SendTo(s, m, request, "toHost", target) /\ UNCHANGED aborted
  BY DEF RouteHostRequest, request
<1>6. CASE Drop(m) /\ UNCHANGED <<enrolled, exposed, aborted>>
  BY <1>2, <1>3, <1>6, DropFacts DEF HostSets
<1>7. CASE Abort(s) /\ UNCHANGED <<enrolled, exposed, msgs>>
  BY <1>2, <1>3, <1>7, AbortFacts DEF HostSets
<1>8. CASE Becomes(m, {On(request, "slaveToMaster", s)}) /\ UNCHANGED <<enrolled, exposed, aborted>>
  <2>. DEFINE out == On(request, "slaveToMaster", s)
  <2>1. "slaveToMaster" \in Links
    BY DEF Links
  <2>2. /\ out \in Message /\ out.link = "slaveToMaster" /\ out.end = s /\ out.kind = "request"
        /\ out.coordinator = UnMapped /\ out.host = EgId[m.asker] /\ out.asker = m.asker
    BY <1>4, <2>1, OnFacts
  <2>3. Way(out) /\ Ends(out)
    BY <1>1, <2>2 DEF Way, Ends
  <2>4. msgs' \in SUBSET Message /\ Messages'
    BY <1>2, <1>8, <2>2, <2>3, Handled
  <2>. QED
    BY <1>3, <1>8, <2>4 DEF HostSets
<1>9. CASE SendTo(s, m, ErrorTo(m, m.coordinator, m.host), "toHostEG", id) /\ UNCHANGED aborted
  <2>. DEFINE out == ErrorTo(m, m.coordinator, m.host)
  <2>1. "toHostEG" \in Links
    BY DEF Links
  <2>2. out \in Message /\ out.kind = "error" /\ out.asker = m.asker
    BY <1>1, ErrorFacts
  <2>3. ASSUME NEW h \in Hosts, SlaveOf[h] = s, EgId[h] = id
        PROVE  Way(On(out, "toHostEG", h))
    <3>1. h = m.asker
      BY <1>1, <2>3, IdFacts
    <3>2. /\ On(out, "toHostEG", h).link = "toHostEG" /\ On(out, "toHostEG", h).end = h
          /\ On(out, "toHostEG", h).kind = "error" /\ On(out, "toHostEG", h).asker = m.asker
      BY <2>1, <2>2, OnFacts
    <3>. QED
      BY <3>1, <3>2 DEF Way
  <2>4. msgs' \in SUBSET Message /\ Messages' /\ HostSets'
    BY <1>2, <1>9, <2>2, <2>3, SendToFacts
  <2>. QED
    BY <1>3, <1>9, <2>4
<1>10. CASE SendTo(s, m, request, "toHost", target) /\ UNCHANGED aborted
  <2>1. "toHost" \in Links
    BY DEF Links
  <2>2. ASSUME NEW h \in Hosts, SlaveOf[h] = s
        PROVE  Way(On(request, "toHost", h))
    <3>1. /\ On(request, "toHost", h).link = "toHost" /\ On(request, "toHost", h).end = h
          /\ On(request, "toHost", h).kind = "request" /\ On(request, "toHost", h).asker = m.asker
          /\ On(request, "toHost", h).coordinator = UnMapped
          /\ On(request, "toHost", h).host = EgId[m.asker]
      BY <1>4, <2>1, OnFacts
    <3>. QED
      BY <1>1, <2>2, <3>1 DEF Way, LeadsBack
  <2>3. msgs' \in SUBSET Message /\ Messages' /\ HostSets'
    BY <1>2, <1>4, <1>10, <2>2, SendToFacts
  <2>. QED
    BY <1>3, <1>10, <2>3
<1>. QED
  BY <1>5, <1>6, <1>7, <1>8, <1>9, <1>10

\* A slave handles an answer of one of its hosts.
LEMMA HostAnswerStep ==
    ASSUME IInv, NEW s \in Slaves, NEW m \in msgs, RouteHostAnswer(s, m) PROVE IInv'
<1>0. SUFFICES /\ msgs' \in SUBSET Message /\ Messages' /\ HostSets'
               /\ aborted' \in SUBSET (Slaves \cup {"master"})
  BY RoutedFacts DEF RouteHostAnswer
<1>1. /\ m \in Message /\ m.asker \in Hosts /\ SlaveOf[m.end] = s /\ m.kind # "request"
      /\ LeadsBack(m)
  BY MessageFacts DEF RouteHostAnswer, OfSlave, Way
<1>2. UNCHANGED <<process, asks>>
  BY DEF RouteHostAnswer, hostVars
<1>3. HostSets /\ aborted \in SUBSET (Slaves \cup {"master"})
  BY DEF IInv, TypeOK, HostSets
<1>4. CASE m.coordinator # UnMapped
  <2>. DEFINE out == On(m, "slaveToMaster", s)
  <2>1. "slaveToMaster" \in Links
    BY DEF Links
  <2>2. /\ out \in Message /\ out.link = "slaveToMaster" /\ out.end = s /\ out.kind = m.kind
        /\ out.coordinator = m.coordinator /\ out.host = m.host /\ out.asker = m.asker
    BY <1>1, <2>1, OnFacts
  <2>3. Way(out) /\ Ends(out)
    BY <1>1, <1>4, <2>2 DEF Way, Ends, LeadsBack, HomeId
  <2>4. Becomes(m, {out}) /\ UNCHANGED <<enrolled, exposed, aborted>>
    BY <1>4 DEF RouteHostAnswer
  <2>5. msgs' \in SUBSET Message /\ Messages'
    BY <1>2, <2>2, <2>3, <2>4, Handled
  <2>. QED
    BY <1>3, <2>4, <2>5 DEF HostSets
<1>5. CASE m.coordinator = UnMapped
  <2>1. m.host = EgId[m.asker] /\ SlaveOf[m.asker] = s
    BY <1>1, <1>5, MessageFacts DEF LeadsBack, Special
  <2>2. SendTo(s, m, m, "toHostEG", m.host) /\ UNCHANGED aborted
    BY <1>5, <2>1, MessageFacts DEF RouteHostAnswer, Special
  <2>3. ASSUME NEW h \in Hosts, SlaveOf[h] = s, EgId[h] = m.host
        PROVE  Way(On(m, "toHostEG", h))
    <3>1. h = m.asker
      BY <1>1, <2>1, <2>3, IdFacts
    <3>2. "toHostEG" \in Links
      BY DEF Links
    <3>3. /\ On(m, "toHostEG", h).link = "toHostEG" /\ On(m, "toHostEG", h).end = h
          /\ On(m, "toHostEG", h).kind = m.kind /\ On(m, "toHostEG", h).asker = m.asker
      BY <1>1, <3>2, OnFacts
    <3>. QED
      BY <1>1, <3>1, <3>3 DEF Way
  <2>4. msgs' \in SUBSET Message /\ Messages' /\ HostSets'
    BY <1>1, <1>2, <2>2, <2>3, SendToFacts
  <2>. QED
    BY <1>3, <2>2, <2>4
<1>. QED
  BY <1>4, <1>5

\* A slave handles a request of another slave's host.
LEMMA MasterRequestStep ==
    ASSUME IInv, NEW s \in Slaves, NEW m \in msgs, RouteMasterRequest(s, m) PROVE IInv'
<1>. DEFINE target == stable[s][m.type]
<1>0. SUFFICES /\ msgs' \in SUBSET Message /\ Messages' /\ HostSets'
               /\ aborted' \in SUBSET (Slaves \cup {"master"})
  BY RoutedFacts DEF RouteMasterRequest
<1>1. /\ m \in Message /\ m.asker \in Hosts /\ m.kind = "request"
      /\ m.coordinator = HomeId(m) /\ m.host = EgId[m.asker]
  BY MessageFacts DEF RouteMasterRequest, OfMaster, Way
<1>2. UNCHANGED <<process, asks>>
  BY DEF RouteMasterRequest, hostVars
<1>3. HostSets /\ aborted \in SUBSET (Slaves \cup {"master"})
  BY DEF IInv, TypeOK, HostSets
<1>. DEFINE wrong == ErrorTo(m, m.coordinator, m.host)
<1>4. \/ Drop(m) /\ UNCHANGED <<enrolled, exposed, aborted>>
      \/ Abort(s) /\ UNCHANGED <<enrolled, exposed, msgs>>
      \/ Becomes(m, {On(wrong, "slaveToMaster", s)}) /\ UNCHANGED <<enrolled, exposed, aborted>>
      \/ SendTo(s, m, m, "toHost", target) /\ UNCHANGED aborted
  BY DEF RouteMasterRequest
<1>5. CASE Drop(m) /\ UNCHANGED <<enrolled, exposed, aborted>>
  BY <1>2, <1>3, <1>5, DropFacts DEF HostSets
<1>6. CASE Abort(s) /\ UNCHANGED <<enrolled, exposed, msgs>>
  BY <1>2, <1>3, <1>6, AbortFacts DEF HostSets
<1>7. CASE Becomes(m, {On(wrong, "slaveToMaster", s)}) /\ UNCHANGED <<enrolled, exposed, aborted>>
  <2>. DEFINE out == On(wrong, "slaveToMaster", s)
  <2>1. "slaveToMaster" \in Links
    BY DEF Links
  <2>2. /\ wrong \in Message /\ wrong.kind = "error" /\ wrong.coordinator = m.coordinator
        /\ wrong.host = m.host /\ wrong.asker = m.asker
    BY <1>1, MessageFacts, ErrorFacts
  <2>. HIDE DEF wrong
  <2>3. /\ out \in Message /\ out.link = "slaveToMaster" /\ out.end = s /\ out.kind = "error"
        /\ out.coordinator = m.coordinator /\ out.host = m.host /\ out.asker = m.asker
    BY <2>1, <2>2, OnFacts
  <2>4. Way(out) /\ Ends(out)
    BY <1>1, <2>3 DEF Way, Ends, HomeId
  <2>5. msgs' \in SUBSET Message /\ Messages'
    BY <1>2, <1>7, <2>3, <2>4, Handled
  <2>. QED
    BY <1>3, <1>7, <2>5 DEF HostSets
<1>8. CASE SendTo(s, m, m, "toHost", target) /\ UNCHANGED aborted
  <2>1. "toHost" \in Links
    BY DEF Links
  <2>2. ASSUME NEW h \in Hosts PROVE Way(On(m, "toHost", h))
    <3>1. /\ On(m, "toHost", h).link = "toHost" /\ On(m, "toHost", h).kind = "request"
          /\ On(m, "toHost", h).coordinator = m.coordinator
          /\ On(m, "toHost", h).host = m.host /\ On(m, "toHost", h).asker = m.asker
      BY <1>1, <2>1, OnFacts
    <3>. QED
      BY <1>1, <3>1 DEF Way, LeadsBack, HomeId
  <2>3. msgs' \in SUBSET Message /\ Messages' /\ HostSets'
    BY <1>1, <1>2, <1>8, <2>2, SendToFacts
  <2>. QED
    BY <1>3, <1>8, <2>3
<1>. QED
  BY <1>4, <1>5, <1>6, <1>7, <1>8

\* A slave handles an answer for one of its hosts.
LEMMA MasterAnswerStep ==
    ASSUME IInv, NEW s \in Slaves, NEW m \in msgs, RouteMasterAnswer(s, m) PROVE IInv'
<1>1. /\ m \in Message /\ m.asker \in Hosts /\ m.kind # "request"
      /\ SlaveOf[m.asker] = s /\ m.host = EgId[m.asker]
  BY MessageFacts DEF RouteMasterAnswer, OfMaster, Way
<1>2. UNCHANGED <<process, asks>>
  BY DEF RouteMasterAnswer, hostVars
<1>3. aborted \in SUBSET (Slaves \cup {"master"})
  BY DEF IInv, TypeOK
<1>4. SendTo(s, m, m, "toHostEG", m.host) /\ UNCHANGED aborted
  BY <1>1, IdFacts DEF RouteMasterAnswer, Special
<1>5. ASSUME NEW h \in Hosts, SlaveOf[h] = s, EgId[h] = m.host
      PROVE  Way(On(m, "toHostEG", h))
  <2>1. h = m.asker
    BY <1>1, <1>5, IdFacts
  <2>2. "toHostEG" \in Links
    BY DEF Links
  <2>3. /\ On(m, "toHostEG", h).link = "toHostEG" /\ On(m, "toHostEG", h).end = h
        /\ On(m, "toHostEG", h).kind = m.kind /\ On(m, "toHostEG", h).asker = m.asker
    BY <1>1, <2>2, OnFacts
  <2>. QED
    BY <1>1, <2>1, <2>3 DEF Way
<1>6. msgs' \in SUBSET Message /\ Messages' /\ HostSets'
  BY <1>1, <1>2, <1>4, <1>5, SendToFacts
<1>. QED
  BY <1>3, <1>4, <1>6, RoutedFacts DEF RouteMasterAnswer

\* The master handles a request.
LEMMA RequestStep == ASSUME IInv, NEW m \in msgs, RouteRequest(m) PROVE IInv'
<1>. DEFINE id == ClientId[m.end]
            forth == [m EXCEPT !.coordinator = id]
            wrong == ErrorTo(m, UnMapped, m.host)
            target == mtable[m.type]
<1>0. SUFFICES /\ msgs' \in SUBSET Message /\ Messages'
               /\ aborted' \in SUBSET (Slaves \cup {"master"})
  BY RoutedFacts DEF RouteRequest, IInv, TypeOK, HostSets
<1>1. /\ m \in Message /\ m.asker \in Hosts /\ m.kind = "request"
      /\ m.end = SlaveOf[m.asker] /\ m.host = EgId[m.asker] /\ m.end \in Slaves
  BY MessageFacts DEF RouteRequest, Way, Ends
<1>2. UNCHANGED <<process, asks>>
  BY DEF RouteRequest, hostVars
<1>3. aborted \in SUBSET (Slaves \cup {"master"})
  BY DEF IInv, TypeOK
<1>4. /\ forth \in Message /\ forth.asker = m.asker /\ forth.kind = "request"
      /\ forth.coordinator = HomeId(m) /\ forth.host = m.host
  BY <1>1, IdFacts DEF Message, HomeId
<1>5. wrong \in Message /\ wrong.kind = "error" /\ wrong.host = m.host /\ wrong.asker = m.asker
  <2>1. m.host \in Ids \cup {UnMapped} /\ UnMapped \in Ids \cup {UnMapped}
    BY <1>1, IdFacts
  <2>. QED
    BY <1>1, <2>1, ErrorFacts
<1>. HIDE DEF forth, wrong
<1>6. \/ Drop(m) /\ UNCHANGED aborted
      \/ Abort("master") /\ UNCHANGED msgs
      \/ SendSlave(m, wrong, id) /\ UNCHANGED aborted
      \/ SendSlave(m, forth, target) /\ UNCHANGED aborted
  BY DEF RouteRequest, forth, wrong
<1>7. "masterToSlave" \in Links
  BY DEF Links
<1>8. CASE Drop(m) /\ UNCHANGED aborted
  BY <1>2, <1>3, <1>8, DropFacts
<1>9. CASE Abort("master") /\ UNCHANGED msgs
  BY <1>2, <1>3, <1>9, AbortFacts
<1>10. CASE SendSlave(m, wrong, id) /\ UNCHANGED aborted
  <2>1. ASSUME NEW s \in Slaves, ClientId[s] = id PROVE Way(On(wrong, "masterToSlave", s))
    <3>1. s = SlaveOf[m.asker]
      BY <1>1, <2>1, IdFacts
    <3>2. /\ On(wrong, "masterToSlave", s).link = "masterToSlave"
          /\ On(wrong, "masterToSlave", s).end = s /\ On(wrong, "masterToSlave", s).kind = "error"
          /\ On(wrong, "masterToSlave", s).host = m.host
          /\ On(wrong, "masterToSlave", s).asker = m.asker
      BY <1>5, <1>7, OnFacts
    <3>. QED
      BY <1>1, <3>1, <3>2 DEF Way
  <2>. QED
    BY <1>2, <1>3, <1>5, <1>10, <2>1, SendSlaveFacts
<1>11. CASE SendSlave(m, forth, target) /\ UNCHANGED aborted
  <2>1. ASSUME NEW s \in Slaves PROVE Way(On(forth, "masterToSlave", s))
    <3>1. /\ On(forth, "masterToSlave", s).link = "masterToSlave"
          /\ On(forth, "masterToSlave", s).kind = "request"
          /\ On(forth, "masterToSlave", s).host = m.host
          /\ On(forth, "masterToSlave", s).coordinator = HomeId(m)
          /\ On(forth, "masterToSlave", s).asker = m.asker
      BY <1>4, <1>7, OnFacts
    <3>. QED
      BY <1>1, <3>1 DEF Way, HomeId
  <2>. QED
    BY <1>2, <1>3, <1>4, <1>11, <2>1, SendSlaveFacts
<1>. QED
  BY <1>6, <1>8, <1>9, <1>10, <1>11

\* The master handles an answer.
LEMMA AnswerStep == ASSUME IInv, NEW m \in msgs, RouteAnswer(m) PROVE IInv'
<1>1. /\ m \in Message /\ m.asker \in Hosts /\ m.kind # "request"
      /\ m.coordinator = HomeId(m) /\ m.host = EgId[m.asker] /\ m.coordinator # UnMapped
  BY MessageFacts DEF RouteAnswer, Way, Special
<1>2. UNCHANGED <<process, asks>>
  BY DEF RouteAnswer, hostVars
<1>3. HostSets' /\ aborted' \in SUBSET (Slaves \cup {"master"})
  BY <1>1 DEF RouteAnswer, IInv, TypeOK, HostSets
<1>4. SendSlave(m, m, m.coordinator)
  BY <1>1 DEF RouteAnswer
<1>5. ASSUME NEW s \in Slaves, ClientId[s] = m.coordinator PROVE Way(On(m, "masterToSlave", s))
  <2>1. s = SlaveOf[m.asker]
    BY <1>1, <1>5, IdFacts DEF HomeId
  <2>2. "masterToSlave" \in Links
    BY DEF Links
  <2>3. /\ On(m, "masterToSlave", s).link = "masterToSlave" /\ On(m, "masterToSlave", s).end = s
        /\ On(m, "masterToSlave", s).kind = m.kind /\ On(m, "masterToSlave", s).host = m.host
        /\ On(m, "masterToSlave", s).asker = m.asker
    BY <1>1, <2>2, OnFacts
  <2>. QED
    BY <1>1, <2>1, <2>3 DEF Way
<1>6. msgs' \in SUBSET Message /\ Messages'
  BY <1>1, <1>2, <1>4, <1>5, SendSlaveFacts
<1>. QED
  BY <1>3, <1>6, RoutedFacts DEF RouteAnswer

-----------------------------------------------------------------------------
\* Every step preserves the invariant.
LEMMA Inductive == IInv /\ [Next]_vars => IInv'
<1>. SUFFICES ASSUME IInv, [Next]_vars PROVE IInv'
  OBVIOUS
<1>1. CASE UNCHANGED vars
  BY <1>1 DEF vars, IInv, TypeOK, Loading, NoLoad, Messages, Way, LeadsBack, HomeId, Ends, Asked
<1>2. CASE \E h \in Hosts : Enroll(h) \/ Crash(h) \/ HostLoads(h) \/ HostGone(h)
  BY <1>2, EnrollStep, CrashStep, HostLoadsStep, HostGoneStep
<1>3. CASE \E h \in Hosts : \E t \in Types : Ask(h, t)
  BY <1>3, AskStep
<1>4. CASE (\E p \in Programs \cup {NoProgram} : StartLoad(p)) \/ (\E s \in Slaves : SlaveLoads(s)) \/ MasterLoaded
  BY <1>4, StartLoadStep, SlaveLoadsStep, MasterLoadedStep
<1>5. CASE \E m \in msgs : Route(m)
  <2>1. PICK m \in msgs : Route(m)
    BY <1>5
  <2>2. CASE \E s \in Slaves : RouteHostRequest(s, m) \/ RouteHostAnswer(s, m)
    BY <2>2, HostRequestStep, HostAnswerStep
  <2>3. CASE \E s \in Slaves : RouteMasterRequest(s, m) \/ RouteMasterAnswer(s, m)
    BY <2>3, MasterRequestStep, MasterAnswerStep
  <2>4. CASE RouteRequest(m) \/ RouteAnswer(m)
    BY <2>4, RequestStep, AnswerStep
  <2>5. CASE Serve(m) \/ ReceiveAnswer(m)
    BY <2>5, ServeStep, ReceiveStep
  <2>. QED
    BY <2>1, <2>2, <2>3, <2>4, <2>5 DEF Route
<1>. QED
  BY <1>1, <1>2, <1>3, <1>4, <1>5 DEF Next

\* The invariant holds in every behaviour.
LEMMA Invariance == Spec => []IInv
BY InitStep, Inductive, PTL DEF Spec

\* The variables keep their types: in particular the address tables and the ids in
\* the messages never hold what is no id.
THEOREM TypeCorrect == Spec => []TypeOK
<1>1. IInv => TypeOK
  BY DEF IInv
<1>. QED
  BY <1>1, Invariance, PTL

\* Whatever programs are loaded, whoever comes and goes, and whether or not slaves
\* abort, an answer goes to the very host that asked, which waits for it.
THEOREM AnswersAreReturned == Spec => []AnswersReturn
<1>1. IInv => AnswersReturn
  <2>. SUFFICES ASSUME IInv, NEW m \in msgs, m.link = "toHostEG"
                PROVE  m.end = m.asker /\ asks[m.end] \in Waits
    BY DEF AnswersReturn
  <2>1. Way(m) /\ Ends(m) /\ Asked(m)
    BY MessageFacts
  <2>2. m.end = m.asker
    BY <2>1 DEF Way
  <2>. QED
    BY <2>1, <2>2 DEF Ends, Asked
<1>. QED
  BY <1>1, Invariance, PTL

-----------------------------------------------------------------------------
(***************************************************************************)
(* As long as there is one program, however often it is loaded, nobody     *)
(* aborts and every request reaches its owner.  The invariant says what    *)
(* the tables hold and where a request can be.                             *)
(***************************************************************************)

\* One program; and no host's eg socket has the id of another's first socket.
OneProgram(p) ==
    /\ Programs = {p}
    /\ \A g, h \in Hosts : SlaveOf[g] = SlaveOf[h] /\ g # h => MegaId[g] # EgId[h]

TableRight(p, s, table) ==
    \A t \in Types :
        /\ table[t] = SelfID => Place[p][t] = s
        /\ table[t] = MasterID => Coordinator(p, t) # s
        /\ table[t] \notin Special =>
              \E h \in Hosts : /\ SlaveOf[h] = s /\ NameOf[h] = Place[p][t]
                               /\ table[t] = MegaId[h]

Tables(p) ==
    /\ \A s \in Slaves : stable[s] = NoTable \/ TableRight(p, s, stable[s])
    /\ mtable = NoTable \/ mtable = MasterTable(p)

Right(p, m) ==
    m.kind = "request" =>
        /\ Place[p][m.type] \in HostNames \ {NameOf[m.asker]}
        /\ m.link = "slaveToMaster" => Coordinator(p, m.type) # m.end
        /\ m.link = "masterToSlave" => Coordinator(p, m.type) = m.end
        /\ m.link = "toHost" => NameOf[m.end] = Place[p][m.type]

Sound(p) == IInv /\ Tables(p) /\ (\A m \in msgs : Right(p, m)) /\ aborted = {}

\* The slave's table is made right.
LEMMA SlaveTableRight ==
    ASSUME NEW p, OneProgram(p), IInv, NEW s \in Slaves, NEW f \in Mappings(s, p)
    PROVE  TableRight(p, s, SlaveTable(s, p, f))
<1>. DEFINE mine == {n \in HostNames : HomeOf[n] = s}
<1>. SUFFICES ASSUME NEW t \in Types
              PROVE  /\ SlaveTable(s, p, f)[t] = SelfID => Place[p][t] = s
                     /\ SlaveTable(s, p, f)[t] = MasterID => Coordinator(p, t) # s
                     /\ SlaveTable(s, p, f)[t] \notin Special =>
                           \E h \in Hosts : /\ SlaveOf[h] = s /\ NameOf[h] = Place[p][t]
                                            /\ SlaveTable(s, p, f)[t] = MegaId[h]
  BY DEF TableRight
<1>1. Place[p][t] \in HostNames \cup Slaves
  BY RoutingAssumption DEF OneProgram
<1>2. DOMAIN f = mine
  BY DEF Mappings, OneProgram
<1>3. CASE Place[p][t] = s
  <2>1. SlaveTable(s, p, f)[t] = SelfID
    BY <1>2, <1>3, RoutingAssumption DEF SlaveTable
  <2>. QED
    BY <1>3, <2>1 DEF SelfID, MasterID, Special
<1>4. CASE Place[p][t] \in mine
  <2>1. SlaveTable(s, p, f)[t] = f[Place[p][t]]
    BY <1>2, <1>4, RoutingAssumption DEF SlaveTable
  <2>2. \/ f[Place[p][t]] = UnMapped
        \/ \E h \in enrolled : NameOf[h] = Place[p][t] /\ f[Place[p][t]] = MegaId[h]
    BY <1>4 DEF Mappings, OneProgram
  <2>3. enrolled \in SUBSET Hosts
    BY DEF IInv, TypeOK
  <2>4. CASE f[Place[p][t]] = UnMapped
    BY <2>1, <2>4 DEF UnMapped, SelfID, MasterID, Special
  <2>5. CASE \E h \in enrolled : NameOf[h] = Place[p][t] /\ f[Place[p][t]] = MegaId[h]
    <3>1. PICK h \in Hosts : NameOf[h] = Place[p][t] /\ f[Place[p][t]] = MegaId[h]
      BY <2>3, <2>5
    <3>2. SlaveOf[h] = s
      BY <1>4, <3>1, RoutingAssumption
    <3>. QED
      BY <2>1, <3>1, <3>2, IdFacts DEF Special
  <2>. QED
    BY <2>2, <2>4, <2>5
<1>5. CASE Place[p][t] # s /\ Place[p][t] \notin mine
  <2>1. SlaveTable(s, p, f)[t] = MasterID
    BY <1>2, <1>5 DEF SlaveTable
  <2>2. Coordinator(p, t) # s
    BY <1>1, <1>5 DEF Coordinator
  <2>. QED
    BY <2>1, <2>2 DEF SelfID, MasterID, Special
<1>. QED
  BY <1>3, <1>4, <1>5

\* Messages only become others that are right.
LEMMA BecomesRight ==
    ASSUME NEW p, \A m \in msgs : Right(p, m), NEW m \in msgs, NEW out, Becomes(m, out),
           \A o \in out : Right(p, o)
    PROVE  \A n \in msgs' : Right(p, n)
BY DEF Becomes

\* The same, of what is sent to hosts.
LEMMA SendToRight ==
    ASSUME NEW p, \A m \in msgs : Right(p, m), NEW m \in msgs, NEW s, NEW out, NEW l, NEW id,
           SendTo(s, m, out, l, id),
           \A h \in Hosts : SlaveOf[h] = s /\ (IF l = "toHost" THEN MegaId[h] ELSE EgId[h]) = id =>
               Right(p, On(out, l, h))
    PROVE  \A n \in msgs' : Right(p, n)
<1>. DEFINE socket == IF l = "toHost" THEN MegaId ELSE EgId
            there == {h \in {g \in Hosts : SlaveOf[g] = s /\ socket[g] = id} : process[h] = "up"}
<1>1. Becomes(m, {On(out, l, h) : h \in there})
  BY DEF SendTo
<1>2. \A h \in there : (IF l = "toHost" THEN MegaId[h] ELSE EgId[h]) = id
  OBVIOUS
<1>3. \A o \in {On(out, l, h) : h \in there} : Right(p, o)
  BY <1>2
<1>. QED
  BY <1>1, <1>3, BecomesRight

\* An answer is right wherever it goes.
LEMMA AnswerRight ==
    ASSUME NEW p, NEW m \in Message, m.kind # "request",
           NEW l \in Links, NEW e \in Hosts \cup Slaves
    PROVE  Right(p, On(m, l, e))
BY OnFacts DEF Right

\* Requests on their way are right and typed.
LEMMA RequestFacts ==
    ASSUME NEW p, OneProgram(p), Sound(p), NEW m \in msgs
    PROVE  /\ m.type \in Types /\ Right(p, m)
           /\ Place[p][m.type] \in HostNames \cup Slaves
           /\ HostNames \cap Slaves = {} /\ Coordinator(p, m.type) \in Slaves
<1>1. IInv /\ Right(p, m)
  BY DEF Sound
<1>2. m.type \in Types
  BY <1>1, MessageFacts DEF Message
<1>3. p \in Programs
  BY DEF OneProgram
<1>. QED
  BY <1>1, <1>2, <1>3, RoutingAssumption DEF Coordinator

\* A slave neither aborts over a request of its host nor sends it astray.
LEMMA HostRequestRight ==
    ASSUME NEW p, OneProgram(p), Sound(p), NEW s \in Slaves, NEW m \in msgs,
           RouteHostRequest(s, m)
    PROVE  (\A n \in msgs' : Right(p, n)) /\ aborted' = {}
<1>. DEFINE id == EgId[m.end]
            target == stable[s][m.type]
            request == [m EXCEPT !.host = id]
            wrong == ErrorTo(m, m.coordinator, m.host)
<1>1. IInv /\ (\A n \in msgs : Right(p, n)) /\ aborted = {}
  BY DEF Sound
<1>2. /\ m \in Message /\ m.kind = "request" /\ m.end = m.asker /\ m.asker \in Hosts
      /\ SlaveOf[m.asker] = s /\ m.coordinator = UnMapped /\ m.host = UnMapped
  BY <1>1, MessageFacts DEF RouteHostRequest, OfSlave, Way
<1>3. /\ m.type \in Types /\ Place[p][m.type] \in HostNames \ {NameOf[m.asker]}
      /\ Place[p][m.type] # s /\ Coordinator(p, m.type) \in Slaves
  BY <1>2, RequestFacts DEF Right
<1>4. /\ request \in Message /\ request.asker = m.asker /\ request.kind = "request"
      /\ request.type = m.type
  BY <1>2, IdFacts DEF Message
<1>5. wrong \in Message /\ wrong.kind = "error"
  BY <1>2, ErrorFacts
<1>. HIDE DEF request, wrong
<1>6. CASE stable[s] = NoTable
  BY <1>1, <1>6, BecomesRight DEF RouteHostRequest, Drop
<1>7. CASE stable[s] # NoTable
  <2>1. TableRight(p, s, stable[s])
    BY <1>7 DEF Sound, Tables
  <2>2. target # SelfID
    BY <1>3, <2>1 DEF TableRight
  <2>3. target # id
    <3>1. SUFFICES ASSUME target = id PROVE FALSE
      OBVIOUS
    <3>2. target \notin Special
      BY <1>2, <3>1, IdFacts
    <3>3. PICK h \in Hosts : SlaveOf[h] = s /\ NameOf[h] = Place[p][m.type] /\ target = MegaId[h]
      BY <1>3, <2>1, <3>2 DEF TableRight
    <3>4. h # m.asker
      BY <1>3, <3>3
    <3>. QED
      BY <1>2, <3>1, <3>3, <3>4 DEF OneProgram
  <2>4. aborted' = {}
    BY <1>1, <1>7, <2>2, <2>3 DEF RouteHostRequest
  <2>5. \/ Becomes(m, {On(request, "slaveToMaster", s)}) /\ target = MasterID
        \/ SendTo(s, m, wrong, "toHostEG", id)
        \/ SendTo(s, m, request, "toHost", target) /\ target \notin Special
    BY <1>7, <2>2, <2>3 DEF RouteHostRequest, request, wrong
  <2>6. CASE Becomes(m, {On(request, "slaveToMaster", s)}) /\ target = MasterID
    <3>. DEFINE out == On(request, "slaveToMaster", s)
    <3>1. "slaveToMaster" \in Links
      BY DEF Links
    <3>2. /\ out.type = m.type /\ out.asker = m.asker /\ out.link = "slaveToMaster" /\ out.end = s
      BY <1>4, <3>1, OnFacts
    <3>3. Coordinator(p, m.type) # s
      BY <1>3, <2>1, <2>6 DEF TableRight
    <3>4. Right(p, out)
      BY <1>3, <3>2, <3>3 DEF Right
    <3>5. \A n \in msgs' : Right(p, n)
      BY <1>1, <2>6, <3>4, BecomesRight
    <3>. QED
      BY <2>4, <3>5
  <2>7. CASE SendTo(s, m, wrong, "toHostEG", id)
    <3>1. "toHostEG" \in Links
      BY DEF Links
    <3>2. \A h \in Hosts : Right(p, On(wrong, "toHostEG", h))
      BY <1>5, <3>1, AnswerRight
    <3>3. \A n \in msgs' : Right(p, n)
      BY <1>1, <2>7, <3>2, SendToRight
    <3>. QED
      BY <2>4, <3>3
  <2>8. CASE SendTo(s, m, request, "toHost", target) /\ target \notin Special
    <3>1. "toHost" \in Links
      BY DEF Links
    <3>2. ASSUME NEW h \in Hosts, SlaveOf[h] = s, MegaId[h] = target
          PROVE  Right(p, On(request, "toHost", h))
      <4>1. PICK g \in Hosts : SlaveOf[g] = s /\ NameOf[g] = Place[p][m.type] /\ target = MegaId[g]
        BY <1>3, <2>1, <2>8 DEF TableRight
      <4>2. g = h
        BY <3>2, <4>1, IdFacts
      <4>3. /\ On(request, "toHost", h).type = m.type /\ On(request, "toHost", h).end = h
            /\ On(request, "toHost", h).asker = m.asker /\ On(request, "toHost", h).link = "toHost"
        BY <1>4, <3>1, OnFacts
      <4>. QED
        BY <1>3, <4>1, <4>2, <4>3 DEF Right
    <3>3. \A n \in msgs' : Right(p, n)
      BY <1>1, <2>8, <3>2, SendToRight
    <3>. QED
      BY <2>4, <3>3
  <2>. QED
    BY <2>5, <2>6, <2>7, <2>8
<1>. QED
  BY <1>6, <1>7

\* A slave does not abort over an answer of its host.
LEMMA HostAnswerRight ==
    ASSUME NEW p, OneProgram(p), Sound(p), NEW s \in Slaves, NEW m \in msgs, RouteHostAnswer(s, m)
    PROVE  (\A n \in msgs' : Right(p, n)) /\ aborted' = {}
<1>1. IInv /\ (\A n \in msgs : Right(p, n)) /\ aborted = {}
  BY DEF Sound
<1>2. m \in Message /\ m.kind # "request" /\ m.host = EgId[m.asker] /\ m.host # UnMapped
  BY <1>1, MessageFacts DEF RouteHostAnswer, OfSlave, Way, LeadsBack, Special
<1>3. aborted' = {}
  BY <1>1, <1>2 DEF RouteHostAnswer
<1>4. Becomes(m, {On(m, "slaveToMaster", s)}) \/ SendTo(s, m, m, "toHostEG", m.host)
  BY <1>2 DEF RouteHostAnswer
<1>5. "slaveToMaster" \in Links /\ "toHostEG" \in Links
  BY DEF Links
<1>6. \A e \in Hosts \cup Slaves :
          Right(p, On(m, "slaveToMaster", e)) /\ Right(p, On(m, "toHostEG", e))
  BY <1>2, <1>5, AnswerRight
<1>7. CASE Becomes(m, {On(m, "slaveToMaster", s)})
  BY <1>1, <1>3, <1>6, <1>7, BecomesRight
<1>8. CASE SendTo(s, m, m, "toHostEG", m.host)
  BY <1>1, <1>3, <1>6, <1>8, SendToRight
<1>. QED
  BY <1>4, <1>7, <1>8

\* A slave neither aborts over a request from another slave nor sends it astray.
LEMMA MasterRequestRight ==
    ASSUME NEW p, OneProgram(p), Sound(p), NEW s \in Slaves, NEW m \in msgs,
           RouteMasterRequest(s, m)
    PROVE  (\A n \in msgs' : Right(p, n)) /\ aborted' = {}
<1>. DEFINE target == stable[s][m.type]
            wrong == ErrorTo(m, m.coordinator, m.host)
<1>1. IInv /\ (\A n \in msgs : Right(p, n)) /\ aborted = {}
  BY DEF Sound
<1>2. /\ m \in Message /\ m.kind = "request" /\ m.link = "masterToSlave" /\ m.end = s
      /\ m.coordinator \in Ids \cup {UnMapped} /\ m.host \in Ids \cup {UnMapped}
  BY <1>1, MessageFacts DEF RouteMasterRequest, OfMaster, Message
<1>3. /\ m.type \in Types /\ Place[p][m.type] \in HostNames \ {NameOf[m.asker]}
      /\ Place[p][m.type] # s /\ Coordinator(p, m.type) = s
  BY <1>2, RequestFacts DEF Right
<1>4. wrong \in Message /\ wrong.kind = "error"
  BY <1>2, ErrorFacts
<1>. HIDE DEF wrong
<1>5. CASE stable[s] = NoTable
  BY <1>1, <1>5, BecomesRight DEF RouteMasterRequest, Drop
<1>6. CASE stable[s] # NoTable
  <2>1. TableRight(p, s, stable[s])
    BY <1>6 DEF Sound, Tables
  <2>2. target # SelfID /\ target # MasterID
    BY <1>3, <2>1 DEF TableRight
  <2>3. aborted' = {}
    BY <1>1, <1>6, <2>2 DEF RouteMasterRequest
  <2>4. \/ Becomes(m, {On(wrong, "slaveToMaster", s)})
        \/ SendTo(s, m, m, "toHost", target) /\ target \notin Special
    BY <1>6, <2>2 DEF RouteMasterRequest, wrong
  <2>5. CASE Becomes(m, {On(wrong, "slaveToMaster", s)})
    <3>1. "slaveToMaster" \in Links
      BY DEF Links
    <3>2. Right(p, On(wrong, "slaveToMaster", s))
      BY <1>4, <3>1, AnswerRight
    <3>3. \A n \in msgs' : Right(p, n)
      BY <1>1, <2>5, <3>2, BecomesRight
    <3>. QED
      BY <2>3, <3>3
  <2>6. CASE SendTo(s, m, m, "toHost", target) /\ target \notin Special
    <3>1. "toHost" \in Links
      BY DEF Links
    <3>2. ASSUME NEW h \in Hosts, SlaveOf[h] = s, MegaId[h] = target
          PROVE  Right(p, On(m, "toHost", h))
      <4>1. PICK g \in Hosts : SlaveOf[g] = s /\ NameOf[g] = Place[p][m.type] /\ target = MegaId[g]
        BY <1>3, <2>1, <2>6 DEF TableRight
      <4>2. g = h
        BY <3>2, <4>1, IdFacts
      <4>3. /\ On(m, "toHost", h).type = m.type /\ On(m, "toHost", h).end = h
            /\ On(m, "toHost", h).asker = m.asker /\ On(m, "toHost", h).link = "toHost"
        BY <1>2, <3>1, OnFacts
      <4>. QED
        BY <1>3, <4>1, <4>2, <4>3 DEF Right
    <3>3. \A n \in msgs' : Right(p, n)
      BY <1>1, <2>6, <3>2, SendToRight
    <3>. QED
      BY <2>3, <3>3
  <2>. QED
    BY <2>4, <2>5, <2>6
<1>. QED
  BY <1>5, <1>6

\* A slave does not abort over an answer for its host.
LEMMA MasterAnswerRight ==
    ASSUME NEW p, OneProgram(p), Sound(p), NEW s \in Slaves, NEW m \in msgs,
           RouteMasterAnswer(s, m)
    PROVE  (\A n \in msgs' : Right(p, n)) /\ aborted' = {}
<1>1. IInv /\ (\A n \in msgs : Right(p, n)) /\ aborted = {}
  BY DEF Sound
<1>2. m \in Message /\ m.kind # "request" /\ m.host # UnMapped
  BY <1>1, MessageFacts DEF RouteMasterAnswer, OfMaster, Way, Special
<1>3. SendTo(s, m, m, "toHostEG", m.host) /\ aborted' = {}
  BY <1>1, <1>2 DEF RouteMasterAnswer
<1>4. "toHostEG" \in Links
  BY DEF Links
<1>5. \A h \in Hosts : Right(p, On(m, "toHostEG", h))
  BY <1>2, <1>4, AnswerRight
<1>. QED
  BY <1>1, <1>3, <1>5, SendToRight

\* The master neither aborts over a request nor sends it astray.
LEMMA RequestRight ==
    ASSUME NEW p, OneProgram(p), Sound(p), NEW m \in msgs, RouteRequest(m)
    PROVE  (\A n \in msgs' : Right(p, n)) /\ aborted' = {}
<1>. DEFINE id == ClientId[m.end]
            forth == [m EXCEPT !.coordinator = id]
            target == mtable[m.type]
<1>1. IInv /\ (\A n \in msgs : Right(p, n)) /\ aborted = {}
  BY DEF Sound
<1>2. m \in Message /\ m.kind = "request" /\ m.link = "slaveToMaster" /\ m.end \in Slaves
  BY <1>1, MessageFacts DEF RouteRequest, Ends
<1>3. /\ m.type \in Types /\ Place[p][m.type] \in HostNames \ {NameOf[m.asker]}
      /\ Coordinator(p, m.type) # m.end /\ Coordinator(p, m.type) \in Slaves
  BY <1>2, RequestFacts DEF Right
<1>4. /\ forth \in Message /\ forth.asker = m.asker /\ forth.type = m.type
  BY <1>2, IdFacts DEF Message
<1>. HIDE DEF forth
<1>5. CASE mtable = NoTable
  BY <1>1, <1>5, BecomesRight DEF RouteRequest, Drop
<1>6. CASE mtable # NoTable
  <2>1. target = ClientId[Coordinator(p, m.type)]
    BY <1>3, <1>6 DEF Sound, Tables, MasterTable
  <2>2. target \notin Special /\ target # id
    BY <1>2, <1>3, <2>1, IdFacts
  <2>3. SendSlave(m, forth, target) /\ aborted' = {}
    BY <1>1, <1>6, <2>2 DEF RouteRequest, forth, Special
  <2>4. "masterToSlave" \in Links
    BY DEF Links
  <2>5. ASSUME NEW s \in Slaves, ClientId[s] = target
        PROVE  Right(p, On(forth, "masterToSlave", s))
    <3>1. s = Coordinator(p, m.type)
      BY <1>3, <2>1, <2>5, IdFacts
    <3>2. /\ On(forth, "masterToSlave", s).type = m.type
          /\ On(forth, "masterToSlave", s).asker = m.asker
          /\ On(forth, "masterToSlave", s).end = s
          /\ On(forth, "masterToSlave", s).link = "masterToSlave"
      BY <1>4, <2>4, OnFacts
    <3>. QED
      BY <1>3, <3>1, <3>2 DEF Right
  <2>6. \A n \in msgs' : Right(p, n)
    BY <1>1, <2>3, <2>5, BecomesRight DEF SendSlave
  <2>. QED
    BY <2>3, <2>6
<1>. QED
  BY <1>5, <1>6

\* The master does not abort over an answer.
LEMMA RouteAnswerRight ==
    ASSUME NEW p, OneProgram(p), Sound(p), NEW m \in msgs, RouteAnswer(m)
    PROVE  (\A n \in msgs' : Right(p, n)) /\ aborted' = {}
<1>1. IInv /\ (\A n \in msgs : Right(p, n)) /\ aborted = {}
  BY DEF Sound
<1>2. m \in Message /\ m.kind # "request" /\ m.coordinator # UnMapped
  BY <1>1, MessageFacts DEF RouteAnswer, Way, Special
<1>3. SendSlave(m, m, m.coordinator) /\ aborted' = {}
  BY <1>1, <1>2 DEF RouteAnswer
<1>4. "masterToSlave" \in Links
  BY DEF Links
<1>5. \A s \in Slaves : Right(p, On(m, "masterToSlave", s))
  BY <1>2, <1>4, AnswerRight
<1>. QED
  BY <1>1, <1>3, <1>5, BecomesRight DEF SendSlave

\* What a host asks for is not its own; what it answers is no request.
LEMMA HostRight ==
    ASSUME NEW p, OneProgram(p), Sound(p),
           \/ \E h \in Hosts, t \in Types : Ask(h, t)
           \/ \E m \in msgs : Serve(m) \/ ReceiveAnswer(m)
    PROVE  (\A n \in msgs' : Right(p, n)) /\ aborted' = {}
<1>1. IInv /\ (\A n \in msgs : Right(p, n)) /\ aborted = {}
  BY DEF Sound
<1>2. ASSUME NEW h \in Hosts, NEW t \in Types, Ask(h, t)
      PROVE  (\A n \in msgs' : Right(p, n)) /\ aborted' = {}
  <2>. DEFINE r == [kind |-> "request", type |-> t, coordinator |-> UnMapped, host |-> UnMapped,
                    link |-> "hostToSlave", end |-> h, asker |-> h, program |-> runs[h]]
  <2>1. runs[h] = p
    BY <1>1, <1>2 DEF Ask, IInv, TypeOK, OneProgram
  <2>2. msgs' = msgs \cup {r} /\ aborted' = {}
    BY <1>1, <1>2 DEF Ask
  <2>3. Place[p][t] \in HostNames \ {NameOf[h]}
    BY <1>2, <2>1 DEF Ask
  <2>4. Right(p, r)
    BY <2>3 DEF Right
  <2>. QED
    BY <1>1, <2>2, <2>4
<1>3. ASSUME NEW m \in msgs, Serve(m)
      PROVE  (\A n \in msgs' : Right(p, n)) /\ aborted' = {}
  <2>1. PICK kind \in {"response", "error"} :
            Becomes(m, {[On(m, "hostToSlave", m.end) EXCEPT !.kind = kind]})
    BY <1>3 DEF Serve
  <2>. DEFINE out == [On(m, "hostToSlave", m.end) EXCEPT !.kind = kind]
  <2>2. m \in Message
    BY <1>1, MessageFacts
  <2>3. out.kind = kind
    BY <2>2 DEF On, Message
  <2>4. Right(p, out)
    BY <2>3 DEF Right
  <2>5. \A n \in msgs' : Right(p, n)
    BY <1>1, <2>1, <2>4 DEF Becomes
  <2>. QED
    BY <1>1, <1>3, <2>5 DEF Serve
<1>4. ASSUME NEW m \in msgs, ReceiveAnswer(m)
      PROVE  (\A n \in msgs' : Right(p, n)) /\ aborted' = {}
  BY <1>1, <1>4 DEF ReceiveAnswer, Drop, Becomes
<1>. QED
  BY <1>2, <1>3, <1>4

\* The tables are made right, and stay so.
LEMMA TablesStep ==
    ASSUME NEW p, OneProgram(p), Sound(p), [Next]_vars
    PROVE  Tables(p)'
<1>1. IInv /\ Tables(p)
  BY DEF Sound
<1>2. CASE UNCHANGED <<stable, mtable>>
  BY <1>1, <1>2 DEF Tables, TableRight, Coordinator
<1>3. ASSUME NEW s \in Slaves, SlaveLoads(s) PROVE Tables(p)'
  <2>1. PICK f \in Mappings(s, load.program), found \in Database(load.program) :
            stable' = [stable EXCEPT ![s] = IF found THEN SlaveTable(s, load.program, f) ELSE NoTable]
    BY <1>3 DEF SlaveLoads
  <2>2. found => load.program = p
    BY RoutingAssumption DEF Database, OneProgram
  <2>3. found => TableRight(p, s, SlaveTable(s, load.program, f))
    BY <1>1, <2>2, SlaveTableRight
  <2>4. \A t \in Slaves : stable'[t] = NoTable \/ TableRight(p, t, stable'[t])
    BY <1>1, <2>1, <2>3 DEF Tables, IInv, TypeOK
  <2>5. mtable' = mtable
    BY <1>3 DEF SlaveLoads
  <2>. QED
    BY <1>1, <2>4, <2>5 DEF Tables, TableRight, Coordinator, MasterTable
<1>4. CASE MasterLoaded
  <2>1. PICK found \in Database(load.program) :
            mtable' = IF found THEN MasterTable(load.program) ELSE NoTable
    BY <1>4 DEF MasterLoaded
  <2>2. mtable' \in {NoTable, MasterTable(p)} /\ stable' = stable
    BY <1>4, <2>1, RoutingAssumption DEF MasterLoaded, Database, OneProgram
  <2>. QED
    BY <1>1, <2>2 DEF Tables, TableRight, Coordinator, MasterTable
<1>5. \/ UNCHANGED <<stable, mtable>>
      \/ \E s \in Slaves : SlaveLoads(s)
      \/ MasterLoaded
  <2>1. CASE UNCHANGED vars
    BY <2>1 DEF vars
  <2>2. CASE \E h \in Hosts : \/ Enroll(h) \/ Crash(h) \/ HostLoads(h) \/ HostGone(h)
                              \/ \E t \in Types : Ask(h, t)
    BY <2>2 DEF Enroll, Crash, HostLoads, HostGone, Ask, loadVars
  <2>3. CASE \E q \in Programs \cup {NoProgram} : StartLoad(q)
    BY <2>3 DEF StartLoad
  <2>4. CASE \E m \in msgs : Route(m)
    <3>1. PICK m \in msgs : Route(m)
      BY <2>4
    <3>2. ASSUME NEW s \in Slaves, RouteHostRequest(s, m) PROVE stable' = stable /\ mtable' = mtable
      BY <3>2 DEF RouteHostRequest, loadVars
    <3>3. ASSUME NEW s \in Slaves, RouteHostAnswer(s, m) PROVE stable' = stable /\ mtable' = mtable
      BY <3>3 DEF RouteHostAnswer, loadVars
    <3>4. ASSUME NEW s \in Slaves, RouteMasterRequest(s, m) PROVE stable' = stable /\ mtable' = mtable
      BY <3>4 DEF RouteMasterRequest, loadVars
    <3>5. ASSUME NEW s \in Slaves, RouteMasterAnswer(s, m) PROVE stable' = stable /\ mtable' = mtable
      BY <3>5 DEF RouteMasterAnswer, loadVars
    <3>6. RouteRequest(m) \/ RouteAnswer(m) => stable' = stable /\ mtable' = mtable
      BY DEF RouteRequest, RouteAnswer, loadVars
    <3>7. Serve(m) \/ ReceiveAnswer(m) => stable' = stable /\ mtable' = mtable
      BY DEF Serve, ReceiveAnswer, loadVars
    <3>8. stable' = stable /\ mtable' = mtable
      BY <3>1, <3>2, <3>3, <3>4, <3>5, <3>6, <3>7 DEF Route
    <3>. QED
      BY <3>8
  <2>. QED
    BY <2>1, <2>2, <2>3, <2>4 DEF Next
<1>. QED
  BY <1>2, <1>3, <1>4, <1>5

\* Every step preserves it.
LEMMA SoundStep ==
    ASSUME NEW p, OneProgram(p)
    PROVE  Sound(p) /\ [Next]_vars => Sound(p)'
<1>. SUFFICES ASSUME Sound(p), [Next]_vars PROVE Sound(p)'
  OBVIOUS
<1>1. IInv /\ (\A n \in msgs : Right(p, n)) /\ aborted = {}
  BY DEF Sound
<1>2. IInv' /\ Tables(p)'
  BY <1>1, Inductive, TablesStep
<1>3. SUFFICES (\A n \in msgs' : Right(p, n)) /\ aborted' = {}
  BY <1>2 DEF Sound, Right, Coordinator
<1>4. CASE UNCHANGED vars
  BY <1>1, <1>4 DEF vars
<1>5. CASE \E h \in Hosts : Enroll(h) \/ Crash(h) \/ HostLoads(h) \/ HostGone(h)
  BY <1>1, <1>5 DEF Enroll, Crash, HostLoads, HostGone
<1>6. CASE (\E q \in Programs \cup {NoProgram} : StartLoad(q)) \/ (\E s \in Slaves : SlaveLoads(s)) \/ MasterLoaded
  BY <1>1, <1>6 DEF StartLoad, SlaveLoads, MasterLoaded
<1>7. CASE \E h \in Hosts, t \in Types : Ask(h, t)
  BY <1>7, HostRight
<1>8. CASE \E m \in msgs : Route(m)
  <2>1. PICK m \in msgs : Route(m)
    BY <1>8
  <2>2. CASE \E s \in Slaves : RouteHostRequest(s, m) \/ RouteHostAnswer(s, m)
    BY <2>2, HostRequestRight, HostAnswerRight
  <2>3. CASE \E s \in Slaves : RouteMasterRequest(s, m) \/ RouteMasterAnswer(s, m)
    BY <2>3, MasterRequestRight, MasterAnswerRight
  <2>4. CASE RouteRequest(m) \/ RouteAnswer(m)
    BY <2>4, RequestRight, RouteAnswerRight
  <2>5. CASE Serve(m) \/ ReceiveAnswer(m)
    BY <2>5, HostRight
  <2>. QED
    BY <2>1, <2>2, <2>3, <2>4, <2>5 DEF Route
<1>. QED
  BY <1>4, <1>5, <1>6, <1>7, <1>8 DEF Next

\* It holds in every behaviour.
LEMMA SoundAlways ==
    ASSUME NEW p, OneProgram(p)
    PROVE  Spec => []Sound(p)
<1>1. Init => Sound(p)
  BY InitStep DEF Init, Sound, Tables
<1>2. Sound(p) /\ [Next]_vars => Sound(p)'
  BY SoundStep
<1>. QED
  BY <1>1, <1>2, PTL DEF Spec

\* With one program, loaded again as often as one likes while hosts come and go,
\* no THROW_RTE or VERIFY_RTE of the routing ever ends a slave or the master.
THEOREM NobodyAborts ==
    ASSUME NEW p, OneProgram(p)
    PROVE  Spec => []NoAbort
<1>1. Sound(p) => NoAbort
  BY DEF Sound, NoAbort
<1>. QED
  BY <1>1, SoundAlways, PTL

\* With one program every request is delivered to a host that runs the part of the
\* program it is about.
THEOREM OwnersAreReached ==
    ASSUME NEW p, OneProgram(p)
    PROVE  Spec => []ReachesOwner
<1>1. Sound(p) => ReachesOwner
  <2>. SUFFICES ASSUME Sound(p), NEW m \in msgs, m.link = "toHost"
                PROVE  NameOf[m.end] = Place[m.program][m.type]
    BY DEF ReachesOwner
  <2>1. m \in Message /\ Way(m) /\ Right(p, m)
    BY MessageFacts DEF Sound
  <2>2. m.program = p
    BY <2>1 DEF Message, OneProgram
  <2>3. m.kind = "request"
    BY <2>1 DEF Way
  <2>. QED
    BY <2>1, <2>2, <2>3 DEF Right
<1>. QED
  BY <1>1, SoundAlways, PTL

-----------------------------------------------------------------------------
(***************************************************************************)
(* A request whose way was set up is kept.  The invariant says that the    *)
(* tables name only hosts that were there once (Ready); and of a request   *)
(* that is routable and not exposed, that the tables on its way are still  *)
(* set (Goes), so that it is neither dropped nor sent to nobody (Kept).    *)
(***************************************************************************)
HasTable(s) == DOMAIN stable[s] = Types

Ready ==
    /\ \A h \in enrolled : process[h] # "off"
    /\ \A s \in Slaves, t \in Types, h \in Hosts :
          HasTable(s) /\ SlaveOf[h] = s /\ stable[s][t] = MegaId[h] => process[h] # "off"

Goes(p, m) ==
    LET home == Coordinator(p, m.type)
    IN  /\ Place[p][m.type] = asks[m.asker].place
        /\ HasTable(SlaveOf[m.asker]) /\ HasTable(home)
        /\ home = SlaveOf[m.asker] \/ DOMAIN mtable = Types

Kept(p) ==
    \A h \in Hosts : asks[h].state = "routable" =>
        /\ process[h] = "up"
        /\ h \in exposed \/ \E m \in msgs : m.asker = h /\ Goes(p, m)

\* A table of the program's types is there.
LEMMA TableIsSet ==
    ASSUME NEW s \in Slaves, NEW t \in Types, HasTable(s)
    PROVE  stable[s] # NoTable
BY DEF HasTable, NoTable

LEMMA RoutesNothing ==
    ASSUME NEW m, Route(m)
    PROVE  /\ UNCHANGED <<process, runs, loadVars>> /\ enrolled' \subseteq enrolled
           /\ ~ReceiveAnswer(m) => asks' = asks /\ exposed \subseteq exposed'
<1>1. ASSUME NEW s \in Slaves, RouteHostRequest(s, m)
      PROVE  /\ UNCHANGED <<process, runs, loadVars, asks>>
             /\ enrolled' \subseteq enrolled /\ exposed \subseteq exposed'
  BY <1>1 DEF RouteHostRequest, hostVars, SendTo
<1>2. ASSUME NEW s \in Slaves, RouteHostAnswer(s, m)
      PROVE  /\ UNCHANGED <<process, runs, loadVars, asks>>
             /\ enrolled' \subseteq enrolled /\ exposed \subseteq exposed'
  BY <1>2 DEF RouteHostAnswer, hostVars, SendTo
<1>3. ASSUME NEW s \in Slaves, RouteMasterRequest(s, m)
      PROVE  /\ UNCHANGED <<process, runs, loadVars, asks>>
             /\ enrolled' \subseteq enrolled /\ exposed \subseteq exposed'
  BY <1>3 DEF RouteMasterRequest, hostVars, SendTo
<1>4. ASSUME NEW s \in Slaves, RouteMasterAnswer(s, m)
      PROVE  /\ UNCHANGED <<process, runs, loadVars, asks>>
             /\ enrolled' \subseteq enrolled /\ exposed \subseteq exposed'
  BY <1>4 DEF RouteMasterAnswer, hostVars, SendTo
<1>5. CASE RouteRequest(m)
  BY <1>5 DEF RouteRequest, hostVars
<1>6. CASE RouteAnswer(m)
  BY <1>6 DEF RouteAnswer, hostVars
<1>7. CASE Serve(m)
  BY <1>7 DEF Serve, hostVars
<1>8. CASE ReceiveAnswer(m)
  BY <1>8 DEF ReceiveAnswer
<1>. QED
  BY <1>1, <1>2, <1>3, <1>4, <1>5, <1>6, <1>7, <1>8 DEF Route

\* A slave's new table names enrolled hosts only.
LEMMA NewTableReady ==
    ASSUME NEW p \in Programs, IInv, Ready, NEW s \in Slaves, NEW f \in Mappings(s, p),
           NEW t \in Types, NEW h \in Hosts, SlaveOf[h] = s, SlaveTable(s, p, f)[t] = MegaId[h]
    PROVE  process[h] # "off"
<1>. DEFINE n == Place[p][t]
            mine == {k \in HostNames : HomeOf[k] = s}
<1>1. MegaId[h] \notin Special /\ DOMAIN f = mine
  BY IdFacts DEF Mappings
<1>2. n \in mine /\ f[n] = MegaId[h]
  BY <1>1 DEF SlaveTable, Special
<1>3. PICK g \in enrolled : NameOf[g] = n /\ f[n] = MegaId[g]
  <2>. DEFINE fit == {g \in enrolled : NameOf[g] = n}
  <2>1. f[n] \in IF fit = {} THEN {UnMapped} ELSE {MegaId[g] : g \in fit}
    BY <1>2 DEF Mappings
  <2>2. f[n] \in {MegaId[g] : g \in fit}
    BY <1>1, <1>2, <2>1 DEF Special
  <2>. QED
    BY <2>2
<1>4. g \in Hosts /\ SlaveOf[g] = s
  BY <1>2, <1>3, RoutingAssumption DEF IInv, TypeOK
<1>5. g = h
  BY <1>2, <1>3, <1>4, IdFacts
<1>. QED
  BY <1>3, <1>5 DEF Ready

LEMMA ReadyStep ==
    ASSUME NEW p, OneProgram(p), IInv, Ready, [Next]_vars
    PROVE  Ready'
<1>. USE DEF HasTable
<1>1. CASE UNCHANGED vars
  BY <1>1 DEF vars, Ready
<1>2. ASSUME NEW h \in Hosts, Enroll(h) PROVE Ready'
  BY <1>2 DEF Enroll, Ready, loadVars, IInv, TypeOK
<1>3. ASSUME NEW h \in Hosts, Crash(h) PROVE Ready'
  BY <1>3 DEF Crash, Ready, loadVars, IInv, TypeOK
<1>4. ASSUME NEW h \in Hosts, HostLoads(h) PROVE Ready'
  BY <1>4 DEF HostLoads, Ready, IInv, TypeOK, NoLoad
<1>5. ASSUME NEW h \in Hosts, HostGone(h) PROVE Ready'
  BY <1>5 DEF HostGone, Ready, hostVars, IInv, TypeOK, NoLoad
<1>6. ASSUME NEW h \in Hosts, NEW t \in Types, Ask(h, t) PROVE Ready'
  BY <1>6 DEF Ask, Ready, loadVars
<1>7. ASSUME NEW q \in Programs \cup {NoProgram}, StartLoad(q) PROVE Ready'
  BY <1>7 DEF StartLoad, Ready, hostVars
<1>8. ASSUME NEW s \in Slaves, SlaveLoads(s) PROVE Ready'
  <2>1. PICK f \in Mappings(s, load.program), found \in Database(load.program) :
            stable' = [stable EXCEPT ![s] = IF found THEN SlaveTable(s, load.program, f) ELSE NoTable]
    BY <1>8 DEF SlaveLoads
  <2>2. /\ \A r \in Slaves : r # s => stable'[r] = stable[r]
        /\ stable'[s] = IF found THEN SlaveTable(s, load.program, f) ELSE NoTable
    BY <2>1 DEF IInv, TypeOK
  <2>3. process' = process /\ enrolled' = enrolled
    BY <1>8 DEF SlaveLoads, hostVars
  <2>4. \A r \in Slaves, t \in Types, h \in Hosts :
           HasTable(r)' /\ SlaveOf[h] = r /\ stable'[r][t] = MegaId[h] => process[h] # "off"
    <3>1. SUFFICES ASSUME NEW r \in Slaves, NEW t \in Types, NEW h \in Hosts,
                          HasTable(r)', SlaveOf[h] = r, stable'[r][t] = MegaId[h]
                   PROVE  process[h] # "off"
      OBVIOUS
    <3>2. CASE r = s
      <4>1. found
        BY <2>2, <3>1, <3>2 DEF NoTable
      <4>2. load.program \in Programs
        BY <4>1, RoutingAssumption DEF Database
      <4>. QED
        BY <2>2, <3>1, <3>2, <4>1, <4>2, NewTableReady
    <3>3. CASE r # s
      BY <2>2, <3>1, <3>3 DEF Ready
    <3>. QED
      BY <3>2, <3>3
  <2>. QED
    BY <2>3, <2>4 DEF Ready
<1>9. CASE MasterLoaded
  BY <1>9 DEF MasterLoaded, Ready, hostVars
<1>10. ASSUME NEW m \in msgs, Route(m) PROVE Ready'
  BY <1>10, RoutesNothing DEF Ready, loadVars
<1>. QED
  BY <1>1, <1>2, <1>3, <1>4, <1>5, <1>6, <1>7, <1>8, <1>9, <1>10 DEF Next

\* A message that is handled becomes one of the same host about the same type, or
\* it met a host that has ended.
LEMMA KeptPassed ==
    ASSUME NEW p, IInv, Kept(p), NEW m \in msgs, UNCHANGED <<process, asks, stable, mtable>>,
           exposed \subseteq exposed', msgs \ {m} \subseteq msgs',
           process[m.asker] = "up" /\ Goes(p, m) =>
               \/ m.asker \in exposed'
               \/ \E o \in msgs' : o.asker = m.asker /\ o.type = m.type
    PROVE  Kept(p)'
<1>. SUFFICES ASSUME NEW h \in Hosts, asks[h].state = "routable"
              PROVE  /\ process[h] = "up"
                     /\ h \in exposed' \/ \E n \in msgs' : n.asker = h /\ Goes(p, n)'
  BY DEF Kept
<1>1. process[h] = "up" /\ (h \in exposed \/ \E n \in msgs : n.asker = h /\ Goes(p, n))
  BY DEF Kept
<1>2. ASSUME NEW n \in msgs, n.asker = h, Goes(p, n)
      PROVE  h \in exposed' \/ \E o \in msgs' : o.asker = h /\ Goes(p, o)'
  <2>1. CASE n # m
    BY <1>2, <2>1 DEF Goes, HasTable, Coordinator
  <2>2. CASE n = m
    <3>1. h \in exposed' \/ \E o \in msgs' : o.asker = h /\ o.type = n.type
      BY <1>1, <1>2, <2>2
    <3>. QED
      BY <1>2, <3>1 DEF Goes, HasTable, Coordinator
  <2>. QED
    BY <2>1, <2>2
<1>. QED
  BY <1>1, <1>2

\* What is sent to a host that lives is on its way; who asked is exposed if it ended.
LEMMA SentTo ==
    ASSUME NEW s, NEW m \in msgs, NEW out \in Message, NEW l \in {"toHost", "toHostEG"}, NEW id,
           SendTo(s, m, out, l, id), NEW h \in Hosts, SlaveOf[h] = s,
           (IF l = "toHost" THEN MegaId[h] ELSE EgId[h]) = id
    PROVE  /\ msgs \ {m} \subseteq msgs'
           /\ process[h] = "up" => \E o \in msgs' : o.asker = out.asker /\ o.type = out.type
           /\ process[h] = "dead" => m.asker \in exposed'
<1>. DEFINE socket == IF l = "toHost" THEN MegaId ELSE EgId
            owner == {g \in Hosts : SlaveOf[g] = s /\ socket[g] = id}
            there == {g \in owner : process[g] = "up"}
            ended == {g \in owner : process[g] = "dead"}
<1>1. /\ msgs' = (msgs \ {m}) \cup {On(out, l, g) : g \in there}
      /\ exposed' = IF ended = {} THEN exposed ELSE exposed \cup {m.asker}
  BY DEF SendTo, Becomes
<1>2. /\ process[h] = "up" => h \in there
      /\ process[h] = "dead" => h \in ended
  OBVIOUS
<1>3. On(out, l, h).asker = out.asker /\ On(out, l, h).type = out.type
  BY DEF On, Message
<1>4. ended # {} => m.asker \in exposed'
  BY <1>1
<1>. QED
  BY <1>1, <1>2, <1>3, <1>4

LEMMA SentToHost ==
    ASSUME NEW s, NEW m \in msgs, NEW out \in Message, NEW h \in Hosts, SlaveOf[h] = s,
           NEW id, MegaId[h] = id, SendTo(s, m, out, "toHost", id)
    PROVE  /\ msgs \ {m} \subseteq msgs'
           /\ process[h] = "up" => \E o \in msgs' : o.asker = out.asker /\ o.type = out.type
           /\ process[h] = "dead" => m.asker \in exposed'
<1>. DEFINE l == "toHost"
<1>1. /\ l \in {"toHost", "toHostEG"} /\ SendTo(s, m, out, l, id)
      /\ (IF l = "toHost" THEN MegaId[h] ELSE EgId[h]) = id
  OBVIOUS
<1>. HIDE DEF l
<1>. QED
  BY <1>1, SentTo

LEMMA SentToEG ==
    ASSUME NEW s, NEW m \in msgs, NEW out \in Message, NEW h \in Hosts, SlaveOf[h] = s,
           NEW id, EgId[h] = id, SendTo(s, m, out, "toHostEG", id)
    PROVE  /\ msgs \ {m} \subseteq msgs'
           /\ process[h] = "up" => \E o \in msgs' : o.asker = out.asker /\ o.type = out.type
           /\ process[h] = "dead" => m.asker \in exposed'
<1>. DEFINE l == "toHostEG"
<1>1. /\ l \in {"toHost", "toHostEG"} /\ SendTo(s, m, out, l, id)
      /\ (IF l = "toHost" THEN MegaId[h] ELSE EgId[h]) = id
  OBVIOUS
<1>. HIDE DEF l
<1>. QED
  BY <1>1, SentTo

LEMMA SentSlave ==
    ASSUME NEW m \in msgs, NEW out \in Message, NEW s \in Slaves, SendSlave(m, out, ClientId[s])
    PROVE  /\ msgs \ {m} \subseteq msgs'
           /\ \E o \in msgs' : o.asker = out.asker /\ o.type = out.type
<1>1. msgs' = (msgs \ {m}) \cup {On(out, "masterToSlave", r) : r \in {r \in Slaves : ClientId[r] = ClientId[s]}}
  BY DEF SendSlave, Becomes
<1>2. On(out, "masterToSlave", s).asker = out.asker /\ On(out, "masterToSlave", s).type = out.type
  BY DEF On, Message
<1>. QED
  BY <1>1, <1>2

\* A table sends a request to a host that was once there: if it is not there any
\* more, it has ended.
LEMMA OwnerOrEnded ==
    ASSUME NEW p, Sound(p), Ready, NEW s \in Slaves, NEW m \in msgs, m.type \in Types,
           HasTable(s), NEW out \in Message, out.asker = m.asker, out.type = m.type,
           stable[s][m.type] \notin Special,
           SendTo(s, m, out, "toHost", stable[s][m.type])
    PROVE  /\ msgs \ {m} \subseteq msgs'
           /\ \/ m.asker \in exposed'
              \/ \E o \in msgs' : o.asker = m.asker /\ o.type = m.type
<1>1. TableRight(p, s, stable[s])
  BY TableIsSet DEF Sound, Tables
<1>2. PICK h \in Hosts : SlaveOf[h] = s /\ stable[s][m.type] = MegaId[h]
  BY <1>1 DEF TableRight
<1>3. process[h] \in {"up", "dead"}
  <2>1. process[h] # "off"
    BY <1>2 DEF Ready
  <2>. QED
    BY <2>1 DEF Sound, IInv, TypeOK
<1>4. /\ msgs \ {m} \subseteq msgs'
      /\ process[h] = "up" => \E o \in msgs' : o.asker = m.asker /\ o.type = m.type
      /\ process[h] = "dead" => m.asker \in exposed'
  <2>1. SendTo(s, m, out, "toHost", MegaId[h])
    BY ONLY <1>2, SendTo(s, m, out, "toHost", stable[s][m.type])
  <2>2. /\ msgs \ {m} \subseteq msgs'
        /\ process[h] = "up" => \E o \in msgs' : o.asker = out.asker /\ o.type = out.type
        /\ process[h] = "dead" => m.asker \in exposed'
    BY ONLY <1>2, <2>1, SentToHost, m \in msgs, out \in Message, h \in Hosts
  <2>. QED
    BY <2>2
<1>. QED
  BY <1>3, <1>4

LEMMA HostRequestKept ==
    ASSUME NEW p, OneProgram(p), Sound(p), Ready, Kept(p), NEW s \in Slaves, NEW m \in msgs,
           RouteHostRequest(s, m)
    PROVE  Kept(p)'
<1>. DEFINE id == EgId[m.end]
            target == stable[s][m.type]
            request == [m EXCEPT !.host = id]
            wrong == ErrorTo(m, m.coordinator, m.host)
            same == \E o \in msgs' : o.asker = m.asker /\ o.type = m.type
<1>1. IInv /\ aborted = {} /\ aborted' = {}
  BY HostRequestRight DEF Sound
<1>2. /\ m \in Message /\ m.kind = "request" /\ m.end = m.asker /\ m.asker \in Hosts
      /\ SlaveOf[m.asker] = s /\ m.coordinator = UnMapped /\ m.host = UnMapped
  BY <1>1, MessageFacts DEF RouteHostRequest, OfSlave, Way
<1>3. m.type \in Types
  BY RequestFacts
<1>4. request \in Message /\ request.asker = m.asker /\ request.type = m.type
  BY <1>2, IdFacts DEF Message
<1>5. wrong \in Message /\ wrong.asker = m.asker /\ wrong.type = m.type
  BY <1>2, ErrorFacts
<1>6. UNCHANGED <<process, asks, stable, mtable>> /\ exposed \subseteq exposed'
  BY DEF RouteHostRequest, hostVars, loadVars, SendTo
<1>. HIDE DEF request, wrong, same
<1>7. \/ stable[s] = NoTable /\ Becomes(m, {})
      \/ Becomes(m, {On(request, "slaveToMaster", s)})
      \/ SendTo(s, m, wrong, "toHostEG", id)
      \/ SendTo(s, m, request, "toHost", target) /\ target \notin Special
  BY <1>1 DEF RouteHostRequest, request, wrong, Abort, Drop
<1>8. CASE stable[s] = NoTable /\ Becomes(m, {})
  <2>1. ~Goes(p, m) /\ msgs \ {m} \subseteq msgs'
    BY <1>2, <1>3, <1>8, TableIsSet DEF Goes, Becomes
  <2>. QED
    BY <1>1, <1>6, <2>1, KeptPassed
<1>9. CASE Becomes(m, {On(request, "slaveToMaster", s)})
  <2>1. On(request, "slaveToMaster", s).asker = m.asker /\ On(request, "slaveToMaster", s).type = m.type
    BY <1>4 DEF On, Message
  <2>2. same /\ msgs \ {m} \subseteq msgs'
    BY <1>9, <2>1 DEF Becomes, same
  <2>. QED
    BY <1>1, <1>6, <2>2, KeptPassed DEF same
<1>10. CASE SendTo(s, m, wrong, "toHostEG", id)
  <2>1. msgs \ {m} \subseteq msgs'
    BY <1>10 DEF SendTo, Becomes
  <2>2. EgId[m.asker] = id
    BY <1>2
  <2>3. process[m.asker] = "up" => \E o \in msgs' : o.asker = wrong.asker /\ o.type = wrong.type
    <3>1. msgs' = (msgs \ {m}) \cup
                     {On(wrong, "toHostEG", g) : g \in {g \in Hosts : /\ process[g] = "up"
                                                                   /\ SlaveOf[g] = s
                                                                   /\ EgId[g] = id}}
      BY <1>10 DEF SendTo, Becomes
    <3>2. LET o == On(wrong, "toHostEG", m.asker)
          IN  o.asker = wrong.asker /\ o.type = wrong.type
      BY ONLY <1>5 DEF On, Message
    <3>. HIDE DEF id
    <3>. QED
      BY ONLY <1>2, <2>2, <3>1, <3>2
  <2>4. process[m.asker] = "up" => same
    BY ONLY <1>5, <2>3 DEF same
  <2>. QED
    BY <1>1, <1>6, <2>1, <2>4, KeptPassed DEF same
<1>11. CASE SendTo(s, m, request, "toHost", target) /\ target \notin Special
  <2>1. CASE HasTable(s)
    <3>1. msgs \ {m} \subseteq msgs' /\ (m.asker \in exposed' \/ same)
      BY <1>3, <1>4, <1>11, <2>1, OwnerOrEnded DEF same
    <3>. QED
      BY <1>1, <1>6, <3>1, KeptPassed DEF same
  <2>2. CASE ~HasTable(s)
    <3>1. ~Goes(p, m) /\ msgs \ {m} \subseteq msgs'
      BY <1>2, <1>11, <2>2 DEF Goes, SendTo, Becomes
    <3>. QED
      BY <1>1, <1>6, <3>1, KeptPassed
  <2>. QED
    BY <2>1, <2>2
<1>. QED
  BY <1>7, <1>8, <1>9, <1>10, <1>11

LEMMA HostAnswerKept ==
    ASSUME NEW p, OneProgram(p), Sound(p), Kept(p), NEW s \in Slaves, NEW m \in msgs,
           RouteHostAnswer(s, m)
    PROVE  Kept(p)'
<1>. DEFINE same == \E o \in msgs' : o.asker = m.asker /\ o.type = m.type
<1>1. IInv /\ aborted = {} /\ aborted' = {}
  BY HostAnswerRight DEF Sound
<1>2. /\ m \in Message /\ m.asker \in Hosts /\ SlaveOf[m.end] = s
      /\ m.host = EgId[m.asker] /\ m.host # UnMapped
      /\ m.coordinator = UnMapped => SlaveOf[m.asker] = s
  BY <1>1, MessageFacts DEF RouteHostAnswer, OfSlave, Way, LeadsBack, Special
<1>3. UNCHANGED <<process, asks, stable, mtable>> /\ exposed \subseteq exposed'
  BY DEF RouteHostAnswer, hostVars, loadVars, SendTo
<1>. HIDE DEF same
<1>4. CASE Becomes(m, {On(m, "slaveToMaster", s)})
  <2>1. On(m, "slaveToMaster", s).asker = m.asker /\ On(m, "slaveToMaster", s).type = m.type
    BY <1>2 DEF On, Message
  <2>2. same /\ msgs \ {m} \subseteq msgs'
    BY <1>4, <2>1 DEF Becomes, same
  <2>. QED
    BY <1>1, <1>3, <2>2, KeptPassed DEF same
<1>5. CASE m.coordinator = UnMapped /\ SendTo(s, m, m, "toHostEG", m.host)
  <2>1. msgs \ {m} \subseteq msgs' /\ (process[m.asker] = "up" => same)
    BY <1>2, <1>5, SentTo DEF same
  <2>. QED
    BY <1>1, <1>3, <2>1, KeptPassed DEF same
<1>. QED
  BY <1>2, <1>4, <1>5 DEF RouteHostAnswer

LEMMA MasterRequestKept ==
    ASSUME NEW p, OneProgram(p), Sound(p), Ready, Kept(p), NEW s \in Slaves, NEW m \in msgs,
           RouteMasterRequest(s, m)
    PROVE  Kept(p)'
<1>. DEFINE target == stable[s][m.type]
            wrong == ErrorTo(m, m.coordinator, m.host)
            same == \E o \in msgs' : o.asker = m.asker /\ o.type = m.type
<1>1. IInv /\ aborted = {} /\ aborted' = {}
  BY MasterRequestRight DEF Sound
<1>2. /\ m \in Message /\ m.kind = "request" /\ m.link = "masterToSlave" /\ m.end = s
      /\ m.coordinator \in Ids \cup {UnMapped} /\ m.host \in Ids \cup {UnMapped}
  BY <1>1, MessageFacts DEF RouteMasterRequest, OfMaster, Message
<1>3. m.type \in Types /\ Coordinator(p, m.type) = s
  BY <1>2, RequestFacts DEF Right
<1>4. wrong \in Message /\ wrong.asker = m.asker /\ wrong.type = m.type
  BY <1>2, ErrorFacts
<1>5. UNCHANGED <<process, asks, stable, mtable>> /\ exposed \subseteq exposed'
  BY DEF RouteMasterRequest, hostVars, loadVars, SendTo
<1>6. Goes(p, m) => HasTable(s)
  BY <1>3 DEF Goes, Ready
<1>. HIDE DEF wrong, same
<1>7. \/ stable[s] = NoTable /\ Becomes(m, {})
      \/ Becomes(m, {On(wrong, "slaveToMaster", s)})
      \/ SendTo(s, m, m, "toHost", target) /\ target \notin Special
  BY <1>1 DEF RouteMasterRequest, wrong, Abort, Drop
<1>8. CASE stable[s] = NoTable /\ Becomes(m, {})
  <2>1. ~Goes(p, m) /\ msgs \ {m} \subseteq msgs'
    BY <1>3, <1>6, <1>8, TableIsSet DEF Becomes
  <2>. QED
    BY <1>1, <1>5, <2>1, KeptPassed
<1>9. CASE Becomes(m, {On(wrong, "slaveToMaster", s)})
  <2>1. On(wrong, "slaveToMaster", s).asker = m.asker /\ On(wrong, "slaveToMaster", s).type = m.type
    BY <1>4 DEF On, Message
  <2>2. same /\ msgs \ {m} \subseteq msgs'
    BY <1>9, <2>1 DEF Becomes, same
  <2>. QED
    BY <1>1, <1>5, <2>2, KeptPassed DEF same
<1>10. CASE SendTo(s, m, m, "toHost", target) /\ target \notin Special
  <2>1. CASE HasTable(s)
    <3>1. msgs \ {m} \subseteq msgs' /\ (m.asker \in exposed' \/ same)
      BY <1>2, <1>3, <1>10, <2>1, OwnerOrEnded DEF same
    <3>. QED
      BY <1>1, <1>5, <3>1, KeptPassed DEF same
  <2>2. CASE ~HasTable(s)
    <3>1. ~Goes(p, m) /\ msgs \ {m} \subseteq msgs'
      BY <1>6, <1>10, <2>2 DEF SendTo, Becomes
    <3>. QED
      BY <1>1, <1>5, <3>1, KeptPassed
  <2>. QED
    BY <2>1, <2>2
<1>. QED
  BY <1>7, <1>8, <1>9, <1>10

LEMMA MasterAnswerKept ==
    ASSUME NEW p, OneProgram(p), Sound(p), Kept(p), NEW s \in Slaves, NEW m \in msgs,
           RouteMasterAnswer(s, m)
    PROVE  Kept(p)'
<1>. DEFINE same == \E o \in msgs' : o.asker = m.asker /\ o.type = m.type
<1>1. IInv
  BY DEF Sound
<1>2. /\ m \in Message /\ m.asker \in Hosts /\ SlaveOf[m.asker] = s
      /\ m.host = EgId[m.asker] /\ m.host # UnMapped
  BY <1>1, MessageFacts DEF RouteMasterAnswer, OfMaster, Way, Special
<1>3. /\ SendTo(s, m, m, "toHostEG", m.host) /\ exposed \subseteq exposed'
      /\ UNCHANGED <<process, asks, stable, mtable>>
  BY <1>2 DEF RouteMasterAnswer, hostVars, loadVars, SendTo
<1>. HIDE DEF same
<1>4. msgs \ {m} \subseteq msgs' /\ (process[m.asker] = "up" => same)
  BY <1>2, <1>3, SentToEG DEF same
<1>. QED
  BY <1>1, <1>3, <1>4, KeptPassed DEF same

LEMMA RequestKept ==
    ASSUME NEW p, OneProgram(p), Sound(p), Ready, Kept(p), NEW m \in msgs, RouteRequest(m)
    PROVE  Kept(p)'
<1>. DEFINE id == ClientId[m.end]
            forth == [m EXCEPT !.coordinator = id]
            target == mtable[m.type]
            same == \E o \in msgs' : o.asker = m.asker /\ o.type = m.type
<1>1. IInv
  BY DEF Sound
<1>2. /\ m \in Message /\ m.kind = "request" /\ m.link = "slaveToMaster" /\ m.end \in Slaves
      /\ m.end = SlaveOf[m.asker]
  BY <1>1, MessageFacts DEF RouteRequest, Ends, Way
<1>3. /\ m.type \in Types /\ Coordinator(p, m.type) # m.end /\ Coordinator(p, m.type) \in Slaves
  BY <1>2, RequestFacts DEF Right
<1>4. forth \in Message /\ forth.asker = m.asker /\ forth.type = m.type
  BY <1>2, IdFacts DEF Message
<1>5. UNCHANGED <<process, asks, stable, mtable>> /\ exposed \subseteq exposed'
  BY DEF RouteRequest, hostVars, loadVars
<1>. HIDE DEF forth, same
<1>6. CASE mtable = NoTable
  <2>1. ~Goes(p, m)
    BY <1>2, <1>3, <1>6 DEF Goes, NoTable
  <2>2. msgs \ {m} \subseteq msgs'
    BY <1>6 DEF RouteRequest, Drop, Becomes
  <2>. QED
    BY <1>1, <1>5, <2>1, <2>2, KeptPassed
<1>7. CASE mtable # NoTable
  <2>1. target = ClientId[Coordinator(p, m.type)]
    BY <1>3, <1>7 DEF Sound, Tables, MasterTable
  <2>2. target \notin Special /\ target # id
    BY <1>2, <1>3, <2>1, IdFacts
  <2>3. SendSlave(m, forth, ClientId[Coordinator(p, m.type)])
    BY <1>1, <1>7, <2>1, <2>2 DEF RouteRequest, forth, Special
  <2>4. msgs \ {m} \subseteq msgs' /\ same
    BY <1>3, <1>4, <2>3, SentSlave DEF same
  <2>. QED
    BY <1>1, <1>5, <2>4, KeptPassed DEF same
<1>. QED
  BY <1>6, <1>7

LEMMA AnswerKept ==
    ASSUME NEW p, OneProgram(p), Sound(p), Kept(p), NEW m \in msgs, RouteAnswer(m)
    PROVE  Kept(p)'
<1>. DEFINE same == \E o \in msgs' : o.asker = m.asker /\ o.type = m.type
<1>1. IInv
  BY DEF Sound
<1>2. /\ m \in Message /\ SlaveOf[m.asker] \in Slaves
      /\ m.coordinator = ClientId[SlaveOf[m.asker]] /\ m.coordinator # UnMapped
  BY <1>1, MessageFacts DEF RouteAnswer, Way, HomeId, Special
<1>3. UNCHANGED <<process, asks, stable, mtable>> /\ exposed \subseteq exposed'
  BY DEF RouteAnswer, hostVars, loadVars
<1>4. SendSlave(m, m, ClientId[SlaveOf[m.asker]])
  BY <1>2 DEF RouteAnswer
<1>. HIDE DEF same
<1>5. msgs \ {m} \subseteq msgs' /\ same
  BY <1>2, <1>4, SentSlave DEF same
<1>. QED
  BY <1>1, <1>3, <1>5, KeptPassed DEF same

LEMMA HostKept ==
    ASSUME NEW p, OneProgram(p), Sound(p), Kept(p),
           \/ \E h \in Hosts, t \in Types : Ask(h, t)
           \/ \E m \in msgs : Serve(m) \/ ReceiveAnswer(m)
    PROVE  Kept(p)'
<1>1. IInv
  BY DEF Sound
<1>2. ASSUME NEW h \in Hosts, NEW t \in Types, Ask(h, t)
      PROVE  Kept(p)'
  <2>. PICK r, a :
          /\ r = [kind |-> "request", type |-> t, coordinator |-> UnMapped, host |-> UnMapped,
                  link |-> "hostToSlave", end |-> h, asker |-> h, program |-> runs[h]]
          /\ a = [state |-> IF RoutableFrom(h, t) THEN "routable" ELSE "early",
                  place |-> Place[runs[h]][t]]
    OBVIOUS
  <2>1. /\ runs[h] = p /\ process[h] = "up" /\ p \in Programs
        /\ UNCHANGED <<process, stable, mtable, exposed>>
    BY <1>1, <1>2 DEF Ask, IInv, TypeOK, OneProgram, loadVars
  <2>2. msgs' = msgs \cup {r} /\ asks' = [asks EXCEPT ![h] = a]
    BY <1>2 DEF Ask
  <2>3. asks'[h] = a /\ \A g \in Hosts : g # h => asks'[g] = asks[g]
    BY <1>1, <2>2 DEF IInv, TypeOK
  <2>4. r.type = t /\ r.asker = h /\ a.place = Place[p][t]
    BY <2>1
  <2>5. a.state = "routable" => Goes(p, r)'
    <3>1. SUFFICES ASSUME RoutableFrom(h, t)
                   PROVE  /\ HasTable(SlaveOf[h]) /\ HasTable(Coordinator(p, t))
                          /\ Coordinator(p, t) = SlaveOf[h] \/ DOMAIN mtable = Types
      BY <2>1, <2>3, <2>4 DEF Goes, HasTable, Coordinator
    <3>2. SlaveOf[h] \in Slaves /\ Coordinator(p, t) \in Slaves
      BY <2>1, RoutingAssumption DEF Coordinator
    <3>3. \A s \in Slaves : stable[s] # NoTable => HasTable(s)
      BY <1>1 DEF IInv, TypeOK, Table, HasTable
    <3>4. mtable # NoTable => DOMAIN mtable = Types
      BY <1>1 DEF IInv, TypeOK, Table
    <3>. QED
      BY <2>1, <3>1, <3>2, <3>3, <3>4 DEF RoutableFrom
  <2>6. r \in msgs'
    BY <2>2
  <2>7. ASSUME NEW g \in Hosts, asks'[g].state = "routable"
        PROVE  /\ process'[g] = "up"
               /\ g \in exposed' \/ \E n \in msgs' : n.asker = g /\ Goes(p, n)'
    <3>1. CASE g = h
      BY <2>1, <2>3, <2>4, <2>5, <2>6, <2>7, <3>1
    <3>2. CASE g # h
      <4>1. /\ process[g] = "up"
            /\ g \in exposed \/ \E n \in msgs : n.asker = g /\ Goes(p, n)
        BY <2>3, <2>7, <3>2 DEF Kept
      <4>2. ASSUME NEW n \in msgs, n.asker = g, Goes(p, n) PROVE Goes(p, n)' /\ n \in msgs'
        BY <2>1, <2>2, <2>3, <3>2, <4>2 DEF Goes, HasTable, Coordinator
      <4>. QED
        BY <2>1, <4>1, <4>2
    <3>. QED
      BY <3>1, <3>2
  <2>. QED
    BY <2>7 DEF Kept
<1>3. ASSUME NEW m \in msgs, Serve(m) PROVE Kept(p)'
  <2>1. PICK kind \in {"response", "error"} :
            Becomes(m, {[On(m, "hostToSlave", m.end) EXCEPT !.kind = kind]})
    BY <1>3 DEF Serve
  <2>. DEFINE out == [On(m, "hostToSlave", m.end) EXCEPT !.kind = kind]
  <2>2. out.asker = m.asker /\ out.type = m.type
    BY <1>1, MessageFacts DEF On, Message
  <2>3. msgs \ {m} \subseteq msgs' /\ \E o \in msgs' : o.asker = m.asker /\ o.type = m.type
    BY <2>1, <2>2 DEF Becomes
  <2>4. UNCHANGED <<process, asks, stable, mtable, exposed>>
    BY <1>3 DEF Serve, hostVars, loadVars
  <2>. QED
    BY <1>1, <2>3, <2>4, KeptPassed
<1>4. ASSUME NEW m \in msgs, ReceiveAnswer(m) PROVE Kept(p)'
  <2>1. m.end = m.asker /\ m.asker \in Hosts
    BY <1>1, <1>4, MessageFacts DEF ReceiveAnswer, Way
  <2>2. /\ asks'[m.asker].state # "routable"
        /\ \A g \in Hosts : g # m.asker => asks'[g] = asks[g]
    BY <1>1, <1>4, <2>1 DEF ReceiveAnswer, IInv, TypeOK, Quiet, Failed
  <2>3. msgs' = msgs \ {m} /\ exposed' = exposed \ {m.asker} /\ UNCHANGED <<process, stable, mtable>>
    BY <1>4, <2>1 DEF ReceiveAnswer, Drop, Becomes, loadVars
  <2>4. ASSUME NEW g \in Hosts, asks'[g].state = "routable"
        PROVE  /\ process'[g] = "up"
               /\ g \in exposed' \/ \E n \in msgs' : n.asker = g /\ Goes(p, n)'
    <3>1. g # m.asker
      BY <2>2, <2>4
    <3>2. /\ process[g] = "up"
          /\ g \in exposed \/ \E n \in msgs : n.asker = g /\ Goes(p, n)
      BY <2>2, <2>4, <3>1 DEF Kept
    <3>3. ASSUME NEW n \in msgs, n.asker = g, Goes(p, n) PROVE Goes(p, n)' /\ n \in msgs'
      BY <2>2, <2>3, <3>1, <3>3 DEF Goes, HasTable, Coordinator
    <3>. QED
      BY <2>3, <3>1, <3>2, <3>3
  <2>. QED
    BY <2>4 DEF Kept
<1>. QED
  BY <1>2, <1>3, <1>4

\* A host that ends takes along what was for it: its own answer, or a request, whose
\* asker is exposed.
LEMMA CrashKept ==
    ASSUME NEW p, Sound(p), Kept(p), NEW h \in Hosts, Crash(h)
    PROVE  Kept(p)'
<1>. DEFINE gone == {m \in msgs : m.link \in {"toHost", "toHostEG"} /\ m.end = h}
<1>1. IInv /\ UNCHANGED <<stable, mtable>>
  BY DEF Sound, Crash, loadVars
<1>2. /\ process'[h] = "dead" /\ asks'[h] = Quiet
      /\ \A g \in Hosts : g # h => process'[g] = process[g] /\ asks'[g] = asks[g]
      /\ msgs' = msgs \ gone /\ exposed' = (exposed \cup {m.asker : m \in gone}) \ {h}
  BY <1>1 DEF Crash, IInv, TypeOK
<1>3. SUFFICES ASSUME NEW g \in Hosts, asks'[g].state = "routable"
               PROVE  /\ process'[g] = "up"
                      /\ g \in exposed' \/ \E n \in msgs' : n.asker = g /\ Goes(p, n)'
  BY DEF Kept
<1>4. g # h
  BY <1>2, <1>3 DEF Quiet
<1>5. /\ process[g] = "up"
      /\ g \in exposed \/ \E n \in msgs : n.asker = g /\ Goes(p, n)
  BY <1>2, <1>3, <1>4 DEF Kept
<1>6. ASSUME NEW n \in msgs, n.asker = g, Goes(p, n)
      PROVE  Goes(p, n)' /\ (n \in msgs' \/ g \in exposed')
  <2>1. Goes(p, n)'
    BY <1>1, <1>2, <1>4, <1>6 DEF Goes, HasTable, Coordinator
  <2>2. n \in msgs' \/ n \in gone
    BY <1>2
  <2>3. n \in gone => g \in exposed'
    BY <1>2, <1>4, <1>6
  <2>. QED
    BY <2>1, <2>2, <2>3
<1>. QED
  BY <1>2, <1>4, <1>5, <1>6

\* Loads and enrollments leave what is asked as it is, and take no table away but
\* from who is then exposed.
LEMMA OthersKept ==
    ASSUME NEW p, OneProgram(p), Sound(p), Kept(p), UNCHANGED <<asks, msgs>>,
           \A h \in Hosts : process'[h] = process[h] \/ process[h] = "off",
           exposed \subseteq exposed',
           \A s \in Slaves : \A h \in Uses(s) : HasTable(s) => HasTable(s)' \/ h \in exposed',
           \A h \in Uses("master") :
               DOMAIN mtable = Types => DOMAIN mtable' = Types \/ h \in exposed'
    PROVE  Kept(p)'
<1>1. SUFFICES ASSUME NEW h \in Hosts, asks[h].state = "routable"
               PROVE  /\ process'[h] = "up"
                      /\ h \in exposed' \/ \E n \in msgs : n.asker = h /\ Goes(p, n)'
  BY DEF Kept
<1>2. /\ process[h] = "up"
      /\ h \in exposed \/ \E n \in msgs : n.asker = h /\ Goes(p, n)
  BY <1>1 DEF Kept
<1>3. ASSUME NEW n \in msgs, n.asker = h, Goes(p, n), h \notin exposed' PROVE Goes(p, n)'
  <2>. DEFINE own == SlaveOf[h]
              home == HomeOf[asks[h].place]
  <2>1. asks[h].place \in HostNames /\ asks[h].place = Place[p][n.type]
    BY <1>1, <1>3 DEF Sound, IInv, TypeOK, Quiet, Failed, Waits, Goes
  <2>2. Coordinator(p, n.type) = home /\ own \in Slaves /\ home \in Slaves
    BY <2>1, RoutingAssumption DEF Coordinator
  <2>3. h \in Uses(own) /\ h \in Uses(home) /\ (home # own => h \in Uses("master"))
    BY <1>1 DEF Uses
  <2>4. HasTable(own)' /\ HasTable(home)'
    BY <1>3, <2>2, <2>3 DEF Goes
  <2>5. home = own \/ DOMAIN mtable' = Types
    BY <1>3, <2>2, <2>3 DEF Goes
  <2>. QED
    BY <1>3, <2>1, <2>2, <2>4, <2>5 DEF Goes, Coordinator
<1>. QED
  BY <1>2, <1>3

LEMMA KeptStep ==
    ASSUME NEW p, OneProgram(p), Sound(p), Ready, Kept(p), [Next]_vars
    PROVE  Kept(p)'
<1>1. IInv
  BY DEF Sound
<1>2. CASE UNCHANGED vars
  BY <1>2, OthersKept DEF vars, HasTable
<1>3. ASSUME NEW h \in Hosts, Enroll(h) PROVE Kept(p)'
  <2>1. \A g \in Hosts : process'[g] = process[g] \/ process[g] = "off"
    BY <1>1, <1>3 DEF Enroll, IInv, TypeOK
  <2>. QED
    BY <1>3, <2>1, OthersKept DEF Enroll, loadVars, HasTable
<1>4. ASSUME NEW h \in Hosts, HostLoads(h) \/ HostGone(h) PROVE Kept(p)'
  BY <1>4, OthersKept DEF HostLoads, HostGone, hostVars, HasTable
<1>5. ASSUME NEW q \in Programs \cup {NoProgram}, StartLoad(q) PROVE Kept(p)'
  BY <1>5, OthersKept DEF StartLoad, hostVars, HasTable
<1>6. ASSUME NEW s \in Slaves, SlaveLoads(s) PROVE Kept(p)'
  <2>1. PICK f \in Mappings(s, load.program), found \in Database(load.program) :
            /\ stable' = [stable EXCEPT ![s] = IF found THEN SlaveTable(s, load.program, f) ELSE NoTable]
            /\ exposed' = IF found THEN exposed ELSE exposed \cup Uses(s)
    BY <1>6 DEF SlaveLoads
  <2>2. \A r \in Slaves : \A h \in Uses(r) : HasTable(r) => HasTable(r)' \/ h \in exposed'
    <3>1. SUFFICES ASSUME NEW r \in Slaves, NEW h \in Uses(r), HasTable(r)
                   PROVE  HasTable(r)' \/ h \in exposed'
      OBVIOUS
    <3>2. CASE r # s
      BY <1>1, <2>1, <3>1, <3>2 DEF HasTable, IInv, TypeOK
    <3>3. CASE r = s /\ found
      BY <1>1, <2>1, <3>3 DEF HasTable, SlaveTable, IInv, TypeOK
    <3>4. CASE r = s /\ ~found
      BY <2>1, <3>1, <3>4
    <3>. QED
      BY <3>2, <3>3, <3>4
  <2>3. exposed \subseteq exposed' /\ UNCHANGED <<asks, msgs, process, mtable>>
    BY <1>6, <2>1 DEF SlaveLoads, hostVars
  <2>. QED
    BY <2>2, <2>3, OthersKept
<1>7. CASE MasterLoaded
  <2>1. /\ exposed \subseteq exposed' /\ UNCHANGED <<asks, msgs, process, stable>>
        /\ \/ mtable' = MasterTable(load.program)
           \/ exposed' = exposed \cup Uses("master")
    BY <1>7 DEF MasterLoaded, hostVars
  <2>. QED
    BY <2>1, OthersKept DEF HasTable, MasterTable
<1>8. ASSUME NEW h \in Hosts, Crash(h) PROVE Kept(p)'
  BY <1>8, CrashKept
<1>9. CASE \E h \in Hosts, t \in Types : Ask(h, t)
  BY <1>9, HostKept
<1>10. CASE \E m \in msgs : Route(m)
  <2>1. PICK m \in msgs : Route(m)
    BY <1>10
  <2>2. CASE \E s \in Slaves : RouteHostRequest(s, m) \/ RouteHostAnswer(s, m)
    BY <2>2, HostRequestKept, HostAnswerKept
  <2>3. CASE \E s \in Slaves : RouteMasterRequest(s, m) \/ RouteMasterAnswer(s, m)
    BY <2>3, MasterRequestKept, MasterAnswerKept
  <2>4. CASE RouteRequest(m) \/ RouteAnswer(m)
    BY <2>4, RequestKept, AnswerKept
  <2>5. CASE Serve(m) \/ ReceiveAnswer(m)
    BY <2>5, HostKept
  <2>. QED
    BY <2>1, <2>2, <2>3, <2>4, <2>5 DEF Route
<1>. QED
  BY <1>2, <1>3, <1>4, <1>5, <1>6, <1>7, <1>8, <1>9, <1>10 DEF Next

\* With one program, a request whose way was set up when it was asked is on its way,
\* or its answer is, through any reloads and hosts that come and go, as long as no
\* table on its way is taken away (a stop, or no database) and neither meets a host
\* that has ended (RouteEGProtocolActivity).
THEOREM RequestsAreKept ==
    ASSUME NEW p, OneProgram(p)
    PROVE  Spec => []RequestsKept
<1>1. Init => Ready /\ Kept(p)
  <2>. SUFFICES ASSUME Init PROVE Ready /\ Kept(p)
    OBVIOUS
  <2>1. \A h \in Hosts : asks[h].state # "routable"
    BY DEF Init, Quiet
  <2>2. \A s \in Slaves, t \in Types : ~HasTable(s)
    BY DEF Init, HasTable, NoTable
  <2>3. \A h \in enrolled : process[h] # "off"
    BY RoutingAssumption DEF Init
  <2>. QED
    BY <2>1, <2>2, <2>3 DEF Ready, Kept
<1>2. Sound(p) /\ Ready /\ Kept(p) /\ [Next]_vars => Ready' /\ Kept(p)'
  BY ReadyStep, KeptStep DEF Sound
<1>3. Kept(p) => RequestsKept
  BY DEF Kept, RequestsKept
<1>. QED
  BY <1>1, <1>2, <1>3, SoundAlways, PTL DEF Spec
=============================================================================
