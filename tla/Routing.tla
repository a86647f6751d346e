------------------------------ MODULE Routing -------------------------------
(***************************************************************************)
(* How a request of one host finds the host that owns the data, and how    *)
(* the answer finds its way back (the RouteEGProtocolActivity of the       *)
(* slaves, src/src/slave/activitiesEG.cpp, and of the master,              *)
(* src/src/master/activities.cpp), while programs are loaded.              *)
(*                                                                         *)
(* A request names the type of the data only.  Every slave has an address  *)
(* table from types to sockets, made when it begins a load, before its     *)
(* hosts are asked; the master makes its own when all slaves have          *)
(* answered.  A stop is a load of no program: the tables are taken away,   *)
(* as they are when the program has no database.  On its way a request     *)
(* collects the ids of the sockets it came by; the answer goes back along  *)
(* them.                                                                   *)
(*                                                                         *)
(* Abstracted: the other activities of the slaves and of the master, which *)
(* Slave and Master model; what the owner does before it answers, which    *)
(* SimulationLock models; a project tree that cannot be read, which leaves *)
(* everything as it is (Slave).  Messages are a set: that one link keeps   *)
(* their order matters to no property here.  Only requests that are        *)
(* answered are modelled; writes and unlocks take the same way.            *)
(*                                                                         *)
(* A definition whose name ends in _Bug is a deliberate fault in the one   *)
(* after it, used by no specification.                                     *)
(***************************************************************************)
EXTENDS Naturals, FiniteSets

CONSTANTS
    Slaves,    \* the coordinators, each run by one slave
    Hosts,     \* the hosts' processes
    SlaveOf,   \* the slave each host connects to
    HostNames, \* the host names
    HomeOf,    \* the coordinator of each host name
    NameOf,    \* the only host name each host is fit for
    ClientId,  \* the socket id of each slave at the master
    MegaId,    \* the id of each host's first socket at its slave
    EgId,      \* the id of each host's eg socket at its slave
    Types,     \* the indices of types in a program's database
    Programs,  \* the programs
    Analysed,  \* the programs that have their database whenever it is looked for
    Place,     \* the host name or the coordinator each type of a program is part of
    Present,   \* the hosts that are enrolled from the start
    Mortal,    \* the hosts that may end
    Faulty,    \* the hosts at which a program may fail to load
    MaxLoads,  \* how many loads and stops the operator asks for
    MaxAsks    \* how many hosts wait for an answer at one time

UnMapped == "0" \* and an id that is not set
SelfID == "self"
MasterID == "master"

Special == {UnMapped, SelfID, MasterID}

NoProgram == "none" \* also the name a stop is asked for with
Idle == "idle"

ASSUME RoutingAssumption ==
    /\ SlaveOf \in [Hosts -> Slaves]
    /\ HomeOf \in [HostNames -> Slaves]
    /\ NameOf \in [Hosts -> HostNames]
    /\ \A h \in Hosts : HomeOf[NameOf[h]] = SlaveOf[h]
    /\ HostNames \cap Slaves = {}
    /\ Place \in [Programs -> [Types -> HostNames \cup Slaves]]
    /\ {NoProgram, Idle} \cap Programs = {}
    /\ "master" \notin Slaves
    /\ Analysed \subseteq Programs
    /\ Present \subseteq Hosts
    /\ Mortal \subseteq Hosts
    /\ Faulty \subseteq Hosts
    /\ MaxLoads \in Nat /\ MaxAsks \in Nat

\* ids of one socket are distinct, and none is taken for a special value
ASSUME IdAssumption ==
    /\ \A s, t \in Slaves : ClientId[s] = ClientId[t] => s = t
    /\ \A g, h \in Hosts : SlaveOf[g] = SlaveOf[h] /\ g # h =>
          MegaId[g] # MegaId[h] /\ EgId[g] # EgId[h]
    /\ \A s \in Slaves : ClientId[s] \notin Special
    /\ \A h \in Hosts : MegaId[h] \notin Special /\ EgId[h] \notin Special

Ids == {ClientId[s] : s \in Slaves} \cup {MegaId[h] : h \in Hosts} \cup {EgId[h] : h \in Hosts}

(***************************************************************************)
(* NetworkAddressTable.                                                    *)
(***************************************************************************)
Table == [Types -> Ids \cup Special]

NoTable == [t \in {} |-> UnMapped]

\* recurseSlave: of the slave's own types, those of its hosts by the host map,
\* where names is the host each of its names is given to.
SlaveTable(s, p, names) ==
    [t \in Types |->
        LET place == Place[p][t]
        IN  CASE place = s -> SelfID
              [] place \in DOMAIN names -> names[place]
              [] OTHER -> MasterID]

\* The coordinator a type is part of.
Coordinator(p, t) == IF Place[p][t] \in Slaves THEN Place[p][t] ELSE HomeOf[Place[p][t]]

\* The table ends before the highest index.
MasterTable_Bug(p) ==
    [t \in {u \in Types : \E v \in Types : v > u} |-> ClientId[Coordinator(p, t)]]

\* recurseMappedClients, from the coordinators down.
MasterTable(p) == [t \in Types |-> ClientId[Coordinator(p, t)]]

(***************************************************************************)
(* Messages on their way: link is the socket, end the host or the slave at *)
(* the end of it that is not the server.  asker and program are history.   *)
(***************************************************************************)
Links == {"hostToSlave", "slaveToMaster", "masterToSlave", "toHost", "toHostEG"}

Message == [kind : {"request", "response", "error"}, type : Types,
            coordinator : Ids \cup {UnMapped}, host : Ids \cup {UnMapped},
            link : Links, end : Hosts \cup Slaves,
            asker : Hosts, program : Programs]

VARIABLES
    process,  \* whether each host's process runs: "off", "up" or "dead"
    enrolled, \* the hosts in the slaves' host maps
    runs,     \* the program each host runs
    asks,     \* what each host waits for
    stable,   \* m_pNetworkAddressTableRequests of each slave
    mtable,   \* m_pNetworkAddressTable of the master
    load,     \* the load under way
    loads,    \* how many there have been
    msgs,     \* the messages on their way
    exposed,  \* history: who asked, and then a table on the way was taken away, or
              \* the request or its answer met a host that had ended
    aborted   \* the processes, of slaves or the master, that called std::abort

hostVars == <<process, runs, asks>>
loadVars == <<stable, mtable, load, loads>>
vars == <<process, enrolled, runs, asks, stable, mtable, load, loads, msgs, exposed, aborted>>

\* A host waits for no answer; for one that it asked for when its request could be
\* routed all the way, or before that; or it has been told of an error.
Quiet == [state |-> "no", place |-> NoProgram]
Failed == [state |-> "failed", place |-> NoProgram]
Waits == [state : {"routable", "early"}, place : HostNames]

\* todo: the slaves that have not begun; hosts: those that have yet to answer; named:
\* those that were given a name.
NoLoad == [program |-> Idle, todo |-> {}, hosts |-> {}, named |-> {}]

TypeOK ==
    /\ process \in [Hosts -> {"off", "up", "dead"}]
    /\ enrolled \in SUBSET Hosts
    /\ runs \in [Hosts -> Programs \cup {NoProgram}]
    /\ asks \in [Hosts -> {Quiet, Failed} \cup Waits]
    /\ stable \in [Slaves -> Table \cup {NoTable}]
    /\ mtable \in Table \cup {NoTable}
    /\ load \in [program : Programs \cup {NoProgram, Idle}, todo : SUBSET Slaves,
                 hosts : SUBSET Hosts, named : SUBSET Hosts]
    /\ loads \in 0 .. MaxLoads
    /\ msgs \in SUBSET Message
    /\ exposed \in SUBSET Hosts
    /\ aborted \in SUBSET (Slaves \cup {"master"})

Init ==
    /\ process = [h \in Hosts |-> IF h \in Present THEN "up" ELSE "off"]
    /\ enrolled = Present
    /\ runs = [h \in Hosts |-> NoProgram]
    /\ asks = [h \in Hosts |-> Quiet]
    /\ stable = [s \in Slaves |-> NoTable]
    /\ mtable = NoTable
    /\ load = NoLoad
    /\ loads = 0
    /\ msgs = {}
    /\ exposed = {}
    /\ aborted = {}

-----------------------------------------------------------------------------
(***************************************************************************)
(* Hosts come and go, and programs are loaded.                             *)
(***************************************************************************)
Enroll(h) ==
    /\ process[h] = "off"
    /\ load = NoLoad
    /\ process' = [process EXCEPT ![h] = "up"]
    /\ enrolled' = enrolled \cup {h}
    /\ UNCHANGED <<runs, asks, loadVars, msgs, exposed, aborted>>

\* What a process has not received is lost with it; what it has sent is not.
Crash(h) ==
    LET gone == {m \in msgs : m.link \in {"toHost", "toHostEG"} /\ m.end = h}
    IN  /\ h \in Mortal
        /\ process[h] = "up"
        /\ process' = [process EXCEPT ![h] = "dead"]
        /\ asks' = [asks EXCEPT ![h] = Quiet]
        /\ msgs' = msgs \ gone
        /\ exposed' = (exposed \cup {m.asker : m \in gone}) \ {h}
        /\ UNCHANGED <<enrolled, runs, loadVars, aborted>>

\* LoadProgram::start of the master, of a program or of none: a stop.
StartLoad(p) ==
    /\ loads < MaxLoads
    /\ load = NoLoad
    /\ load' = [program |-> p, todo |-> Slaves, hosts |-> {}, named |-> {}]
    /\ loads' = loads + 1
    /\ UNCHANGED <<hostVars, enrolled, stable, mtable, msgs, exposed, aborted>>

\* Whether the database of p, which the build makes anew, is found.
Database(p) == IF p \in Analysed THEN {TRUE} ELSE IF p \in Programs THEN BOOLEAN ELSE {FALSE}

\* Who waits for an answer to a request that the table of who was to route.
Uses(who) ==
    {h \in Hosts :
        /\ asks[h].state = "routable"
        /\ LET home == HomeOf[asks[h].place]
           IN  who \in {SlaveOf[h], home} \/ (who = "master" /\ home # SlaveOf[h])}

\* Names are given whatever a host is fit for.
Mappings_Bug(s, p) ==
    [{n \in HostNames : p \in Programs /\ HomeOf[n] = s} ->
        {MegaId[h] : h \in {g \in enrolled : SlaveOf[g] = s}}]

\* Every name that p has at slave s is given to an enrolled host that is fit for it,
\* if there is one (HostMap); a stop has no names.
Mappings(s, p) ==
    LET Fit(n) == {h \in enrolled : NameOf[h] = n}
        mine == {n \in HostNames : p \in Programs /\ HomeOf[n] = s}
    IN  {f \in [mine -> {MegaId[h] : h \in enrolled} \cup {UnMapped}] :
            \A n \in mine : f[n] \in IF Fit(n) = {} THEN {UnMapped}
                                     ELSE {MegaId[h] : h \in Fit(n)}}

\* LoadHostsProgramActivity::start of slave s, with calculateNetworkAddressTable.
SlaveLoads(s) ==
    /\ s \in load.todo \ aborted
    /\ \E f \in Mappings(s, load.program), found \in Database(load.program) :
          /\ load' = [load EXCEPT
                        !.todo = @ \ {s},
                        !.hosts = @ \cup {h \in enrolled : SlaveOf[h] = s},
                        !.named = @ \cup {h \in enrolled : /\ SlaveOf[h] = s
                                                          /\ \E n \in DOMAIN f : f[n] = MegaId[h]}]
          /\ stable' = [stable EXCEPT
                           ![s] = IF found THEN SlaveTable(s, load.program, f) ELSE NoTable]
          /\ exposed' = IF found THEN exposed ELSE exposed \cup Uses(s)
    /\ UNCHANGED <<hostVars, enrolled, mtable, loads, msgs, aborted>>

\* LoadProgramJob::run of a host between two cycles: it has the new program, or
\* none if it got no name; or the load fails, and the slave removes the host.
HostLoads(h) ==
    /\ h \in load.hosts
    /\ process[h] = "up"
    /\ asks[h] = Quiet
    /\ \/ /\ runs' = [runs EXCEPT ![h] = IF h \in load.named THEN load.program ELSE NoProgram]
          /\ UNCHANGED enrolled
       \/ /\ h \in Faulty \cap load.named
          /\ runs' = [runs EXCEPT ![h] = NoProgram]
          /\ enrolled' = enrolled \ {h}
    /\ load' = [load EXCEPT !.hosts = @ \ {h}]
    /\ UNCHANGED <<process, asks, stable, mtable, loads, msgs, exposed, aborted>>

\* The request to load cannot be sent, and the host is removed.
HostGone(h) ==
    /\ h \in load.hosts
    /\ process[h] = "dead"
    /\ load' = [load EXCEPT !.hosts = @ \ {h}]
    /\ enrolled' = enrolled \ {h}
    /\ UNCHANGED <<hostVars, stable, mtable, loads, msgs, exposed, aborted>>

\* The last slave answered: calculateNetworkAddressTable of the master.
MasterLoaded ==
    /\ load # NoLoad
    /\ load.todo = {} /\ load.hosts = {}
    /\ "master" \notin aborted
    /\ \E found \in Database(load.program) :
          /\ mtable' = IF found THEN MasterTable(load.program) ELSE NoTable
          /\ exposed' = IF found THEN exposed ELSE exposed \cup Uses("master")
    /\ load' = NoLoad
    /\ UNCHANGED <<hostVars, enrolled, stable, loads, msgs, aborted>>

-----------------------------------------------------------------------------
(***************************************************************************)
(* Sending.                                                                *)
(***************************************************************************)

\* m is handled: what comes of it is on its way instead.
Becomes(m, out) == msgs' = (msgs \ {m}) \cup out

\* m goes out on a socket to one end.
On(m, link, end) == [m EXCEPT !.link = link, !.end = end]

\* Answers go to the ids of the wrong socket.
SendTo_Bug(s, m, out, link, id) ==
    LET there == {h \in Hosts : process[h] = "up" /\ SlaveOf[h] = s /\ MegaId[h] = id}
    IN  /\ Becomes(m, {On(out, link, h) : h \in there})
        /\ UNCHANGED <<enrolled, exposed>>

\* Slave::sendHost and sendHostEG to the socket with this id: if nobody is there
\* any more the message is lost, and the host whose FIRST socket has this id is
\* removed if the send failed.
SendTo(s, m, out, link, id) ==
    LET socket == IF link = "toHost" THEN MegaId ELSE EgId
        owner == {h \in Hosts : SlaveOf[h] = s /\ socket[h] = id}
        there == {h \in owner : process[h] = "up"}
        ended == {h \in owner : process[h] = "dead"}
        gone == {h \in enrolled : SlaveOf[h] = s /\ MegaId[h] = id}
    IN  /\ Becomes(m, {On(out, link, h) : h \in there})
        /\ enrolled' \in IF there = {} THEN {enrolled, enrolled \ gone} ELSE {enrolled}
        /\ exposed' = IF ended = {} THEN exposed ELSE exposed \cup {m.asker}

\* Master::send.
SendSlave(m, out, id) ==
    Becomes(m, {On(out, "masterToSlave", s) : s \in {s \in Slaves : ClientId[s] = id}})

Drop(m) == Becomes(m, {})

\* THROW_RTE or VERIFY_RTE.
Abort(who) == aborted' = aborted \cup {who}

\* The host that asked is not named.
ErrorTo_Bug(m, coordinator, host) ==
    [m EXCEPT !.kind = "error", !.coordinator = coordinator, !.host = UnMapped]

\* The error for a request that cannot be routed.
ErrorTo(m, coordinator, host) ==
    [m EXCEPT !.kind = "error", !.coordinator = coordinator, !.host = host]

-----------------------------------------------------------------------------
(***************************************************************************)
(* The hosts.                                                              *)
(***************************************************************************)

\* All tables on the way of a request are set.
RoutableFrom(h, t) ==
    LET home == Coordinator(runs[h], t)
    IN  /\ stable[SlaveOf[h]] # NoTable /\ stable[home] # NoTable
        /\ home = SlaveOf[h] \/ mtable # NoTable

\* Program::readlock, read or writelock, of data of another host.
Ask(h, t) ==
    /\ process[h] = "up"
    /\ runs[h] # NoProgram
    /\ asks[h] = Quiet
    /\ Cardinality({g \in Hosts : asks[g] # Quiet}) < MaxAsks
    /\ Place[runs[h]][t] \in HostNames \ {NameOf[h]}
    /\ asks' = [asks EXCEPT ![h] = [state |-> IF RoutableFrom(h, t) THEN "routable" ELSE "early",
                                      place |-> Place[runs[h]][t]]]
    /\ msgs' = msgs \cup {[kind |-> "request", type |-> t,
                           coordinator |-> UnMapped, host |-> UnMapped,
                           link |-> "hostToSlave", end |-> h,
                           asker |-> h, program |-> runs[h]]}
    /\ UNCHANGED <<process, runs, enrolled, loadVars, exposed, aborted>>

\* The owner answers in the end, with an error if it has no program.
Serve(m) ==
    /\ m.link = "toHost"
    /\ \E kind \in {"response", "error"} :
          /\ kind = "error" => runs[m.end] = NoProgram
          /\ Becomes(m, {[On(m, "hostToSlave", m.end) EXCEPT !.kind = kind]})
    /\ UNCHANGED <<hostVars, enrolled, loadVars, exposed, aborted>>

\* A response ends the wait; an error is logged, and the host waits for ever.
ReceiveAnswer(m) ==
    /\ m.link = "toHostEG"
    /\ asks' = [asks EXCEPT ![m.end] = IF m.kind = "response" THEN Quiet ELSE Failed]
    /\ exposed' = exposed \ {m.end}
    /\ Drop(m)
    /\ UNCHANGED <<process, runs, enrolled, loadVars, aborted>>

-----------------------------------------------------------------------------
(***************************************************************************)
(* RouteEGProtocolActivity of a slave.                                     *)
(***************************************************************************)
OfSlave(m, s) ==
    /\ s \notin aborted
    /\ m.link = "hostToSlave" /\ SlaveOf[m.end] = s

\* clientMessage: a request of a host.
RouteHostRequest(s, m) ==
    /\ OfSlave(m, s) /\ m.kind = "request"
    /\ LET id == EgId[m.end]
           target == stable[s][m.type]
           request == [m EXCEPT !.host = id]
       IN  \/ /\ stable[s] = NoTable
              /\ Drop(m)
              /\ UNCHANGED <<enrolled, exposed, aborted>>
           \/ /\ stable[s] # NoTable
              /\ target \in {id, SelfID}
              /\ Abort(s)
              /\ UNCHANGED <<enrolled, exposed, msgs>>
           \/ /\ stable[s] # NoTable
              /\ target = MasterID
              /\ Becomes(m, {On(request, "slaveToMaster", s)})
              /\ UNCHANGED <<enrolled, exposed, aborted>>
           \/ /\ stable[s] # NoTable
              /\ target = UnMapped
              /\ SendTo(s, m, ErrorTo(m, m.coordinator, m.host), "toHostEG", id)
              /\ UNCHANGED aborted
           \/ /\ stable[s] # NoTable
              /\ target \notin Special \cup {id}
              /\ SendTo(s, m, request, "toHost", target)
              /\ UNCHANGED aborted
    /\ UNCHANGED <<hostVars, loadVars>>

\* clientMessage: a response or an error of a host.
RouteHostAnswer(s, m) ==
    /\ OfSlave(m, s) /\ m.kind # "request"
    /\ \/ /\ m.coordinator # UnMapped
          /\ Becomes(m, {On(m, "slaveToMaster", s)})
          /\ UNCHANGED <<enrolled, exposed, aborted>>
       \/ /\ m.coordinator = UnMapped /\ m.host = UnMapped
          /\ Abort(s)
          /\ UNCHANGED <<enrolled, exposed, msgs>>
       \/ /\ m.coordinator = UnMapped /\ m.host # UnMapped
          /\ SendTo(s, m, m, "toHostEG", m.host)
          /\ UNCHANGED aborted
    /\ UNCHANGED <<hostVars, loadVars>>

OfMaster(m, s) ==
    /\ s \notin aborted
    /\ m.link = "masterToSlave" /\ m.end = s

\* serverMessage: a request from another coordinator.
RouteMasterRequest(s, m) ==
    /\ OfMaster(m, s) /\ m.kind = "request"
    /\ LET target == stable[s][m.type] IN
           \/ /\ stable[s] = NoTable
              /\ Drop(m)
              /\ UNCHANGED <<enrolled, exposed, aborted>>
           \/ /\ stable[s] # NoTable
              /\ target \in {MasterID, SelfID}
              /\ Abort(s)
              /\ UNCHANGED <<enrolled, exposed, msgs>>
           \/ /\ stable[s] # NoTable
              /\ target = UnMapped
              /\ Becomes(m, {On(ErrorTo(m, m.coordinator, m.host), "slaveToMaster", s)})
              /\ UNCHANGED <<enrolled, exposed, aborted>>
           \/ /\ stable[s] # NoTable
              /\ target \notin Special
              /\ SendTo(s, m, m, "toHost", target)
              /\ UNCHANGED aborted
    /\ UNCHANGED <<hostVars, loadVars>>

\* serverMessage: an answer for a host of this slave.
RouteMasterAnswer(s, m) ==
    /\ OfMaster(m, s) /\ m.kind # "request"
    /\ IF m.host = UnMapped
       THEN Abort(s) /\ UNCHANGED <<enrolled, exposed, msgs>>
       ELSE SendTo(s, m, m, "toHostEG", m.host) /\ UNCHANGED aborted
    /\ UNCHANGED <<hostVars, loadVars>>

-----------------------------------------------------------------------------
(***************************************************************************)
(* RouteEGProtocolActivity of the master.                                  *)
(***************************************************************************)

\* The coordinator is not set.
RouteRequest_Bug(m) ==
    /\ m.link = "slaveToMaster" /\ m.kind = "request"
    /\ "master" \notin aborted
    /\ mtable # NoTable
    /\ SendSlave(m, m, mtable[m.type])
    /\ UNCHANGED <<hostVars, enrolled, loadVars, exposed, aborted>>

RouteRequest(m) ==
    /\ m.link = "slaveToMaster" /\ m.kind = "request"
    /\ "master" \notin aborted
    /\ LET id == ClientId[m.end]
           target == mtable[m.type]
       IN  \/ /\ mtable = NoTable
              /\ Drop(m)
              /\ UNCHANGED aborted
           \/ /\ mtable # NoTable
              /\ target \in {MasterID, SelfID, id}
              /\ Abort("master")
              /\ UNCHANGED msgs
           \/ /\ mtable # NoTable
              /\ target = UnMapped
              /\ SendSlave(m, ErrorTo(m, UnMapped, m.host), id)
              /\ UNCHANGED aborted
           \/ /\ mtable # NoTable
              /\ target \notin Special \cup {id}
              /\ SendSlave(m, [m EXCEPT !.coordinator = id], target)
              /\ UNCHANGED aborted
    /\ UNCHANGED <<hostVars, enrolled, loadVars, exposed>>

\* A response or an error, on its way to the coordinator it is for.
RouteAnswer(m) ==
    /\ m.link = "slaveToMaster" /\ m.kind # "request"
    /\ "master" \notin aborted
    /\ IF m.coordinator = UnMapped
       THEN Abort("master") /\ UNCHANGED msgs
       ELSE SendSlave(m, m, m.coordinator) /\ UNCHANGED aborted
    /\ UNCHANGED <<hostVars, enrolled, loadVars, exposed>>

-----------------------------------------------------------------------------
Route(m) ==
    \/ \E s \in Slaves : \/ RouteHostRequest(s, m) \/ RouteHostAnswer(s, m)
                         \/ RouteMasterRequest(s, m) \/ RouteMasterAnswer(s, m)
    \/ RouteRequest(m) \/ RouteAnswer(m)
    \/ Serve(m) \/ ReceiveAnswer(m)

Next ==
    \/ \E h \in Hosts : \/ Enroll(h) \/ Crash(h) \/ HostLoads(h) \/ HostGone(h)
                        \/ \E t \in Types : Ask(h, t)
    \/ \E p \in Programs \cup {NoProgram} : StartLoad(p)
    \/ \E s \in Slaves : SlaveLoads(s)
    \/ MasterLoaded
    \/ \E m \in msgs : Route(m)

Spec == Init /\ [][Next]_vars

-----------------------------------------------------------------------------
(***************************************************************************)
(* What the routing promises.                                              *)
(***************************************************************************)

\* An answer is delivered to the very host that asked, which still waits for it:
\* the ids a request collects on its way (copyRequestSetSourceHost,
\* copyRequestSetSourceCoordinator) lead back.
AnswersReturn ==
    \A m \in msgs : m.link = "toHostEG" =>
        m.end = m.asker /\ asks[m.end] \in Waits

\* A request is delivered only to a host that runs the part of the program it is
\* about, if that host runs the asker's program, whatever was loaded or lost while
\* it was on its way.
ReachesOwner ==
    \A m \in msgs : m.link = "toHost" /\ runs[m.end] = m.program =>
        NameOf[m.end] = Place[m.program][m.type]

\* "Request mapped to self id in master", "Incorrect routing for eg request", and
\* the other THROW_RTE and VERIFY_RTE of the routing never end a process.
NoAbort == aborted = {}

\* A request whose way was set up when it was asked is never dropped, through
\* reloads and whatever hosts come and go: as long as no table on its way is taken
\* away and neither it nor its answer meets a host that has ended, it or its answer
\* is on its way.
RequestsKept ==
    \A h \in Hosts \ exposed :
        asks[h].state = "routable" => \E m \in msgs : m.asker = h
=============================================================================
