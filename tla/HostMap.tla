------------------------------ MODULE HostMap -------------------------------
(***************************************************************************)
(* A slave's map of its hosts (src/src/slave/hostMap.cpp): which are       *)
(* enrolled, and which has which host name.  Every load of a program       *)
(* remaps the names, here one turn of the constructor's loops at a time.   *)
(*                                                                         *)
(* A definition whose name ends in _Bug is a deliberate fault in the one   *)
(* after it, used by no specification.                                     *)
(***************************************************************************)
EXTENDS Remap

VARIABLES
    arrived,  \* when a client enrolled, 0 before
    enrolled, \* m_hostProcessNameMap
    mapping,  \* m_hostnameMapping
    pc,       \* "idle", or in which loop of a remap
    program,  \* the program of the remap
    k,        \* the pair the loop stands on
    remap     \* the remap's state

vars == <<arrived, enrolled, mapping, pc, program, k, remap>>

TypeOK ==
    /\ arrived \in [Clients -> Nat]
    /\ enrolled \in SUBSET Clients
    /\ mapping \in Mapping
    /\ pc \in {"idle", "reuse", "assign"}
    /\ program \in Programs \cup {<< >>}
    /\ k \in 1 .. Len(program) + 1
    /\ remap \in RemapState

Init ==
    /\ arrived = [c \in Clients |-> 0]
    /\ enrolled = {}
    /\ mapping = NoMapping
    /\ pc = "idle"
    /\ program = << >>
    /\ k = 1
    /\ remap = RemapStart({})

\* HostMap::enroll.  A connection enrolls once.
Enroll(c) ==
    /\ pc = "idle"
    /\ arrived[c] = 0
    /\ arrived' = [arrived EXCEPT ![c] = 1 + Cardinality({d \in Clients : arrived[d] # 0})]
    /\ enrolled' = enrolled \cup {c}
    /\ UNCHANGED <<mapping, pc, program, k, remap>>

\* The client keeps its host name.
RemoveClient_Bug(c) ==
    /\ pc = "idle"
    /\ enrolled' = enrolled \ {c}
    /\ UNCHANGED <<arrived, mapping, pc, program, k, remap>>

\* HostMap::removeClient.
RemoveClient(c) ==
    /\ pc = "idle"
    /\ enrolled' = enrolled \ {c}
    /\ mapping' = [n \in HostNames |-> IF mapping[n] = c THEN NoClient ELSE mapping[n]]
    /\ UNCHANGED <<arrived, pc, program, k, remap>>

\* A load of program p begins its remap.
StartRemap(p) ==
    /\ pc = "idle"
    /\ pc' = "reuse"
    /\ program' = p
    /\ k' = 1
    /\ remap' = RemapStart(enrolled)
    /\ UNCHANGED <<arrived, enrolled, mapping>>

\* A turn of the first loop.
ReusePair ==
    /\ pc = "reuse"
    /\ k <= Len(program)
    /\ remap' = Reuse(remap, program, k, mapping)
    /\ k' = k + 1
    /\ UNCHANGED <<arrived, enrolled, mapping, pc, program>>

EndReuse ==
    /\ pc = "reuse"
    /\ k = Len(program) + 1
    /\ pc' = "assign"
    /\ k' = 1
    /\ UNCHANGED <<arrived, enrolled, mapping, program, remap>>

\* The loop steps over the pair after one that it erased.
AssignPair_Bug ==
    /\ pc = "assign"
    /\ k <= Len(program)
    /\ \/ /\ k \in remap.used \/ Candidates(remap, program, k) = {}
          /\ k' = k + 1
          /\ UNCHANGED remap
       \/ /\ k \notin remap.used
          /\ \E c \in Candidates(remap, program, k) :
                /\ c = Earliest(Candidates(remap, program, k), arrived)
                /\ remap' = Use(remap, program, k, c)
          /\ k' = k + 2
    /\ UNCHANGED <<arrived, enrolled, mapping, pc, program>>

\* A turn of the second loop.
AssignPair ==
    /\ pc = "assign"
    /\ k <= Len(program)
    /\ \/ /\ k \in remap.used \/ Candidates(remap, program, k) = {}
          /\ UNCHANGED remap
       \/ /\ k \notin remap.used
          /\ \E c \in Candidates(remap, program, k) :
                /\ c = Earliest(Candidates(remap, program, k), arrived)
                /\ remap' = Use(remap, program, k, c)
    /\ k' = k + 1
    /\ UNCHANGED <<arrived, enrolled, mapping, pc, program>>

\* Slave::setHostMap with the new map.
EndAssign ==
    /\ pc = "assign"
    /\ k = Len(program) + 1
    /\ mapping' = remap.new
    /\ pc' = "idle"
    /\ UNCHANGED <<arrived, enrolled, program, k, remap>>

Next ==
    \/ \E c \in Clients : Enroll(c) \/ RemoveClient(c)
    \/ \E p \in Programs : StartRemap(p)
    \/ ReusePair \/ EndReuse \/ AssignPair \/ EndAssign

Spec == Init /\ [][Next]_vars

-----------------------------------------------------------------------------
\* Every host name is held by an enrolled host, no two names by one host
\* (HostMap::removeClient and the remap keep the two maps consistent).
MappingSound ==
    /\ \A n \in HostNames : mapping[n] # NoClient => mapping[n] \in enrolled
    /\ \A m, n \in HostNames : mapping[m] = mapping[n] /\ mapping[m] # NoClient => m = n

\* A remap gives a name only to a process that the program wants for it, and
\* other names to nobody.
RightProcess ==
    [][EndAssign => \A n \in HostNames : mapping'[n] # NoClient =>
           \E j \in DOMAIN program :
               program[j] = [process |-> ProcessOf[mapping'[n]], name |-> n]]_vars

\* "best preserve existing hostname mappings where possible" (hostMap.cpp): a
\* host keeps its name through a load if the program wants its process for it.
KeepsNames ==
    [][EndAssign => \A j \in DOMAIN program :
           LET c == mapping[program[j].name]
           IN  c # NoClient /\ ProcessOf[c] = program[j].process
               => mapping'[program[j].name] = c]_vars

\* "uses all available process name instances" (activitiesHost.cpp): no name is
\* left unmapped while a host of its process is left without a name.
UsesAllHosts ==
    [][EndAssign => \A j \in DOMAIN program : mapping'[program[j].name] = NoClient =>
           \A c \in enrolled : ProcessOf[c] = program[j].process =>
               \E n \in HostNames : mapping'[n] = c]_vars
=============================================================================
