--------------------------- MODULE HostMapProofs ----------------------------
(***************************************************************************)
(* TLAPS proofs about the host map: for every program and any number of    *)
(* hosts, what HostMap's properties say of a remap.                        *)
(*                                                                         *)
(* The inductive invariant says what the loops have done so far: hosts are *)
(* either left or used, once (Split); a pair is used exactly if its name   *)
(* is given, to its process (Given); pairs whose host can keep its name    *)
(* have it, or will find the host still there (Kept); and a pair that the  *)
(* second loop left without a host found none (Exhausted).                 *)
(***************************************************************************)
EXTENDS HostMap, FiniteSetTheorems, TLAPS

\* The host that the k-th pair of the program can keep.
Keeps(j) ==
    /\ mapping[program[j].name] # NoClient
    /\ ProcessOf[mapping[program[j].name]] = program[j].process

Split ==
    /\ remap.avail \subseteq enrolled
    /\ \A n \in HostNames : remap.new[n] # NoClient => remap.new[n] \in enrolled \ remap.avail
    /\ \A c \in enrolled \ remap.avail : \E n \in HostNames : remap.new[n] = c
    /\ \A m, n \in HostNames : remap.new[m] = remap.new[n] /\ remap.new[m] # NoClient => m = n

Given ==
    /\ \A j \in DOMAIN program : j \in remap.used <=> remap.new[program[j].name] # NoClient
    /\ \A n \in HostNames : remap.new[n] # NoClient =>
          \E j \in DOMAIN program :
              program[j] = [process |-> ProcessOf[remap.new[n]], name |-> n]

Kept ==
    \A j \in DOMAIN program : Keeps(j) =>
        IF pc = "reuse" /\ k <= j
        THEN mapping[program[j].name] \in remap.avail
        ELSE remap.new[program[j].name] = mapping[program[j].name]

\* The first loop has not touched what is in front of it.
Untouched == pc = "reuse" => \A j \in remap.used : j < k

Exhausted ==
    pc = "assign" => \A j \in DOMAIN program :
        j < k /\ remap.new[program[j].name] = NoClient =>
            \A c \in remap.avail : ProcessOf[c] # program[j].process

Remapping == pc # "idle" => Split /\ Given /\ Kept /\ Untouched /\ Exhausted

IInv == TypeOK /\ MappingSound /\ Remapping
-----------------------------------------------------------------------------
\* A program is a sequence of pairs whose names differ.
LEMMA ProgramFacts ==
    ASSUME NEW p \in Programs \cup {<< >>}
    PROVE  /\ p \in Seq(Pair)
           /\ Len(p) \in Nat
           /\ DOMAIN p = 1 .. Len(p)
           /\ \A j \in DOMAIN p : /\ p[j] \in Pair
                                  /\ p[j].process \in Processes
                                  /\ p[j].name \in HostNames
                                  /\ p[j] = [process |-> p[j].process, name |-> p[j].name]
           /\ \A i, j \in DOMAIN p : p[i].name = p[j].name => i = j
<1>1. CASE p \in Programs
  <2>1. p \in Seq(Pair) /\ \A i, j \in DOMAIN p : p[i].name = p[j].name => i = j
    BY <1>1, RemapAssumption
  <2>2. Len(p) \in Nat /\ DOMAIN p = 1 .. Len(p)
    BY <2>1
  <2>3. \A j \in DOMAIN p : p[j] \in Pair
    BY <2>1
  <2>. QED
    BY <2>1, <2>2, <2>3 DEF Pair
<1>2. CASE p = << >>
  <2>1. << >> \in Seq(Pair) /\ Len(<< >>) = 0 /\ DOMAIN << >> = {}
    OBVIOUS
  <2>. QED
    BY <1>2, <2>1
<1>. QED
  BY <1>1, <1>2

\* What giving a host to a pair does to the state of the loops.
LEMMA UseFacts ==
    ASSUME NEW r \in RemapState, NEW p \in Programs \cup {<< >>},
           NEW i \in DOMAIN p, NEW c \in Clients
    PROVE  /\ Use(r, p, i, c) \in RemapState
           /\ Use(r, p, i, c).avail = r.avail \ {c}
           /\ Use(r, p, i, c).new = [r.new EXCEPT ![p[i].name] = c]
           /\ Use(r, p, i, c).used = r.used \cup {i}
<1>1. p[i].name \in HostNames /\ i \in Nat
  BY ProgramFacts
<1>2. DOMAIN r = {"avail", "new", "used"}
  BY DEF RemapState
<1>3. Use(r, p, i, c) = [avail |-> r.avail \ {c},
                         new |-> [r.new EXCEPT ![p[i].name] = c],
                         used |-> r.used \cup {i}]
  <2>1. Use(r, p, i, c) = [[[r EXCEPT !.avail = r.avail \ {c}]
                              EXCEPT !.new = [r.new EXCEPT ![p[i].name] = c]]
                              EXCEPT !.used = r.used \cup {i}]
    BY <1>2, Zenon DEF Use
  <2>. QED
    BY <2>1, <1>2
<1>4. /\ r.avail \ {c} \in SUBSET Clients
      /\ [r.new EXCEPT ![p[i].name] = c] \in Mapping
      /\ r.used \cup {i} \in SUBSET Nat
  BY <1>1 DEF RemapState, Mapping
<1>. QED
  BY <1>3, <1>4 DEF RemapState

\* A host that is left is given to a pair that has none.
LEMMA UseKeepsShape ==
    ASSUME TypeOK, Split, Given,
           NEW i \in DOMAIN program, i \notin remap.used,
           NEW c \in remap.avail, ProcessOf[c] = program[i].process,
           remap' = Use(remap, program, i, c), UNCHANGED <<enrolled, program>>
    PROVE  Split' /\ Given'
<1>. USE DEF TypeOK
<1>. DEFINE name == program[i].name
<1>1. c \in Clients /\ c # NoClient /\ c \in enrolled
  BY RemapAssumption DEF RemapState, Split
<1>2. /\ remap'.avail = remap.avail \ {c}
      /\ remap'.new = [remap.new EXCEPT ![name] = c]
      /\ remap'.used = remap.used \cup {i}
  BY <1>1, UseFacts
<1>3. /\ name \in HostNames
      /\ program[i] = [process |-> ProcessOf[c], name |-> name]
      /\ \A j \in DOMAIN program : program[j].name \in HostNames
      /\ \A j \in DOMAIN program : program[j].name = name => j = i
  BY ProgramFacts
<1>4. /\ remap'.new[name] = c
      /\ \A n \in HostNames \ {name} : remap'.new[n] = remap.new[n]
  BY <1>2, <1>3 DEF RemapState, Mapping
<1>5. remap.new[name] = NoClient
  BY DEF Given
<1>6. \A n \in HostNames : remap.new[n] # c
  BY <1>1 DEF Split
<1>7. Split'
  <2>1. (remap.avail \subseteq enrolled)'
    BY <1>2 DEF Split
  <2>2. \A n \in HostNames : remap'.new[n] # NoClient => remap'.new[n] \in enrolled \ remap'.avail
    BY <1>1, <1>2, <1>4 DEF Split
  <2>3. \A d \in enrolled \ remap'.avail : \E n \in HostNames : remap'.new[n] = d
    <3>1. SUFFICES ASSUME NEW d \in enrolled \ remap'.avail
                   PROVE  \E n \in HostNames : remap'.new[n] = d
      OBVIOUS
    <3>2. CASE d = c
      BY <3>2, <1>3, <1>4
    <3>3. CASE d # c
      <4>1. d \in enrolled \ remap.avail
        BY <3>3, <1>2
      <4>2. PICK n \in HostNames : remap.new[n] = d
        BY <4>1 DEF Split
      <4>3. d # NoClient
        BY RemapAssumption
      <4>4. n # name
        BY <4>2, <4>3, <1>5
      <4>. QED
        BY <4>2, <4>4, <1>4
    <3>. QED
      BY <3>2, <3>3
  <2>4. \A m, n \in HostNames : remap'.new[m] = remap'.new[n] /\ remap'.new[m] # NoClient => m = n
    BY <1>4, <1>6 DEF Split
  <2>. QED
    BY <2>1, <2>2, <2>3, <2>4 DEF Split
<1>8. Given'
  <2>1. \A j \in DOMAIN program : j \in remap'.used <=> remap'.new[program[j].name] # NoClient
    BY <1>1, <1>2, <1>3, <1>4 DEF Given
  <2>2. ASSUME NEW n \in HostNames, remap'.new[n] # NoClient
        PROVE  \E j \in DOMAIN program :
                   program[j] = [process |-> ProcessOf[remap'.new[n]], name |-> n]
    BY <2>2, <1>3, <1>4 DEF Given
  <2>. QED
    BY <2>1, <2>2 DEF Given
<1>. QED
  BY <1>7, <1>8

-----------------------------------------------------------------------------

\* Nothing is enrolled, nothing has a name.
LEMMA InitStep == Init => IInv
<1>1. SUFFICES ASSUME Init PROVE IInv
  OBVIOUS
<1>. USE <1>1 DEF Init
<1>2. TypeOK
  BY DEF TypeOK, NoMapping, RemapStart, RemapState, Mapping
<1>3. MappingSound
  BY DEF MappingSound, NoMapping
<1>. QED
  BY <1>2, <1>3 DEF IInv, Remapping

\* Enrolling disturbs nothing.
LEMMA EnrollStep ==
    ASSUME IInv, NEW c \in Clients, Enroll(c)
    PROVE  IInv'
<1>. USE DEF IInv, Enroll
<1>1. Cardinality({d \in Clients : arrived[d] # 0}) \in Nat
  BY RemapAssumption, FS_Subset, FS_CardinalityType
<1>2. TypeOK'
  BY <1>1 DEF TypeOK
<1>3. MappingSound'
  BY DEF MappingSound
<1>. QED
  BY <1>2, <1>3 DEF Remapping

\* A host that is removed holds no name.
LEMMA RemoveStep ==
    ASSUME IInv, NEW c \in Clients, RemoveClient(c)
    PROVE  IInv'
<1>. USE DEF IInv, RemoveClient
<1>1. TypeOK'
  BY DEF TypeOK, Mapping
<1>2. MappingSound'
  BY DEF MappingSound
<1>. QED
  BY <1>1, <1>2 DEF Remapping

\* A new mapping starts from the old one.
LEMMA StartStep ==
    ASSUME IInv, NEW p \in Programs, StartRemap(p)
    PROVE  IInv'
<1>. USE DEF IInv, StartRemap
<1>1. /\ Len(p) \in Nat
      /\ \A j \in DOMAIN p : j \in Nat /\ j >= 1 /\ p[j].name \in HostNames
  BY ProgramFacts
<1>2. /\ remap'.avail = enrolled /\ remap'.used = {}
      /\ \A n \in HostNames : remap'.new[n] = NoClient
  BY DEF RemapStart, NoMapping
<1>3. TypeOK'
  BY <1>1 DEF TypeOK, RemapStart, NoMapping, RemapState, Mapping
<1>4. MappingSound'
  BY DEF MappingSound
<1>5. Split'
  BY <1>2 DEF Split
<1>6. Given'
  BY <1>1, <1>2 DEF Given
<1>7. Kept'
  BY <1>1, <1>2 DEF Kept, Keeps, MappingSound
<1>8. Untouched' /\ Exhausted'
  BY <1>2 DEF Untouched, Exhausted
<1>. QED
  BY <1>3, <1>4, <1>5, <1>6, <1>7, <1>8 DEF Remapping

\* One host keeps its name.
LEMMA ReuseStep ==
    ASSUME IInv, ReusePair
    PROVE  IInv'
<1>. USE DEF IInv, ReusePair
<1>. DEFINE c == mapping[program[k].name]
<1>1. Split /\ Given /\ Kept /\ Untouched
  BY DEF Remapping
<1>2. /\ Len(program) \in Nat /\ k \in Nat
      /\ DOMAIN program = 1 .. Len(program)
      /\ \A j \in DOMAIN program : program[j].name \in HostNames
      /\ \A i, j \in DOMAIN program : program[i].name = program[j].name => i = j
  BY ProgramFacts DEF TypeOK
<1>3. MappingSound'
  BY DEF MappingSound
<1>4. k \notin remap.used
  BY <1>1, <1>2 DEF Untouched, TypeOK, RemapState
<1>5. CASE Reusable(remap, program, k, mapping) /\ k \in DOMAIN program
  <2>1. /\ remap' = Use(remap, program, k, c)
        /\ c \in remap.avail /\ ProcessOf[c] = program[k].process
    BY <1>5 DEF Reuse, Reusable
  <2>2. c \in Clients /\ c # NoClient
    BY <2>1, RemapAssumption DEF TypeOK, RemapState
  <2>3. Split' /\ Given'
    BY <1>1, <1>4, <1>5, <2>1, UseKeepsShape
  <2>4. /\ remap' \in RemapState
        /\ remap'.avail = remap.avail \ {c}
        /\ remap'.new = [remap.new EXCEPT ![program[k].name] = c]
        /\ remap'.used = remap.used \cup {k}
    BY <1>5, <2>1, <2>2, UseFacts DEF TypeOK
  <2>5. TypeOK'
    BY <1>2, <2>4 DEF TypeOK
  <2>6. \A j \in DOMAIN program :
           remap'.new[program[j].name] = IF j = k THEN c ELSE remap.new[program[j].name]
    BY <1>2, <1>5, <2>4 DEF TypeOK, RemapState, Mapping
  <2>7. ASSUME NEW j \in DOMAIN program, Keeps(j)
        PROVE  IF k + 1 <= j THEN mapping[program[j].name] \in remap'.avail
               ELSE remap'.new[program[j].name] = mapping[program[j].name]
    <3>1. CASE k + 1 <= j
      <4>1. mapping[program[j].name] \in remap.avail
        BY <1>1, <1>2, <2>7, <3>1 DEF Kept
      <4>2. mapping[program[j].name] # c
        BY <1>2, <1>5, <2>2, <3>1 DEF MappingSound
      <4>. QED
        BY <2>4, <3>1, <4>1, <4>2
    <3>2. CASE ~(k + 1 <= j) /\ j # k
      <4>1. ~(k <= j)
        BY <1>2, <3>2
      <4>. QED
        BY <1>1, <2>6, <2>7, <3>2, <4>1 DEF Kept
    <3>3. CASE j = k
      BY <1>2, <2>6, <3>3
    <3>. QED
      BY <3>1, <3>2, <3>3
  <2>8. Kept'
    BY <2>7 DEF Kept, Keeps
  <2>9. Untouched'
    BY <1>1, <1>2, <2>4 DEF Untouched, TypeOK, RemapState
  <2>. QED
    BY <1>3, <2>3, <2>5, <2>8, <2>9 DEF Remapping, Exhausted
<1>6. CASE ~Reusable(remap, program, k, mapping)
  <2>1. remap' = remap
    BY <1>6 DEF Reuse
  <2>2. TypeOK'
    BY <1>2, <2>1 DEF TypeOK
  <2>3. Split' /\ Given'
    BY <1>1, <2>1 DEF Split, Given
  <2>4. ASSUME NEW j \in DOMAIN program, Keeps(j)
        PROVE  IF k + 1 <= j THEN mapping[program[j].name] \in remap.avail
               ELSE remap.new[program[j].name] = mapping[program[j].name]
    <3>1. CASE j = k
      BY <1>1, <1>2, <1>6, <2>4, <3>1 DEF Kept, Keeps, Reusable
    <3>2. CASE j # k
      BY <1>1, <1>2, <2>4, <3>2 DEF Kept
    <3>. QED
      BY <3>1, <3>2
  <2>5. Kept'
    BY <2>1, <2>4 DEF Kept, Keeps
  <2>6. Untouched'
    BY <1>1, <1>2, <2>1 DEF Untouched, TypeOK, RemapState
  <2>. QED
    BY <1>3, <2>2, <2>3, <2>5, <2>6 DEF Remapping, Exhausted
<1>7. k \in DOMAIN program
  BY <1>2 DEF TypeOK
<1>. QED
  BY <1>5, <1>6, <1>7

\* All hosts that can keep a name have been looked at.
LEMMA EndReuseStep ==
    ASSUME IInv, EndReuse
    PROVE  IInv'
<1>. USE DEF IInv, EndReuse
<1>1. Split /\ Given /\ Kept
  BY DEF Remapping
<1>2. /\ Len(program) \in Nat /\ k = Len(program) + 1
      /\ DOMAIN program = 1 .. Len(program)
  BY ProgramFacts DEF TypeOK
<1>3. TypeOK' /\ MappingSound'
  BY <1>2 DEF TypeOK, MappingSound
<1>4. Split' /\ Given'
  BY <1>1 DEF Split, Given
<1>5. ASSUME NEW j \in DOMAIN program, Keeps(j)
      PROVE  remap.new[program[j].name] = mapping[program[j].name]
  <2>1. ~(k <= j)
    BY <1>2
  <2>. QED
    BY <1>1, <1>5, <2>1 DEF Kept
<1>6. Kept'
  BY <1>5 DEF Kept, Keeps
<1>7. Untouched' /\ Exhausted'
  BY <1>2 DEF Untouched, Exhausted
<1>. QED
  BY <1>3, <1>4, <1>6, <1>7 DEF Remapping

\* One host gets one of the names that are left.
LEMMA AssignStep ==
    ASSUME IInv, AssignPair
    PROVE  IInv'
<1>. USE DEF IInv, AssignPair
<1>1. Split /\ Given /\ Kept /\ Exhausted
  BY DEF Remapping
<1>2. /\ Len(program) \in Nat /\ k \in 1 .. Len(program)
      /\ DOMAIN program = 1 .. Len(program)
      /\ \A j \in DOMAIN program : program[j].name \in HostNames
      /\ \A i, j \in DOMAIN program : program[i].name = program[j].name => i = j
  BY ProgramFacts DEF TypeOK
<1>3. MappingSound' /\ Untouched'
  BY DEF MappingSound, Untouched
<1>4. \A j \in DOMAIN program : j < k + 1 => j < k \/ j = k
  BY <1>2
<1>5. CASE (k \in remap.used \/ Candidates(remap, program, k) = {}) /\ remap' = remap
  <2>1. TypeOK'
    BY <1>2, <1>5 DEF TypeOK
  <2>2. Split' /\ Given' /\ Kept'
    BY <1>1, <1>5 DEF Split, Given, Kept, Keeps
  <2>3. ASSUME NEW j \in DOMAIN program, j < k + 1, remap.new[program[j].name] = NoClient,
               NEW c \in remap.avail
        PROVE  ProcessOf[c] # program[j].process
    <3>1. CASE j < k
      BY <1>1, <2>3, <3>1 DEF Exhausted
    <3>2. CASE j = k
      <4>1. k \notin remap.used
        BY <1>1, <2>3, <3>2 DEF Given
      <4>. QED
        BY <1>5, <3>2, <4>1 DEF Candidates
    <3>. QED
      BY <1>4, <2>3, <3>1, <3>2
  <2>4. Exhausted'
    BY <1>5, <2>3 DEF Exhausted
  <2>. QED
    BY <1>3, <2>1, <2>2, <2>4 DEF Remapping
<1>6. CASE /\ k \notin remap.used
           /\ \E c \in Candidates(remap, program, k) : remap' = Use(remap, program, k, c)
  <2>1. PICK c \in Candidates(remap, program, k) : remap' = Use(remap, program, k, c)
    BY <1>6
  <2>2. /\ c \in remap.avail /\ ProcessOf[c] = program[k].process
        /\ c \in Clients /\ c # NoClient
    BY RemapAssumption DEF Candidates, TypeOK, RemapState
  <2>3. Split' /\ Given'
    BY <1>1, <1>2, <1>6, <2>1, <2>2, UseKeepsShape
  <2>4. /\ remap' \in RemapState
        /\ remap'.avail = remap.avail \ {c}
        /\ remap'.new = [remap.new EXCEPT ![program[k].name] = c]
    BY <1>2, <2>1, <2>2, UseFacts DEF TypeOK
  <2>5. TypeOK'
    BY <1>2, <2>4 DEF TypeOK
  <2>6. \A j \in DOMAIN program :
           remap'.new[program[j].name] = IF j = k THEN c ELSE remap.new[program[j].name]
    BY <1>2, <2>4 DEF TypeOK, RemapState, Mapping
  <2>7. ASSUME NEW j \in DOMAIN program, Keeps(j)
        PROVE  remap'.new[program[j].name] = mapping[program[j].name]
    <3>1. remap.new[program[j].name] = mapping[program[j].name]
      BY <1>1, <2>7 DEF Kept
    <3>2. j # k
      BY <1>1, <1>6, <2>7, <3>1 DEF Given, Keeps
    <3>. QED
      BY <2>6, <3>1, <3>2
  <2>8. Kept'
    BY <2>7 DEF Kept, Keeps
  <2>9. Exhausted'
    BY <1>1, <1>4, <2>2, <2>4, <2>6 DEF Exhausted
  <2>. QED
    BY <1>3, <2>3, <2>5, <2>8, <2>9 DEF Remapping
<1>. QED
  BY <1>5, <1>6

\* The names left over are given to nobody.
LEMMA EndAssignStep ==
    ASSUME IInv, EndAssign
    PROVE  IInv'
<1>. USE DEF IInv, EndAssign
<1>1. Split
  BY DEF Remapping
<1>2. TypeOK'
  BY DEF TypeOK, RemapState
<1>3. MappingSound'
  BY <1>1 DEF MappingSound, Split
<1>. QED
  BY <1>2, <1>3 DEF Remapping

\* Every step preserves the invariant.
LEMMA Inductive == IInv /\ [Next]_vars => IInv'
<1>1. SUFFICES ASSUME IInv, [Next]_vars PROVE IInv'
  OBVIOUS
<1>2. CASE UNCHANGED vars
  BY <1>1, <1>2 DEF vars, IInv, TypeOK, MappingSound, Remapping, Split, Given, Kept, Keeps,
                    Untouched, Exhausted
<1>3. ASSUME NEW c \in Clients, Enroll(c) \/ RemoveClient(c) PROVE IInv'
  BY <1>1, <1>3, EnrollStep, RemoveStep
<1>4. ASSUME NEW p \in Programs, StartRemap(p) PROVE IInv'
  BY <1>1, <1>4, StartStep
<1>5. CASE ReusePair \/ EndReuse \/ AssignPair \/ EndAssign
  BY <1>1, <1>5, ReuseStep, EndReuseStep, AssignStep, EndAssignStep
<1>. QED
  BY <1>1, <1>2, <1>3, <1>4, <1>5 DEF Next

\* The invariant holds in every behaviour.
LEMMA Invariance == Spec => []IInv
BY InitStep, Inductive, PTL DEF Spec

-----------------------------------------------------------------------------
(***************************************************************************)
(* The theorems.                                                           *)
(***************************************************************************)

\* The host map and the loops of a remap (HostMap::HostMap) keep their types.
THEOREM TypeCorrect == Spec => []TypeOK
<1>1. IInv => TypeOK
  BY DEF IInv
<1>. QED
  BY <1>1, Invariance, PTL

\* Whatever is loaded, enrolled and removed, every host name is held by an enrolled
\* host and no host holds two (HostMap::HostMap, HostMap::removeClient).
THEOREM MapIsSound == Spec => []MappingSound
<1>1. IInv => MappingSound
  BY DEF IInv
<1>. QED
  BY <1>1, Invariance, PTL

\* A remap gives names to the processes the program wants for them only.
THEOREM OnlyRightProcesses == Spec => RightProcess
<1>1. ASSUME IInv, EndAssign
      PROVE  \A n \in HostNames : mapping'[n] # NoClient =>
                 \E j \in DOMAIN program :
                     program[j] = [process |-> ProcessOf[mapping'[n]], name |-> n]
  BY <1>1 DEF IInv, Remapping, Given, EndAssign
<1>. QED
  BY <1>1, Invariance, PTL DEF RightProcess

\* A host keeps its name through a load of any program that wants its process
\* under that name.
THEOREM NamesAreKept == Spec => KeepsNames
<1>1. ASSUME IInv, EndAssign, NEW j \in DOMAIN program,
             mapping[program[j].name] # NoClient,
             ProcessOf[mapping[program[j].name]] = program[j].process
      PROVE  mapping'[program[j].name] = mapping[program[j].name]
  BY <1>1 DEF IInv, Remapping, Kept, Keeps, EndAssign
<1>2. ASSUME IInv, EndAssign
      PROVE  \A j \in DOMAIN program :
                 LET c == mapping[program[j].name]
                 IN  c # NoClient /\ ProcessOf[c] = program[j].process
                     => mapping'[program[j].name] = c
  BY <1>1, <1>2
<1>. QED
  BY <1>2, Invariance, PTL DEF KeepsNames

\* A name is left without a host only if no host of its process is left without
\* a name.
THEOREM AllHostsAreUsed == Spec => UsesAllHosts
<1>1. ASSUME IInv, EndAssign
      PROVE  \A j \in DOMAIN program : mapping'[program[j].name] = NoClient =>
                 \A c \in enrolled : ProcessOf[c] = program[j].process =>
                     \E n \in HostNames : mapping'[n] = c
  <2>1. SUFFICES ASSUME NEW j \in DOMAIN program, mapping'[program[j].name] = NoClient,
                        NEW c \in enrolled, ProcessOf[c] = program[j].process
                 PROVE  \E n \in HostNames : mapping'[n] = c
    OBVIOUS
  <2>2. /\ mapping' = remap.new /\ pc = "assign" /\ k = Len(program) + 1
        /\ Split /\ Exhausted
    BY <1>1 DEF IInv, Remapping, EndAssign
  <2>3. j < k
    BY <1>1, <2>2, ProgramFacts DEF IInv, TypeOK
  <2>4. c \notin remap.avail
    BY <2>1, <2>2, <2>3 DEF Exhausted
  <2>. QED
    BY <2>2, <2>4 DEF Split
<1>. QED
  BY <1>1, Invariance, PTL DEF UsesAllHosts
=============================================================================
