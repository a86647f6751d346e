---------------------------- MODULE QueueFacts -----------------------------
(***************************************************************************)
(* Lemmas about event queues (Activities), for the proofs about the        *)
(* processes that have one: what taking the first of the posted handlers,  *)
(* posting more of them, and moving an activity from one list to another   *)
(* does to who is in the lists, in which order, and how often.             *)
(***************************************************************************)
EXTENDS Activities, SequenceTheorems, FiniteSetTheorems, WellFoundedInduction, TLAPS

\* Some element of s is in S; at most one is.
Has(s, S) == \E i \in DOMAIN s : s[i] \in S
Once(s, S) == \A i, j \in DOMAIN s : s[i] \in S /\ s[j] \in S => i = j

-----------------------------------------------------------------------------
(***************************************************************************)
(* Elements.                                                               *)
(***************************************************************************)
LEMMA InToSet == \A s : \A x : x \in ToSet(s) <=> \E i \in DOMAIN s : x = s[i]
BY DEF ToSet

LEMMA IndexInToSet == ASSUME NEW s, NEW i \in DOMAIN s PROVE s[i] \in ToSet(s)
BY DEF ToSet

LEMMA ToSetUnion ==
    ASSUME NEW r, NEW s, NEW t,
           \A i \in DOMAIN r : r[i] \in ToSet(s) \cup ToSet(t),
           \A i \in DOMAIN s : s[i] \in ToSet(r),
           \A i \in DOMAIN t : t[i] \in ToSet(r)
    PROVE  ToSet(r) = ToSet(s) \cup ToSet(t)
BY Zenon DEF ToSet

LEMMA ToSetFacts ==
    ASSUME NEW T, NEW s \in Seq(T)
    PROVE  /\ ToSet(s) \subseteq T
           /\ \A i \in 1 .. Len(s) : s[i] \in ToSet(s)
           /\ \A x \in ToSet(s) : \E i \in 1 .. Len(s) : s[i] = x
           /\ DOMAIN s = 1 .. Len(s) /\ Len(s) \in Nat
           /\ ToSet(s) = {} <=> s = << >>
           /\ ToSet(<< >>) = {}
BY DEF ToSet

LEMMA EmptyFacts ==
    /\ ToSet(<< >>) = {}
    /\ \A T : << >> \in Seq(T)
    /\ Increasing(<< >>)
    /\ \A S : ~Has(<< >>, S) /\ Once(<< >>, S)
BY DEF ToSet, Increasing, Has, Once

LEMMA TailFacts ==
    ASSUME NEW T, NEW s \in Seq(T), s # << >>
    PROVE  /\ Head(s) \in T /\ Tail(s) \in Seq(T) /\ Head(s) \in ToSet(s)
           /\ Head(s) = s[1] /\ 1 \in DOMAIN s
           /\ DOMAIN Tail(s) = 1 .. Len(s) - 1
           /\ \A i \in DOMAIN Tail(s) : i + 1 \in DOMAIN s /\ Tail(s)[i] = s[i + 1]
           /\ \A i \in DOMAIN s : i # 1 => i - 1 \in DOMAIN Tail(s) /\ s[i] = Tail(s)[i - 1]
           /\ ToSet(s) = {Head(s)} \cup ToSet(Tail(s))
<1>1. /\ Head(s) \in T /\ Tail(s) \in Seq(T)
      /\ Head(s) = s[1] /\ 1 \in DOMAIN s
      /\ DOMAIN Tail(s) = 1 .. Len(s) - 1
      /\ DOMAIN s = 1 .. Len(s) /\ Len(s) \in Nat
      /\ \A i \in DOMAIN Tail(s) : i + 1 \in DOMAIN s /\ Tail(s)[i] = s[i + 1]
  OBVIOUS
<1>2. \A i \in DOMAIN s : i # 1 => i - 1 \in DOMAIN Tail(s) /\ s[i] = Tail(s)[i - 1]
  BY <1>1
<1>3. ToSet(s) = {Head(s)} \cup ToSet(Tail(s))
  <2>1. ToSet(<<Head(s)>>) = {Head(s)}
    BY DEF ToSet
  <2>2. ASSUME NEW i \in DOMAIN s
        PROVE  s[i] \in ToSet(<<Head(s)>>) \cup ToSet(Tail(s))
    <3>1. CASE i = 1
      BY <1>1, <2>1, <3>1
    <3>2. CASE i # 1
      <4>1. i - 1 \in DOMAIN Tail(s) /\ s[i] = Tail(s)[i - 1]
        BY <1>2, <3>2
      <4>. QED
        BY ONLY <4>1, IndexInToSet, Zenon
    <3>. QED
      BY <3>1, <3>2
  <2>3. ASSUME NEW i \in DOMAIN Tail(s)
        PROVE  Tail(s)[i] \in ToSet(s)
    <3>1. i + 1 \in DOMAIN s /\ Tail(s)[i] = s[i + 1]
      BY <1>1
    <3>. QED
      BY ONLY <3>1, IndexInToSet, Zenon
  <2>4. \A i \in DOMAIN <<Head(s)>> : <<Head(s)>>[i] \in ToSet(s)
    <3>1. Head(s) \in ToSet(s)
      BY <1>1, IndexInToSet, Zenon
    <3>2. \A i \in DOMAIN <<Head(s)>> : <<Head(s)>>[i] = Head(s)
      OBVIOUS
    <3>. QED
      BY ONLY <3>1, <3>2, Zenon
  <2>5. ToSet(s) = ToSet(<<Head(s)>>) \cup ToSet(Tail(s))
    BY ONLY <2>2, <2>3, <2>4, ToSetUnion, Zenon
  <2>. QED
    BY <2>1, <2>5
<1>. QED
  BY <1>1, <1>2, <1>3 DEF ToSet

LEMMA ConcatFacts ==
    ASSUME NEW T, NEW s \in Seq(T), NEW t \in Seq(T)
    PROVE  /\ s \o t \in Seq(T)
           /\ DOMAIN (s \o t) = 1 .. Len(s) + Len(t)
           /\ \A i \in DOMAIN (s \o t) :
                 \/ i \in DOMAIN s /\ (s \o t)[i] = s[i]
                 \/ /\ i > Len(s) /\ i - Len(s) \in DOMAIN t
                    /\ (s \o t)[i] = t[i - Len(s)]
           /\ \A i \in DOMAIN s : i \in DOMAIN (s \o t) /\ (s \o t)[i] = s[i]
           /\ \A i \in DOMAIN t : /\ Len(s) + i \in DOMAIN (s \o t)
                                  /\ (s \o t)[Len(s) + i] = t[i]
           /\ ToSet(s \o t) = ToSet(s) \cup ToSet(t)
<1>1. /\ s \o t \in Seq(T)
      /\ DOMAIN (s \o t) = 1 .. Len(s) + Len(t)
      /\ DOMAIN s = 1 .. Len(s) /\ Len(s) \in Nat
      /\ DOMAIN t = 1 .. Len(t) /\ Len(t) \in Nat
      /\ \A i \in 1 .. Len(s) + Len(t) :
            (s \o t)[i] = IF i <= Len(s) THEN s[i] ELSE t[i - Len(s)]
  BY ConcatProperties, LenProperties
<1>2. \A i \in DOMAIN (s \o t) :
         \/ i \in DOMAIN s /\ (s \o t)[i] = s[i]
         \/ i > Len(s) /\ i - Len(s) \in DOMAIN t /\ (s \o t)[i] = t[i - Len(s)]
  BY <1>1
<1>3. \A i \in DOMAIN s : i \in DOMAIN (s \o t) /\ (s \o t)[i] = s[i]
  BY <1>1
<1>4. \A i \in DOMAIN t : Len(s) + i \in DOMAIN (s \o t) /\ (s \o t)[Len(s) + i] = t[i]
  <2>. SUFFICES ASSUME NEW i \in DOMAIN t
                PROVE  Len(s) + i \in DOMAIN (s \o t) /\ (s \o t)[Len(s) + i] = t[i]
    OBVIOUS
  <2>1. Len(s) + i \in 1 .. Len(s) + Len(t) /\ ~(Len(s) + i <= Len(s))
    BY <1>1
  <2>2. (Len(s) + i) - Len(s) = i
    BY <1>1
  <2>. QED
    BY <1>1, <2>1, <2>2
<1>5. ToSet(s \o t) = ToSet(s) \cup ToSet(t)
  <2>1. \A i \in DOMAIN (s \o t) : (s \o t)[i] \in ToSet(s) \cup ToSet(t)
    BY <1>2, IndexInToSet, Zenon
  <2>2. \A i \in DOMAIN s : s[i] \in ToSet(s \o t)
    BY <1>3, IndexInToSet, Zenon
  <2>3. \A i \in DOMAIN t : t[i] \in ToSet(s \o t)
    BY <1>4, IndexInToSet, Zenon
  <2>. QED
    BY <2>1, <2>2, <2>3, ToSetUnion, Zenon
<1>. QED
  BY <1>1, <1>2, <1>3, <1>4, <1>5

LEMMA AppendFacts ==
    ASSUME NEW T, NEW s \in Seq(T), NEW e \in T
    PROVE  /\ Append(s, e) \in Seq(T)
           /\ Append(s, e) = s \o <<e>>
           /\ DOMAIN Append(s, e) = 1 .. Len(s) + 1
           /\ \A i \in DOMAIN s : i \in DOMAIN Append(s, e) /\ Append(s, e)[i] = s[i]
           /\ Append(s, e)[Len(s) + 1] = e
           /\ ToSet(Append(s, e)) = ToSet(s) \cup {e}
           /\ <<e>> \in Seq(T) /\ ToSet(<<e>>) = {e}
<1>1. /\ Append(s, e) \in Seq(T) /\ Append(s, e) = s \o <<e>>
      /\ DOMAIN Append(s, e) = 1 .. Len(s) + 1
      /\ \A i \in DOMAIN s : i \in DOMAIN Append(s, e) /\ Append(s, e)[i] = s[i]
      /\ Append(s, e)[Len(s) + 1] = e
      /\ <<e>> \in Seq(T)
  BY AppendProperties, AppendIsConcat, LenProperties
<1>2. ToSet(<<e>>) = {e}
  BY DEF ToSet
<1>3. ToSet(Append(s, e)) = ToSet(s) \cup {e}
  <2>1. ToSet(s \o <<e>>) = ToSet(s) \cup ToSet(<<e>>)
    BY <1>1, ConcatFacts, ZenonT(60)
  <2>. QED
    BY <1>1, <1>2, <2>1
<1>. QED
  BY <1>1, <1>2, <1>3

LEMMA AppendElements ==
    \A T : \A s \in Seq(T), e \in T : ToSet(Append(s, e)) = ToSet(s) \cup {e}
<1>. SUFFICES ASSUME NEW T, NEW s \in Seq(T), NEW e \in T
              PROVE  ToSet(Append(s, e)) = ToSet(s) \cup {e}
  OBVIOUS
<1>. DEFINE u == Append(s, e)
<1>1. /\ \A i \in DOMAIN s : i \in DOMAIN u /\ u[i] = s[i]
      /\ Len(s) + 1 \in DOMAIN u /\ u[Len(s) + 1] = e
      /\ \A i \in DOMAIN u : i \in DOMAIN s \/ i = Len(s) + 1
  BY AppendProperties, LenProperties
<1>. HIDE DEF u
<1>2. \A x : x \in ToSet(u) <=> x \in ToSet(s) \/ x = e
  BY <1>1, InToSet
<1>. QED
  BY <1>2 DEF u

\* What is left when one of several different elements is removed.
LEMMA RemoveAtFacts ==
    ASSUME NEW T, NEW s \in Seq(T), NEW k \in DOMAIN s,
           \A i, j \in DOMAIN s : s[i] = s[j] => i = j
    PROVE  /\ RemoveAt(s, k) \in Seq(T)
           /\ DOMAIN RemoveAt(s, k) = 1 .. Len(s) - 1
           /\ \A i \in DOMAIN RemoveAt(s, k) :
                 RemoveAt(s, k)[i] = IF i < k THEN s[i] ELSE s[i + 1]
           /\ ToSet(RemoveAt(s, k)) = ToSet(s) \ {s[k]}
<1>. DEFINE u == SubSeq(s, 1, k - 1)
            v == SubSeq(s, k + 1, Len(s))
<1>0. DOMAIN s = 1 .. Len(s) /\ Len(s) \in Nat /\ \A i \in 1 .. Len(s) : s[i] \in T
  BY LenProperties
<1>1. /\ u \in Seq(T) /\ Len(u) = k - 1
      /\ \A i \in 1 .. k - 1 : u[i] = s[i]
  BY <1>0, SubSeqProperties
<1>2. /\ v \in Seq(T) /\ Len(v) = Len(s) - k
      /\ \A i \in 1 .. Len(s) - k : v[i] = s[k + i]
  <2>1. \A i \in k + 1 .. Len(s) : s[i] \in T
    BY <1>0
  <2>2. /\ v \in Seq(T)
        /\ Len(v) = IF k + 1 <= Len(s) THEN Len(s) - (k + 1) + 1 ELSE 0
        /\ \A i \in 1 .. Len(s) - (k + 1) + 1 : v[i] = s[(k + 1) + i - 1]
    BY <1>0, <2>1, SubSeqProperties
  <2>. QED
    BY <1>0, <2>2
<1>3. RemoveAt(s, k) = u \o v
  BY DEF RemoveAt
<1>. HIDE DEF u, v
<1>4. /\ RemoveAt(s, k) \in Seq(T)
      /\ DOMAIN RemoveAt(s, k) = 1 .. Len(s) - 1
  <2>0. u \in Seq(T) /\ v \in Seq(T)
    BY <1>1, <1>2
  <2>1. u \o v \in Seq(T) /\ DOMAIN (u \o v) = 1 .. Len(u) + Len(v)
    BY ONLY <2>0, ConcatFacts, Zenon
  <2>2. Len(u) + Len(v) = Len(s) - 1
    BY <1>0, <1>1, <1>2
  <2>. QED
    BY <1>3, <2>1, <2>2
<1>5. ASSUME NEW i \in 1 .. Len(s) - 1
      PROVE  RemoveAt(s, k)[i] = IF i < k THEN s[i] ELSE s[i + 1]
  <2>1. CASE i < k
    <3>1. i \in 1 .. Len(u)
      BY <1>0, <1>1, <2>1
    <3>. QED
      BY <1>1, <1>2, <1>3, <3>1, <2>1, <1>0, ConcatProperties
  <2>2. CASE ~(i < k)
    <3>1. i \in 1 .. Len(u) + Len(v) /\ ~(i <= Len(u))
      BY <1>0, <1>1, <1>2, <2>2
    <3>2. RemoveAt(s, k)[i] = v[i - Len(u)]
      BY <1>1, <1>2, <1>3, <3>1, ConcatProperties, SMTT(30)
    <3>3. i - Len(u) \in 1 .. Len(s) - k /\ k + (i - Len(u)) = i + 1
      BY <1>0, <1>1, <2>2
    <3>. QED
      BY <1>2, <3>2, <3>3, <2>2
  <2>. QED
    BY <2>1, <2>2
<1>6. ToSet(RemoveAt(s, k)) = ToSet(s) \ {s[k]}
  <2>1. ASSUME NEW i \in DOMAIN RemoveAt(s, k)
        PROVE  RemoveAt(s, k)[i] \in ToSet(s) \ {s[k]}
    <3>1. i \in DOMAIN s /\ i + 1 \in DOMAIN s
      BY <1>0, <1>4
    <3>2. \E j \in DOMAIN s : j # k /\ RemoveAt(s, k)[i] = s[j]
      BY <1>0, <1>4, <1>5, <3>1
    <3>. QED
      BY <3>2 DEF ToSet
  <2>2. ASSUME NEW i \in DOMAIN s, s[i] # s[k]
        PROVE  s[i] \in ToSet(RemoveAt(s, k))
    <3>1. CASE i < k
      <4>1. i \in DOMAIN RemoveAt(s, k) /\ RemoveAt(s, k)[i] = s[i]
        BY <1>0, <1>4, <1>5, <3>1
      <4>. QED
        BY <4>1 DEF ToSet
    <3>2. CASE i > k
      <4>1. i - 1 \in 1 .. Len(s) - 1 /\ ~(i - 1 < k) /\ (i - 1) + 1 = i
        BY <1>0, <3>2
      <4>2. RemoveAt(s, k)[i - 1] = s[i]
        BY <1>5, <4>1
      <4>. QED
        BY <1>4, <4>1, <4>2 DEF ToSet
    <3>. QED
      BY <1>0, <2>2, <3>1, <3>2
  <2>. QED
    BY <2>1, <2>2 DEF ToSet
<1>. QED
  BY <1>4, <1>5, <1>6

-----------------------------------------------------------------------------
(***************************************************************************)
(* Order.                                                                  *)
(***************************************************************************)
LEMMA IncreasingFacts ==
    ASSUME NEW s \in Seq(Nat), Increasing(s)
    PROVE  /\ \A i, j \in DOMAIN s : s[i] = s[j] => i = j
           /\ s # << >> => /\ Increasing(Tail(s))
                           /\ \A x \in ToSet(Tail(s)) : Head(s) < x
           /\ \A k \in DOMAIN s : Increasing(RemoveAt(s, k))
           /\ \A e \in Nat : (\A x \in ToSet(s) : x < e) => Increasing(Append(s, e))
<1>0. DOMAIN s = 1 .. Len(s) /\ Len(s) \in Nat /\ \A i \in 1 .. Len(s) : s[i] \in Nat
  BY LenProperties
<1>1. \A i, j \in DOMAIN s : s[i] = s[j] => i = j
  BY <1>0 DEF Increasing
<1>2. ASSUME s # << >>
      PROVE  Increasing(Tail(s)) /\ \A x \in ToSet(Tail(s)) : Head(s) < x
  <2>1. /\ \A i \in DOMAIN Tail(s) : /\ i \in 1 .. Len(s) /\ i + 1 \in 1 .. Len(s)
                                     /\ Tail(s)[i] = s[i + 1]
        /\ Head(s) = s[1] /\ 1 \in DOMAIN s
        /\ DOMAIN Tail(s) = 1 .. Len(s) - 1
    BY <1>0, <1>2, TailFacts
  <2>2. Increasing(Tail(s))
    BY <1>0, <2>1 DEF Increasing
  <2>3. \A i \in DOMAIN Tail(s) : Head(s) < Tail(s)[i]
    BY <1>0, <2>1 DEF Increasing
  <2>. QED
    BY <2>2, <2>3, InToSet
<1>3. ASSUME NEW k \in DOMAIN s
      PROVE  Increasing(RemoveAt(s, k))
  <2>. DEFINE r == RemoveAt(s, k)
  <2>1. /\ DOMAIN r = 1 .. Len(s) - 1
        /\ \A i \in DOMAIN r : r[i] = IF i < k THEN s[i] ELSE s[i + 1]
    BY <1>1, RemoveAtFacts, Zenon
  <2>. HIDE DEF r
  <2>. SUFFICES Increasing(r)
    BY DEF r
  <2>2. k \in 1 .. Len(s)
    BY <1>0
  <2>3. \A i \in DOMAIN r : i \in 1 .. Len(s) /\ i + 1 \in 1 .. Len(s)
    BY <1>0, <2>1
  <2>4. \A i, j \in 1 .. Len(s) : i < j => s[i] < s[j]
    BY <1>0 DEF Increasing
  <2>. SUFFICES ASSUME NEW i \in DOMAIN r, NEW j \in DOMAIN r, i < j
                PROVE  r[i] < r[j]
    BY DEF Increasing
  <2>5. i \in 1 .. Len(s) /\ i + 1 \in 1 .. Len(s) /\ j \in 1 .. Len(s) /\ j + 1 \in 1 .. Len(s)
    BY <2>3
  <2>6. r[i] = (IF i < k THEN s[i] ELSE s[i + 1]) /\ r[j] = (IF j < k THEN s[j] ELSE s[j + 1])
    BY <2>1
  <2>7. s[i] < s[j] /\ s[i] < s[j + 1] /\ s[i + 1] < s[j + 1]
    BY <1>0, <2>4, <2>5
  <2>. QED
    BY <1>0, <2>2, <2>5, <2>6, <2>7
<1>4. ASSUME NEW e \in Nat, \A x \in ToSet(s) : x < e
      PROVE  Increasing(Append(s, e))
  BY <1>0, <1>4, AppendFacts DEF Increasing, ToSet
<1>. QED
  BY <1>1, <1>2, <1>3, <1>4

-----------------------------------------------------------------------------
(***************************************************************************)
(* How often.                                                              *)
(***************************************************************************)
LEMMA HasOnceTail ==
    ASSUME NEW T, NEW s \in Seq(T), s # << >>, NEW S
    PROVE  /\ Has(s, S) <=> Head(s) \in S \/ Has(Tail(s), S)
           /\ Once(s, S) => /\ Once(Tail(s), S)
                            /\ Head(s) \in S => ~Has(Tail(s), S)
<1>1. /\ Head(s) = s[1] /\ 1 \in DOMAIN s /\ DOMAIN s \subseteq Nat
      /\ \A i \in DOMAIN Tail(s) : i \in Nat \ {0} /\ i + 1 \in DOMAIN s /\ Tail(s)[i] = s[i + 1]
      /\ \A i \in DOMAIN s : i # 1 => i - 1 \in DOMAIN Tail(s) /\ s[i] = Tail(s)[i - 1]
  BY TailFacts, LenProperties
<1>2. Has(s, S) <=> Head(s) \in S \/ Has(Tail(s), S)
  BY <1>1 DEF Has
<1>3. ASSUME Once(s, S)
      PROVE  Once(Tail(s), S) /\ (Head(s) \in S => ~Has(Tail(s), S))
  BY <1>1, <1>3 DEF Has, Once
<1>. QED
  BY <1>2, <1>3

LEMMA HasOnceConcat ==
    ASSUME NEW T, NEW s \in Seq(T), NEW t \in Seq(T), NEW S
    PROVE  /\ Has(s \o t, S) <=> Has(s, S) \/ Has(t, S)
           /\ Once(s, S) /\ Once(t, S) /\ ~(Has(s, S) /\ Has(t, S)) => Once(s \o t, S)
<1>. DEFINE st == s \o t
            n == Len(s)
<1>1. /\ n \in Nat
      /\ \A i \in DOMAIN st : /\ i \in Nat
                              /\ \/ i \in DOMAIN s /\ st[i] = s[i]
                                 \/ i > n /\ i - n \in DOMAIN t /\ st[i] = t[i - n]
      /\ \A i \in DOMAIN s : i \in DOMAIN st /\ st[i] = s[i]
      /\ \A i \in DOMAIN t : n + i \in DOMAIN st /\ st[n + i] = t[i]
  BY ConcatFacts, LenProperties, SMTT(30)
<1>. HIDE DEF st, n
<1>2. Has(st, S) <=> Has(s, S) \/ Has(t, S)
  BY <1>1 DEF Has
<1>3. ASSUME Once(s, S), Once(t, S), ~(Has(s, S) /\ Has(t, S))
      PROVE  Once(st, S)
  <2>. SUFFICES ASSUME NEW i \in DOMAIN st, NEW j \in DOMAIN st, st[i] \in S, st[j] \in S
                PROVE  i = j
    BY DEF Once
  <2>1. CASE i \in DOMAIN s /\ st[i] = s[i] /\ j \in DOMAIN s /\ st[j] = s[j]
    BY <1>3, <2>1 DEF Once
  <2>2. CASE /\ i - n \in DOMAIN t /\ st[i] = t[i - n]
             /\ j - n \in DOMAIN t /\ st[j] = t[j - n]
    <3>1. i - n = j - n
      BY <1>3, <2>2 DEF Once
    <3>. QED
      BY <1>1, <3>1
  <2>. QED
    BY <1>1, <1>3, <2>1, <2>2 DEF Has
<1>. QED
  BY <1>2, <1>3 DEF st

LEMMA HasOnceAppend ==
    ASSUME NEW T, NEW s \in Seq(T), NEW e \in T, NEW S
    PROVE  /\ Has(Append(s, e), S) <=> Has(s, S) \/ e \in S
           /\ Once(s, S) /\ (e \in S => ~Has(s, S)) => Once(Append(s, e), S)
<1>1. <<e>> \in Seq(T) /\ Append(s, e) = s \o <<e>>
  BY AppendFacts
<1>2. (Has(<<e>>, S) <=> e \in S) /\ Once(<<e>>, S)
  BY DEF Has, Once
<1>. DEFINE t == <<e>>
<1>. HIDE DEF t
<1>3. /\ Has(s \o t, S) <=> Has(s, S) \/ Has(t, S)
      /\ Once(s, S) /\ Once(t, S) /\ ~(Has(s, S) /\ Has(t, S)) => Once(s \o t, S)
  BY <1>1, HasOnceConcat, Zenon DEF t
<1>. QED
  BY <1>1, <1>2, <1>3, Zenon DEF t

LEMMA HasElements ==
    ASSUME NEW s, NEW S
    PROVE  Has(s, S) <=> ToSet(s) \cap S # {}
BY DEF Has, ToSet
-----------------------------------------------------------------------------
(***************************************************************************)
(* The starts that are posted, and their order.                            *)
(***************************************************************************)
StartsOf(s) == {e.act : e \in {f \in ToSet(s) : f.type = "start"}}

StartsInOrder(s) ==
    \A i, j \in DOMAIN s : i < j /\ s[i].type = "start" /\ s[j].type = "start"
                           => s[i].act < s[j].act

LEMMA InStarts ==
    ASSUME NEW s
    PROVE  \A b : b \in StartsOf(s) <=> \E i \in DOMAIN s : s[i].type = "start" /\ b = s[i].act
BY DEF StartsOf, ToSet

LEMMA StartsTail ==
    ASSUME NEW T, NEW s \in Seq(T), s # << >>
    PROVE  /\ \A b : b \in StartsOf(s) <=> \/ Head(s).type = "start" /\ b = Head(s).act
                                           \/ b \in StartsOf(Tail(s))
           /\ StartsInOrder(s) =>
                 /\ StartsInOrder(Tail(s))
                 /\ Head(s).type = "start" => \A b \in StartsOf(Tail(s)) : Head(s).act < b
<1>. DEFINE t == Tail(s)
            h == Head(s)
<1>1. /\ h = s[1] /\ 1 \in DOMAIN s /\ DOMAIN s \subseteq Nat /\ DOMAIN t \subseteq Nat
      /\ \A i \in DOMAIN t : i \in Nat \ {0} /\ i + 1 \in DOMAIN s /\ t[i] = s[i + 1]
      /\ \A i \in DOMAIN s : i # 1 => i - 1 \in DOMAIN t /\ s[i] = t[i - 1]
  BY TailFacts, LenProperties
<1>. HIDE DEF t, h
<1>2. ASSUME NEW b
      PROVE  b \in StartsOf(s) <=> (h.type = "start" /\ b = h.act) \/ b \in StartsOf(t)
  <2>1. b \in StartsOf(s) <=> \E i \in DOMAIN s : s[i].type = "start" /\ b = s[i].act
    BY InStarts
  <2>2. b \in StartsOf(t) <=> \E i \in DOMAIN t : t[i].type = "start" /\ b = t[i].act
    BY InStarts
  <2>. QED
    BY <1>1, <2>1, <2>2
<1>3. ASSUME StartsInOrder(s)
      PROVE  StartsInOrder(t) /\ (h.type = "start" => \A b \in StartsOf(t) : h.act < b)
  <2>1. StartsInOrder(t)
    BY <1>1, <1>3, SMTT(30) DEF StartsInOrder
  <2>2. ASSUME h.type = "start", NEW b \in StartsOf(t)
        PROVE  h.act < b
    <3>1. PICK i \in DOMAIN t : t[i].type = "start" /\ b = t[i].act
      BY InStarts
    <3>2. 1 < i + 1 /\ i + 1 \in DOMAIN s /\ s[i + 1] = t[i]
      BY <1>1
    <3>. QED
      BY <1>1, <1>3, <2>2, <3>1, <3>2 DEF StartsInOrder
  <2>. QED
    BY <2>1, <2>2
<1>. QED
  BY <1>2, <1>3 DEF t, h

LEMMA StartsConcat ==
    ASSUME NEW T, NEW s \in Seq(T), NEW t \in Seq(T)
    PROVE  /\ \A b : b \in StartsOf(s \o t) <=> b \in StartsOf(s) \/ b \in StartsOf(t)
           /\ /\ StartsInOrder(s) /\ StartsInOrder(t)
              /\ \A a \in StartsOf(s), b \in StartsOf(t) : a < b
              => StartsInOrder(s \o t)
<1>. DEFINE st == s \o t
            n == Len(s)
<1>1. /\ n \in Nat /\ DOMAIN st \subseteq Nat /\ DOMAIN t \subseteq Nat
      /\ \A i \in DOMAIN s : i \in Nat /\ i <= n
      /\ \A i \in DOMAIN st : \/ i \in DOMAIN s /\ st[i] = s[i]
                              \/ i > n /\ i - n \in DOMAIN t /\ st[i] = t[i - n]
      /\ \A i \in DOMAIN s : i \in DOMAIN st /\ st[i] = s[i]
      /\ \A i \in DOMAIN t : n + i \in DOMAIN st /\ st[n + i] = t[i]
  BY ConcatFacts, LenProperties
<1>. HIDE DEF st, n
<1>2. ASSUME NEW b
      PROVE  b \in StartsOf(st) <=> b \in StartsOf(s) \/ b \in StartsOf(t)
  <2>1. b \in StartsOf(s) <=> \E i \in DOMAIN s : s[i].type = "start" /\ b = s[i].act
    BY InStarts
  <2>2. b \in StartsOf(t) <=> \E i \in DOMAIN t : t[i].type = "start" /\ b = t[i].act
    BY InStarts
  <2>3. b \in StartsOf(st) <=> \E i \in DOMAIN st : st[i].type = "start" /\ b = st[i].act
    BY InStarts
  <2>. QED
    BY <1>1, <2>1, <2>2, <2>3
<1>3. ASSUME StartsInOrder(s), StartsInOrder(t),
             \A a \in StartsOf(s), b \in StartsOf(t) : a < b
      PROVE  StartsInOrder(st)
  <2>. SUFFICES ASSUME NEW i \in DOMAIN st, NEW j \in DOMAIN st, i < j,
                       st[i].type = "start", st[j].type = "start"
                PROVE  st[i].act < st[j].act
    BY DEF StartsInOrder
  <2>1. CASE i \in DOMAIN s /\ st[i] = s[i] /\ j \in DOMAIN s /\ st[j] = s[j]
    BY <1>3, <2>1 DEF StartsInOrder
  <2>2. CASE /\ i - n \in DOMAIN t /\ st[i] = t[i - n]
             /\ j - n \in DOMAIN t /\ st[j] = t[j - n]
    <3>1. i - n < j - n
      BY <1>1
    <3>. QED
      BY <1>3, <2>2, <3>1 DEF StartsInOrder
  <2>3. CASE i \in DOMAIN s /\ st[i] = s[i] /\ j - n \in DOMAIN t /\ st[j] = t[j - n]
    <3>1. st[i].act \in StartsOf(s) /\ st[j].act \in StartsOf(t)
      BY <2>3, InStarts
    <3>. QED
      BY <1>3, <3>1
  <2>. QED
    BY <1>1, <2>1, <2>2, <2>3
<1>. QED
  BY <1>2, <1>3 DEF st

LEMMA StartsAppend ==
    ASSUME NEW T, NEW s \in Seq(T), NEW e \in T, e.type # "start"
    PROVE  /\ \A b : b \in StartsOf(Append(s, e)) <=> b \in StartsOf(s)
           /\ StartsInOrder(s) => StartsInOrder(Append(s, e))
<1>. DEFINE t == <<e>>
<1>1. t \in Seq(T) /\ Append(s, e) = s \o t /\ ToSet(t) = {e} /\ StartsInOrder(t)
  BY AppendFacts DEF StartsInOrder
<1>. HIDE DEF t
<1>2. \A b : b \notin StartsOf(t)
  BY <1>1 DEF StartsOf
<1>3. /\ \A b : b \in StartsOf(s \o t) <=> b \in StartsOf(s) \/ b \in StartsOf(t)
      /\ /\ StartsInOrder(s) /\ StartsInOrder(t)
         /\ \A a \in StartsOf(s), b \in StartsOf(t) : a < b
         => StartsInOrder(s \o t)
  BY <1>1, StartsConcat, Zenon
<1>. QED
  BY <1>1, <1>2, <1>3, Zenon
-----------------------------------------------------------------------------
\* The first of some positions in a queue.
LEMMA Least ==
    ASSUME NEW S \in SUBSET Nat, S # {}
    PROVE  \E x \in S : \A y \in S : x <= y
<1>. DEFINE R == OpToRel(<, Nat)
<1>1. IsWellFoundedOn(R, Nat)
  BY NatLessThanWellFounded
<1>2. \A x, y \in Nat : y < x => <<y, x>> \in R
  BY DEF OpToRel
<1>. HIDE DEF R
<1>3. PICK x \in S : \A y \in S : <<y, x>> \notin R
  BY <1>1, WFMin
<1>4. \A y \in S : ~(y < x)
  BY <1>2, <1>3
<1>5. \A y \in S : x <= y
  BY <1>4
<1>. QED
  BY <1>5
=============================================================================
