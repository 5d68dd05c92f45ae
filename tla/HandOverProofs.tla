-------------------------- MODULE HandOverProofs ---------------------------
(***************************************************************************)
(* What holds of EngineLoop for every number of requests, with either      *)
(* backend, whatever the limits of the queue and the batch: wakeups are not*)
(* lost, and requests and tokens are handed from the handlers to the engine*)
(* thread and back safely.                                                 *)
(***************************************************************************)
EXTENDS EngineLoop, SequenceTheorems, FiniteSetTheorems, TLAPS

LEMMA CountUpTo ==
    \A n \in Nat : IsFiniteSet(1..n) /\ Cardinality(1..n) = n
PROOF
  BY FS_Interval

(* The kth place of a set of places of a sequence exists. *)
LEMMA RankOnto ==
    ASSUME NEW n \in Nat, NEW at \in SUBSET (1..n), NEW k \in 1..Cardinality(at)
    PROVE  \E i \in at : Cardinality({j \in at : j <= i}) = k
PROOF
<1> DEFINE upto(i) == {j \in at : j <= i}
           rank == [i \in at |-> Cardinality(upto(i))]
<1>1. IsFiniteSet(at) /\ Cardinality(at) \in Nat
  <2>1. IsFiniteSet(1..n)
    BY CountUpTo
  <2>2. IsFiniteSet(at)
    BY <2>1, FS_Subset
  <2> QED BY <2>2, FS_CardinalityType
<1>2. \A i \in at : IsFiniteSet(upto(i)) /\ Cardinality(upto(i)) \in 1..Cardinality(at)
  <2> TAKE i \in at
  <2>1. upto(i) \in SUBSET at /\ upto(i) # {}
    OBVIOUS
  <2>2. IsFiniteSet(upto(i)) /\ Cardinality(upto(i)) <= Cardinality(at)
    BY <1>1, <2>1, FS_Subset
  <2>3. Cardinality(upto(i)) \in Nat \ {0}
    BY <2>1, <2>2, FS_CardinalityType, FS_EmptySet
  <2> QED BY <1>1, <2>2, <2>3
<1>3. \A i, j \in at : i < j => Cardinality(upto(i)) # Cardinality(upto(j))
  <2> TAKE i, j \in at
  <2> HAVE i < j
  <2>1. i < j /\ \A m \in at : m \in Int
    OBVIOUS
  <2>3. j <= j /\ ~(j <= i) /\ \A m \in at : m <= i => m <= j
    BY <2>1
  <2>2. upto(i) \in SUBSET upto(j) /\ j \in upto(j) /\ j \notin upto(i)
    <3>1. j \in upto(j) /\ j \notin upto(i)
      BY <2>3
    <3>2. upto(i) \subseteq upto(j)
      BY <2>3, Zenon
    <3> QED BY <3>1, <3>2
  <2> QED BY <1>2, <2>2, FS_Subset
<1>4. rank \in Injection(at, 1..Cardinality(at))
  <2>1. rank \in [at -> 1..Cardinality(at)]
    BY <1>2
  <2>2. \A i, j \in at : rank[i] = rank[j] => i = j
    BY <1>3
  <2> QED BY <2>1, <2>2 DEF Injection, IsInjective
<1>5. IsFiniteSet(1..Cardinality(at)) /\ Cardinality(1..Cardinality(at)) = Cardinality(at)
  BY <1>1, CountUpTo
<1>6. rank \in Surjection(at, 1..Cardinality(at))
  BY <1>4, <1>5, FS_Injection
<1> QED
  BY <1>6 DEF Surjection

(* Keep goes through the places it keeps, each once. *)
KeptPlaces(s, T) == {i \in DOMAIN s : s[i] \in T}

LEMMA KeepEnumerates ==
    ASSUME NEW S, NEW s \in Seq(S), NEW T,
           NEW n, n = Cardinality(KeptPlaces(s, T))
    PROVE  /\ n \in Nat /\ n <= Len(s)
           /\ \E f \in [1..n -> KeptPlaces(s, T)] :
                /\ Keep(s, T) = [k \in 1..n |-> s[f[k]]]
                /\ \A k, l \in 1..n : f[k] = f[l] => k = l
                /\ \A i \in KeptPlaces(s, T) : \E k \in 1..n : f[k] = i
PROOF
<1> DEFINE at == KeptPlaces(s, T)
           upto(i) == {j \in at : j <= i}
           nth(k) == CHOOSE i \in at : Cardinality(upto(i)) = k
           f == [k \in 1..n |-> nth(k)]
<1>1. Len(s) \in Nat /\ at \in SUBSET (1..Len(s)) /\ n = Cardinality(at)
  BY LenProperties DEF KeptPlaces
<1>2. IsFiniteSet(at) /\ n \in Nat /\ n <= Len(s)
  <2>1. IsFiniteSet(1..Len(s)) /\ Cardinality(1..Len(s)) = Len(s)
    BY <1>1, CountUpTo
  <2>2. IsFiniteSet(at) /\ n <= Len(s)
    BY <1>1, <2>1, FS_Subset
  <2> QED BY <2>2, FS_CardinalityType
<1>3. \A k \in 1..n : nth(k) \in at /\ Cardinality(upto(nth(k))) = k
  <2> HIDE DEF at
  <2> TAKE k \in 1..n
  <2>1. \E i \in at : Cardinality(upto(i)) = k
    <3>1. k \in 1..Cardinality(at)
      BY <1>1
    <3> QED BY <1>1, <3>1, RankOnto, Zenon
  <2> QED BY <2>1
<1>4. Keep(s, T) = [k \in 1..n |-> s[nth(k)]]
  BY DEF Keep, KeptPlaces
<1> HIDE DEF nth, at
<1>5. f \in [1..n -> at] /\ \A k, l \in 1..n : f[k] = f[l] => k = l
  BY <1>3
<1>6. f \in Injection(1..n, at)
  BY <1>5 DEF Injection, IsInjective
<1>7. IsFiniteSet(1..n) /\ Cardinality(1..n) = n
  BY <1>2, CountUpTo
<1>8. f \in Surjection(1..n, at)
  <2>1. Cardinality(1..n) = Cardinality(at)
    BY <1>1, <1>7
  <2> HIDE DEF f
  <2> QED BY <1>2, <1>6, <2>1, FS_Injection, Zenon
<1>9. Keep(s, T) = [k \in 1..n |-> s[f[k]]]
  BY <1>4
<1>10. \A i \in at : \E k \in 1..n : f[k] = i
  BY <1>8 DEF Surjection
<1> HIDE DEF f
<1> QED
  BY <1>2, <1>5, <1>9, <1>10 DEF at

NoRepeats(s) == \A i, j \in DOMAIN s : s[i] = s[j] => i = j

(* The queue without some of its requests: a queue with the others, none of *)
(* them twice.                                                              *)
LEMMA KeepFacts ==
    ASSUME NEW S, NEW s \in Seq(S), NEW T
    PROVE  /\ Keep(s, T) \in Seq(S)
           /\ ToSet(Keep(s, T)) = ToSet(s) \cap T
           /\ NoRepeats(s) => NoRepeats(Keep(s, T))
PROOF
<1> DEFINE n == Cardinality(KeptPlaces(s, T))
<1>1. n \in Nat
  BY KeepEnumerates
<1>2. PICK f \in [1..n -> KeptPlaces(s, T)] :
        /\ Keep(s, T) = [k \in 1..n |-> s[f[k]]]
        /\ \A k, l \in 1..n : f[k] = f[l] => k = l
        /\ \A i \in KeptPlaces(s, T) : \E k \in 1..n : f[k] = i
  BY KeepEnumerates
<1> HIDE DEF n
<1>4. KeptPlaces(s, T) \subseteq 1..Len(s) /\ DOMAIN s = 1..Len(s) /\ \A i \in 1..Len(s) : s[i] \in S
  BY LenProperties, ElementOfSeq DEF KeptPlaces
<1>5. \A k \in 1..n : s[f[k]] \in S \cap T /\ f[k] \in DOMAIN s
  BY <1>2, <1>4 DEF KeptPlaces
<1>6. Keep(s, T) \in Seq(S)
  BY <1>1, <1>2, <1>5
<1>7. DOMAIN Keep(s, T) = 1..n /\ \A k \in 1..n : Keep(s, T)[k] = s[f[k]]
  BY <1>2
<1>8. ToSet(Keep(s, T)) = {s[f[k]] : k \in 1..n}
  BY <1>7 DEF ToSet
<1>9. ToSet(Keep(s, T)) = ToSet(s) \cap T
  BY <1>2, <1>4, <1>5, <1>8 DEF ToSet, KeptPlaces
<1>10. NoRepeats(s) => NoRepeats(Keep(s, T))
  BY <1>2, <1>5, <1>7 DEF NoRepeats
<1> QED
  BY <1>6, <1>9, <1>10
-----------------------------------------------------------------------------
(* The other operations on queues.                                          *)
LEMMA AppendFacts ==
    ASSUME NEW S, NEW s \in Seq(S), NEW x \in S
    PROVE  /\ Append(s, x) \in Seq(S) /\ Len(Append(s, x)) = Len(s) + 1
           /\ ToSet(Append(s, x)) = ToSet(s) \cup {x}
           /\ NoRepeats(s) /\ x \notin ToSet(s) => NoRepeats(Append(s, x))
PROOF
<1>1. /\ Len(s) \in Nat /\ DOMAIN s = 1..Len(s)
      /\ DOMAIN Append(s, x) = 1..(Len(s) + 1)
      /\ \A i \in 1..Len(s) : Append(s, x)[i] = s[i]
      /\ Append(s, x)[Len(s) + 1] = x
  BY AppendProperties, LenProperties
<1>2. \A i \in 1..(Len(s) + 1) : i \in 1..Len(s) \/ i = Len(s) + 1
  BY <1>1
<1>3. 1..Len(s) \subseteq 1..(Len(s) + 1) /\ Len(s) + 1 \in 1..(Len(s) + 1)
  BY <1>1
<1>4. ToSet(Append(s, x)) = ToSet(s) \cup {x}
  BY <1>1, <1>2, <1>3 DEF ToSet
<1>5. NoRepeats(s) /\ x \notin ToSet(s) => NoRepeats(Append(s, x))
  BY <1>1, <1>2 DEF ToSet, NoRepeats
<1> QED BY <1>4, <1>5, AppendProperties

LEMMA HeadTailFacts ==
    ASSUME NEW S, NEW s \in Seq(S), s # <<>>
    PROVE  /\ Head(s) \in S /\ Tail(s) \in Seq(S) /\ Len(Tail(s)) = Len(s) - 1
           /\ ToSet(s) = {Head(s)} \cup ToSet(Tail(s))
           /\ NoRepeats(s) => Head(s) \notin ToSet(Tail(s)) /\ NoRepeats(Tail(s))
PROOF
<1>1. /\ Len(s) \in Nat \ {0} /\ DOMAIN s = 1..Len(s) /\ Head(s) = s[1]
      /\ DOMAIN Tail(s) = 1..(Len(s) - 1)
      /\ \A i \in 1..(Len(s) - 1) : Tail(s)[i] = s[i + 1]
  BY HeadTailProperties, LenProperties, EmptySeq
<1>2. \A i \in 1..(Len(s) - 1) : i + 1 \in 1..Len(s) /\ i + 1 # 1
  BY <1>1
<1>3. \A i \in 1..Len(s) : i = 1 \/ (i - 1 \in 1..(Len(s) - 1) /\ (i - 1) + 1 = i)
  BY <1>1
<1>4. 1 \in 1..Len(s)
  BY <1>1
<1>5. ToSet(s) = {Head(s)} \cup ToSet(Tail(s))
  <2>1. ToSet(s) \subseteq {Head(s)} \cup ToSet(Tail(s))
    <3> SUFFICES ASSUME NEW i \in 1..Len(s) PROVE s[i] \in {Head(s)} \cup ToSet(Tail(s))
      BY <1>1 DEF ToSet
    <3>1. CASE i = 1
      BY <3>1, <1>1
    <3>2. CASE i # 1
      <4>1. i - 1 \in 1..(Len(s) - 1) /\ Tail(s)[i - 1] = s[i]
        BY <3>2, <1>1, <1>3
      <4> QED BY <4>1, <1>1 DEF ToSet
    <3> QED BY <3>1, <3>2
  <2>2. {Head(s)} \cup ToSet(Tail(s)) \subseteq ToSet(s)
    BY <1>1, <1>2, <1>4 DEF ToSet
  <2> QED BY <2>1, <2>2
<1>6. NoRepeats(s) => Head(s) \notin ToSet(Tail(s))
  BY <1>1, <1>2, <1>4 DEF ToSet, NoRepeats
<1>7. NoRepeats(s) => NoRepeats(Tail(s))
  <2> SUFFICES ASSUME NoRepeats(s), NEW i \in 1..(Len(s) - 1), NEW j \in 1..(Len(s) - 1),
                      Tail(s)[i] = Tail(s)[j]
               PROVE  i = j
    BY <1>1 DEF NoRepeats
  <2>1. i + 1 = j + 1
    BY <1>1, <1>2 DEF NoRepeats
  <2> QED BY <2>1
<1> QED BY <1>5, <1>6, <1>7, HeadTailProperties

LEMMA ConcatFacts ==
    ASSUME NEW S, NEW s \in Seq(S), NEW t \in Seq(S)
    PROVE  /\ s \o t \in Seq(S)
           /\ ToSet(s \o t) = ToSet(s) \cup ToSet(t)
           /\ NoRepeats(s) /\ NoRepeats(t) /\ ToSet(s) \cap ToSet(t) = {}
                 => NoRepeats(s \o t)
PROOF
<1> DEFINE m == Len(s)
           n == Len(t)
<1>1. /\ m \in Nat /\ n \in Nat /\ DOMAIN s = 1..m /\ DOMAIN t = 1..n
      /\ DOMAIN (s \o t) = 1..(m + n)
      /\ \A i \in 1..(m + n) : (s \o t)[i] = IF i <= m THEN s[i] ELSE t[i - m]
  BY ConcatProperties, LenProperties
<1> HIDE DEF m, n
<1>2. \A i \in 1..(m + n) : IF i <= m THEN i \in 1..m ELSE i - m \in 1..n
  BY <1>1
<1>3. \A i \in 1..m : i \in 1..(m + n) /\ (s \o t)[i] = s[i]
  BY <1>1
<1>4. \A i \in 1..n : m + i \in 1..(m + n) /\ (s \o t)[m + i] = t[i]
  <2> TAKE i \in 1..n
  <2>1. m + i \in 1..(m + n) /\ ~(m + i <= m) /\ (m + i) - m = i
    BY <1>1
  <2> QED BY <1>1, <2>1
<1>5. ToSet(s \o t) = ToSet(s) \cup ToSet(t)
  <2>1. ToSet(s \o t) \subseteq ToSet(s) \cup ToSet(t)
    BY <1>1, <1>2 DEF ToSet
  <2>2. ToSet(s) \subseteq ToSet(s \o t)
    BY <1>1, <1>3 DEF ToSet
  <2>3. ToSet(t) \subseteq ToSet(s \o t)
    <3> SUFFICES ASSUME NEW i \in 1..n PROVE t[i] \in ToSet(s \o t)
      BY <1>1 DEF ToSet
    <3>1. m + i \in DOMAIN (s \o t) /\ (s \o t)[m + i] = t[i]
      BY <1>1, <1>4
    <3> QED BY <3>1 DEF ToSet
  <2> QED BY <2>1, <2>2, <2>3
<1>6. ASSUME NoRepeats(s), NoRepeats(t), ToSet(s) \cap ToSet(t) = {}
      PROVE  NoRepeats(s \o t)
  <2> SUFFICES ASSUME NEW i \in 1..(m + n), NEW j \in 1..(m + n), (s \o t)[i] = (s \o t)[j]
               PROVE  i = j
    BY <1>1 DEF NoRepeats
  <2>1. \A a \in 1..m, b \in 1..n : s[a] # t[b]
    BY <1>1, <1>6 DEF ToSet
  <2>2. (i <= m) <=> (j <= m)
    BY <1>1, <1>2, <2>1
  <2>3. CASE i <= m
    BY <1>1, <1>2, <1>6, <2>2, <2>3 DEF NoRepeats
  <2>4. CASE ~(i <= m)
    <3>1. i - m \in 1..n /\ j - m \in 1..n /\ t[i - m] = t[j - m]
      BY <1>1, <1>2, <2>2, <2>4
    <3>2. i - m = j - m
      BY <1>1, <1>6, <3>1 DEF NoRepeats
    <3> QED BY <1>1, <3>2
  <2> QED BY <2>3, <2>4
<1> QED BY <1>5, <1>6, ConcatProperties

LEMMA SetToSeqFacts ==
    ASSUME NEW S, NEW E \in SUBSET S, IsFiniteSet(E)
    PROVE  SetToSeq(E) \in Seq(S) /\ ToSet(SetToSeq(E)) = E /\ NoRepeats(SetToSeq(E))
PROOF
<1> DEFINE n == Cardinality(E)
           f == SetToSeq(E)
<1>1. n \in Nat /\ ExistsBijection(1..n, E)
  BY FS_CardinalityType
<1>2. \E g \in [1..n -> E] : IsInjective(g)
  BY <1>1 DEF ExistsBijection, Bijection, Injection
<1>3. f \in [1..n -> E] /\ IsInjective(f)
  BY <1>2 DEF SetToSeq
<1> HIDE DEF f
<1>4. IsFiniteSet(1..n) /\ Cardinality(1..n) = n
  BY <1>1, CountUpTo
<1>5. f \in Injection(1..n, E)
  BY <1>3 DEF Injection
<1>6. f \in Surjection(1..n, E)
  BY <1>4, <1>5, FS_Injection, Zenon
<1>7. ToSet(f) = E
  BY <1>3, <1>6 DEF ToSet, Surjection
<1>8. f \in Seq(S) /\ NoRepeats(f)
  BY <1>1, <1>3 DEF NoRepeats, IsInjective
<1> QED BY <1>7, <1>8 DEF f

(* The members of a queue: as many as it is long, if none is in it twice.   *)
LEMMA MembersFacts ==
    ASSUME NEW S, NEW s \in Seq(S)
    PROVE  /\ ToSet(s) \subseteq S /\ ToSet(<<>>) = {}
           /\ IsFiniteSet(ToSet(s)) /\ Cardinality(ToSet(s)) <= Len(s)
           /\ NoRepeats(s) => \A x : Cardinality({i \in DOMAIN s : s[i] = x})
                                      = IF x \in ToSet(s) THEN 1 ELSE 0
PROOF
<1>1. Len(s) \in Nat /\ DOMAIN s = 1..Len(s) /\ \A i \in 1..Len(s) : s[i] \in S
  BY LenProperties, ElementOfSeq
<1>2. s \in Surjection(1..Len(s), ToSet(s))
  BY <1>1, LenProperties DEF Surjection, ToSet
<1>3. IsFiniteSet(ToSet(s)) /\ Cardinality(ToSet(s)) <= Len(s)
  BY <1>1, <1>2, CountUpTo, FS_Surjection
<1>4. ASSUME NoRepeats(s), NEW x
      PROVE  Cardinality({i \in DOMAIN s : s[i] = x}) = IF x \in ToSet(s) THEN 1 ELSE 0
  <2>1. CASE x \in ToSet(s)
    <3>1. PICK k \in DOMAIN s : s[k] = x
      BY <2>1 DEF ToSet
    <3>2. {i \in DOMAIN s : s[i] = x} = {k}
      BY <1>4, <3>1 DEF NoRepeats
    <3> QED BY <2>1, <3>2, FS_Singleton
  <2>2. CASE x \notin ToSet(s)
    <3>1. {i \in DOMAIN s : s[i] = x} = {}
      BY <2>2 DEF ToSet
    <3> QED BY <2>2, <3>1, FS_EmptySet
  <2> QED BY <2>1, <2>2
<1>5. ToSet(s) \subseteq S /\ ToSet(<<>>) = {}
  BY <1>1 DEF ToSet
<1> QED BY <1>3, <1>4, <1>5
-----------------------------------------------------------------------------
(* Type correctness.                                                        *)
LEMMA QueuedFacts ==
    ASSUME TypeOK
    PROVE  /\ Queued \in Seq(Req) /\ ToSet(Queued) = ToSet(waiting) \ cancelled
           /\ NoRepeats(waiting) => NoRepeats(Queued)
PROOF
<1>1. waiting \in Seq(Req) /\ ToSet(waiting) \subseteq Req
  BY MembersFacts DEF TypeOK
<1>2. /\ Queued \in Seq(Req) /\ ToSet(Queued) = ToSet(waiting) \ cancelled
      /\ NoRepeats(waiting) => NoRepeats(Queued)
  BY <1>1, KeepFacts DEF Queued
<1> QED BY <1>2

LEMMA NotAdmittedFacts ==
    ASSUME TypeOK, NEW A
    PROVE  /\ NotAdmitted(A) \in Seq(Req)
           /\ ToSet(NotAdmitted(A)) = ToSet(Queued) \ A
           /\ NoRepeats(waiting) => NoRepeats(NotAdmitted(A))
PROOF
<1>1. Queued \in Seq(Req) /\ ToSet(Queued) \subseteq Req
  BY QueuedFacts, MembersFacts
<1> QED BY <1>1, QueuedFacts, KeepFacts DEF NotAdmitted

LEMMA EvictedFacts ==
    ASSUME EngineLoopAssumption, NEW E \in SUBSET Req
    PROVE  SetToSeq(E) \in Seq(Req) /\ ToSet(SetToSeq(E)) = E /\ NoRepeats(SetToSeq(E))
PROOF
  BY SetToSeqFacts, FS_Subset DEF EngineLoopAssumption

LEMMA TypeOKInit ==
    ASSUME EngineLoopAssumption, Init PROVE TypeOK
PROOF
<1>1. <<>> \in Seq(Req) /\ <<>> \in Seq(BOOLEAN)
  BY EmptySeq
<1>2. {wake, fin} \subseteq BOOLEAN /\ stop \in {"no", "set", "done"}
  BY DEF Init
<1> QED BY <1>1, <1>2 DEF Init, TypeOK, HandlerPoints, EngineLoopAssumption

LEMMA TypeOKHandler ==
    ASSUME EngineLoopAssumption, TypeOK, NEW r \in Req, HandlerStep(r) \/ Leave(r)
    PROVE  TypeOK'
PROOF
<1> USE DEF mailbox, rows, thread, request, handler, HandlerPoints, Goto
<1>1. CASE ReadInbox(r)
  <2>1. Len(inbox) \in Nat
    BY LenProperties DEF TypeOK
  <2> QED BY <1>1, <2>1 DEF ReadInbox, TypeOK
<1>2. CASE AdmitOrReject(r)
  BY <1>2 DEF AdmitOrReject, TypeOK
<1>3. CASE Put(r)
  BY <1>3, AppendFacts DEF Put, TypeOK
<1>4. CASE SetWake(r)
  BY <1>4 DEF SetWake, TypeOK
<1>5. CASE Receive(r)
  <2>1. events[r] \in Seq(BOOLEAN) /\ events[r] # <<>>
    BY <1>5 DEF Receive, TypeOK
  <2>2. Tail(events[r]) \in Seq(BOOLEAN)
    BY <2>1, HeadTailProperties
  <2>3. events' \in [Req -> Seq(BOOLEAN)] /\ got' \in [Req -> Nat]
    <3>1. /\ events' = [events EXCEPT ![r] = Tail(events[r])]
          /\ got' = [got EXCEPT ![r] = got[r] + 1]
      BY <1>5 DEF Receive
    <3> QED BY <2>2, <3>1 DEF TypeOK
  <2>4. \E p \in HandlerPoints : hpc' = [hpc EXCEPT ![r] = p]
    BY <1>5 DEF Receive
  <2>5. status' \in [Req -> {"none", "ok", "rejected", "cancelled", "error"}]
    BY <1>5 DEF Receive, TypeOK
  <2>6. hpc' \in [Req -> HandlerPoints]
    BY <2>4 DEF TypeOK
  <2> QED BY <1>5, <2>3, <2>5, <2>6 DEF Receive, TypeOK
<1>6. CASE Resume(r)
  <2>1. hpc' \in [Req -> HandlerPoints]
    <3>1. \E p \in HandlerPoints : hpc' = [hpc EXCEPT ![r] = p]
      BY <1>6 DEF Resume
    <3> QED BY <3>1 DEF TypeOK
  <2>2. status' \in [Req -> {"none", "ok", "rejected", "cancelled", "error"}]
    BY <1>6 DEF Resume, TypeOK
  <2> QED BY <1>6, <2>1, <2>2 DEF Resume, TypeOK
<1>7. CASE Leave(r)
  BY <1>7 DEF Leave, TypeOK
<1>8. CASE CheckFinished(r)
  BY <1>8 DEF CheckFinished, TypeOK
<1>9. CASE Cancel(r)
  BY <1>9 DEF Cancel, TypeOK
<1> QED
  BY <1>1, <1>2, <1>3, <1>4, <1>5, <1>6, <1>7, <1>8, <1>9 DEF HandlerStep

LEMMA SendType ==
    ASSUME TypeOK, Send PROVE events' \in [Req -> Seq(BOOLEAN)]
PROOF
<1>1. \A r \in Req : Append(events[r], fin) \in Seq(BOOLEAN)
  BY AppendProperties DEF TypeOK
<1> QED BY <1>1 DEF Send, TypeOK

LEMMA TypeOKLoop ==
    ASSUME EngineLoopAssumption, TypeOK, LoopStep \/ TimesOut \/ Stop \/ StopWakes
    PROVE  TypeOK'
PROOF
<1> USE DEF mailbox, rows, thread, request, handler, HandlerPoints, Thread
<1>1. CASE Top
  BY <1>1 DEF Top, TypeOK
<1>2. CASE GetNowait
  BY <1>2, HeadTailFacts DEF GetNowait, TypeOK
<1>3. CASE SubmitHand
  BY <1>3, AppendFacts DEF SubmitHand, TypeOK
<1>4. CASE InboxEmpty
  BY <1>4 DEF InboxEmpty, TypeOK
<1>5. CASE Woken
  BY <1>5 DEF Woken, TypeOK
<1>6. CASE Clear
  BY <1>6 DEF Clear, TypeOK
<1>7. CASE TimesOut
  BY <1>7 DEF TimesOut, TypeOK
<1>8. CASE Stop \/ StopWakes
  BY <1>8 DEF Stop, StopWakes, TypeOK
<1>9. CASE RetireAndAdmit
  <2>1. PICK A \in SUBSET ToSet(Queued) :
          /\ batch' = A /\ todo' = A
          /\ waiting' = NotAdmitted(A)
    BY <1>9 DEF RetireAndAdmit
  <2>2. ToSet(Queued) \subseteq Req /\ waiting' \in Seq(Req)
    <3>1. Queued \in Seq(Req) /\ NotAdmitted(A) \in Seq(Req)
      BY QueuedFacts, NotAdmittedFacts
    <3> QED BY <2>1, <3>1, MembersFacts
  <2>3. running' \subseteq Req /\ recorded' \subseteq Req
        /\ finish_reason' \in [Req -> {"none", "length", "stop", "cancelled"}]
    BY <1>9 DEF RetireAndAdmit, TypeOK
  <2> QED BY <1>9, <2>1, <2>2, <2>3 DEF RetireAndAdmit, TypeOK
<1>10. CASE Decode
  <2>1. PICK E \in SUBSET {r \in running \cup batch : ~Finished(r)} :
          /\ todo' = {r \in running \cup batch : ~Finished(r)} \ E
          /\ running' = (running \cup batch) \ E
          /\ waiting' = waiting \o SetToSeq(E)
    BY <1>10 DEF Decode
  <2>2. E \in SUBSET Req
    BY DEF TypeOK
  <2>3. waiting' \in Seq(Req)
    BY <2>1, <2>2, EvictedFacts, ConcatFacts DEF TypeOK
  <2> QED BY <1>10, <2>1, <2>3 DEF Decode, TypeOK
<1>11. ASSUME NEW r \in Req, Emit(r) PROVE TypeOK'
  <2>1. PICK eos \in BOOLEAN :
          /\ fin' = IsLast(r, eos)
          /\ finish_reason' = [finish_reason EXCEPT ![r] = Reason(r, IsLast(r, eos))]
          /\ finish_time' = IF IsLast(r, eos) THEN finish_time \cup {r} ELSE finish_time
    BY <1>11 DEF Emit
  <2>2. fin' \in BOOLEAN /\ finish_time' \subseteq Req
    BY <2>1 DEF IsLast, TypeOK
  <2>3. Reason(r, IsLast(r, eos)) \in {"none", "length", "stop", "cancelled"}
    BY DEF Reason, TypeOK
  <2>4. finish_reason' \in [Req -> {"none", "length", "stop", "cancelled"}]
    <3> HIDE DEF Reason, IsLast
    <3> QED BY <2>1, <2>3 DEF TypeOK
  <2>5. out' \in [Req -> Nat] /\ todo' \subseteq Req /\ cur' \subseteq Req
    BY <1>11 DEF Emit, TypeOK
  <2> QED BY <1>11, <2>2, <2>4, <2>5 DEF Emit, TypeOK
<1>12. CASE Sink
  BY <1>12, SendType DEF Sink, TypeOK
<1>13. CASE StepReturns
  BY <1>13 DEF StepReturns, TypeOK
<1>14. CASE NaiveStep
  <2>1. CASE Queued = <<>>
    BY <1>14, <2>1 DEF NaiveStep, TypeOK
  <2>2. CASE Queued # <<>>
    <3>1. Head(Queued) \in Req /\ Tail(Queued) \in Seq(Req)
      BY <2>2, QueuedFacts, HeadTailFacts
    <3> QED BY <1>14, <2>2, <3>1 DEF NaiveStep, TypeOK
  <2> QED BY <2>1, <2>2
<1>15. CASE RunToken
  <2>1. PICK r \in cur : /\ out' = [out EXCEPT ![r] = @ + 1]
                        /\ \E eos \in BOOLEAN : fin' = IsLast(r, eos)
    BY <1>15 DEF RunToken
  <2>2. out' \in [Req -> Nat] /\ fin' \in BOOLEAN
    BY <2>1 DEF TypeOK, IsLast
  <2> QED BY <1>15, <2>2 DEF RunToken, TypeOK
<1>16. CASE RunSink
  BY <1>16, SendType DEF RunSink, TypeOK
<1>17. CASE RunEnds
  BY <1>17 DEF RunEnds, TypeOK
<1>18. CASE Label
  BY <1>18 DEF Label, TypeOK
<1> QED
  BY <1>1, <1>2, <1>3, <1>4, <1>5, <1>6, <1>7, <1>8, <1>9, <1>10, <1>11, <1>12, <1>13,
     <1>14, <1>15, <1>16, <1>17, <1>18 DEF LoopStep

LEMMA TypeOKStep ==
    ASSUME EngineLoopAssumption, TypeOK, [Next]_vars PROVE TypeOK'
PROOF
<1>1. CASE UNCHANGED vars
  BY <1>1 DEF vars, mailbox, rows, thread, request, handler, TypeOK
<1> QED BY <1>1, TypeOKHandler, TypeOKLoop DEF Next

(* The state of the two threads is well typed, whatever they do.            *)
THEOREM TypeCorrect == Spec => []TypeOK
PROOF
<1>1. Init => TypeOK
  BY TypeOKInit, EngineLoopAssumption
<1>2. TypeOK /\ [Next]_vars => TypeOK'
  BY TypeOKStep, EngineLoopAssumption
<1> QED BY <1>1, <1>2, PTL DEF Spec
-----------------------------------------------------------------------------
(* No lost wake-up.  The event is set after the inbox is filled and cleared *)
(* before the inbox is drained; and stop() sets it after _stop, which the   *)
(* thread reads next once it has cleared the event.                         *)
InboxHeard == epc = "wait" /\ inbox # <<>> => wake \/ \E r \in Req : hpc[r] = "wake"
StopHeard == stop = "done" => wake \/ epc \in {"top", "stopped"}

LEMMA InboxHeardStep ==
    ASSUME TypeOK, InboxHeard, [Next]_vars PROVE InboxHeard'
PROOF
<1> USE DEF mailbox, rows, thread, request, handler, Goto, Thread, InboxHeard
<1>1. ASSUME NEW r \in Req, Put(r) PROVE InboxHeard'
  BY <1>1 DEF Put, TypeOK
<1>2. ASSUME NEW r \in Req, SetWake(r) PROVE InboxHeard'
  BY <1>2 DEF SetWake, TypeOK
<1>3. ASSUME NEW r \in Req, HandlerStep(r) \/ Leave(r), ~Put(r), ~SetWake(r)
      PROVE  InboxHeard'
  <2>1. epc' = epc /\ inbox' = inbox /\ wake' = wake /\ hpc[r] # "wake"
        /\ \E p : hpc' = [hpc EXCEPT ![r] = p]
    <3>1. CASE ReadInbox(r)
      BY <3>1 DEF ReadInbox
    <3>2. CASE AdmitOrReject(r)
      BY <3>2 DEF AdmitOrReject
    <3>3. CASE Receive(r)
      BY <3>3 DEF Receive
    <3>4. CASE Resume(r)
      BY <3>4 DEF Resume
    <3>5. CASE Leave(r)
      BY <3>5 DEF Leave
    <3>6. CASE CheckFinished(r)
      BY <3>6 DEF CheckFinished
    <3>7. CASE Cancel(r)
      BY <3>7 DEF Cancel
    <3> QED BY <1>3, <3>1, <3>2, <3>3, <3>4, <3>5, <3>6, <3>7 DEF HandlerStep
  <2> QED BY <2>1 DEF TypeOK
<1>4. CASE Stop \/ StopWakes
  BY <1>4 DEF Stop, StopWakes
<1>5. CASE InboxEmpty
  BY <1>5 DEF InboxEmpty
<1>6. CASE Clear
  BY <1>6 DEF Clear
<1>7. ASSUME LoopStep \/ TimesOut, ~InboxEmpty PROVE epc' # "wait"
  BY <1>7 DEF LoopStep, Top, GetNowait, SubmitHand, Woken, Clear, TimesOut,
     RetireAndAdmit, Decode, Emit, Sink, StepReturns, NaiveStep, RunToken, RunSink,
     RunEnds, Label
<1>8. CASE UNCHANGED vars
  BY <1>8 DEF vars
<1> QED
  BY <1>1, <1>2, <1>3, <1>4, <1>5, <1>7, <1>8 DEF Next

LEMMA StopHeardStep ==
    ASSUME StopHeard, [Next]_vars PROVE StopHeard'
PROOF
<1> USE DEF mailbox, rows, thread, request, handler, Thread, StopHeard
<1>1. CASE UNCHANGED vars
  BY <1>1 DEF vars
<1>2. ASSUME NEW r \in Req, HandlerStep(r) \/ Leave(r) PROVE StopHeard'
  <2>1. UNCHANGED <<stop, epc>> /\ (wake' = wake \/ wake' = TRUE)
    BY <1>2, Zenon DEF HandlerStep, Leave, ReadInbox, AdmitOrReject, Put, SetWake, Receive, Resume,
       CheckFinished, Cancel
  <2> QED BY <2>1
<1>3. CASE Stop \/ StopWakes
  BY <1>3 DEF Stop, StopWakes
<1>4. CASE Clear \/ Top
  BY <1>4 DEF Clear, Top
<1>5. ASSUME LoopStep \/ TimesOut, ~Clear, ~Top
      PROVE  UNCHANGED <<stop, wake>> /\ epc \notin {"top", "stopped"}
  BY <1>5 DEF LoopStep, GetNowait, SubmitHand, InboxEmpty, Woken, TimesOut,
     RetireAndAdmit, Decode, Emit, Sink, StepReturns, NaiveStep, RunToken, RunSink,
     RunEnds, Label
<1> QED
  BY <1>1, <1>2, <1>3, <1>4, <1>5 DEF Next

(* Whenever the engine thread waits with something in its inbox, or after   *)
(* stop() has returned, the event is set or its setter is on the way: no    *)
(* request, and no shutdown, waits for the timeout.                         *)
THEOREM WakeupsAreNotLost == Spec => []NoLostWakeup
PROOF
<1>1. Init => InboxHeard /\ StopHeard
  BY DEF Init, InboxHeard, StopHeard
<1>2. TypeOK /\ InboxHeard /\ StopHeard /\ [Next]_vars => InboxHeard' /\ StopHeard'
  BY InboxHeardStep, StopHeardStep
<1>3. InboxHeard /\ StopHeard => NoLostWakeup
  BY DEF InboxHeard, StopHeard, NoLostWakeup
<1> QED BY <1>1, <1>2, <1>3, TypeCorrect, PTL DEF Spec

-----------------------------------------------------------------------------
(* What the thread holds at each point of its loop. *)
Rows ==
    /\ epc = "submit" <=> hand # {}
    /\ \A q, r \in hand : q = r
    /\ \A q, r \in cur : q = r
    /\ epc \in {"sink", "run", "label"} => cur # {}
    /\ cur # {} => epc \in {"sink", "run", "label", "dead"}
    /\ fin => epc \in {"sink", "run"}
    /\ backend = "naive" => /\ running = cur /\ batch = {} /\ todo = {}
                            /\ epc \notin {"prefill", "decode"}
                            /\ epc = "dead" => cur # {}
    /\ backend = "batched" => /\ epc \notin {"run", "label"} /\ cur \cap todo = {}
                              /\ epc = "dead" => cur = {} /\ todo \subseteq running \cup batch
    /\ epc = "prefill" => todo \subseteq batch
    /\ epc = "decode" => batch = {} /\ todo \subseteq running
    /\ epc = "sink" /\ backend = "batched" =>
         cur \cup todo \subseteq batch \/ (batch = {} /\ cur \cup todo \subseteq running)
    /\ epc \notin {"prefill", "decode", "sink", "dead"} => todo = {} /\ batch = {}

(* A request is in one place of the hand-over at most, and there once. *)
Incoming == ToSet(inbox) \cup hand \cup ToSet(waiting)
Held == Incoming \cup running \cup batch
Places ==
    /\ NoRepeats(inbox) /\ NoRepeats(waiting)
    /\ ToSet(inbox) \cap hand = {} /\ ToSet(inbox) \cap ToSet(waiting) = {}
    /\ hand \cap ToSet(waiting) = {}
    /\ Incoming \cap (running \cup batch) = {}
    /\ running \cap batch = {}

(* A request gets there by submit(), and stays until it ends. *)
Clients ==
    \A r \in Req :
        /\ hpc[r] \in {"new", "depth", "put"} => r \notin Held /\ r \notin cancelled
        /\ hpc[r] \in {"wake", "await", "yield"} => /\ r \notin cancelled
                                                    /\ Finished(r) \/ r \in Held

(* One handler is in submit() at a time, and counted enough. *)
Fresh == ToSet(inbox) \cup hand \cup {r \in ToSet(waiting) : out[r] = 0}
Admission ==
    /\ \A q, r \in Req : {hpc[q], hpc[r]} \subseteq {"depth", "put", "wake"} => q = r
    /\ backend = "batched" => \A r \in running \cup batch : r \in todo \/ out[r] > 0
    /\ \A r \in Req : /\ hpc[r] = "depth" => Cardinality(ToSet(inbox) \cup hand) <= qsize + 1
                      /\ hpc[r] = "put" => Cardinality(Fresh) <= MaxQueue
    /\ Cardinality(Fresh) <= MaxQueue + 1

(* Nothing follows the token that is flagged last. *)
Unflagged(r) == \A i \in DOMAIN events[r] : ~events[r][i]
Pending == Incoming \cup {r \in Req : hpc[r] \in {"new", "depth", "put"}}
Emission ==
    /\ \A r \in Pending : Unflagged(r)
    /\ \A r \in cur : epc = "sink" \/ (epc = "run" /\ ~fin) => Unflagged(r)
    /\ fin => \A r \in cur : out[r] > 0
    /\ backend = "batched" =>
         /\ \A r \in Pending \cup todo : ~Finished(r)
         /\ \A r \in Req : Unflagged(r) \/ (Finished(r) /\ r \in finish_time)
         /\ fin => \A r \in cur : Finished(r) /\ r \in finish_time

(* A handler that is about to cancel has lost its client. *)
Cancelling ==
    backend = "batched" =>
        \A r \in Req : /\ hpc[r] = "cancel" => r \in left
                       /\ hpc[r] = "finally" => r \in left \/ Finished(r)
-----------------------------------------------------------------------------
(* Who changes what. *)
LEMMA WhoMoves ==
    ASSUME [Next]_vars
    PROVE  /\ \/ UNCHANGED <<inbox, hand, waiting, running, batch>>
              \/ \E r \in Req : Put(r)
              \/ GetNowait \/ SubmitHand \/ RetireAndAdmit \/ Decode \/ NaiveStep \/ Label
           /\ UNCHANGED hpc \/ \E r \in Req : HandlerStep(r) \/ Leave(r)
           /\ UNCHANGED out \/ RunToken \/ \E r \in Req : Emit(r)
           /\ UNCHANGED events \/ Sink \/ RunSink \/ \E r \in Req : Receive(r)
           /\ UNCHANGED got \/ \E r \in Req : Receive(r)
PROOF
<1> USE DEF mailbox, rows, thread, request, handler, Goto, Thread
<1>1. CASE UNCHANGED vars
  BY <1>1 DEF vars
<1>2. ASSUME NEW r \in Req, HandlerStep(r) \/ Leave(r)
      PROVE  /\ UNCHANGED <<inbox, hand, waiting, running, batch>> \/ Put(r)
             /\ UNCHANGED out
             /\ UNCHANGED events \/ Receive(r)
             /\ UNCHANGED got \/ Receive(r)
  BY <1>2, Zenon DEF HandlerStep, Leave, ReadInbox, AdmitOrReject, Put, SetWake, Receive, Resume,
     CheckFinished, Cancel
<1>3. CASE Stop \/ StopWakes
  BY <1>3 DEF Stop, StopWakes
<1>4. CASE LoopStep \/ TimesOut
  <2>1. UNCHANGED hpc /\ UNCHANGED got
    BY <1>4, Zenon DEF LoopStep, Top, GetNowait, SubmitHand, InboxEmpty, Woken, Clear, TimesOut,
     RetireAndAdmit, Decode, Emit, Sink, StepReturns, NaiveStep, RunToken, RunSink,
     RunEnds, Label
  <2>2. UNCHANGED out \/ RunToken \/ \E r \in Req : Emit(r)
    BY <1>4, Zenon DEF LoopStep, Top, GetNowait, SubmitHand, InboxEmpty, Woken, Clear, TimesOut,
     RetireAndAdmit, Decode, Sink, StepReturns, NaiveStep, RunSink, RunEnds, Label
  <2>3. UNCHANGED events \/ Sink \/ RunSink
    BY <1>4, Zenon DEF LoopStep, Top, GetNowait, SubmitHand, InboxEmpty, Woken, Clear, TimesOut,
     RetireAndAdmit, Decode, Emit, StepReturns, NaiveStep, RunToken, RunEnds, Label
  <2>4. \/ UNCHANGED <<inbox, hand, waiting, running, batch>>
        \/ GetNowait \/ SubmitHand \/ RetireAndAdmit \/ Decode \/ NaiveStep \/ Label
    BY <1>4, Zenon DEF LoopStep, Top, InboxEmpty, Woken, Clear, TimesOut,
     Emit, Sink, StepReturns, RunToken, RunSink, RunEnds
  <2> QED BY <2>1, <2>2, <2>3, <2>4
<1> QED BY <1>1, <1>2, <1>3, <1>4 DEF Next
-----------------------------------------------------------------------------
LEMMA RowsHandler ==
    ASSUME Rows, (\E r \in Req : HandlerStep(r) \/ Leave(r)) \/ Stop \/ StopWakes \/ UNCHANGED vars
    PROVE  Rows'
PROOF
<1>1. UNCHANGED <<backend, epc, hand, rows>>
  BY DEF mailbox, rows, thread, request, handler, vars, HandlerStep, Leave, ReadInbox,
     AdmitOrReject, Put, SetWake, Receive, Resume, CheckFinished, Cancel, Stop, StopWakes
<1> QED BY <1>1 DEF Rows, rows

LEMMA RowsLoop ==
    ASSUME EngineLoopAssumption, TypeOK, Rows, LoopStep \/ TimesOut
    PROVE  Rows'
PROOF
<1> USE DEF mailbox, rows, thread, request, handler, Thread
<1>1. CASE Top
  BY <1>1 DEF Top, Rows
<1>2. CASE GetNowait
  BY <1>2 DEF GetNowait, Rows
<1>3. CASE SubmitHand
  BY <1>3 DEF SubmitHand, Rows
<1>4. CASE InboxEmpty
  BY <1>4 DEF InboxEmpty, Rows
<1>5. CASE Woken \/ TimesOut
  BY <1>5 DEF Woken, TimesOut, Rows
<1>6. CASE Clear
  BY <1>6 DEF Clear, Rows
<1>7. CASE RetireAndAdmit
  <2>1. PICK A \in SUBSET ToSet(Queued) : batch' = A /\ todo' = A
    BY <1>7 DEF RetireAndAdmit
  <2> QED BY <1>7, <2>1 DEF RetireAndAdmit, Rows
<1>8. CASE Decode
  <2>1. PICK E \in SUBSET {r \in running \cup batch : ~Finished(r)} :
          /\ todo' = {r \in running \cup batch : ~Finished(r)} \ E
          /\ running' = (running \cup batch) \ E
    BY <1>8 DEF Decode
  <2> QED BY <1>8, <2>1 DEF Decode, Rows
<1>9. ASSUME NEW r \in Req, Emit(r) PROVE Rows'
  BY <1>9 DEF Emit, Rows
<1>10. CASE Sink
  BY <1>10 DEF Sink, Rows
<1>11. CASE StepReturns
  BY <1>11 DEF StepReturns, Rows
<1>12. CASE NaiveStep
  BY <1>12 DEF NaiveStep, Rows
<1>13. CASE RunToken
  BY <1>13 DEF RunToken, Rows
<1>14. CASE RunSink
  BY <1>14 DEF RunSink, Rows
<1>15. CASE RunEnds
  BY <1>15 DEF RunEnds, Rows
<1>16. CASE Label
  BY <1>16 DEF Label, Rows
<1> QED
  BY <1>1, <1>2, <1>3, <1>4, <1>5, <1>6, <1>7, <1>8, <1>9, <1>10, <1>11, <1>12, <1>13,
     <1>14, <1>15, <1>16 DEF LoopStep
-----------------------------------------------------------------------------
LEMMA PlacesStep ==
    ASSUME EngineLoopAssumption, TypeOK, Rows, Places, Clients, [Next]_vars
    PROVE  Places'
PROOF
<1> USE DEF Incoming, Held, mailbox, rows
<1>1. CASE UNCHANGED <<inbox, hand, waiting, running, batch>>
  BY <1>1 DEF Places
<1>2. ASSUME NEW r \in Req, Put(r) PROVE Places'
  <2>1. inbox' = Append(inbox, r) /\ UNCHANGED <<hand, waiting, running, batch>>
    BY <1>2 DEF Put
  <2>2. r \notin Held
    BY <1>2 DEF Put, Clients
  <2>3. NoRepeats(inbox') /\ ToSet(inbox') = ToSet(inbox) \cup {r}
    BY <2>1, <2>2, AppendFacts DEF TypeOK, Places
  <2> QED BY <2>1, <2>2, <2>3 DEF Places
<1>3. CASE GetNowait
  <2>1. /\ inbox # <<>> /\ inbox' = Tail(inbox) /\ hand' = {Head(inbox)}
        /\ UNCHANGED <<waiting, running, batch>>
    BY <1>3 DEF GetNowait
  <2>2. /\ ToSet(inbox) = {Head(inbox)} \cup ToSet(inbox')
        /\ NoRepeats(inbox') /\ Head(inbox) \notin ToSet(inbox')
    BY <2>1, HeadTailFacts DEF TypeOK, Places
  <2> QED BY <2>1, <2>2 DEF Places
<1>4. CASE SubmitHand
  <2>1. PICK r \in hand : waiting' = Append(waiting, r) /\ hand' = {}
                          /\ UNCHANGED <<inbox, running, batch>>
    BY <1>4 DEF SubmitHand
  <2>2. r \in Req /\ r \notin ToSet(waiting)
    BY DEF TypeOK, Places
  <2>3. NoRepeats(waiting') /\ ToSet(waiting') = ToSet(waiting) \cup {r}
    BY <2>1, <2>2, AppendFacts DEF TypeOK, Places
  <2> QED BY <2>1, <2>3 DEF Places
<1>5. CASE RetireAndAdmit
  <2>1. PICK A \in SUBSET ToSet(Queued) :
          /\ running' \subseteq running /\ batch' = A /\ waiting' = NotAdmitted(A)
          /\ UNCHANGED <<inbox, hand>>
    BY <1>5 DEF RetireAndAdmit
  <2>2. /\ A \subseteq ToSet(waiting) /\ ToSet(waiting') = (ToSet(waiting) \ cancelled) \ A
        /\ NoRepeats(waiting')
    BY <2>1, QueuedFacts, NotAdmittedFacts DEF Places
  <2> QED BY <2>1, <2>2 DEF Places
<1>6. CASE Decode
  <2>1. PICK E \in SUBSET {r \in running \cup batch : ~Finished(r)} :
          /\ running' = (running \cup batch) \ E
          /\ waiting' = waiting \o SetToSeq(E)
          /\ batch' = {} /\ UNCHANGED <<inbox, hand>>
    BY <1>6 DEF Decode
  <2>2. E \in SUBSET Req
    BY DEF TypeOK
  <2>3. SetToSeq(E) \in Seq(Req) /\ ToSet(SetToSeq(E)) = E /\ NoRepeats(SetToSeq(E))
    BY <2>2, EvictedFacts
  <2>4. ToSet(waiting) \cap E = {}
    BY DEF Places
  <2>5. NoRepeats(waiting') /\ ToSet(waiting') = ToSet(waiting) \cup E
    BY <2>1, <2>3, <2>4, ConcatFacts DEF TypeOK, Places
  <2> QED BY <2>1, <2>5 DEF Places
<1>7. CASE NaiveStep
  <2>1. batch = {} /\ running = {} /\ UNCHANGED <<inbox, hand, batch>>
    BY <1>7 DEF NaiveStep, Rows
  <2>2. CASE Queued = <<>>
    <3>1. waiting' = <<>> /\ running' = {}
      BY <1>7, <2>1, <2>2 DEF NaiveStep
    <3>2. ToSet(waiting') = {} /\ NoRepeats(waiting')
      BY <3>1 DEF ToSet, NoRepeats
    <3> QED BY <2>1, <3>1, <3>2 DEF Places
  <2>3. CASE Queued # <<>>
    <3>1. waiting' = Tail(Queued) /\ running' = {Head(Queued)}
      BY <1>7, <2>3 DEF NaiveStep
    <3>2. /\ ToSet(Queued) = {Head(Queued)} \cup ToSet(waiting')
          /\ Head(Queued) \notin ToSet(waiting') /\ NoRepeats(waiting')
      BY <2>3, <3>1, QueuedFacts, HeadTailFacts DEF Places
    <3>3. ToSet(Queued) \subseteq ToSet(waiting)
      BY QueuedFacts
    <3> QED BY <2>1, <3>1, <3>2, <3>3 DEF Places
  <2> QED BY <2>2, <2>3
<1>8. CASE Label
  BY <1>8 DEF Label, Places
<1> QED
  BY <1>1, <1>2, <1>3, <1>4, <1>5, <1>6, <1>7, <1>8, WhoMoves

(* What is held changes only by Put, and by what has been cancelled or is   *)
(* finished.                                                                *)
LEMMA HeldChanges ==
    ASSUME EngineLoopAssumption, TypeOK, Rows, [Next]_vars
    PROVE  /\ \A q \in Held' \ Held : Put(q) /\ q \in Req
           /\ \A q \in Held \ Held' : q \in cancelled \/ Finished(q) \/ Finished(q)'
PROOF
<1> USE DEF Incoming, Held, mailbox, rows
<1>1. CASE UNCHANGED <<inbox, hand, waiting, running, batch>>
  BY <1>1
<1>2. ASSUME NEW r \in Req, Put(r)
      PROVE  /\ \A q \in Held' \ Held : Put(q) /\ q \in Req
             /\ \A q \in Held \ Held' : FALSE
  <2>1. ToSet(inbox') = ToSet(inbox) \cup {r} /\ UNCHANGED <<hand, waiting, running, batch>>
    BY <1>2, AppendFacts DEF Put, TypeOK
  <2> QED BY <1>2, <2>1
<1>3. CASE GetNowait
  <2>1. /\ ToSet(inbox) = {Head(inbox)} \cup ToSet(inbox') /\ hand' = {Head(inbox)}
        /\ hand = {} /\ UNCHANGED <<waiting, running, batch>>
    BY <1>3, HeadTailFacts DEF GetNowait, TypeOK, Rows
  <2> QED BY <2>1
<1>4. CASE SubmitHand
  <2>1. PICK r \in hand : waiting' = Append(waiting, r) /\ hand' = {}
                          /\ UNCHANGED <<inbox, running, batch>>
    BY <1>4 DEF SubmitHand
  <2>2. hand = {r} /\ r \in Req
    BY DEF Rows, TypeOK
  <2>3. ToSet(waiting') = ToSet(waiting) \cup {r}
    BY <2>1, <2>2, AppendFacts DEF TypeOK
  <2> QED BY <2>1, <2>2, <2>3
<1>5. CASE RetireAndAdmit
  <2>1. PICK A \in SUBSET ToSet(Queued) :
          /\ running' = {r \in running : r \notin cancelled /\ ~Finished(r)}
          /\ batch' = A /\ waiting' = NotAdmitted(A)
          /\ UNCHANGED <<inbox, hand>>
    BY <1>5 DEF RetireAndAdmit
  <2>2. /\ A \subseteq ToSet(waiting) /\ ToSet(waiting') = (ToSet(waiting) \ cancelled) \ A
        /\ batch = {}
    BY <1>5, <2>1, QueuedFacts, NotAdmittedFacts DEF RetireAndAdmit, Rows
  <2> QED BY <2>1, <2>2
<1>6. CASE Decode
  <2>1. PICK E \in SUBSET {r \in running \cup batch : ~Finished(r)} :
          /\ running' = (running \cup batch) \ E
          /\ waiting' = waiting \o SetToSeq(E)
          /\ batch' = {} /\ UNCHANGED <<inbox, hand>>
    BY <1>6 DEF Decode
  <2>2. E \in SUBSET Req
    BY DEF TypeOK
  <2>3. SetToSeq(E) \in Seq(Req) /\ ToSet(SetToSeq(E)) = E
    BY <2>2, EvictedFacts
  <2>4. ToSet(waiting') = ToSet(waiting) \cup E
    BY <2>1, <2>3, ConcatFacts DEF TypeOK
  <2> QED BY <2>1, <2>4
<1>7. CASE NaiveStep
  <2>1. batch = {} /\ running = {} /\ UNCHANGED <<inbox, hand, batch>>
    BY <1>7 DEF NaiveStep, Rows
  <2>2. CASE Queued = <<>>
    <3>1. ToSet(waiting') = {} /\ running' = {} /\ ToSet(waiting) \subseteq cancelled
      BY <1>7, <2>1, <2>2, QueuedFacts DEF NaiveStep, ToSet
    <3> QED BY <2>1, <3>1
  <2>3. CASE Queued # <<>>
    <3>1. waiting' = Tail(Queued) /\ running' = {Head(Queued)}
      BY <1>7, <2>3 DEF NaiveStep
    <3>2. ToSet(Queued) = {Head(Queued)} \cup ToSet(waiting')
      BY <2>3, <3>1, QueuedFacts, HeadTailFacts
    <3>3. ToSet(Queued) = ToSet(waiting) \ cancelled
      BY QueuedFacts
    <3> QED BY <2>1, <3>1, <3>2, <3>3
  <2> QED BY <2>2, <2>3
<1>8. CASE Label
  <2>1. running = cur /\ batch = {} /\ running' = {} /\ UNCHANGED <<inbox, hand, waiting, batch>>
    BY <1>8 DEF Label, Rows, TypeOK, EngineLoopAssumption
  <2>2. \A q \in cur : Finished(q)'
    BY <1>8 DEF Label, Finished, TypeOK
  <2> QED BY <2>1, <2>2
<1> QED
  BY <1>1, <1>2, <1>3, <1>4, <1>5, <1>6, <1>7, <1>8, WhoMoves
-----------------------------------------------------------------------------
LEMMA FinishedStays ==
    ASSUME TypeOK, [Next]_vars, NEW r \in Req, Finished(r)
    PROVE  Finished(r)'
PROOF
<1> USE DEF mailbox, rows, thread, request, handler, Finished
<1>1. CASE UNCHANGED finish_reason
  BY <1>1
<1>2. CASE RetireAndAdmit
  BY <1>2 DEF RetireAndAdmit, TypeOK
<1>3. ASSUME NEW q \in Req, Emit(q) PROVE Finished(r)'
  BY <1>3 DEF Emit, TypeOK, Reason
<1>4. CASE RunEnds
  BY <1>4 DEF RunEnds, TypeOK
<1>5. CASE Label
  BY <1>5 DEF Label, TypeOK
<1>6. ASSUME NEW q \in Req, HandlerStep(q) \/ Leave(q) PROVE UNCHANGED finish_reason
  BY <1>6 DEF HandlerStep, Leave, ReadInbox, AdmitOrReject, Put, SetWake, Receive, Resume,
     CheckFinished, Cancel
<1>7. ASSUME Stop \/ StopWakes \/ TimesOut \/ UNCHANGED vars PROVE UNCHANGED finish_reason
  BY <1>7 DEF Stop, StopWakes, TimesOut, vars
<1>8. ASSUME LoopStep, ~RetireAndAdmit, ~(\E q \in Req : Emit(q)), ~RunEnds, ~Label
      PROVE  UNCHANGED finish_reason
  BY <1>8 DEF LoopStep, Top, GetNowait, SubmitHand, InboxEmpty, Woken, Clear,
     Decode, Sink, StepReturns, NaiveStep, RunToken, RunSink
<1> QED
  BY <1>1, <1>2, <1>3, <1>4, <1>5, <1>6, <1>7, <1>8 DEF Next

(* How a handler gets where it is. *)
LEMMA HandlerMoves ==
    ASSUME TypeOK, [Next]_vars, NEW r \in Req
    PROVE  /\ hpc'[r] \in {"new", "depth", "put"} => hpc[r] \in {"new", "depth", "put"}
           /\ hpc'[r] \in {"wake", "await", "yield"} =>
                hpc[r] \in {"wake", "await", "yield"} \/ Put(r)
           /\ hpc'[r] = "depth" => hpc[r] = "depth" \/ ReadInbox(r)
           /\ hpc'[r] = "put" => hpc[r] = "put" \/ AdmitOrReject(r)
           /\ hpc'[r] \in {"depth", "put", "wake"} =>
                hpc[r] \in {"depth", "put", "wake"} \/ ReadInbox(r)
           /\ r \in cancelled' => r \in cancelled \/ Cancel(r)
PROOF
<1> USE DEF mailbox, rows, thread, request, handler, Goto
<1>1. CASE UNCHANGED <<hpc, cancelled>>
  BY <1>1
<1>2. ASSUME NEW q \in Req, HandlerStep(q) \/ Leave(q), q # r
      PROVE  hpc'[r] = hpc[r] /\ (r \in cancelled' => r \in cancelled)
  <2>1. \E p : hpc' = [hpc EXCEPT ![q] = p]
    BY <1>2 DEF HandlerStep, Leave, ReadInbox, AdmitOrReject, Put, SetWake, Receive, Resume,
       CheckFinished, Cancel
  <2>2. cancelled' \subseteq cancelled \cup {q}
    BY <1>2 DEF HandlerStep, Leave, ReadInbox, AdmitOrReject, Put, SetWake, Receive, Resume,
       CheckFinished, Cancel
  <2> QED BY <1>2, <2>1, <2>2 DEF TypeOK
<1>3. CASE ReadInbox(r)
  BY <1>3 DEF ReadInbox, TypeOK
<1>4. CASE AdmitOrReject(r)
  BY <1>4 DEF AdmitOrReject, TypeOK
<1>5. CASE Put(r)
  BY <1>5 DEF Put, TypeOK
<1>6. CASE SetWake(r)
  BY <1>6 DEF SetWake, TypeOK
<1>7. CASE Receive(r)
  BY <1>7 DEF Receive, TypeOK
<1>8. CASE Resume(r)
  BY <1>8 DEF Resume, TypeOK
<1>9. CASE Leave(r) \/ CheckFinished(r)
  BY <1>9 DEF Leave, CheckFinished, TypeOK
<1>10. CASE Cancel(r)
  BY <1>10 DEF Cancel, TypeOK
<1>11. ASSUME LoopStep \/ TimesOut \/ Stop \/ StopWakes \/ UNCHANGED vars
       PROVE  UNCHANGED <<hpc, cancelled>>
  BY <1>11, Zenon DEF vars, Stop, StopWakes, LoopStep, Top, GetNowait, SubmitHand, InboxEmpty, Woken, Clear,
     TimesOut, RetireAndAdmit, Decode, Emit, Sink, StepReturns, NaiveStep, RunToken, RunSink,
     RunEnds, Label
<1> QED
  BY <1>1, <1>2, <1>3, <1>4, <1>5, <1>6, <1>7, <1>8, <1>9, <1>10, <1>11 DEF Next, HandlerStep

LEMMA ClientsStep ==
    ASSUME EngineLoopAssumption, TypeOK, Rows, Clients, [Next]_vars
    PROVE  Clients'
PROOF
<1> SUFFICES ASSUME NEW r \in Req
             PROVE  /\ hpc'[r] \in {"new", "depth", "put"} => r \notin Held' /\ r \notin cancelled'
                    /\ hpc'[r] \in {"wake", "await", "yield"} =>
                         r \notin cancelled' /\ (Finished(r)' \/ r \in Held')
  BY DEF Clients, Finished
<1>1. Put(r) => hpc'[r] = "wake" /\ hpc[r] = "put"
  BY DEF Put, Goto, TypeOK
<1>2. Cancel(r) => hpc'[r] = "done"
  BY DEF Cancel, Goto, TypeOK
<1>3. Put(r) => r \in Held'
  BY AppendFacts DEF Put, Held, Incoming, TypeOK
<1>4. CASE hpc'[r] \in {"new", "depth", "put"}
  <2>1. hpc[r] \in {"new", "depth", "put"} /\ ~Put(r) /\ ~Cancel(r)
    BY <1>1, <1>2, <1>4, HandlerMoves
  <2>2. r \notin Held /\ r \notin cancelled
    BY <2>1 DEF Clients
  <2> QED BY <1>4, <2>1, <2>2, HeldChanges, HandlerMoves
<1>5. CASE hpc'[r] \in {"wake", "await", "yield"}
  <2>1. hpc[r] \in {"wake", "await", "yield"} \/ Put(r)
    BY <1>5, HandlerMoves
  <2>2. r \notin cancelled
    BY <1>1, <2>1 DEF Clients
  <2>3. r \notin cancelled'
    BY <1>2, <1>5, <2>2, HandlerMoves
  <2>4. Finished(r)' \/ r \in Held'
    BY <1>3, <2>1, <2>2, HeldChanges, FinishedStays DEF Clients
  <2> QED BY <1>5, <2>3, <2>4
<1> QED BY <1>4, <1>5
-----------------------------------------------------------------------------
(* Admission control.                                                       *)
LEMMA OutGrows ==
    ASSUME TypeOK, [Next]_vars, NEW r \in Req
    PROVE  out'[r] \in Nat /\ out'[r] >= out[r]
PROOF
<1>1. CASE UNCHANGED out
  BY <1>1 DEF TypeOK
<1>2. CASE RunToken
  BY <1>2 DEF RunToken, TypeOK
<1>3. ASSUME NEW q \in Req, Emit(q) PROVE out'[r] \in Nat /\ out'[r] >= out[r]
  BY <1>3 DEF Emit, TypeOK
<1> QED BY <1>1, <1>2, <1>3, WhoMoves

(* A request enters the queues by Put, or because it is evicted.            *)
LEMMA QueuesChange ==
    ASSUME EngineLoopAssumption, TypeOK, Rows, [Next]_vars
    PROVE  /\ \A q \in Incoming' \ Incoming :
                Put(q) \/ (Decode /\ q \in running \cup batch /\ ~Finished(q))
           /\ \A q \in ToSet(inbox') \cup hand' : q \in ToSet(inbox) \cup hand \/ Put(q)
PROOF
<1> USE DEF Incoming, mailbox, rows
<1>1. CASE UNCHANGED <<inbox, hand, waiting, running, batch>>
  BY <1>1
<1>2. ASSUME NEW r \in Req, Put(r)
      PROVE  /\ \A q \in Incoming' \ Incoming : Put(q)
             /\ \A q \in ToSet(inbox') \cup hand' : q \in ToSet(inbox) \cup hand \/ Put(q)
  <2>1. ToSet(inbox') = ToSet(inbox) \cup {r} /\ UNCHANGED <<hand, waiting>>
    BY <1>2, AppendFacts DEF Put, TypeOK
  <2> QED BY <1>2, <2>1
<1>3. CASE GetNowait
  <2>1. /\ ToSet(inbox) = {Head(inbox)} \cup ToSet(inbox') /\ hand' = {Head(inbox)}
        /\ UNCHANGED waiting
    BY <1>3, HeadTailFacts DEF GetNowait, TypeOK
  <2> QED BY <2>1
<1>4. CASE SubmitHand
  <2>1. PICK r \in hand : waiting' = Append(waiting, r) /\ hand' = {} /\ UNCHANGED inbox
    BY <1>4 DEF SubmitHand
  <2>2. r \in Req
    BY DEF TypeOK
  <2>3. ToSet(waiting') = ToSet(waiting) \cup {r}
    BY <2>1, <2>2, AppendFacts DEF TypeOK
  <2> QED BY <2>1, <2>3
<1>5. CASE RetireAndAdmit
  <2>1. PICK A \in SUBSET ToSet(Queued) : waiting' = NotAdmitted(A) /\ UNCHANGED <<inbox, hand>>
    BY <1>5 DEF RetireAndAdmit
  <2>2. ToSet(waiting') \subseteq ToSet(waiting)
    BY <2>1, QueuedFacts, NotAdmittedFacts
  <2> QED BY <2>1, <2>2
<1>6. CASE Decode
  <2>1. PICK E \in SUBSET {r \in running \cup batch : ~Finished(r)} :
          waiting' = waiting \o SetToSeq(E) /\ UNCHANGED <<inbox, hand>>
    BY <1>6 DEF Decode
  <2>2. E \in SUBSET Req
    BY DEF TypeOK
  <2>3. SetToSeq(E) \in Seq(Req) /\ ToSet(SetToSeq(E)) = E
    BY <2>2, EvictedFacts
  <2>4. ToSet(waiting') = ToSet(waiting) \cup E
    BY <2>1, <2>3, ConcatFacts DEF TypeOK
  <2> QED BY <1>6, <2>1, <2>4
<1>7. CASE NaiveStep
  <2>1. ToSet(waiting') \subseteq ToSet(waiting)
    <3>1. CASE Queued = <<>>
      BY <1>7, <3>1 DEF NaiveStep, ToSet
    <3>2. CASE Queued # <<>>
      BY <1>7, <3>2, QueuedFacts, HeadTailFacts DEF NaiveStep
    <3> QED BY <3>1, <3>2
  <2> QED BY <1>7, <2>1 DEF NaiveStep
<1>8. CASE Label
  BY <1>8 DEF Label
<1> QED
  BY <1>1, <1>2, <1>3, <1>4, <1>5, <1>6, <1>7, <1>8, WhoMoves

(* What has not run yet in the queues only grows by Put: an evicted row has *)
(* run.                                                                     *)
LEMMA FreshChanges ==
    ASSUME EngineLoopAssumption, TypeOK, Rows, Admission, [Next]_vars
    PROVE  /\ \A q \in Fresh' \ Fresh : Put(q)
           /\ Fresh \in SUBSET Req /\ Fresh' \in SUBSET Req
PROOF
<1>1. TypeOK'
  BY TypeOKStep
<1>2. Fresh \in SUBSET Req /\ Fresh' \in SUBSET Req
  <2>1. ToSet(inbox) \subseteq Req /\ ToSet(waiting) \subseteq Req /\ hand \subseteq Req
    BY MembersFacts DEF TypeOK
  <2>2. ToSet(inbox') \subseteq Req /\ ToSet(waiting') \subseteq Req /\ hand' \subseteq Req
    BY <1>1, MembersFacts DEF TypeOK
  <2> QED BY <2>1, <2>2 DEF Fresh
<1>3. ASSUME NEW q \in Fresh', q \notin Fresh, ~Put(q) PROVE FALSE
  <2>1. q \in Req /\ q \in Incoming'
    BY <1>2 DEF Fresh, Incoming
  <2>2. q \notin ToSet(inbox) \cup hand /\ q \notin ToSet(inbox') \cup hand'
    BY <1>3, QueuesChange DEF Fresh
  <2>3. q \in ToSet(waiting') /\ out'[q] = 0
    BY <1>3, <2>2 DEF Fresh
  <2>4. out[q] = 0
    BY <2>1, <2>3, OutGrows DEF TypeOK
  <2>5. q \notin Incoming
    BY <1>3, <2>2, <2>4 DEF Fresh, Incoming
  <2>6. Decode /\ q \in running \cup batch
    BY <1>3, <2>1, <2>5, QueuesChange
  <2>7. todo = {} /\ backend = "batched"
    BY <2>6 DEF Decode, Rows, TypeOK, EngineLoopAssumption
  <2> QED BY <2>4, <2>6, <2>7 DEF Admission
<1> QED BY <1>2, <1>3

LEMMA OneSubmitter ==
    ASSUME TypeOK, Admission, [Next]_vars
    PROVE  \A q, r \in Req : {hpc'[q], hpc'[r]} \subseteq {"depth", "put", "wake"} => q = r
PROOF
<1> SUFFICES ASSUME NEW q \in Req, NEW r \in Req, q # r,
                    hpc'[q] \in {"depth", "put", "wake"}, hpc'[r] \in {"depth", "put", "wake"}
             PROVE  FALSE
  OBVIOUS
<1>1. \A p, t \in Req : ReadInbox(p) => ~(hpc[t] \in {"depth", "put", "wake"})
                                        /\ (t # p => hpc'[t] = hpc[t])
  BY DEF ReadInbox, Submitting, Goto, TypeOK
<1>2. hpc[q] \in {"depth", "put", "wake"} \/ ReadInbox(q)
  BY HandlerMoves
<1>3. hpc[r] \in {"depth", "put", "wake"} \/ ReadInbox(r)
  BY HandlerMoves
<1> QED BY <1>1, <1>2, <1>3 DEF Admission

LEMMA RowsHaveRun ==
    ASSUME EngineLoopAssumption, TypeOK, Rows, Admission, [Next]_vars, backend' = "batched"
    PROVE  \A r \in running' \cup batch' : r \in todo' \/ out'[r] > 0
PROOF
<1> USE DEF mailbox, rows, thread, request, handler
<1>1. backend = "batched" /\ running \cup batch \subseteq Req
      /\ \A r \in running \cup batch : r \in todo \/ out'[r] > 0
  <2>1. backend = "batched"
    BY Zenon DEF Next, vars, Stop, StopWakes, LoopStep, Top, GetNowait, SubmitHand, InboxEmpty, Woken, Clear,
     TimesOut, RetireAndAdmit, Decode, Emit, Sink, StepReturns, NaiveStep, RunToken, RunSink,
     RunEnds, Label, HandlerStep, Leave, ReadInbox, AdmitOrReject, Put, SetWake, Receive, Resume,
     CheckFinished, Cancel
  <2>2. running \cup batch \subseteq Req
    BY DEF TypeOK
  <2>3. \A r \in Req : out[r] \in Nat /\ out'[r] \in Nat /\ out'[r] >= out[r]
    BY OutGrows DEF TypeOK
  <2> QED BY <2>1, <2>2, <2>3 DEF Admission
<1>2. CASE RetireAndAdmit
  <2>1. todo' = batch' /\ running' \subseteq running /\ todo = {}
    BY <1>2 DEF RetireAndAdmit, Rows
  <2> QED BY <1>1, <2>1
<1>3. CASE Decode
  <2>1. running' \cup batch' \subseteq running \cup batch /\ todo = {}
    BY <1>3 DEF Decode
  <2> QED BY <1>1, <2>1
<1>4. ASSUME NEW q \in Req, Emit(q) PROVE \A r \in running' \cup batch' : r \in todo' \/ out'[r] > 0
  <2>1. todo' = todo \ {q} /\ UNCHANGED <<running, batch>> /\ out'[q] > 0
    BY <1>4 DEF Emit, TypeOK
  <2> QED BY <1>1, <2>1
<1>5. ASSUME NEW q \in Req, HandlerStep(q) \/ Leave(q) PROVE UNCHANGED <<running, batch, todo>>
  BY <1>5, Zenon DEF HandlerStep, Leave, ReadInbox, AdmitOrReject, Put, SetWake, Receive, Resume,
     CheckFinished, Cancel
<1>6. ASSUME Stop \/ StopWakes \/ TimesOut \/ UNCHANGED vars PROVE UNCHANGED <<running, batch, todo>>
  BY <1>6, Zenon DEF Stop, StopWakes, TimesOut, vars
<1>7. ASSUME LoopStep, ~RetireAndAdmit, ~Decode, ~(\E q \in Req : Emit(q))
      PROVE  UNCHANGED <<running, batch, todo>>
  <2>1. ~NaiveStep /\ ~Label
    BY <1>1 DEF NaiveStep, Label, Rows
  <2> QED BY <1>7, <2>1, Zenon DEF LoopStep, Top, GetNowait, SubmitHand, InboxEmpty, Woken, Clear,
       Sink, StepReturns, RunToken, RunSink, RunEnds
<1> QED BY <1>1, <1>2, <1>3, <1>4, <1>5, <1>6, <1>7 DEF Next

LEMMA AddOne ==
    ASSUME NEW S, IsFiniteSet(S), NEW x
    PROVE  /\ IsFiniteSet(S \cup {x}) /\ Cardinality(S) \in Nat /\ Cardinality(S \cup {x}) \in Nat
           /\ Cardinality(S \cup {x}) <= Cardinality(S) + 1
PROOF
<1>1. Cardinality(S) \in Nat
  BY FS_CardinalityType
<1>2. /\ IsFiniteSet(S \cup {x})
      /\ Cardinality(S \cup {x}) = IF x \in S THEN Cardinality(S) ELSE Cardinality(S) + 1
  BY FS_AddElement, Zenon
<1> QED BY <1>1, <1>2

LEMMA AddSet ==
    ASSUME NEW S, IsFiniteSet(S), NEW T, IsFiniteSet(T)
    PROVE  /\ IsFiniteSet(S \cup T) /\ Cardinality(S \cup T) \in Nat
           /\ Cardinality(S) \in Nat /\ Cardinality(T) \in Nat
           /\ Cardinality(S \cup T) <= Cardinality(S) + Cardinality(T)
PROOF
<1>1. Cardinality(S) \in Nat /\ Cardinality(T) \in Nat /\ Cardinality(S \cap T) \in Nat
  BY FS_CardinalityType, FS_Intersection
<1>2. /\ IsFiniteSet(S \cup T)
      /\ Cardinality(S \cup T) = Cardinality(S) + Cardinality(T) - Cardinality(S \cap T)
  BY FS_Union, Zenon
<1>3. Cardinality(S \cup T) \in Nat
  BY <1>2, FS_CardinalityType
<1> QED BY <1>1, <1>2, <1>3

LEMMA AdmissionStep ==
    ASSUME EngineLoopAssumption, TypeOK, Rows, Admission, [Next]_vars
    PROVE  Admission'
PROOF
<1> DEFINE first == ToSet(inbox) \cup hand
<1>1. IsFiniteSet(Req) /\ MaxQueue \in Nat /\ qsize \in Nat
  BY DEF EngineLoopAssumption, TypeOK
<1>2. /\ Fresh \in SUBSET Req /\ IsFiniteSet(Fresh) /\ Cardinality(Fresh) \in Nat
      /\ Fresh' \in SUBSET Req /\ IsFiniteSet(Fresh') /\ Cardinality(Fresh') \in Nat
  BY <1>1, FreshChanges, FS_Subset, FS_CardinalityType
<1>3. first \subseteq Fresh /\ first' \subseteq Fresh'
  BY DEF Fresh
<1>4. /\ IsFiniteSet(first) /\ Cardinality(first) \in Nat
      /\ IsFiniteSet(first') /\ Cardinality(first') \in Nat
  BY <1>2, <1>3, FS_Subset, FS_CardinalityType
<1>5. ASSUME NEW r \in Req, Put(r) PROVE Admission'
  <2>1. hpc[r] = "put" /\ hpc' = [hpc EXCEPT ![r] = "wake"]
    BY <1>5 DEF Put, Goto
  <2>2. \A q \in Req : hpc'[q] \notin {"depth", "put"}
    BY <2>1 DEF Admission, TypeOK
  <2>3. \A q \in Req : Put(q) => q = r
    BY <2>1 DEF Put, Admission
  <2>4. Fresh' \subseteq Fresh \cup {r}
    BY <1>2, <2>3, FreshChanges
  <2>5. IsFiniteSet(Fresh \cup {r}) /\ Cardinality(Fresh \cup {r}) <= Cardinality(Fresh) + 1
    BY <1>2, AddOne
  <2>6. Cardinality(Fresh') <= Cardinality(Fresh) + 1
    <3>1. Cardinality(Fresh') <= Cardinality(Fresh \cup {r})
      BY <2>4, <2>5, FS_Subset
    <3>2. Cardinality(Fresh \cup {r}) \in Nat
      BY <2>5, FS_CardinalityType
    <3> QED BY <1>2, <2>5, <3>1, <3>2
  <2>7. Cardinality(Fresh) <= MaxQueue
    BY <2>1 DEF Admission
  <2>8. Cardinality(Fresh') <= MaxQueue + 1
    BY <1>1, <1>2, <2>6, <2>7
  <2>9. UNCHANGED <<backend, running, batch, todo, out>>
    BY <1>5 DEF Put, rows, request
  <2> QED BY <2>2, <2>8, OneSubmitter, RowsHaveRun DEF Admission
<1>6. ASSUME \A r \in Req : ~Put(r) PROVE Admission'
  <2>1. Fresh' \subseteq Fresh /\ first' \subseteq first
    <3>1. first' \subseteq Req
      BY <1>2, <1>3
    <3>2. Fresh' \subseteq Fresh
      BY <1>2, <1>6, FreshChanges
    <3>3. first' \subseteq first
      BY <1>6, <3>1, QueuesChange
    <3> QED BY <3>2, <3>3
  <2>2. Cardinality(Fresh') <= Cardinality(Fresh) /\ Cardinality(first') <= Cardinality(first)
    BY <1>2, <1>4, <2>1, FS_Subset
  <2>3. Cardinality(Fresh') <= MaxQueue + 1
    BY <1>1, <1>2, <2>2 DEF Admission
  <2>4. ASSUME NEW r \in Req, hpc'[r] = "depth"
        PROVE  Cardinality(first') <= qsize' + 1
    <3>1. CASE hpc[r] = "depth"
      <4>1. qsize' = qsize
        <5>1. ~AdmitOrReject(r)
          BY <2>4 DEF AdmitOrReject, Goto, TypeOK
        <5>2. \A q \in Req : ~ReadInbox(q) /\ ~AdmitOrReject(q)
          BY <3>1, <5>1 DEF ReadInbox, Submitting, AdmitOrReject, Admission
        <5> QED BY <5>2, Zenon DEF Next, vars, mailbox, rows, thread, request, handler,
             Stop, StopWakes, LoopStep, Top, GetNowait, SubmitHand, InboxEmpty, Woken, Clear,
             TimesOut, RetireAndAdmit, Decode, Emit, Sink, StepReturns, NaiveStep, RunToken,
             RunSink, RunEnds, Label, HandlerStep, Leave, Put, SetWake, Receive, Resume,
             CheckFinished, Cancel
      <4>2. Cardinality(first) <= qsize + 1
        BY <3>1 DEF Admission
      <4> QED BY <1>1, <1>4, <2>2, <4>1, <4>2
    <3>2. CASE ReadInbox(r)
      <4>1. qsize' = Len(inbox) /\ UNCHANGED <<inbox, hand>>
        BY <3>2 DEF ReadInbox, thread, mailbox
      <4>2. IsFiniteSet(ToSet(inbox)) /\ Cardinality(ToSet(inbox)) <= Len(inbox)
            /\ Cardinality(ToSet(inbox)) \in Nat /\ Len(inbox) \in Nat
        BY MembersFacts, FS_CardinalityType, LenProperties DEF TypeOK
      <4>3. Cardinality(first) <= Cardinality(ToSet(inbox)) + 1
        <5>1. CASE hand = {}
          <6>1. first = ToSet(inbox)
            BY <5>1
          <6>2. Cardinality(first) = Cardinality(ToSet(inbox))
            BY <6>1
          <6> QED BY <4>2, <6>2
        <5>2. CASE hand # {}
          <6>1. PICK h \in hand : hand = {h}
            <7>1. PICK h \in hand : TRUE
              BY <5>2
            <7>2. hand = {h}
              BY <7>1, Zenon DEF Rows
            <7> QED BY <7>2
          <6>2. Cardinality(ToSet(inbox) \cup {h}) <= Cardinality(ToSet(inbox)) + 1
            BY <4>2, AddOne
          <6> QED BY <6>1, <6>2
        <5> QED BY <5>1, <5>2
      <4> QED BY <1>4, <2>2, <4>1, <4>2, <4>3
    <3> QED BY <2>4, <3>1, <3>2, HandlerMoves
  <2>5. ASSUME NEW r \in Req, hpc'[r] = "put"
        PROVE  Cardinality(Fresh') <= MaxQueue
    <3>1. CASE hpc[r] = "put"
      BY <1>1, <1>2, <2>2, <3>1 DEF Admission
    <3>2. CASE AdmitOrReject(r)
      <4>1. ~QueueFull /\ hpc[r] = "depth"
        BY <2>5, <3>2 DEF AdmitOrReject, Goto, TypeOK
      <4>2. /\ IsFiniteSet(ToSet(waiting)) /\ Cardinality(ToSet(waiting)) <= Len(waiting)
            /\ Cardinality(ToSet(waiting)) \in Nat /\ Len(waiting) \in Nat
        BY MembersFacts, FS_CardinalityType, LenProperties DEF TypeOK
      <4>3. Cardinality(first) <= qsize + 1 /\ qsize + Len(waiting) < MaxQueue
        <5>1. Cardinality(first) <= qsize + 1
          BY <4>1 DEF Admission
        <5>2. qsize + Len(waiting) < MaxQueue
          BY <1>1, <4>1, <4>2 DEF QueueFull
        <5> QED BY <5>1, <5>2
      <4>4. Fresh \subseteq first \cup ToSet(waiting)
        BY DEF Fresh
      <4>5. /\ IsFiniteSet(first \cup ToSet(waiting))
            /\ Cardinality(first \cup ToSet(waiting)) <= Cardinality(first) + Cardinality(ToSet(waiting))
        BY <1>4, <4>2, AddSet
      <4>6. Cardinality(Fresh) <= Cardinality(first \cup ToSet(waiting))
        BY <4>4, <4>5, FS_Subset
      <4>7. Cardinality(first \cup ToSet(waiting)) \in Nat
        BY <4>5, FS_CardinalityType
      <4> QED BY <1>1, <1>2, <1>4, <2>2, <4>2, <4>3, <4>5, <4>6, <4>7
    <3> QED BY <2>5, <3>1, <3>2, HandlerMoves
  <2> QED BY <2>3, <2>4, <2>5, OneSubmitter, RowsHaveRun DEF Admission
<1> QED BY <1>5, <1>6
-----------------------------------------------------------------------------
(* The tokens.                                                              *)
LEMMA CurIsARow ==
    ASSUME EngineLoopAssumption, TypeOK, Rows, Places, Clients
    PROVE  /\ cur \subseteq Req /\ todo \subseteq running \cup batch
           /\ \A r \in cur \cup running \cup batch : r \notin Pending
           /\ backend \in {"naive", "batched"}
PROOF
<1>1. backend \in {"naive", "batched"} /\ cur \subseteq Req
      /\ running \cup batch \subseteq Req
  BY DEF TypeOK, EngineLoopAssumption
<1>2. cur \subseteq running \cup batch /\ todo \subseteq running \cup batch
  BY <1>1 DEF Rows
<1>3. \A r \in running \cup batch : r \notin Incoming /\ hpc[r] \notin {"new", "depth", "put"}
  BY <1>1 DEF Places, Clients, Held
<1> QED BY <1>1, <1>2, <1>3 DEF Pending

(* The backend is chosen once. *)
LEMMA BackendStays ==
    ASSUME [Next]_vars PROVE backend' = backend
PROOF
  BY Zenon DEF mailbox, rows, thread, request, handler, Next, vars, Stop, StopWakes, LoopStep, Top,
     GetNowait, SubmitHand, InboxEmpty, Woken, Clear, TimesOut, RetireAndAdmit, Decode, Emit,
     Sink, StepReturns, NaiveStep, RunToken, RunSink, RunEnds, Label, HandlerStep, Leave,
     ReadInbox, AdmitOrReject, Put, SetWake, Receive, Resume, CheckFinished, Cancel

LEMMA PendingChanges ==
    ASSUME EngineLoopAssumption, TypeOK, Rows, [Next]_vars, NEW r \in Pending', r \notin Pending
    PROVE  r \in Req /\ Decode /\ r \in running \cup batch /\ ~Finished(r)
PROOF
<1>1. TypeOK' /\ r \in Req
  <2>1. TypeOK'
    BY TypeOKStep
  <2>2. ToSet(inbox') \subseteq Req /\ ToSet(waiting') \subseteq Req /\ hand' \subseteq Req
    BY <2>1, MembersFacts DEF TypeOK
  <2> QED BY <2>1, <2>2 DEF Pending, Incoming
<1>2. hpc[r] \notin {"new", "depth", "put"} /\ r \notin Incoming
  BY <1>1 DEF Pending
<1>3. hpc'[r] \notin {"new", "depth", "put"}
  BY <1>1, <1>2, HandlerMoves
<1>4. r \in Incoming' /\ ~Put(r)
  BY <1>1, <1>2, <1>3 DEF Pending, Put
<1> QED BY <1>1, <1>2, <1>4, QueuesChange

LEMMA AppendEvent ==
    ASSUME TypeOK, NEW r \in Req, NEW b \in BOOLEAN
    PROVE  /\ Len(events[r]) \in Nat /\ DOMAIN events[r] = 1..Len(events[r])
           /\ \A i \in DOMAIN events[r] : events[r][i] \in BOOLEAN
           /\ Len(Append(events[r], b)) = Len(events[r]) + 1
           /\ DOMAIN Append(events[r], b) = 1..(Len(events[r]) + 1)
           /\ \A i \in 1..(Len(events[r]) + 1) :
                Append(events[r], b)[i] = IF i \in DOMAIN events[r] THEN events[r][i] ELSE b
PROOF
<1>1. events[r] \in Seq(BOOLEAN)
  BY DEF TypeOK
<1>2. /\ Len(events[r]) \in Nat /\ DOMAIN events[r] = 1..Len(events[r])
      /\ \A i \in DOMAIN events[r] : events[r][i] \in BOOLEAN
  BY <1>1, LenProperties, ElementOfSeq
<1>3. /\ Append(events[r], b) \in Seq(BOOLEAN)
      /\ Len(Append(events[r], b)) = Len(events[r]) + 1
      /\ \A i \in 1..Len(events[r]) : Append(events[r], b)[i] = events[r][i]
      /\ Append(events[r], b)[Len(events[r]) + 1] = b
  BY <1>1, AppendProperties
<1>4. DOMAIN Append(events[r], b) = 1..(Len(events[r]) + 1)
  BY <1>3, LenProperties
<1>5. \A i \in 1..(Len(events[r]) + 1) :
        IF i \in 1..Len(events[r]) THEN TRUE ELSE i = Len(events[r]) + 1
  BY <1>2
<1> QED BY <1>2, <1>3, <1>4, <1>5

LEMMA TailEvent ==
    ASSUME TypeOK, NEW r \in Req, events[r] # <<>>
    PROVE  /\ Len(events[r]) \in Nat \ {0} /\ DOMAIN events[r] = 1..Len(events[r])
           /\ Head(events[r]) = events[r][1]
           /\ Len(Tail(events[r])) = Len(events[r]) - 1
           /\ DOMAIN Tail(events[r]) = 1..(Len(events[r]) - 1)
           /\ \A i \in 1..(Len(events[r]) - 1) : /\ Tail(events[r])[i] = events[r][i + 1]
                                                 /\ i + 1 \in DOMAIN events[r]
PROOF
<1>1. events[r] \in Seq(BOOLEAN)
  BY DEF TypeOK
<1>2. Len(events[r]) \in Nat \ {0} /\ DOMAIN events[r] = 1..Len(events[r])
  BY <1>1, LenProperties, EmptySeq
<1>3. /\ Tail(events[r]) \in Seq(BOOLEAN) /\ Len(Tail(events[r])) = Len(events[r]) - 1
      /\ \A i \in 1..(Len(events[r]) - 1) : Tail(events[r])[i] = events[r][i + 1]
  BY <1>1, HeadTailProperties
<1>4. DOMAIN Tail(events[r]) = 1..(Len(events[r]) - 1)
  BY <1>3, LenProperties
<1>5. \A i \in 1..(Len(events[r]) - 1) : i + 1 \in DOMAIN events[r]
  BY <1>2
<1>6. Head(events[r]) = events[r][1]
  BY <1>1
<1> QED BY <1>2, <1>3, <1>4, <1>5, <1>6

(* What a step does to one request's events. *)
LEMMA EventsChange ==
    ASSUME TypeOK, [Next]_vars, NEW r \in Req
    PROVE  \/ events'[r] = events[r] /\ got'[r] = got[r]
           \/ /\ Receive(r) /\ events[r] # <<>>
              /\ events'[r] = Tail(events[r]) /\ got'[r] = got[r] + 1
           \/ /\ Sink \/ RunSink
              /\ r \in cur /\ events'[r] = Append(events[r], fin) /\ got'[r] = got[r]
PROOF
<1>1. CASE UNCHANGED <<events, got>>
  BY <1>1
<1>2. ASSUME NEW q \in Req, Receive(q)
      PROVE  /\ q # r => events'[r] = events[r] /\ got'[r] = got[r]
             /\ q = r => /\ events[r] # <<>> /\ events'[r] = Tail(events[r])
                         /\ got'[r] = got[r] + 1
  BY <1>2 DEF Receive, TypeOK
<1>3. ASSUME Sink \/ RunSink
      PROVE  /\ got'[r] = got[r]
             /\ events'[r] = IF r \in cur THEN Append(events[r], fin) ELSE events[r]
  BY <1>3 DEF Sink, RunSink, Send, handler
<1> QED BY <1>1, <1>2, <1>3, WhoMoves

LEMMA UnflaggedStays ==
    ASSUME TypeOK, [Next]_vars, NEW r \in Req, Unflagged(r),
           ~(r \in cur /\ fin /\ (Sink \/ RunSink))
    PROVE  Unflagged(r)'
PROOF
<1>1. CASE events'[r] = events[r]
  BY <1>1 DEF Unflagged
<1>2. CASE events[r] # <<>> /\ events'[r] = Tail(events[r])
  BY <1>2, TailEvent DEF Unflagged
<1>3. CASE (Sink \/ RunSink) /\ r \in cur /\ events'[r] = Append(events[r], fin)
  <2>1. fin = FALSE
    BY <1>3 DEF TypeOK
  <2> QED BY <1>3, <2>1, AppendEvent DEF Unflagged
<1> QED BY <1>1, <1>2, <1>3, EventsChange

(* With the batched schedulers only a token or a cancellation finishes.     *)
LEMMA FinishedChanges ==
    ASSUME EngineLoopAssumption, TypeOK, Rows, [Next]_vars, backend = "batched",
           NEW r \in Req, ~Finished(r), Finished(r)'
    PROVE  (RetireAndAdmit /\ r \in running) \/ Emit(r)
PROOF
<1> USE DEF mailbox, rows, thread, request, handler, Finished
<1>1. CASE UNCHANGED finish_reason
  BY <1>1
<1>2. CASE RetireAndAdmit
  BY <1>2 DEF RetireAndAdmit, TypeOK
<1>3. ASSUME NEW q \in Req, Emit(q) PROVE q = r
  BY <1>3 DEF Emit, TypeOK
<1>4. ~RunEnds /\ ~Label
  BY DEF RunEnds, Label, Rows
<1>5. ASSUME NEW q \in Req, HandlerStep(q) \/ Leave(q) PROVE UNCHANGED finish_reason
  BY <1>5 DEF HandlerStep, Leave, ReadInbox, AdmitOrReject, Put, SetWake, Receive, Resume,
     CheckFinished, Cancel
<1>6. ASSUME Stop \/ StopWakes \/ TimesOut \/ UNCHANGED vars PROVE UNCHANGED finish_reason
  BY <1>6 DEF Stop, StopWakes, TimesOut, vars
<1>7. ASSUME LoopStep, ~RetireAndAdmit, ~(\E q \in Req : Emit(q)), ~RunEnds, ~Label
      PROVE  UNCHANGED finish_reason
  BY <1>7 DEF LoopStep, Top, GetNowait, SubmitHand, InboxEmpty, Woken, Clear,
     Decode, Sink, StepReturns, NaiveStep, RunToken, RunSink
<1> QED
  BY <1>1, <1>2, <1>3, <1>4, <1>5, <1>6, <1>7 DEF Next

(* Who changes the row being emitted, its flag and what is left to emit.    *)
LEMMA EmitterMoves ==
    ASSUME [Next]_vars
    PROVE  /\ UNCHANGED <<cur, fin, epc>> \/ LoopStep \/ TimesOut
           /\ UNCHANGED todo \/ RetireAndAdmit \/ Decode \/ \E q \in Req : Emit(q)
           /\ UNCHANGED <<cur, fin>> \/ Sink \/ NaiveStep \/ RunToken \/ RunEnds \/ Label
                \/ \E q \in Req : Emit(q)
           /\ finish_time \subseteq finish_time'
PROOF
<1> USE DEF mailbox, rows, thread, request, handler
<1>1. ASSUME NEW q \in Req, HandlerStep(q) \/ Leave(q)
      PROVE  UNCHANGED <<cur, fin, epc, todo, finish_time>>
  BY <1>1, Zenon DEF HandlerStep, Leave, ReadInbox, AdmitOrReject, Put, SetWake, Receive, Resume,
     CheckFinished, Cancel
<1>2. ASSUME Stop \/ StopWakes \/ UNCHANGED vars PROVE UNCHANGED <<cur, fin, epc, todo, finish_time>>
  BY <1>2, Zenon DEF Stop, StopWakes, vars
<1>3. ASSUME LoopStep \/ TimesOut
      PROVE  UNCHANGED todo \/ RetireAndAdmit \/ Decode \/ \E q \in Req : Emit(q)
  BY <1>3, Zenon DEF LoopStep, Top, GetNowait, SubmitHand, InboxEmpty, Woken, Clear, TimesOut,
     Sink, StepReturns, NaiveStep, RunToken, RunSink, RunEnds, Label
<1>4. ASSUME LoopStep \/ TimesOut
      PROVE  UNCHANGED <<cur, fin>> \/ Sink \/ NaiveStep \/ RunToken \/ RunEnds \/ Label
               \/ \E q \in Req : Emit(q)
  BY <1>4, Zenon DEF LoopStep, Top, GetNowait, SubmitHand, InboxEmpty, Woken, Clear, TimesOut,
     RetireAndAdmit, Decode, StepReturns, RunSink
<1>5. ASSUME LoopStep \/ TimesOut PROVE finish_time \subseteq finish_time'
  BY <1>5 DEF LoopStep, Top, GetNowait, SubmitHand, InboxEmpty, Woken, Clear, TimesOut,
     RetireAndAdmit, Decode, Emit, Sink, StepReturns, NaiveStep, RunToken, RunSink,
     RunEnds, Label
<1> QED BY <1>1, <1>2, <1>3, <1>4, <1>5 DEF Next
(* The row that is about to get its token has nothing flagged behind it.    *)
LEMMA EmittedRow ==
    ASSUME EngineLoopAssumption, TypeOK, Rows, Places, Clients, Emission, [Next]_vars,
           NEW r \in cur', epc' = "sink" \/ (epc' = "run" /\ ~fin')
    PROVE  Unflagged(r)'
PROOF
<1> USE DEF mailbox, rows, thread, request, handler, Thread
<1>1. cur \subseteq Req /\ todo \subseteq running \cup batch /\ running \cup batch \subseteq Req
      /\ backend \in {"naive", "batched"} /\ fin \in BOOLEAN
  BY CurIsARow DEF TypeOK
<1>2. CASE UNCHANGED <<cur, fin, epc>>
  <2>1. ~Sink /\ ~RunSink
    BY <1>2 DEF Sink, RunSink
  <2>2. r \in cur /\ Unflagged(r)
    BY <1>2 DEF Emission
  <2> QED BY <1>1, <2>1, <2>2, UnflaggedStays
<1>3. ASSUME NEW q \in Req, Emit(q) PROVE Unflagged(r)'
  <2>1. r = q /\ r \in todo /\ r \in Req /\ epc # "sink"
    BY <1>3 DEF Emit
  <2>2. backend = "batched" /\ ~Finished(r)
    BY <1>1, <2>1 DEF Rows, Emission
  <2>3. Unflagged(r) /\ ~Sink /\ ~RunSink
    BY <2>1, <2>2 DEF Emission, Sink, RunSink
  <2> QED BY <2>1, <2>3, UnflaggedStays
<1>4. CASE NaiveStep
  <2>1. r \in ToSet(waiting) /\ epc = "step"
    <3>1. CASE Queued = <<>>
      BY <1>4, <3>1 DEF NaiveStep, Rows
    <3>2. CASE Queued # <<>>
      <4>1. r = Head(Queued)
        BY <1>4, <3>2 DEF NaiveStep
      <4>2. Head(Queued) \in ToSet(Queued) /\ ToSet(Queued) \subseteq ToSet(waiting)
        BY <3>2, QueuedFacts, HeadTailFacts
      <4> QED BY <1>4, <4>1, <4>2 DEF NaiveStep
    <3> QED BY <3>1, <3>2
  <2>2. r \in Req /\ Unflagged(r) /\ ~Sink /\ ~RunSink
    BY <2>1, MembersFacts DEF Emission, Pending, Incoming, Sink, RunSink, TypeOK
  <2> QED BY <2>2, UnflaggedStays
<1>5. CASE RunToken
  <2>1. r \in cur /\ epc = "run" /\ ~fin
    BY <1>5 DEF RunToken, Rows
  <2>2. Unflagged(r) /\ ~Sink /\ ~RunSink
    BY <2>1 DEF Emission, Sink, RunSink
  <2> QED BY <1>1, <2>1, <2>2, UnflaggedStays
<1>6. CASE RunSink
  <2>1. r \in cur /\ epc = "sink" /\ ~fin
    BY <1>6 DEF RunSink
  <2>2. Unflagged(r)
    BY <2>1 DEF Emission
  <2> QED BY <1>1, <2>1, <2>2, UnflaggedStays
<1>7. ASSUME LoopStep \/ TimesOut, ~RunSink, ~RunToken, ~NaiveStep, ~(\E q \in Req : Emit(q))
      PROVE  FALSE
  <2>1. cur' # {} /\ epc' \in {"sink", "run"}
    OBVIOUS
  <2> QED BY <1>7, <2>1 DEF LoopStep, Top, GetNowait, SubmitHand, InboxEmpty, Woken, Clear,
       TimesOut, RetireAndAdmit, Decode, Sink, StepReturns, RunEnds, Label
<1> QED BY <1>2, <1>3, <1>4, <1>5, <1>6, <1>7, EmitterMoves

(* The last token finishes its request before it is sent. *)
LEMMA LastRow ==
    ASSUME EngineLoopAssumption, TypeOK, Rows, Emission, [Next]_vars, fin', NEW r \in cur'
    PROVE  /\ out'[r] > 0
           /\ backend = "batched" => Finished(r)' /\ r \in finish_time'
PROOF
<1> USE DEF mailbox, rows, thread, request, handler, Thread
<1>1. cur \subseteq Req
  BY DEF TypeOK
<1>2. CASE UNCHANGED <<cur, fin>>
  <2>1. r \in cur /\ r \in Req /\ fin
    BY <1>1, <1>2
  <2>2. out[r] > 0 /\ (backend = "batched" => Finished(r) /\ r \in finish_time)
    BY <2>1 DEF Emission
  <2>3. out[r] \in Nat /\ out'[r] \in Nat /\ out'[r] >= out[r]
    BY <2>1, OutGrows DEF TypeOK
  <2> QED BY <2>1, <2>2, <2>3, FinishedStays, EmitterMoves
<1>3. ASSUME NEW q \in Req, Emit(q)
      PROVE  out'[r] > 0 /\ Finished(r)' /\ r \in finish_time'
  <2>1. r = q /\ out'[r] = out[r] + 1 /\ out[r] \in Nat
    BY <1>3 DEF Emit, TypeOK
  <2>2. PICK eos \in BOOLEAN :
          /\ fin' = IsLast(q, eos)
          /\ finish_reason' = [finish_reason EXCEPT ![q] = Reason(q, IsLast(q, eos))]
          /\ finish_time' = IF IsLast(q, eos) THEN finish_time \cup {q} ELSE finish_time
    BY <1>3 DEF Emit
  <2>3. Reason(q, IsLast(q, eos)) # "none" /\ r \in finish_time'
    BY <2>1, <2>2 DEF Reason
  <2>4. Finished(r)'
    BY <2>1, <2>2, <2>3 DEF Finished, TypeOK
  <2> QED BY <2>1, <2>3, <2>4
<1>4. CASE RunToken
  <2>1. backend = "naive" /\ r \in cur /\ r \in Req
    BY <1>1, <1>4 DEF RunToken, Rows, TypeOK, EngineLoopAssumption
  <2>2. out'[r] = out[r] + 1 /\ out[r] \in Nat
    BY <1>4, <2>1 DEF RunToken, Rows, TypeOK
  <2> QED BY <2>1, <2>2
<1>5. ~Sink /\ ~RunEnds
  BY DEF Sink, RunEnds
<1>6. ~NaiveStep /\ ~Label
  BY DEF NaiveStep, Label, Rows
<1> QED BY <1>2, <1>3, <1>4, <1>5, <1>6, EmitterMoves

LEMMA EmissionStep ==
    ASSUME EngineLoopAssumption, TypeOK, Rows, Places, Clients, Emission, [Next]_vars
    PROVE  Emission'
PROOF
<1>1. Pending \subseteq Req /\ running \cup batch \subseteq Req
  BY MembersFacts DEF Pending, Incoming, TypeOK
<1>2. ASSUME NEW r \in Pending' PROVE Unflagged(r)'
  <2>1. CASE r \in Pending
    <3>1. Unflagged(r) /\ r \in Req /\ r \notin cur
      BY <1>1, <2>1, CurIsARow DEF Emission
    <3> QED BY <3>1, UnflaggedStays
  <2>2. CASE r \notin Pending
    <3>1. r \in Req /\ Decode /\ r \in running \cup batch /\ ~Finished(r)
      BY <2>2, PendingChanges
    <3>2. backend = "batched" /\ Unflagged(r) /\ ~Sink /\ ~RunSink
      BY <3>1, CurIsARow DEF Decode, Rows, Emission, Sink, RunSink
    <3> QED BY <3>1, <3>2, UnflaggedStays
  <2> QED BY <2>1, <2>2
<1>3. ASSUME backend = "batched", NEW r \in Pending' PROVE ~Finished(r)'
  <2>1. r \in Req /\ ~Finished(r) /\ (r \in Pending \/ Decode)
    BY <1>1, <1>3, PendingChanges DEF Emission
  <2>2. CASE Decode
    <3>1. ~RetireAndAdmit /\ ~Emit(r)
      BY <2>2 DEF Decode, RetireAndAdmit, Emit
    <3> QED BY <1>3, <2>1, <3>1, FinishedChanges
  <2>3. CASE r \in Pending
    <3>1. r \notin running /\ ~Emit(r)
      BY <2>3, CurIsARow DEF Emit
    <3> QED BY <1>3, <2>1, <3>1, FinishedChanges
  <2> QED BY <2>1, <2>2, <2>3
<1>4. ASSUME backend = "batched", NEW r \in todo' PROVE ~Finished(r)'
  <2>1. CASE UNCHANGED todo
    <3>1. r \in Req /\ ~Finished(r) /\ r \in todo
      BY <1>1, <1>4, <2>1, CurIsARow DEF Emission
    <3>2. ~RetireAndAdmit /\ ~Emit(r)
      BY <1>4, <2>1, <3>1 DEF RetireAndAdmit, Emit, Rows
    <3> QED BY <1>4, <3>1, <3>2, FinishedChanges
  <2>2. CASE RetireAndAdmit
    <3>1. r \in ToSet(Queued) /\ ToSet(Queued) \subseteq ToSet(waiting)
      BY <1>4, <2>2, QueuedFacts DEF RetireAndAdmit
    <3>2. r \in Pending
      BY <3>1 DEF Pending, Incoming
    <3>3. r \in Req /\ ~Finished(r) /\ r \notin running /\ ~Emit(r)
      BY <1>1, <1>4, <2>2, <3>2, CurIsARow DEF Emission, RetireAndAdmit, Emit
    <3> QED BY <1>4, <3>3, FinishedChanges
  <2>3. CASE Decode
    <3>1. r \in Req /\ ~Finished(r) /\ UNCHANGED finish_reason
      BY <1>1, <1>4, <2>3 DEF Decode, request
    <3> QED BY <3>1 DEF Finished
  <2>4. ASSUME NEW q \in Req, Emit(q) PROVE ~Finished(r)'
    <3>1. r \in todo /\ r # q /\ r \in Req
      BY <1>1, <1>4, <2>4, CurIsARow DEF Emit
    <3>2. ~Finished(r) /\ ~RetireAndAdmit /\ (Emit(r) => r = q)
      BY <1>4, <2>4, <3>1 DEF Emission, RetireAndAdmit, Emit
    <3> QED BY <1>4, <3>1, <3>2, FinishedChanges
  <2> QED BY <2>1, <2>2, <2>3, <2>4, EmitterMoves
<1>5. ASSUME backend = "batched", NEW r \in Req
      PROVE  Unflagged(r)' \/ (Finished(r)' /\ r \in finish_time')
  <2>1. CASE Finished(r) /\ r \in finish_time
    BY <2>1, FinishedStays, EmitterMoves
  <2>2. CASE Unflagged(r) /\ ~(r \in cur /\ fin)
    BY <2>2, UnflaggedStays
  <2>3. CASE r \in cur /\ fin
    BY <1>5, <2>3, FinishedStays, EmitterMoves DEF Emission
  <2> QED BY <1>5, <2>1, <2>2, <2>3 DEF Emission
<1>6. ASSUME NEW r \in cur', epc' = "sink" \/ (epc' = "run" /\ ~fin') PROVE Unflagged(r)'
  BY <1>6, EmittedRow
<1>7. ASSUME fin', NEW r \in cur'
      PROVE  /\ out'[r] > 0
             /\ backend = "batched" => Finished(r)' /\ r \in finish_time'
  BY <1>7, LastRow
<1>8. backend' = backend
  BY BackendStays
<1> QED BY <1>2, <1>3, <1>4, <1>5, <1>6, <1>7, <1>8 DEF Emission
-----------------------------------------------------------------------------
LEMMA SinkIsEntered ==
    ASSUME [Next]_vars, ~Sink, ~RunSink, ~RunToken, ~(\E q \in Req : Emit(q)),
           epc = "sink" \/ epc' = "sink"
    PROVE  UNCHANGED <<epc, cur, out>>
PROOF
<1> USE DEF mailbox, rows, thread, request, handler, Thread
<1>1. ASSUME NEW q \in Req, HandlerStep(q) \/ Leave(q) PROVE UNCHANGED <<epc, cur, out>>
  BY <1>1, Zenon DEF HandlerStep, Leave, ReadInbox, AdmitOrReject, Put, SetWake, Receive, Resume,
     CheckFinished, Cancel
<1>2. ASSUME Stop \/ StopWakes \/ UNCHANGED vars PROVE UNCHANGED <<epc, cur, out>>
  BY <1>2, Zenon DEF Stop, StopWakes, vars
<1>3. ~LoopStep /\ ~TimesOut
  BY DEF LoopStep, Top, GetNowait, SubmitHand, InboxEmpty, Woken, Clear, TimesOut,
     RetireAndAdmit, Decode, StepReturns, NaiveStep, RunEnds, Label
<1> QED BY <1>1, <1>2, <1>3 DEF Next

(* The tokens a handler has taken or will find are those generated so far,  *)
(* but for the one in the sink.                                             *)
Owed(r) == IF r \in cur /\ epc = "sink" THEN 1 ELSE 0
TokensOf(r) ==
    /\ got[r] + Len(events[r]) = out[r] - Owed(r)
    /\ \A i \in DOMAIN events[r] : events[r][i] => i = Len(events[r]) /\ got[r] + i = out[r]

(* Arithmetic of a Receive: the place of a token in the queue moves down as *)
(* the count of tokens taken goes up.                                       *)
LEMMA OneFurther ==
    ASSUME NEW i \in Int, NEW n \in Nat, NEW g \in Nat, NEW o \in Nat,
           i + 1 = n, g + (i + 1) = o
    PROVE  i = n - 1 /\ (g + 1) + i = o
OBVIOUS

LEMMA TokensStep ==
    ASSUME EngineLoopAssumption, TypeOK, Rows, Places, Clients, Emission, [Next]_vars,
           NEW r \in Req, TokensOf(r)
    PROVE  TokensOf(r)'
PROOF
<1> USE DEF mailbox, rows, thread, request, handler, Thread
<1>1. got[r] \in Nat /\ out[r] \in Nat /\ Len(events[r]) \in Nat /\ fin \in BOOLEAN
  BY LenProperties DEF TypeOK
<1>2. CASE Receive(r)
  <2>1. UNCHANGED <<out, cur, epc>> /\ events[r] # <<>>
        /\ events'[r] = Tail(events[r]) /\ got'[r] = got[r] + 1
    BY <1>2 DEF Receive, TypeOK
  <2>2. Owed(r)' = Owed(r)
    BY <2>1 DEF Owed
  <2>5. Len(events'[r]) = Len(events[r]) - 1 /\ out'[r] = out[r]
    BY <2>1, TailEvent
  <2>6. got'[r] = got[r] + 1
    BY <2>1
  <2>3. got'[r] + Len(events'[r]) = out'[r] - Owed(r)'
    <3>1. Owed(r) \in {0, 1} /\ got[r] + Len(events[r]) = out[r] - Owed(r)
      BY DEF TokensOf, Owed
    <3> QED BY <1>1, <2>1, <2>2, <2>5, <3>1
  <2>4. ASSUME NEW i \in DOMAIN events'[r], events'[r][i]
        PROVE  i = Len(events'[r]) /\ got'[r] + i = out'[r]
    <3>1. i \in 1..(Len(events[r]) - 1) /\ events[r][i + 1] /\ i + 1 \in DOMAIN events[r]
      BY <2>1, <2>4, TailEvent
    <3>2. i + 1 = Len(events[r]) /\ got[r] + (i + 1) = out[r]
      BY <3>1 DEF TokensOf
    <3>3. i \in Int
      BY <1>1, <3>1
    <3>4. i = Len(events[r]) - 1 /\ (got[r] + 1) + i = out[r]
      BY <1>1, <3>2, <3>3, OneFurther
    <3>5. i = Len(events'[r])
      BY <2>5, <3>4
    <3>6. got'[r] + i = out'[r]
      BY <2>5, <2>6, <3>4
    <3> QED BY <3>5, <3>6
  <2> QED BY <2>3, <2>4 DEF TokensOf
<1>3. CASE (Sink \/ RunSink) /\ r \in cur
  <2>1. /\ epc = "sink" /\ epc' # "sink" /\ UNCHANGED <<out, got>>
        /\ events'[r] = Append(events[r], fin)
    BY <1>3 DEF Sink, RunSink, Send, TypeOK
  <2>2. Owed(r) = 1 /\ Owed(r)' = 0
    BY <1>3, <2>1 DEF Owed
  <2>3. got[r] + Len(events[r]) = out[r] - 1
    BY <2>2 DEF TokensOf
  <2>4. Unflagged(r)
    BY <1>3, <2>1 DEF Emission
  <2>5. ASSUME NEW i \in DOMAIN events'[r], events'[r][i]
        PROVE  i = Len(events[r]) + 1
    BY <1>1, <2>1, <2>4, <2>5, AppendEvent DEF Unflagged
  <2>6. Len(events'[r]) = Len(events[r]) + 1
    BY <1>1, <2>1, AppendEvent
  <2>9. got'[r] = got[r] /\ out'[r] = out[r]
    BY <2>1
  <2>7. got'[r] + Len(events'[r]) = out'[r] - Owed(r)'
    BY <1>1, <2>9, <2>2, <2>3, <2>6, SMTT(30)
  <2>8. got'[r] + (Len(events[r]) + 1) = out'[r]
    BY <1>1, <2>9, <2>3, SMTT(30)
  <2> QED BY <2>5, <2>6, <2>7, <2>8 DEF TokensOf
<1>4. ASSUME events'[r] = events[r], got'[r] = got[r], out'[r] = out[r], Owed(r)' = Owed(r)
      PROVE  TokensOf(r)'
  BY <1>4 DEF TokensOf
<1>5. ASSUME events'[r] = events[r], got'[r] = got[r], out'[r] = out[r] + 1,
             Owed(r)' = 1, Owed(r) = 0, Unflagged(r)
      PROVE  TokensOf(r)'
  BY <1>1, <1>5 DEF TokensOf, Unflagged
<1>6. ASSUME ~Receive(r), ~((Sink \/ RunSink) /\ r \in cur)
      PROVE  TokensOf(r)'
  <2>1. events'[r] = events[r] /\ got'[r] = got[r]
    BY <1>6, EventsChange
  <2>2. CASE Sink \/ RunSink
    <3>1. r \notin cur /\ out'[r] = out[r] /\ epc' # "sink"
      BY <1>6, <2>2 DEF Sink, RunSink
    <3> QED BY <1>4, <2>1, <3>1 DEF Owed
  <2>3. ASSUME NEW q \in Req, Emit(q) PROVE TokensOf(r)'
    <3>1. epc # "sink" /\ epc' = "sink" /\ cur' = {q} /\ q \in todo
      BY <2>3 DEF Emit
    <3>2. CASE r # q
      BY <1>4, <2>1, <2>3, <3>1, <3>2 DEF Owed, Emit, TypeOK
    <3>3. CASE r = q
      <4>1. out'[r] = out[r] + 1 /\ Owed(r)' = 1 /\ Owed(r) = 0
        BY <2>3, <3>1, <3>3 DEF Emit, Owed, TypeOK
      <4>2. backend = "batched" /\ ~Finished(r)
        BY <3>1, <3>3, CurIsARow DEF Rows, Emission
      <4> QED BY <1>5, <2>1, <4>1, <4>2 DEF Emission
    <3> QED BY <3>2, <3>3
  <2>4. CASE RunToken
    <3>1. epc = "run" /\ epc' = "sink" /\ ~fin /\ UNCHANGED cur
      BY <2>4 DEF RunToken
    <3>2. CASE r \notin cur
      BY <1>4, <2>1, <2>4, <3>1, <3>2 DEF Owed, RunToken, TypeOK
    <3>3. CASE r \in cur
      <4>1. out'[r] = out[r] + 1 /\ Owed(r)' = 1 /\ Owed(r) = 0
        BY <2>4, <3>1, <3>3 DEF RunToken, Rows, Owed, TypeOK
      <4> QED BY <1>5, <2>1, <3>1, <3>3, <4>1 DEF Emission
    <3> QED BY <3>2, <3>3
  <2>5. ASSUME ~Sink, ~RunSink, ~RunToken, ~(\E q \in Req : Emit(q)) PROVE TokensOf(r)'
    <3>1. UNCHANGED out
      BY <2>5, WhoMoves
    <3>2. epc = "sink" \/ epc' = "sink" => UNCHANGED <<epc, cur>>
      BY <2>5, SinkIsEntered
    <3> QED BY <1>4, <2>1, <3>1, <3>2 DEF Owed
  <2> QED BY <2>2, <2>3, <2>4, <2>5
<1> QED BY <1>2, <1>3, <1>6

-----------------------------------------------------------------------------
(* What a handler is told at the end.                                       *)
LEMMA LabelsStep ==
    ASSUME EngineLoopAssumption, TypeOK, Emission, Cancelling, LastTokenComesLabelled, [Next]_vars
    PROVE  Cancelling' /\ LastTokenComesLabelled'
PROOF
<1> USE DEF mailbox, rows, thread, request, handler, Goto
<1>1. SUFFICES ASSUME backend = "batched", NEW r \in Req
               PROVE  /\ hpc'[r] = "cancel" => r \in left'
                      /\ hpc'[r] = "finally" => r \in left' \/ Finished(r)'
                      /\ hpc'[r] = "summary" \/ status'[r] = "ok" => Finished(r)' /\ r \in finish_time'
                      /\ r \in cancelled' => r \in left'
  BY BackendStays DEF Cancelling, LastTokenComesLabelled, Finished
<1>2. /\ hpc[r] = "cancel" => r \in left
      /\ hpc[r] = "finally" => r \in left \/ Finished(r)
      /\ hpc[r] = "summary" \/ status[r] = "ok" => Finished(r) /\ r \in finish_time
      /\ r \in cancelled => r \in left
  BY <1>1 DEF Cancelling, LastTokenComesLabelled
<1>3. /\ Finished(r) => Finished(r)'
      /\ r \in finish_time => r \in finish_time'
  BY FinishedStays, EmitterMoves
<1>4. CASE UNCHANGED <<hpc, status, cancelled, left>>
  BY <1>2, <1>3, <1>4
<1>5. ASSUME NEW q \in Req, HandlerStep(q) \/ Leave(q), q # r
      PROVE  hpc'[r] = hpc[r] /\ status'[r] = status[r] /\ left \subseteq left'
             /\ (r \in cancelled' => r \in cancelled)
  <2>1. hpc'[r] = hpc[r]
    <3>1. \E p : hpc' = [hpc EXCEPT ![q] = p]
      BY <1>5 DEF HandlerStep, Leave, ReadInbox, AdmitOrReject, Put, SetWake, Receive, Resume,
         CheckFinished, Cancel
    <3> QED BY <1>5, <3>1 DEF TypeOK
  <2>2. status'[r] = status[r]
    <3>1. UNCHANGED status \/ \E p : status' = [status EXCEPT ![q] = p]
      BY <1>5 DEF HandlerStep, Leave, ReadInbox, AdmitOrReject, Put, SetWake, Receive, Resume,
         CheckFinished, Cancel
    <3> QED BY <1>5, <3>1 DEF TypeOK
  <2>3. left \subseteq left' /\ cancelled' \subseteq cancelled \cup {q}
    BY <1>5 DEF HandlerStep, Leave, ReadInbox, AdmitOrReject, Put, SetWake, Receive, Resume,
       CheckFinished, Cancel
  <2> QED BY <1>5, <2>1, <2>2, <2>3
<1>6. CASE ReadInbox(r) \/ AdmitOrReject(r)
  BY <1>2, <1>3, <1>6 DEF ReadInbox, AdmitOrReject, TypeOK
<1>7. CASE Put(r) \/ SetWake(r)
  BY <1>2, <1>3, <1>7 DEF Put, SetWake, TypeOK
<1>8. CASE Receive(r)
  <2>1. CASE Head(events[r])
    <3>1. events[r] # <<>> /\ ~Unflagged(r)
      <4>1. events[r] # <<>>
        BY <1>8 DEF Receive
      <4>2. 1 \in DOMAIN events[r] /\ events[r][1]
        <5>1. 1 \in DOMAIN events[r] /\ Head(events[r]) = events[r][1]
          BY <4>1, TailEvent
        <5> QED BY <2>1, <5>1, Zenon
      <4> QED BY <4>1, <4>2 DEF Unflagged
    <3>2. Finished(r) /\ r \in finish_time /\ UNCHANGED <<cancelled, left>>
      BY <1>1, <1>8, <3>1 DEF Emission, Receive
    <3>3. hpc'[r] \in {"summary", "finally"}
      BY <1>8, <2>1 DEF Receive, TypeOK
    <3> QED BY <1>2, <1>3, <3>2, <3>3
  <2>2. CASE ~Head(events[r])
    <3>1. hpc'[r] \in {"yield", "await"} /\ status'[r] = "error" /\ UNCHANGED <<cancelled, left>>
      BY <1>8, <2>2 DEF Receive, TypeOK
    <3> QED BY <1>2, <3>1
  <2> QED BY <2>1, <2>2
<1>9. CASE Resume(r)
  <2>1. CASE hpc[r] = "yield"
    <3>1. hpc'[r] = "await" /\ UNCHANGED <<status, cancelled, left>>
      BY <1>9, <2>1 DEF Resume, TypeOK
    <3> QED BY <1>2, <1>3, <3>1
  <2>2. CASE hpc[r] = "summary"
    <3>1. hpc'[r] = "finally" /\ UNCHANGED <<cancelled, left>>
      BY <1>9, <2>2 DEF Resume, TypeOK
    <3> QED BY <1>2, <1>3, <2>2, <3>1
  <2> QED BY <1>9, <2>1, <2>2 DEF Resume
<1>10. CASE Leave(r)
  <2>1. hpc'[r] = "finally" /\ r \in left' /\ status'[r] # "ok" /\ UNCHANGED cancelled
    BY <1>10 DEF Leave, TypeOK
  <2> QED BY <2>1
<1>11. CASE CheckFinished(r)
  <2>1. /\ hpc[r] = "finally" /\ hpc'[r] = IF Finished(r) THEN "done" ELSE "cancel"
        /\ UNCHANGED <<status, cancelled, left>>
    BY <1>11 DEF CheckFinished, TypeOK
  <2> QED BY <1>2, <1>3, <2>1
<1>12. CASE Cancel(r)
  <2>1. hpc[r] = "cancel" /\ hpc'[r] = "done" /\ status'[r] # "ok" /\ UNCHANGED left
    BY <1>12 DEF Cancel, TypeOK
  <2> QED BY <1>2, <2>1
<1>13. ASSUME LoopStep \/ TimesOut \/ Stop \/ StopWakes \/ UNCHANGED vars
       PROVE  UNCHANGED <<hpc, status, cancelled, left>>
  BY <1>13, Zenon DEF vars, Stop, StopWakes, LoopStep, Top, GetNowait, SubmitHand, InboxEmpty, Woken, Clear,
     TimesOut, RetireAndAdmit, Decode, Emit, Sink, StepReturns, NaiveStep, RunToken, RunSink,
     RunEnds, Label
<1>14. ASSUME NEW q \in Req, HandlerStep(q) \/ Leave(q), q # r
       PROVE  /\ hpc'[r] = "cancel" => r \in left'
              /\ hpc'[r] = "finally" => r \in left' \/ Finished(r)'
              /\ hpc'[r] = "summary" \/ status'[r] = "ok" => Finished(r)' /\ r \in finish_time'
              /\ r \in cancelled' => r \in left'
  BY <1>2, <1>3, <1>5, <1>14
<1> QED
  BY <1>4, <1>6, <1>7, <1>8, <1>9, <1>10, <1>11, <1>12, <1>13, <1>14 DEF Next, HandlerStep
-----------------------------------------------------------------------------
(* The invariant the results rest on.                                       *)
HandOver ==
    /\ TypeOK /\ Rows /\ Places /\ Clients /\ Admission /\ Emission /\ Cancelling
    /\ LastTokenComesLabelled
    /\ \A r \in Req : TokensOf(r)

LEMMA HandOverInit ==
    ASSUME EngineLoopAssumption, Init PROVE HandOver
PROOF
<1>1. TypeOK
  BY TypeOKInit
<1>2. ToSet(inbox) = {} /\ ToSet(waiting) = {} /\ NoRepeats(inbox) /\ NoRepeats(waiting)
  BY DEF Init, ToSet, NoRepeats
<1>3. Incoming = {} /\ Held = {} /\ Fresh = {} /\ ToSet(inbox) \cup hand = {}
  BY <1>2 DEF Init, Incoming, Held, Fresh
<1>4. Rows
  BY DEF Init, Rows
<1>5. Places /\ Clients
  BY <1>2, <1>3 DEF Init, Places, Clients
<1>6. Admission
  BY <1>3, FS_EmptySet DEF Init, Admission, EngineLoopAssumption
<1>7. \A r \in Req : Unflagged(r) /\ ~Finished(r) /\ events[r] = <<>>
  BY DEF Init, Unflagged, Finished
<1>8. Pending \subseteq Req
  BY <1>3 DEF Pending
<1>9. Emission
  BY <1>7, <1>8 DEF Init, Emission
<1>10. Cancelling /\ LastTokenComesLabelled
  BY DEF Init, Cancelling, LastTokenComesLabelled
<1>11. \A r \in Req : TokensOf(r)
  <2> TAKE r \in Req
  <2>1. Len(events[r]) = 0 /\ DOMAIN events[r] = {} /\ got[r] = 0 /\ out[r] = 0
    BY <1>7, EmptySeq DEF Init
  <2>2. Owed(r) = 0
    BY DEF Init, Owed
  <2> QED BY <2>1, <2>2 DEF TokensOf
<1> QED BY <1>1, <1>4, <1>5, <1>6, <1>9, <1>10, <1>11 DEF HandOver

LEMMA HandOverStep ==
    ASSUME EngineLoopAssumption, HandOver, [Next]_vars PROVE HandOver'
PROOF
<1> USE DEF HandOver
<1>1. TypeOK'
  BY TypeOKStep
<1>2. Rows'
  BY RowsHandler, RowsLoop DEF Next
<1>3. Places' /\ Clients'
  BY PlacesStep, ClientsStep
<1>4. Admission'
  BY AdmissionStep
<1>5. Emission'
  BY EmissionStep
<1>6. Cancelling' /\ LastTokenComesLabelled'
  BY LabelsStep
<1>7. \A r \in Req : TokensOf(r)'
  BY TokensStep
<1> QED BY <1>1, <1>2, <1>3, <1>4, <1>5, <1>6, <1>7

THEOREM HandOverInvariant == Spec => []HandOver
PROOF
<1>1. Init => HandOver
  BY HandOverInit, EngineLoopAssumption
<1>2. HandOver /\ [Next]_vars => HandOver'
  BY HandOverStep, EngineLoopAssumption
<1> QED BY <1>1, <1>2, PTL DEF Spec

(* Front-door admission control: although submit() reads the two queues at  *)
(* different times and the request in the engine thread's hand is in        *)
(* neither, no more than max_queue + 1 requests ever wait to run.           *)
THEOREM QueueIsBounded == Spec => []FreshQueueBounded
PROOF
<1>1. HandOver => FreshQueueBounded
  <2> SUFFICES ASSUME HandOver PROVE FreshQueueBounded
    OBVIOUS
  <2> DEFINE F == {r \in Req : out[r] = 0} \cap (ToSet(inbox) \cup hand \cup ToSet(waiting))
  <2>1. F \subseteq Fresh /\ Fresh \subseteq Req
    BY MembersFacts DEF Fresh, HandOver, TypeOK
  <2>2. IsFiniteSet(Fresh) /\ Cardinality(Fresh) \in Nat /\ Cardinality(Fresh) <= MaxQueue + 1
    BY <2>1, EngineLoopAssumption, FS_Subset, FS_CardinalityType
    DEF EngineLoopAssumption, HandOver, Admission
  <2>3. Cardinality(F) <= Cardinality(Fresh) /\ Cardinality(F) \in Nat
    BY <2>1, <2>2, FS_Subset, FS_CardinalityType
  <2>4. MaxQueue \in Nat
    BY EngineLoopAssumption DEF EngineLoopAssumption
  <2> QED BY <2>2, <2>3, <2>4 DEF FreshQueueBounded
<1> QED BY <1>1, HandOverInvariant, PTL

(* A request that submit() accepted is in one place, once, until it is      *)
(* finished or its client has cancelled it: none is lost or run twice.      *)
THEOREM NothingLostOrDoubled == Spec => []HeldOnce
PROOF
<1>1. HandOver => HeldOnce
  <2> SUFFICES ASSUME HandOver, NEW r \in Req
               PROVE  LET places == Cardinality({i \in DOMAIN inbox : inbox[i] = r})
                              + Cardinality({i \in DOMAIN waiting : waiting[i] = r})
                              + Cardinality({S \in {<<1, hand>>, <<2, running>>, <<3, batch>>} :
                                               r \in S[2]})
                      IN  /\ places <= 1
                          /\ hpc[r] \in {"wake", "await", "yield"} /\ ~Finished(r) => places = 1
    BY Zenon DEF HeldOnce
  <2> DEFINE rs == {S \in {<<1, hand>>, <<2, running>>, <<3, batch>>} : r \in S[2]}
  <2>1. Cardinality({i \in DOMAIN inbox : inbox[i] = r}) = IF r \in ToSet(inbox) THEN 1 ELSE 0
    BY MembersFacts DEF HandOver, TypeOK, Places
  <2>2. Cardinality({i \in DOMAIN waiting : waiting[i] = r}) = IF r \in ToSet(waiting) THEN 1 ELSE 0
    BY MembersFacts DEF HandOver, TypeOK, Places
  <2>3. /\ ~(r \in hand /\ r \in running) /\ ~(r \in hand /\ r \in batch)
        /\ ~(r \in running /\ r \in batch)
    BY DEF HandOver, Places, Incoming
  <2>4. Cardinality(rs) = IF r \in hand \cup running \cup batch THEN 1 ELSE 0
    <3>1. CASE r \in hand
      <4>1. rs = {<<1, hand>>}
        BY <2>3, <3>1
      <4> QED BY <3>1, <4>1, FS_Singleton
    <3>2. CASE r \in running
      <4>1. rs = {<<2, running>>}
        BY <2>3, <3>2
      <4> QED BY <3>2, <4>1, FS_Singleton
    <3>3. CASE r \in batch
      <4>1. rs = {<<3, batch>>}
        BY <2>3, <3>3
      <4> QED BY <3>3, <4>1, FS_Singleton
    <3>4. CASE r \notin hand \cup running \cup batch
      <4>1. rs = {}
        BY <3>4
      <4> QED BY <3>4, <4>1, FS_EmptySet
    <3> QED BY <3>1, <3>2, <3>3, <3>4
  <2>5. /\ ~(r \in ToSet(inbox) /\ r \in ToSet(waiting))
        /\ ~(r \in ToSet(inbox) \cup ToSet(waiting) /\ r \in hand \cup running \cup batch)
    BY DEF HandOver, Places, Incoming
  <2>6. hpc[r] \in {"wake", "await", "yield"} /\ ~Finished(r) =>
          r \in ToSet(inbox) \cup ToSet(waiting) \cup (hand \cup running \cup batch)
    BY DEF HandOver, Clients, Held, Incoming
  <2> HIDE DEF rs
  <2> QED BY <2>1, <2>2, <2>4, <2>5, <2>6 DEF rs
<1> QED BY <1>1, HandOverInvariant, PTL

(* Each token reaches the handler once, and the last one is the last.       *)
THEOREM TokensArriveOnce == Spec => []EachTokenOnce
PROOF
<1>1. HandOver => EachTokenOnce
  BY DEF HandOver, TokensOf, Owed, EachTokenOnce
<1> QED BY <1>1, HandOverInvariant, PTL

(* The batched schedulers label a request before its last token is sent.    *)
THEOREM LabelsComeFirst == Spec => []LastTokenComesLabelled
PROOF
<1>1. HandOver => LastTokenComesLabelled
  BY DEF HandOver
<1> QED BY <1>1, HandOverInvariant, PTL

(* NaiveScheduler's thread dies of a request for no tokens only: not of one *)
(* that was cancelled before its first token.                               *)
THEOREM NaiveDiesOneWay == Spec => []NaiveDiesOnlyOfEmptyOutput
PROOF
<1>1. Init => NaiveDiesOnlyOfEmptyOutput
  BY DEF Init, NaiveDiesOnlyOfEmptyOutput
<1>2. ASSUME HandOver, NaiveDiesOnlyOfEmptyOutput, [Next]_vars
      PROVE  NaiveDiesOnlyOfEmptyOutput'
  <2> USE DEF mailbox, rows, thread, request, handler, Thread
  <2>1. CASE RunEnds
    <3>1. PICK r \in cur : /\ fin \/ out[r] >= MaxNew[r] \/ r \in cancelled
                           /\ epc' = "dead" => out[r] = 0 /\ ~Abandoned(r)
      BY <2>1 DEF RunEnds
    <3>2. r \in Req /\ MaxNew[r] \in Int /\ (fin => out[r] > 0) /\ out[r] \in Nat
      <4>1. TypeOK /\ (fin => \A q \in cur : out[q] > 0)
        BY <1>2 DEF HandOver, Emission
      <4>2. r \in Req /\ out[r] \in Nat
        BY <4>1 DEF TypeOK
      <4>3. MaxNew[r] \in Int
        BY <4>2, EngineLoopAssumption DEF EngineLoopAssumption
      <4> QED BY <4>1, <4>2, <4>3
    <3>3. epc' = "dead" => MaxNew[r] <= 0 /\ out[r] = 0
      BY <3>1, <3>2 DEF Abandoned
    <3>4. backend' = "naive" /\ UNCHANGED <<cur, out>>
      <4>1. epc = "run" /\ UNCHANGED <<backend, cur, out>>
        BY <2>1 DEF RunEnds
      <4>2. backend \in {"naive", "batched"} /\ Rows
        BY <1>2, EngineLoopAssumption DEF HandOver, TypeOK, EngineLoopAssumption
      <4> QED BY <4>1, <4>2 DEF Rows
    <3> QED BY <3>3, <3>4 DEF NaiveDiesOnlyOfEmptyOutput
  <2>2. ASSUME epc' # "dead" PROVE NaiveDiesOnlyOfEmptyOutput'
    BY <2>2 DEF NaiveDiesOnlyOfEmptyOutput
  <2>3. ASSUME UNCHANGED <<epc, backend, cur, out>> PROVE NaiveDiesOnlyOfEmptyOutput'
    BY <1>2, <2>3 DEF NaiveDiesOnlyOfEmptyOutput
  <2>4. ASSUME NEW q \in Req, HandlerStep(q) \/ Leave(q) PROVE UNCHANGED <<epc, backend, cur, out>>
    BY <2>4, Zenon DEF HandlerStep, Leave, ReadInbox, AdmitOrReject, Put, SetWake, Receive, Resume,
       CheckFinished, Cancel
  <2>5. ASSUME Stop \/ StopWakes \/ UNCHANGED vars PROVE UNCHANGED <<epc, backend, cur, out>>
    BY <2>5, Zenon DEF Stop, StopWakes, vars
  <2>6. CASE RetireAndAdmit \/ Decode
    <3>1. backend' # "naive"
      BY <1>2, <2>6 DEF HandOver, Rows, RetireAndAdmit, Decode
    <3> QED BY <3>1 DEF NaiveDiesOnlyOfEmptyOutput
  <2>7. ASSUME LoopStep \/ TimesOut, ~RunEnds, ~RetireAndAdmit, ~Decode PROVE epc' # "dead"
    BY <2>7 DEF LoopStep, Top, GetNowait, SubmitHand, InboxEmpty, Woken, Clear, TimesOut,
       Emit, Sink, StepReturns, NaiveStep, RunToken, RunSink, Label
  <2> QED BY <1>2, <2>1, <2>2, <2>3, <2>4, <2>5, <2>6, <2>7 DEF Next
<1> QED BY <1>1, <1>2, HandOverInvariant, PTL DEF Spec
=============================================================================
