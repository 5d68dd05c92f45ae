----------------------------- MODULE DataLemmas -----------------------------
(***************************************************************************)
(* Induction over numbers, what a fold and a recursive function are, and   *)
(* counting: the facts that the proofs about lists of tokens, slots and    *)
(* points rest on.  The library's induction theorems take a predicate;     *)
(* here the predicate is the set of the numbers that have it.              *)
(***************************************************************************)
EXTENDS Integers, SequencesExt, Orders, SequenceTheorems, FiniteSetTheorems, WellFoundedInduction, TLAPS

(* Induction: a set that has 0 and the successor of each number it has      *)
(* below n has all of 0..n.                                                 *)
LEMMA UpTo ==
    ASSUME NEW n \in Nat, NEW S, 0 \in S, \A k \in 0..(n - 1) : k \in S => k + 1 \in S
    PROVE  \A k \in 0..n : k \in S
PROOF
<1> DEFINE Bad == {k \in Nat : k <= n /\ k \notin S}
<1> SUFFICES ASSUME Bad # {} PROVE FALSE
  OBVIOUS
<1>1. PICK k \in Bad : \A j \in Bad : <<j, k>> \notin OpToRel(<, Nat)
  BY NatLessThanWellFounded, WFMin, Bad \subseteq Nat, Zenon
<1>2. \A j \in Nat : j < k => j \notin Bad
  BY <1>1 DEF OpToRel
<1>3. k \in Nat /\ k <= n /\ k # 0 /\ k \notin S
  OBVIOUS
<1>4. k - 1 \in Nat /\ k - 1 < k /\ k - 1 <= n /\ k - 1 \in 0..(n - 1)
  BY <1>3
<1>5. k - 1 \in S
  BY <1>2, <1>4
<1> QED BY <1>3, <1>4, <1>5

(* Division.                                                                *)
LEMMA DivFacts ==
    ASSUME NEW a \in Nat, NEW b \in Nat \ {0}
    PROVE  /\ a \div b \in Nat /\ a % b \in 0..(b - 1)
           /\ a = (a \div b) * b + (a % b) /\ (a \div b) * b \in Nat
PROOF
<1>1. a \div b \in Nat
  BY SMTT(30)
<1>2. a % b \in 0..(b - 1)
  BY SMTT(30)
<1>3. a = (a \div b) * b + (a % b)
  BY SMTT(30)
<1>4. (a \div b) * b \in Nat
  BY <1>1
<1> QED BY <1>1, <1>2, <1>3, <1>4

(* The run of the steps g from base: d[i] is its state after i steps.       *)
IsRun(n, St, base, g, d) ==
    /\ d \in [0..n -> St]
    /\ d[0] = base
    /\ \A i \in 1..n : d[i] = g[<<i, d[i - 1]>>]

(* A recursion over 0..n has a solution.                                    *)
LEMMA RunExists ==
    ASSUME NEW n \in Nat, NEW St, NEW base \in St, NEW g \in [(1..n) \X St -> St]
    PROVE  \E d : IsRun(n, St, base, g, d)
PROOF
<1> DEFINE Good(k, d) == /\ d \in [0..k -> St]
                         /\ d[0] = base
                         /\ \A i \in 1..k : d[i] = g[<<i, d[i - 1]>>]
           S == {k \in 0..n : \E d : Good(k, d)}
<1>1. 0 \in S
  <2>1. Good(0, [i \in 0..0 |-> base])
    OBVIOUS
  <2> HIDE DEF Good
  <2>2. 0 \in 0..n /\ \E d : Good(0, d)
    BY <2>1
  <2> QED BY <2>2
<1>2. ASSUME NEW k \in 0..(n - 1), k \in S PROVE k + 1 \in S
  <2>1. PICK d : Good(k, d)
    BY <1>2
  <2> DEFINE e == [i \in 0..(k + 1) |-> IF i = k + 1 THEN g[<<k + 1, d[k]>>] ELSE d[i]]
  <2>2. k \in Nat /\ k + 1 \in 1..n /\ k + 1 \in 0..n
    OBVIOUS
  <2>3. e \in [0..(k + 1) -> St] /\ e[0] = base
    BY <2>1, <2>2
  <2>4. ASSUME NEW i \in 1..(k + 1) PROVE e[i] = g[<<i, e[i - 1]>>]
    <3>1. i - 1 \in 0..k /\ i - 1 # k + 1 /\ i - 1 \in 0..(k + 1)
      BY <2>2
    <3>2. e[i - 1] = d[i - 1]
      BY <3>1
    <3>3. CASE i = k + 1
      BY <2>2, <3>2, <3>3, SMTT(30)
    <3>4. CASE i # k + 1
      <4>1. i \in 1..k /\ e[i] = d[i]
        BY <2>2, <3>4
      <4> QED BY <2>1, <3>2, <4>1
    <3> QED BY <3>3, <3>4
  <2>5. Good(k + 1, e)
    BY <2>3, <2>4
  <2> QED BY <2>2, <2>5
<1> HIDE DEF S
<1>3. \A k \in 0..n : k \in S
  BY <1>1, <1>2, UpTo
<1>4. n \in S
  BY <1>3
<1> QED BY <1>4 DEF S, IsRun

(* A run that starts in St and whose steps stay in St stays in St.          *)
LEMMA RunTyped ==
    ASSUME NEW n \in Nat, NEW St, NEW d, d[0] \in St,
           \A i \in 1..n : d[i - 1] \in St => d[i] \in St
    PROVE  \A i \in 0..n : d[i] \in St
PROOF
<1> DEFINE S == {i \in 0..n : d[i] \in St}
<1>1. 0 \in S
  OBVIOUS
<1>2. ASSUME NEW k \in 0..(n - 1), k \in S PROVE k + 1 \in S
  <2>1. k + 1 \in 1..n /\ (k + 1) - 1 = k /\ k + 1 \in 0..n
    OBVIOUS
  <2> QED BY <1>2, <2>1
<1> HIDE DEF S
<1>3. \A k \in 0..n : k \in S
  BY <1>1, <1>2, UpTo
<1> QED BY <1>3 DEF S

(* The greatest element of a set of numbers up to k + 1 that has k + 1.     *)
LEMMA MaxOfTop ==
    ASSUME NEW k \in Nat, NEW s \in SUBSET (1..k), k \in s
    PROVE  Max(s) = k
PROOF
<1>1. \A x \in s : x <= k /\ x \in Nat
  OBVIOUS
<1>2. \A m \in s : (\A x \in s : m >= x) => m = k
  BY <1>1
<1> QED BY <1>1, <1>2 DEF Max

(* 1..k without its greatest element.                                       *)
LEMMA WithoutTop ==
    ASSUME NEW n \in Nat, NEW k \in 1..n
    PROVE  /\ Max(1..k) = k /\ (1..k) \ {k} = 1..(k - 1)
           /\ 1..k # {} /\ 1..k \in SUBSET (1..n) /\ k - 1 \in 0..n /\ k \in 0..n
PROOF
<1>1. Max(1..k) = k
  BY MaxOfTop
<1>2. (1..k) \ {k} = 1..(k - 1)
  OBVIOUS
<1>3. k \in 1..k /\ k - 1 \in 0..n /\ k \in 0..n
  OBVIOUS
<1>4. \A x \in 1..k : x \in 1..n
  OBVIOUS
<1> QED BY <1>1, <1>2, <1>3, <1>4

(* A set of numbers up to n that is not empty has a greatest element.       *)
LEMMA MaxIn ==
    ASSUME NEW n \in Nat, NEW s \in SUBSET (1..n), s # {}
    PROVE  Max(s) \in s /\ \A x \in s : x <= Max(s)
PROOF
<1> DEFINE Top(t) == \E m \in t : \A x \in t : x <= m
           S == {k \in 0..n : \A t \in SUBSET (1..k) : t # {} => Top(t)}
<1>1. 0 \in S
  <2>1. \A t \in SUBSET (1..0) : t = {}
    OBVIOUS
  <2>2. 0 \in 0..n
    OBVIOUS
  <2> QED BY <2>1, <2>2
<1>2. ASSUME NEW k \in 0..(n - 1), k \in S PROVE k + 1 \in S
  <2>1. ASSUME NEW t \in SUBSET (1..(k + 1)), t # {} PROVE Top(t)
    <3>1. CASE k + 1 \in t
      <4>1. \A x \in t : x <= k + 1
        OBVIOUS
      <4> QED BY <3>1, <4>1
    <3>2. CASE k + 1 \notin t
      <4>1. t \in SUBSET (1..k)
        BY <3>2
      <4> QED BY <1>2, <2>1, <4>1
    <3> QED BY <3>1, <3>2
  <2>2. k + 1 \in 0..n
    OBVIOUS
  <2> HIDE DEF Top
  <2> QED BY <2>1, <2>2
<1> HIDE DEF S
<1>3. \A k \in 0..n : k \in S
  BY <1>1, <1>2, UpTo
<1>4. n \in S
  BY <1>3
<1>5. PICK m \in s : \A x \in s : x <= m
  BY <1>4 DEF S
<1>6. \A x \in s : m >= x
  BY <1>5
<1>7. Max(s) \in s /\ \A x \in s : Max(s) >= x
  BY <1>6 DEF Max
<1> QED BY <1>7

(* A set of numbers that is not empty has a least element.                  *)
LEMMA LeastIn ==
    ASSUME NEW s \in SUBSET Nat, s # {}
    PROVE  \E m \in s : \A x \in s : m <= x
PROOF
<1>1. PICK m \in s : \A x \in s : <<x, m>> \notin OpToRel(<, Nat)
  BY NatLessThanWellFounded, WFMin, Zenon
<1>2. ASSUME NEW x \in s PROVE m <= x
  <2>1. m \in Nat /\ x \in Nat /\ ~(x < m)
    BY <1>1 DEF OpToRel
  <2> QED BY <2>1
<1> QED BY <1>2

(* The library's folds: the fold of g over the parts of 1..n, taken from    *)
(* the greatest element down.                                               *)
IsFold(n, St, base, g, it) ==
    /\ it \in [SUBSET (1..n) -> St]
    /\ \A s \in SUBSET (1..n) :
          it[s] = IF s = {} THEN base ELSE g[<<Max(s), it[s \ {Max(s)}]>>]

LEMMA FoldExists ==
    ASSUME NEW n \in Nat, NEW St, NEW base \in St, NEW g \in [(1..n) \X St -> St]
    PROVE  \E it : IsFold(n, St, base, g, it)
PROOF
<1> DEFINE Good(k, it) ==
               /\ it \in [SUBSET (1..k) -> St]
               /\ \A s \in SUBSET (1..k) :
                     it[s] = IF s = {} THEN base ELSE g[<<Max(s), it[s \ {Max(s)}]>>]
           S == {k \in 0..n : \E it : Good(k, it)}
<1>1. 0 \in S
  <2>1. 1..0 = {}
    OBVIOUS
  <2>2. Good(0, [s \in SUBSET (1..0) |-> base])
    BY <2>1
  <2> HIDE DEF Good
  <2>3. 0 \in 0..n /\ \E it : Good(0, it)
    BY <2>2
  <2> QED BY <2>3
<1>2. ASSUME NEW k \in 0..(n - 1), k \in S PROVE k + 1 \in S
  <2>1. PICK it : Good(k, it)
    BY <1>2
  <2> DEFINE up == [s \in SUBSET (1..(k + 1)) |->
                       IF k + 1 \in s THEN g[<<k + 1, it[s \ {k + 1}]>>] ELSE it[s]]
  <2>2. k \in Nat /\ k + 1 \in 1..n /\ k + 1 \in 0..n /\ k + 1 \in Nat
    OBVIOUS
  <2>3. \A s \in SUBSET (1..(k + 1)) : s \ {k + 1} \in SUBSET (1..k)
    BY <2>2
  <2>4. \A s \in SUBSET (1..(k + 1)) : k + 1 \notin s => s \in SUBSET (1..k)
    BY <2>2
  <2>5. up \in [SUBSET (1..(k + 1)) -> St]
    BY <2>1, <2>2, <2>3, <2>4
  <2>6. ASSUME NEW s \in SUBSET (1..(k + 1))
        PROVE up[s] = IF s = {} THEN base ELSE g[<<Max(s), up[s \ {Max(s)}]>>]
    <3>1. CASE k + 1 \in s
      <4>1. Max(s) = k + 1
        BY <2>2, <3>1, MaxOfTop
      <4>2. up[s \ {k + 1}] = it[s \ {k + 1}]
        BY <2>3, s \ {k + 1} \in SUBSET (1..(k + 1)), k + 1 \notin s \ {k + 1}
      <4> QED BY <3>1, <4>1, <4>2
    <3>2. CASE k + 1 \notin s
      <4>1. s \in SUBSET (1..k)
        BY <2>4, <3>2
      <4>2. k + 1 \notin s \ {Max(s)} /\ s \ {Max(s)} \in SUBSET (1..(k + 1))
        BY <3>2
      <4>3. up[s] = it[s] /\ up[s \ {Max(s)}] = it[s \ {Max(s)}]
        BY <3>2, <4>2
      <4> QED BY <2>1, <4>1, <4>3
    <3> QED BY <3>1, <3>2
  <2>7. Good(k + 1, up)
    BY <2>5, <2>6
  <2> QED BY <2>2, <2>7
<1> HIDE DEF S
<1>3. \A k \in 0..n : k \in S
  BY <1>1, <1>2, UpTo
<1>4. n \in S
  BY <1>3
<1> QED BY <1>4 DEF S, IsFold

-----------------------------------------------------------------------------
(* Sequences.                                                               *)

(* The library's RemoveAt leaves out one place.                             *)
LEMMA RemoveAtFacts ==
    ASSUME NEW A, NEW q \in Seq(A), NEW v \in 1..Len(q)
    PROVE  /\ RemoveAt(q, v) \in Seq(A) /\ Len(RemoveAt(q, v)) = Len(q) - 1
           /\ DOMAIN RemoveAt(q, v) = 1..(Len(q) - 1)
           /\ \A k \in 1..(Len(q) - 1) :
                 RemoveAt(q, v)[k] = q[IF k < v THEN k ELSE k + 1]
PROOF
<1> DEFINE n == Len(q)
<1>1. n \in Nat /\ v \in 1..n
  OBVIOUS
<1>2. PICK a : a = SubSeq(q, 1, v - 1)
  OBVIOUS
<1>3. PICK b : b = SubSeq(q, v + 1, n)
  OBVIOUS
<1>4. a \in Seq(A) /\ Len(a) = v - 1 /\ \A i \in 1..(v - 1) : a[i] = q[i]
  BY <1>2
<1>5. b \in Seq(A) /\ Len(b) = n - v /\ \A i \in 1..(n - v) : b[i] = q[v + i]
  BY <1>3
<1> HIDE DEF n
<1>6. /\ a \o b \in Seq(A) /\ Len(a \o b) = n - 1
      /\ \A k \in 1..(n - 1) : (a \o b)[k] = IF k <= v - 1 THEN a[k] ELSE b[k - (v - 1)]
  <2>1. Len(a) + Len(b) = n - 1
    BY <1>1, <1>4, <1>5
  <2> QED BY <1>4, <1>5, <2>1, ConcatProperties
<1>7. \A k \in 1..(n - 1) : (a \o b)[k] = q[IF k < v THEN k ELSE k + 1]
  <2> SUFFICES ASSUME NEW k \in 1..(n - 1) PROVE (a \o b)[k] = q[IF k < v THEN k ELSE k + 1]
    OBVIOUS
  <2>1. CASE k < v
    <3>1. k \in 1..(v - 1) /\ k <= v - 1
      BY <1>1, <2>1
    <3> QED BY <1>4, <1>6, <2>1, <3>1
  <2>2. CASE ~(k < v)
    <3>1. k - (v - 1) \in 1..(n - v) /\ v + (k - (v - 1)) = k + 1 /\ ~(k <= v - 1)
      BY <1>1, <2>2
    <3> QED BY <1>5, <1>6, <2>2, <3>1
  <2> QED BY <2>1, <2>2
<1>8. RemoveAt(q, v) = a \o b
  BY <1>2, <1>3 DEF RemoveAt, n
<1>9. DOMAIN (a \o b) = 1..(n - 1)
  BY <1>1, <1>6
<1> QED BY <1>6, <1>7, <1>8, <1>9 DEF n

(* A sequence grows by its next element.                                    *)
LEMMA NextPrefix ==
    ASSUME NEW A, NEW q \in Seq(A), NEW k \in 0..(Len(q) - 1)
    PROVE  /\ SubSeq(q, 1, k + 1) = Append(SubSeq(q, 1, k), q[k + 1])
           /\ SubSeq(q, 1, k) \in Seq(A) /\ q[k + 1] \in A
PROOF
<1>1. k \in Nat /\ k + 1 \in 1..Len(q) /\ Len(q) \in Nat
  OBVIOUS
<1>2. SubSeq(q, 1, k) \in Seq(A) /\ Len(SubSeq(q, 1, k)) = k
      /\ \A i \in 1..k : SubSeq(q, 1, k)[i] = q[i]
  OBVIOUS
<1>3. SubSeq(q, 1, k + 1) \in Seq(A) /\ Len(SubSeq(q, 1, k + 1)) = k + 1
      /\ \A i \in 1..(k + 1) : SubSeq(q, 1, k + 1)[i] = q[i]
  OBVIOUS
<1>4. q[k + 1] \in A
  BY <1>1
<1> DEFINE a == Append(SubSeq(q, 1, k), q[k + 1])
<1>5. a \in Seq(A) /\ Len(a) = k + 1 /\ \A i \in 1..(k + 1) : a[i] = q[i]
  BY <1>1, <1>2, <1>4
<1> HIDE DEF a
<1>6. SubSeq(q, 1, k + 1) = a
  BY <1>3, <1>5, SeqEqual
<1> QED BY <1>2, <1>4, <1>6 DEF a

(* The set St of sequences is closed under concatenation.                   *)
Closed(St) ==
    /\ <<>> \in St
    /\ \A x \in St : <<>> \o x = x /\ x \o <<>> = x
    /\ \A x, y \in St : x \o y \in St
    /\ \A x, y, z \in St : (x \o y) \o z = x \o (y \o z)

LEMMA SeqClosed ==
    ASSUME NEW A
    PROVE  Closed(Seq(A))
PROOF
<1>1. <<>> \in Seq(A) /\ \A x, y \in Seq(A) : x \o y \in Seq(A)
  OBVIOUS
<1>2. \A x \in Seq(A) : <<>> \o x = x /\ x \o <<>> = x
  BY ConcatEmptySeq
<1>3. \A x, y, z \in Seq(A) : (x \o y) \o z = x \o (y \o z)
  <2> SUFFICES ASSUME NEW x \in Seq(A), NEW y \in Seq(A), NEW z \in Seq(A)
               PROVE  (x \o y) \o z = x \o (y \o z)
    OBVIOUS
  <2> QED BY ConcatAssociative
<1> QED BY <1>1, <1>2, <1>3, Zenon DEF Closed

(* A list q of n sequences of St.                                           *)
Lists(St, n, q) ==
    /\ Closed(St) /\ n \in Nat /\ Len(q) = n /\ (n = 0 => q = <<>>)
    /\ \A i \in 1..n : q[i] \in St

LEMMA SeqOfSeqLists ==
    ASSUME NEW A, NEW q \in Seq(Seq(A))
    PROVE  Lists(Seq(A), Len(q), q)
PROOF
<1>1. Len(q) \in Nat /\ (Len(q) = 0 => q = <<>>) /\ \A i \in 1..Len(q) : q[i] \in Seq(A)
  OBVIOUS
<1>2. Closed(Seq(A))
  BY SeqClosed
<1> QED BY <1>1, <1>2, Zenon DEF Lists

(* A run that joins one sequence of q after the other.                      *)
Joins(q, n, d) == d[0] = <<>> /\ \A i \in 1..n : d[i] = d[i - 1] \o q[i]

(* There is such a run, and its states are sequences.                       *)
LEMMA JoinsExists ==
    ASSUME NEW St, NEW n, NEW q, Lists(St, n, q)
    PROVE  \E d : Joins(q, n, d)
PROOF
<1> DEFINE g == [p \in (1..n) \X St |-> p[2] \o q[p[1]]]
<1>1. n \in Nat /\ \A i \in 1..n : q[i] \in St
  BY DEF Lists
<1>2. g \in [(1..n) \X St -> St]
  BY <1>1 DEF Lists, Closed
<1>3. \A i \in 1..n, s \in St : g[<<i, s>>] = s \o q[i]
  OBVIOUS
<1> HIDE DEF g
<1>4. PICK base : base = <<>> /\ base \in St
  BY DEF Lists, Closed
<1>5. PICK d : IsRun(n, St, base, g, d)
  BY <1>1, <1>2, <1>4, RunExists
<1>6. \A i \in 1..n : i - 1 \in 0..n
  BY <1>1
<1>7. \A i \in 1..n : d[i] = d[i - 1] \o q[i]
  <2> SUFFICES ASSUME NEW i \in 1..n PROVE d[i] = d[i - 1] \o q[i]
    OBVIOUS
  <2>1. PICK s \in St : s = d[i - 1]
    BY <1>5, <1>6 DEF IsRun
  <2>2. d[i] = g[<<i, s>>]
    BY <1>5, <2>1 DEF IsRun
  <2> QED BY <1>3, <2>1, <2>2
<1> QED BY <1>4, <1>5, <1>7 DEF Joins, IsRun

LEMMA JoinsTyped ==
    ASSUME NEW St, NEW n, NEW q, Lists(St, n, q), NEW d, Joins(q, n, d)
    PROVE  \A i \in 0..n : d[i] \in St
PROOF
<1>1. ASSUME NEW i \in 1..n, d[i - 1] \in St PROVE d[i] \in St
  <2>1. PICK x \in St : x = d[i - 1]
    BY <1>1
  <2>2. PICK y \in St : y = q[i]
    BY DEF Lists
  <2>3. x \o y \in St
    BY DEF Lists, Closed
  <2> QED BY <2>1, <2>2, <2>3 DEF Joins
<1>2. d[0] \in St
  BY DEF Joins, Lists, Closed
<1>3. n \in Nat
  BY DEF Lists
<1> QED BY <1>1, <1>2, <1>3, RunTyped

(* The library's FlattenSeq is the last state of the run.                   *)
LEMMA FlattenIs ==
    ASSUME NEW St, NEW n, NEW q, Lists(St, n, q), NEW d, Joins(q, n, d)
    PROVE  FlattenSeq(q) = d[n]
PROOF
<1> DEFINE flatten == CHOOSE f : f = [i \in 1..n |-> IF i = 1 THEN q[i] ELSE f[i - 1] \o q[i]]
           e == [i \in 1..n |-> d[i]]
<1>0. n \in Nat /\ Len(q) = n /\ (n = 0 => q = <<>>) /\ \A i \in 1..n : <<>> \o q[i] = q[i]
  BY DEF Lists, Closed
<1>1. e = [i \in 1..n |-> IF i = 1 THEN q[i] ELSE e[i - 1] \o q[i]]
  <2>1. ASSUME NEW i \in 1..n PROVE e[i] = IF i = 1 THEN q[i] ELSE e[i - 1] \o q[i]
    <3>1. CASE i = 1
      <4>1. e[i] = d[i] /\ i - 1 = 0
        BY <3>1
      <4>2. d[i] = d[i - 1] \o q[i] /\ d[0] = <<>>
        BY DEF Joins
      <4> QED BY <1>0, <3>1, <4>1, <4>2
    <3>2. CASE i # 1
      <4>1. i - 1 \in 1..n
        BY <1>0, <3>2
      <4> QED BY <3>2, <4>1 DEF Joins
    <3> QED BY <3>1, <3>2
  <2> QED BY <2>1
<1> HIDE DEF e
<1>2. flatten = [i \in 1..n |-> IF i = 1 THEN q[i] ELSE flatten[i - 1] \o q[i]]
  BY <1>1
<1> HIDE DEF flatten
<1> DEFINE S == {0} \cup {j \in 1..n : flatten[j] = d[j]}
<1>3. ASSUME NEW k \in 0..(n - 1), k \in S PROVE k + 1 \in S
  <2>1. k + 1 \in 1..n /\ (k + 1) - 1 = k
    BY <1>0
  <2>2. flatten[k + 1] = IF k + 1 = 1 THEN q[k + 1] ELSE flatten[k] \o q[k + 1]
    BY <1>2, <2>1
  <2>3. d[k + 1] = d[k] \o q[k + 1]
    BY <2>1 DEF Joins
  <2>4. CASE k = 0
    <3>1. d[k] = <<>>
      BY <2>4 DEF Joins
    <3> QED BY <1>0, <2>1, <2>2, <2>3, <2>4, <3>1
  <2>5. CASE k # 0
    <3>1. k + 1 # 1 /\ flatten[k] = d[k]
      BY <1>3, <2>5
    <3>2. flatten[k + 1] = flatten[k] \o q[k + 1]
      BY <2>2, <3>1
    <3>3. flatten[k + 1] = d[k + 1]
      BY <2>3, <3>1, <3>2
    <3> QED BY <2>1, <3>3
  <2> QED BY <2>4, <2>5
<1>4. 0 \in S
  OBVIOUS
<1> HIDE DEF S
<1>5. \A k \in 0..n : k \in S
  BY <1>0, <1>3, <1>4, UpTo
<1>6. CASE n = 0
  <2>1. d[0] = <<>>
    BY DEF Joins
  <2> QED BY <1>0, <1>6, <2>1 DEF FlattenSeq
<1>7. CASE n # 0
  <2>1. flatten[n] = d[n]
    BY <1>0, <1>5, <1>7 DEF S
  <2>2. FlattenSeq(q) = flatten[n]
    BY <1>0, <1>7 DEF FlattenSeq, flatten
  <2> QED BY <2>1, <2>2
<1> QED BY <1>6, <1>7

(* Joining the first sequences, then the others.                            *)
LEMMA JoinedConcat ==
    ASSUME NEW St, NEW m, NEW n, NEW p, NEW q, NEW r,
           Lists(St, m, p), Lists(St, n, q), Lists(St, m + n, r),
           \A i \in 1..m : r[i] = p[i], \A i \in 1..n : r[m + i] = q[i]
    PROVE  FlattenSeq(p) \in St /\ FlattenSeq(r) = FlattenSeq(p) \o FlattenSeq(q)
PROOF
<1>0. m \in Nat /\ n \in Nat /\ \A i \in 1..n : q[i] \in St
  BY DEF Lists
<1>1. PICK d : Joins(r, m + n, d)
  BY JoinsExists
<1>2. PICK e : Joins(q, n, e)
  BY JoinsExists
<1>3. Joins(p, m, d)
  <2>1. \A i \in 1..m : i \in 1..(m + n)
    BY <1>0
  <2> QED BY <1>1, <2>1 DEF Joins
<1>4. FlattenSeq(r) = d[m + n] /\ FlattenSeq(q) = e[n] /\ FlattenSeq(p) = d[m]
  BY <1>1, <1>2, <1>3, FlattenIs
<1>5. (\A i \in 0..m : d[i] \in St) /\ \A i \in 0..n : e[i] \in St
  BY <1>2, <1>3, JoinsTyped
<1> DEFINE S == {j \in 0..n : d[m + j] = d[m] \o e[j]}
<1>6. 0 \in S
  <2>1. d[m] \in St /\ m + 0 = m /\ 0 \in 0..n
    BY <1>0, <1>5
  <2>2. e[0] = <<>>
    BY <1>2 DEF Joins
  <2>3. d[m] \o <<>> = d[m]
    BY <2>1 DEF Closed, Lists
  <2> QED BY <2>1, <2>2, <2>3
<1>7. ASSUME NEW k \in 0..(n - 1), k \in S PROVE k + 1 \in S
  <2>1. k + 1 \in 1..n /\ m + (k + 1) \in 1..(m + n) /\ (m + (k + 1)) - 1 = m + k
        /\ (k + 1) - 1 = k /\ k \in 0..n /\ m \in 0..m /\ k + 1 \in 0..n
    BY <1>0
  <2>2. d[m + (k + 1)] = d[m + k] \o q[k + 1]
    BY <1>1, <2>1 DEF Joins
  <2>3. e[k + 1] = e[k] \o q[k + 1]
    BY <1>2, <2>1 DEF Joins
  <2>4. (d[m] \o e[k]) \o q[k + 1] = d[m] \o (e[k] \o q[k + 1])
    <3>1. PICK x \in St : x = d[m]
      BY <1>5, <2>1
    <3>2. PICK y \in St : y = e[k]
      BY <1>5, <2>1
    <3>3. PICK z \in St : z = q[k + 1]
      BY <1>0, <2>1
    <3>4. (x \o y) \o z = x \o (y \o z)
      BY DEF Lists, Closed
    <3> QED BY <3>1, <3>2, <3>3, <3>4
  <2>5. d[m + k] = d[m] \o e[k]
    BY <1>7
  <2> QED BY <2>1, <2>2, <2>3, <2>4, <2>5
<1> HIDE DEF S
<1>8. \A k \in 0..n : k \in S
  BY <1>0, <1>6, <1>7, UpTo
<1>9. d[m + n] = d[m] \o e[n]
  <2>1. n \in S
    BY <1>0, <1>8
  <2> QED BY <2>1 DEF S
<1> QED BY <1>0, <1>4, <1>5, <1>9

(* Joining distributes over concatenation.                                  *)
LEMMA FlattenConcat ==
    ASSUME NEW A, NEW p \in Seq(Seq(A)), NEW q \in Seq(Seq(A))
    PROVE  /\ FlattenSeq(p) \in Seq(A)
           /\ FlattenSeq(p \o q) = FlattenSeq(p) \o FlattenSeq(q)
PROOF
<1>1. Lists(Seq(A), Len(p), p) /\ Lists(Seq(A), Len(q), q)
  BY SeqOfSeqLists
<1>2. /\ p \o q \in Seq(Seq(A)) /\ Len(p \o q) = Len(p) + Len(q)
      /\ \A i \in 1..Len(p) : (p \o q)[i] = p[i]
      /\ \A i \in 1..Len(q) : (p \o q)[Len(p) + i] = q[i]
  OBVIOUS
<1>3. Lists(Seq(A), Len(p) + Len(q), p \o q)
  <2>1. Lists(Seq(A), Len(p \o q), p \o q)
    BY <1>2, SeqOfSeqLists
  <2> QED BY <1>2, <2>1
<1>4. PICK St, m, n, r : St = Seq(A) /\ m = Len(p) /\ n = Len(q) /\ r = p \o q
  OBVIOUS
<1>5. Lists(St, m, p) /\ Lists(St, n, q) /\ Lists(St, m + n, r)
  BY <1>1, <1>3, <1>4
<1>6. (\A i \in 1..m : r[i] = p[i]) /\ \A i \in 1..n : r[m + i] = q[i]
  BY <1>2, <1>4
<1>7. FlattenSeq(p) \in St /\ FlattenSeq(r) = FlattenSeq(p) \o FlattenSeq(q)
  BY <1>5, <1>6, JoinedConcat
<1> QED BY <1>4, <1>7

(* One sequence is its own joined sequence.                                 *)
LEMMA FlattenOne ==
    ASSUME NEW A, NEW s \in Seq(A)
    PROVE  FlattenSeq(<<s>>) = s /\ FlattenSeq(<<>>) = <<>>
PROOF
<1> DEFINE d == [i \in 0..1 |-> IF i = 0 THEN <<>> ELSE s]
<1>1. PICK q : q = <<s>>
  OBVIOUS
<1>2. Closed(Seq(A))
  BY SeqClosed
<1>3. Lists(Seq(A), 1, q) /\ q[1] = s
  BY <1>1, <1>2 DEF Lists
<1>4. Joins(q, 1, d)
  <2>1. <<>> \o s = s
    BY <1>2 DEF Closed
  <2>2. \A i \in 1..1 : i = 1
    OBVIOUS
  <2> QED BY <1>3, <2>1, <2>2 DEF Joins
<1>5. d[1] = s
  OBVIOUS
<1> HIDE DEF d
<1>6. FlattenSeq(q) = d[1]
  BY <1>3, <1>4, FlattenIs
<1>7. FlattenSeq(<<>>) = <<>>
  BY DEF FlattenSeq
<1> QED BY <1>1, <1>5, <1>6, <1>7

-----------------------------------------------------------------------------
(* Counting.                                                                *)

(* As many values as arguments, when no two arguments share a value.        *)
LEMMA ImageCount ==
    ASSUME NEW S, IsFiniteSet(S), NEW T, NEW f,
           \A x \in S : f[x] \in T, \A y \in T : \E x \in S : f[x] = y,
           \A x, y \in S : f[x] = f[y] => x = y
    PROVE  IsFiniteSet(T) /\ Cardinality(T) = Cardinality(S)
PROOF
<1> DEFINE b == [x \in S |-> f[x]]
<1>1. b \in Bijection(S, T)
  <2>1. b \in [S -> T] /\ \A x, y \in S : b[x] = b[y] => x = y
    OBVIOUS
  <2>2. \A t \in T : \E x \in S : b[x] = t
    OBVIOUS
  <2> HIDE DEF b
  <2> QED BY <2>1, <2>2, Zenon DEF Bijection, Injection, Surjection, IsInjective
<1>2. ExistsBijection(S, T)
  BY <1>1 DEF ExistsBijection
<1> QED BY <1>2, FS_Bijection

LEMMA DisjointCount ==
    ASSUME NEW A, NEW B, IsFiniteSet(A), IsFiniteSet(B), A \cap B = {}
    PROVE  IsFiniteSet(A \cup B) /\ Cardinality(A \cup B) = Cardinality(A) + Cardinality(B)
PROOF
<1>1. Cardinality(A) \in Nat /\ Cardinality(B) \in Nat /\ Cardinality(A \cap B) = 0
  BY FS_CardinalityType, FS_EmptySet
<1>2. /\ IsFiniteSet(A \cup B)
      /\ Cardinality(A \cup B) = Cardinality(A) + Cardinality(B) - Cardinality(A \cap B)
  BY FS_Union
<1> QED BY <1>1, <1>2

(* A strict total order, and the elements below one of them: their numbers  *)
(* are different, from 0, and none is skipped.                              *)
Ordered(S, R) ==
    /\ \A x \in S : <<x, x>> \notin R
    /\ \A x, y, z \in S : <<x, y>> \in R /\ <<y, z>> \in R => <<x, z>> \in R
    /\ \A x, y \in S : x # y => <<x, y>> \in R \/ <<y, x>> \in R
Below(S, R, x) == {z \in S : <<z, x>> \in R}

LEMMA BelowFacts ==
    ASSUME NEW S, IsFiniteSet(S), NEW R, Ordered(S, R)
    PROVE  /\ Cardinality(S) \in Nat
           /\ \A x \in S : Cardinality(Below(S, R, x)) \in 0..(Cardinality(S) - 1)
           /\ \A x, y \in S : <<x, y>> \in R =>
                  Cardinality(Below(S, R, x)) < Cardinality(Below(S, R, y))
           /\ \A x, y \in S : Cardinality(Below(S, R, x)) = Cardinality(Below(S, R, y)) => x = y
           /\ \A r \in 0..(Cardinality(S) - 1) :
                  \E x \in S : Cardinality(Below(S, R, x)) = r
PROOF
<1> DEFINE n == Cardinality(S)
           f == [x \in S |-> Cardinality(Below(S, R, x))]
<1>1. n \in Nat
  BY FS_CardinalityType
<1>2. ASSUME NEW x \in S
      PROVE  IsFiniteSet(Below(S, R, x)) /\ f[x] = Cardinality(Below(S, R, x))
             /\ f[x] \in Nat /\ f[x] \in 0..(n - 1)
  <2> DEFINE B == Below(S, R, x)
  <2>1. B \in SUBSET S /\ x \notin B
    BY DEF Ordered, Below
  <2> HIDE DEF B
  <2>2. IsFiniteSet(B) /\ Cardinality(B) <= n /\ (n = Cardinality(B) => S = B)
    BY <2>1, FS_Subset
  <2>3. Cardinality(B) \in Nat
    BY <2>2, FS_CardinalityType
  <2>4. Cardinality(B) # n
    BY <2>1, <2>2
  <2>5. Cardinality(B) \in 0..(n - 1)
    BY <1>1, <2>2, <2>3, <2>4
  <2>6. f[x] = Cardinality(B)
    BY DEF B
  <2> HIDE DEF f
  <2> QED BY <2>2, <2>3, <2>5, <2>6 DEF B
<1>3. ASSUME NEW x \in S, NEW y \in S, <<x, y>> \in R PROVE f[x] < f[y]
  <2> DEFINE B == Below(S, R, x)
             C == Below(S, R, y)
  <2>1. B \in SUBSET C /\ x \in C /\ x \notin B
    BY <1>3 DEF Ordered, Below
  <2>2. IsFiniteSet(C) /\ f[x] = Cardinality(B) /\ f[y] = Cardinality(C)
        /\ f[x] \in Nat /\ f[y] \in Nat
    BY <1>2
  <2> HIDE DEF f, B, C
  <2>3. Cardinality(B) <= Cardinality(C) /\ (Cardinality(C) = Cardinality(B) => C = B)
    BY <2>1, <2>2, FS_Subset
  <2> QED BY <2>1, <2>2, <2>3
<1>4. \A x, y \in S : f[x] = f[y] => x = y
  <2> SUFFICES ASSUME NEW x \in S, NEW y \in S, f[x] = f[y], x # y PROVE FALSE
    OBVIOUS
  <2>1. <<x, y>> \in R \/ <<y, x>> \in R
    BY DEF Ordered
  <2>2. f[x] \in Nat /\ f[y] \in Nat
    BY <1>2
  <2>3. f[x] < f[y] \/ f[y] < f[x]
    BY <1>3, <2>1
  <2> HIDE DEF f
  <2> QED BY <2>2, <2>3
<1>5. \A r \in 0..(n - 1) : \E x \in S : f[x] = r
  <2> DEFINE T == {f[x] : x \in S}
  <2>1. T \in SUBSET (0..(n - 1))
    BY <1>2
  <2>2. \A x \in S : f[x] \in T
    OBVIOUS
  <2>3. \A r \in T : \E x \in S : f[x] = r
    OBVIOUS
  <2> HIDE DEF f, T
  <2>4. IsFiniteSet(T) /\ Cardinality(T) = n
    BY <1>4, <2>2, <2>3, ImageCount
  <2>5. IsFiniteSet(0..(n - 1)) /\ Cardinality(0..(n - 1)) = n
    BY <1>1, FS_Interval
  <2>6. 0..(n - 1) = T
    BY <2>1, <2>4, <2>5, FS_Subset
  <2> QED BY <2>3, <2>6
<1>6. \A x \in S : f[x] = Cardinality(Below(S, R, x))
  OBVIOUS
<1> HIDE DEF f
<1> QED BY <1>1, <1>2, <1>3, <1>4, <1>5, <1>6

LEMMA BelowOnto ==
    ASSUME NEW S, IsFiniteSet(S), NEW R, Ordered(S, R), NEW r \in 0..(Cardinality(S) - 1)
    PROVE  \E x \in S : Cardinality(Below(S, R, x)) = r
PROOF BY BelowFacts

LEMMA RankFacts ==
    ASSUME NEW E \in SUBSET Int, IsFiniteSet(E)
    PROVE  /\ Cardinality(E) \in Nat
           /\ \A i \in E : Rank(E, i) \in 0..(Cardinality(E) - 1)
           /\ \A i, k \in E : i < k => Rank(E, i) < Rank(E, k)
           /\ \A i, k \in E : Rank(E, i) = Rank(E, k) => i = k
           /\ \A r \in 0..(Cardinality(E) - 1) : \E i \in E : Rank(E, i) = r
PROOF
<1> DEFINE R == {p \in Int \X Int : p[1] < p[2]}
<1>1. \A x, z \in E : <<x, z>> \in R <=> x < z
  OBVIOUS
<1> HIDE DEF R
<1>2. Ordered(E, R)
  <2>1. \A x, z \in E : x \in Int /\ z \in Int
    OBVIOUS
  <2>2. \A a, b, c \in Int : (a < b /\ b < c => a < c) /\ ~(a < a) /\ (a # b => a < b \/ b < a)
    OBVIOUS
  <2> QED BY <1>1, <2>1, <2>2 DEF Ordered
<1>3. ASSUME NEW i \in E PROVE Rank(E, i) = Cardinality(Below(E, R, i))
  <2>1. {z \in E : z < i} = Below(E, R, i)
    BY <1>1 DEF Below
  <2> QED BY <2>1 DEF Rank
<1>4. /\ Cardinality(E) \in Nat
      /\ \A i \in E : Rank(E, i) \in 0..(Cardinality(E) - 1)
      /\ \A i, k \in E : Rank(E, i) = Rank(E, k) => i = k
  BY <1>2, <1>3, BelowFacts
<1>5. \A i, k \in E : i < k => Rank(E, i) < Rank(E, k)
  <2>1. \A x, z \in E : <<x, z>> \in R =>
            Cardinality(Below(E, R, x)) < Cardinality(Below(E, R, z))
    BY <1>2, BelowFacts, Zenon
  <2> QED BY <1>1, <1>3, <2>1
<1>6. \A r \in 0..(Cardinality(E) - 1) : \E i \in E : Rank(E, i) = r
  <2>1. ASSUME NEW r \in 0..(Cardinality(E) - 1)
        PROVE  \E i \in E : Cardinality(Below(E, R, i)) = r
    BY <1>2, BelowOnto
  <2> QED BY <1>3, <2>1
<1> QED BY <1>4, <1>5, <1>6

(* q lists every element of S once.                                         *)
Enumerates(q, S) ==
    /\ q \in [1..Cardinality(S) -> S]
    /\ \A x \in S : \E k \in 1..Cardinality(S) : q[k] = x
    /\ \A i, k \in 1..Cardinality(S) : q[i] = q[k] => i = k

(* A set put in order is listed, in that order.                             *)
LEMMA InOrderFacts ==
    ASSUME NEW S, IsFiniteSet(S), NEW R, Ordered(S, R)
    PROVE  /\ Enumerates(InOrder(S, R), S)
           /\ \A i, k \in 1..Cardinality(S) : i < k => <<InOrder(S, R)[i], InOrder(S, R)[k]>> \in R
PROOF
<1> DEFINE q == InOrder(S, R)
<1>1. PICK n \in Nat : n = Cardinality(S)
  BY BelowFacts
<1>2. ASSUME NEW k \in 1..n PROVE q[k] \in S /\ Cardinality(Below(S, R, q[k])) = k - 1
  <2>1. k - 1 \in 0..(n - 1)
    OBVIOUS
  <2>2. \E x \in S : Cardinality(Below(S, R, x)) = k - 1
    BY <1>1, <2>1, BelowFacts
  <2>3. q[k] = CHOOSE x \in S : Cardinality(Below(S, R, x)) = k - 1
    BY <1>1 DEF InOrder, Below
  <2> HIDE DEF q
  <2> QED BY <2>2, <2>3
<1>3. q \in [1..n -> S]
  <2>1. q = [k \in 1..n |-> CHOOSE x \in S : Cardinality({z \in S : <<z, x>> \in R}) = k - 1]
    BY <1>1 DEF InOrder
  <2> HIDE DEF q
  <2> QED BY <1>2, <2>1
<1> HIDE DEF q
<1>4. ASSUME NEW x \in S PROVE \E k \in 1..n : q[k] = x
  <2>1. PICK r \in 0..(n - 1) : r = Cardinality(Below(S, R, x))
    BY <1>1, BelowFacts
  <2>2. r + 1 \in 1..n /\ (r + 1) - 1 = r
    BY <2>1
  <2>3. q[r + 1] \in S /\ Cardinality(Below(S, R, q[r + 1])) = r
    BY <1>2, <2>2
  <2>4. q[r + 1] = x
    BY <2>1, <2>3, BelowFacts
  <2> QED BY <2>2, <2>4
<1>5. \A i, k \in 1..n : q[i] = q[k] => i = k
  <2>1. ASSUME NEW i \in 1..n, NEW k \in 1..n, q[i] = q[k] PROVE i = k
    <3>1. i - 1 = k - 1
      BY <1>2, <2>1
    <3> QED BY <3>1
  <2> QED BY <2>1
<1>6. \A i, k \in 1..n : i < k => <<q[i], q[k]>> \in R
  <2>1. ASSUME NEW i \in 1..n, NEW k \in 1..n, i < k, <<q[i], q[k]>> \notin R PROVE FALSE
    <3>1. q[i] \in S /\ q[k] \in S
      BY <1>2
    <3>2. q[i] # q[k]
      BY <1>5, <2>1
    <3>3. <<q[k], q[i]>> \in R
      BY <2>1, <3>1, <3>2 DEF Ordered
    <3>4. Cardinality(Below(S, R, q[k])) < Cardinality(Below(S, R, q[i]))
      BY <3>1, <3>3, BelowFacts
    <3>5. k - 1 < i - 1
      BY <1>2, <3>4
    <3> QED BY <2>1, <3>5
  <2> QED BY <2>1
<1>7. Enumerates(q, S)
  BY <1>1, <1>3, <1>4, <1>5 DEF Enumerates
<1> QED BY <1>1, <1>6, <1>7 DEF q

LEMMA AscendingFacts ==
    ASSUME NEW E \in SUBSET Int, IsFiniteSet(E)
    PROVE  /\ Enumerates(Ascending(E), E)
           /\ \A i, k \in 1..Cardinality(E) : i < k => Ascending(E)[i] < Ascending(E)[k]
PROOF
<1> DEFINE R == {p \in Int \X Int : p[1] < p[2]}
<1>1. \A x, z \in E : <<x, z>> \in R <=> x < z
  OBVIOUS
<1> HIDE DEF R
<1>2. Ordered(E, R)
  <2>1. \A x, z \in E : x \in Int /\ z \in Int
    OBVIOUS
  <2>2. \A a, b, c \in Int : (a < b /\ b < c => a < c) /\ ~(a < a) /\ (a # b => a < b \/ b < a)
    OBVIOUS
  <2> QED BY <1>1, <2>1, <2>2 DEF Ordered
<1>3. \A x \in E : Rank(E, x) = Cardinality({z \in E : <<z, x>> \in R})
  <2>1. ASSUME NEW x \in E PROVE {z \in E : z < x} = {z \in E : <<z, x>> \in R}
    BY <1>1
  <2> QED BY <2>1 DEF Rank
<1>5. /\ Enumerates(InOrder(E, R), E)
      /\ \A i, k \in 1..Cardinality(E) : i < k => <<InOrder(E, R)[i], InOrder(E, R)[k]>> \in R
  BY <1>2, InOrderFacts
<1>6. PICK a, q : a = Ascending(E) /\ q = InOrder(E, R)
  OBVIOUS
<1>4. a \in [1..Cardinality(E) -> E] /\ \A k \in 1..Cardinality(E) : a[k] = q[k]
  <2>1. ASSUME NEW k \in 1..Cardinality(E)
        PROVE  (CHOOSE x \in E : Rank(E, x) = k - 1)
                 = CHOOSE x \in E : Cardinality({z \in E : <<z, x>> \in R}) = k - 1
    BY <1>3
  <2>3. q \in [1..Cardinality(E) -> E]
    BY <1>5, <1>6 DEF Enumerates
  <2>4. a = [k \in 1..Cardinality(E) |-> CHOOSE x \in E : Rank(E, x) = k - 1]
    BY <1>6 DEF Ascending
  <2>5. \A k \in 1..Cardinality(E) : a[k] = q[k]
    BY <1>6, <2>1, <2>4 DEF InOrder
  <2>6. a \in [1..Cardinality(E) -> E]
    BY <2>3, <2>4, <2>5
  <2> QED BY <2>5, <2>6
<1> QED BY <1>1, <1>4, <1>5, <1>6 DEF Enumerates

(* The elements of q at the places in P, in their order.                    *)
LEMMA AtPlacesFacts ==
    ASSUME NEW A, NEW q \in Seq(A), NEW P \in SUBSET (1..Len(q))
    PROVE  /\ IsFiniteSet(P) /\ Cardinality(P) \in Nat
           /\ AtPlaces(q, P) \in Seq(A) /\ Len(AtPlaces(q, P)) = Cardinality(P)
           /\ Enumerates(Ascending(P), P)
           /\ \A i, k \in 1..Cardinality(P) : i < k => Ascending(P)[i] < Ascending(P)[k]
           /\ \A k \in 1..Cardinality(P) :
                  AtPlaces(q, P)[k] = q[Ascending(P)[k]] /\ Ascending(P)[k] \in P
PROOF
<1>1. IsFiniteSet(P)
  <2>1. IsFiniteSet(1..Len(q))
    BY FS_Interval
  <2> QED BY <2>1, FS_Subset
<1>2. PICK n \in Nat : n = Cardinality(P)
  BY <1>1, FS_CardinalityType
<1>3. PICK at : at = Ascending(P)
  OBVIOUS
<1>4. Enumerates(at, P) /\ \A i, k \in 1..n : i < k => at[i] < at[k]
  <2>1. P \in SUBSET Int
    OBVIOUS
  <2> QED BY <1>1, <1>2, <1>3, <2>1, AscendingFacts
<1>5. at \in [1..n -> P]
  BY <1>2, <1>4 DEF Enumerates
<1>6. \A k \in 1..n : at[k] \in P /\ q[at[k]] \in A
  <2>1. \A i \in P : q[i] \in A
    OBVIOUS
  <2> QED BY <1>5, <2>1
<1>7. AtPlaces(q, P) = [k \in 1..n |-> q[at[k]]]
  BY <1>2, <1>3 DEF AtPlaces
<1>8. PICK r : r = [k \in 1..n |-> q[at[k]]]
  OBVIOUS
<1>9. r \in [1..n -> A] /\ \A k \in 1..n : r[k] = q[at[k]]
  BY <1>6, <1>8
<1>10. r \in Seq(A) /\ Len(r) = n
  BY <1>2, <1>9
<1> QED BY <1>1, <1>2, <1>3, <1>4, <1>6, <1>7, <1>8, <1>9, <1>10
=============================================================================
