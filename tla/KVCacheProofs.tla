---------------------------- MODULE KVCacheProofs ----------------------------
(***************************************************************************)
(* What a row of a batch attends to, for every pool, block size, number of *)
(* requests and length: KVCache's isolation of the rows of a batch.        *)
(***************************************************************************)
EXTENDS KVCache, SequenceTheorems, FiniteSetTheorems, WellFoundedInduction, TLAPS

(* The place of a position: which block of its table, and where in it.      *)
Blk(p) == p \div KVBlockSize + 1
Off(p) == p % KVBlockSize

-----------------------------------------------------------------------------
(* Arithmetic.                                                              *)

(* A set of numbers that is bounded has a maximum: the one with the fewest  *)
(* numbers above it.                                                        *)
LEMMA MaximumExists ==
    ASSUME NEW N \in Nat, NEW S \in SUBSET (0..N), S # {}
    PROVE  Maximum(S) \in S /\ \A z \in S : z <= Maximum(S)
PROOF
<1> DEFINE above(x) == {z \in S : x < z}
           T == {above(x) : x \in S}
           R == StrictSubsetOrdering(0..N)
<1>1. IsFiniteSet(0..N)
  BY FS_Interval
<1>2. T \subseteq FiniteSubsetsOf(0..N) /\ T # {}
  <2>1. \A x \in S : above(x) \in SUBSET (0..N)
    OBVIOUS
  <2>2. \A x \in S : above(x) \in FiniteSubsetsOf(0..N)
    BY <1>1, <2>1, FS_FiniteSubsetsOfFinite
  <2> QED BY <2>2
<1>3. IsWellFoundedOn(R, FiniteSubsetsOf(0..N))
  BY FS_StrictSubsetOrderingWellFounded
<1> HIDE DEF T, R
<1>4. PICK m \in T : \A y \in T : <<y, m>> \notin R
  BY <1>2, <1>3, WFMin, Zenon
<1>5. PICK x \in S : m = above(x)
  BY <1>4 DEF T
<1>6. \A z \in S : z <= x
  <2> SUFFICES ASSUME NEW z \in S, x < z PROVE FALSE
    OBVIOUS
  <2>1. above(z) \subseteq above(x) /\ z \in above(x) /\ z \notin above(z)
    <3>1. \A y \in S : y \in Int /\ ~(y < y) /\ (z < y => x < y)
      OBVIOUS
    <3> QED BY <3>1
  <2>2. above(z) \in T /\ <<above(z), m>> \in R
    BY <1>5, <2>1 DEF T, R, StrictSubsetOrdering
  <2> QED BY <1>4, <2>2
<1> QED BY <1>6 DEF Maximum

(* Blocks and offsets: a position has one place in its table, and a table   *)
(* of CeilDiv(n, KVBlockSize) blocks has a place for each of n positions.   *)
LEMMA PlaceFacts ==
    ASSUME KVAssumption, NEW p \in Nat
    PROVE  /\ Blk(p) \in Nat \ {0} /\ Off(p) \in 0..(KVBlockSize - 1)
           /\ \A q \in Nat : Blk(q) = Blk(p) /\ Off(q) = Off(p) => q = p
PROOF
<1>1. KVBlockSize \in Nat \ {0}
  BY DEF KVAssumption
<1>2. \A q \in Nat : q \div KVBlockSize \in Nat /\ q % KVBlockSize \in 0..(KVBlockSize - 1)
                    /\ q = KVBlockSize * (q \div KVBlockSize) + (q % KVBlockSize)
  BY <1>1, SMTT(30)
<1>3. ASSUME NEW q \in Nat, Blk(q) = Blk(p), Off(q) = Off(p)
      PROVE  q = p
  <2>1. \A a, b \in Nat : a + 1 = b + 1 => a = b
    OBVIOUS
  <2>2. q \div KVBlockSize = p \div KVBlockSize /\ q % KVBlockSize = p % KVBlockSize
    BY <1>2, <1>3, <2>1, Zenon DEF Blk, Off
  <2> QED BY <1>2, <2>2, Zenon
<1>4. Blk(p) \in Nat \ {0} /\ Off(p) \in 0..(KVBlockSize - 1)
  <2>1. \A a \in Nat : a + 1 \in Nat \ {0}
    OBVIOUS
  <2> QED BY <1>2, <2>1, Zenon DEF Blk, Off
<1> QED BY <1>3, <1>4

LEMMA CeilDivFacts ==
    ASSUME KVAssumption, NEW n \in Nat \ {0}
    PROVE  /\ CeilDiv(n, KVBlockSize) \in Nat \ {0}
           /\ \A p \in 0..(n - 1) : Blk(p) <= CeilDiv(n, KVBlockSize)
           /\ \A m \in Nat : m <= n => CeilDiv(m, KVBlockSize) <= CeilDiv(n, KVBlockSize)
PROOF
<1>1. KVBlockSize \in Nat \ {0}
  BY DEF KVAssumption
<1>2. CeilDiv(n, KVBlockSize) \in Nat \ {0}
  BY <1>1, SMTT(30) DEF CeilDiv
<1>3. \A p \in 0..(n - 1) : Blk(p) <= CeilDiv(n, KVBlockSize)
  BY <1>1, SMTT(30) DEF CeilDiv, Blk
<1>4. \A m \in Nat : m <= n => CeilDiv(m, KVBlockSize) <= CeilDiv(n, KVBlockSize)
  BY <1>1, SMTT(30) DEF CeilDiv
<1> QED BY <1>2, <1>3, <1>4
-----------------------------------------------------------------------------
(* The invariant: the tables share no block, each has a place for every     *)
(* token that is cached, and the place holds the key of that token, from    *)
(* the request's present admission.                                         *)
PlaceOf(tbl, r, p) == <<tbl[r][Blk(p)], Off(p)>>

Tables == [KVReq -> Seq(0..(PoolBlocks - 1))]
KVTypeOK ==
    /\ tables \in Tables
    /\ cached \in [KVReq -> 0..MaxLen]
    /\ admission \in [KVReq -> Nat]
Isolated(tbl) ==
    \A r, s \in KVReq : \A k \in 1..Len(tbl[r]), l \in 1..Len(tbl[s]) :
        tbl[r][k] = tbl[s][l] => r = s /\ k = l
Roomy(tbl, r, n) == \A p \in 0..(n - 1) : Blk(p) \in 1..Len(tbl[r])
Filled(pool, tbl, r, n) == \A p \in 0..(n - 1) : pool[PlaceOf(tbl, r, p)] = {Tag(r, p)}

KVInv ==
    /\ KVTypeOK
    /\ Isolated(tables)
    /\ \A r \in KVReq : Roomy(tables, r, cached[r]) /\ Filled(keys, tables, r, cached[r])

(* The batches that are run: the rows are different requests, each goes on  *)
(* where its cached tokens end, by at least one token.                      *)
IsBatch(rows, starts, ns) ==
    /\ rows \in Seq(KVReq) /\ Len(rows) # 0
    /\ \A i, j \in 1..Len(rows) : rows[i] = rows[j] => i = j
    /\ starts \in [1..Len(rows) -> Nat] /\ ns \in [1..Len(rows) -> Nat \ {0}]
    /\ \A i \in 1..Len(rows) : starts[i] = cached[rows[i]] /\ starts[i] + ns[i] <= MaxLen

(* The tables a pass is given: the old ones, and blocks for the new tokens. *)
Extended(tbl, rows, starts, ns) ==
    /\ tbl \in Tables
    /\ Isolated(tbl)
    /\ \A r \in KVReq : Len(tables[r]) <= Len(tbl[r])
                         /\ \A k \in 1..Len(tables[r]) : tbl[r][k] = tables[r][k]
    /\ \A i \in 1..Len(rows) : Roomy(tbl, rows[i], starts[i] + ns[i])

-----------------------------------------------------------------------------
(* The cuts that a mask makes, for a query within its row. *)
LEMMA CutOff ==
    ASSUME NEW a \in Nat, NEW n \in Nat, NEW t \in Nat, t < n
    PROVE  /\ {k \in 0..(n - 1) : k <= t} = 0..t
           /\ {k \in 0..(a + n - 1) : k <= a + t /\ k < a + n} = 0..(a + t)
PROOF
<1>1. {k \in 0..(n - 1) : k <= t} = 0..t
  OBVIOUS
<1>2. {k \in 0..(a + n - 1) : k <= a + t /\ k < a + n} = 0..(a + t)
  <2>1. \A k \in Int : k <= a + t => k <= a + n - 1 /\ k < a + n
    OBVIOUS
  <2> QED BY <2>1
<1> QED BY <1>1, <1>2

(* The mask leaves to a real query the tokens up to its own, and to a       *)
(* padding query all tokens of its row.                                     *)
LEMMA MaskFacts ==
    ASSUME KVAssumption, NEW rows, NEW starts, NEW ns, IsBatch(rows, starts, ns),
           NEW i \in 1..Len(rows), NEW t \in 0..(Maximum(ToSet(ns)) - 1)
    PROVE  Mask(starts, ns, i, t) =
             0..(starts[i] + (IF t < ns[i] THEN t ELSE ns[i] - 1))
PROOF
<1> DEFINE b == Len(rows)
           T == Maximum(ToSet(ns))
           totals == {starts[k] + ns[k] : k \in 1..b}
           lk == Maximum(totals)
<1>0. b \in Nat \ {0} /\ MaxLen \in Nat
  BY LenProperties DEF IsBatch, KVAssumption
<1>1. /\ Len(starts) = b /\ DOMAIN ns = 1..b
      /\ \A k \in 1..b : starts[k] \in Nat /\ ns[k] \in Nat \ {0} /\ starts[k] + ns[k] <= MaxLen
  BY <1>0 DEF IsBatch
<1>2. \A k \in 1..b : starts[k] + ns[k] <= lk /\ lk \in Nat
  <2>1. totals \in SUBSET (0..MaxLen) /\ totals # {}
    BY <1>0, <1>1
  <2> HIDE DEF totals
  <2>2. lk \in totals /\ \A z \in totals : z <= lk
    BY <1>0, <2>1, MaximumExists
  <2> QED BY <2>1, <2>2 DEF totals
<1>3. \A k \in 1..b : ns[k] <= T /\ T \in Nat
  <2>1. ToSet(ns) \in SUBSET (0..MaxLen) /\ ToSet(ns) # {} /\ \A k \in 1..b : ns[k] \in ToSet(ns)
    <3>1. ToSet(ns) = {ns[k] : k \in 1..b}
      BY <1>1 DEF ToSet
    <3>2. \A k \in 1..b : ns[k] \in 0..MaxLen
      BY <1>0, <1>1, SMTT(30)
    <3>3. 1 \in 1..b
      BY <1>0
    <3> HIDE DEF b
    <3> QED BY <3>1, <3>2, <3>3
  <2>2. T \in ToSet(ns) /\ \A z \in ToSet(ns) : z <= T
    BY <1>0, <2>1, MaximumExists
  <2> QED BY <2>1, <2>2
<1>4. b = 1 => T = ns[1] /\ lk = starts[1] + ns[1]
  <2>1. b = 1 => ToSet(ns) = {ns[1]} /\ totals = {starts[1] + ns[1]}
    BY <1>1 DEF ToSet
  <2>2. \A n \in Nat : Maximum({n}) = n
    BY DEF Maximum
  <2> QED BY <1>0, <1>1, <2>1, <2>2
<1>5. Mask(starts, ns, i, t) =
        IF b = 1 /\ starts[1] = 0 /\ T > 1 THEN {k \in 0..(lk - 1) : k <= t}
        ELSE IF b = 1 /\ T = 1 THEN 0..(lk - 1)
        ELSE {k \in 0..(lk - 1) : k <= starts[i] + t /\ k < starts[i] + ns[i]}
  BY <1>1 DEF Mask, Unmasked, General
<1> HIDE DEF T, lk, b
<1>6. t \in Nat /\ t < T /\ i \in 1..b
  BY <1>0, <1>3 DEF T, b
<1>7. CASE b = 1
  <2>1. i = 1 /\ t < ns[1]
    BY <1>4, <1>6, <1>7
  <2>2. starts[1] \in Nat /\ ns[1] \in Nat \ {0} /\ T = ns[1] /\ lk = starts[1] + ns[1]
    BY <1>1, <1>4, <1>7
  <2>6. starts[i] + (IF t < ns[i] THEN t ELSE ns[i] - 1) = starts[1] + t
    BY <2>1
  <2>3. CASE starts[1] = 0 /\ T > 1
    <3>1. Mask(starts, ns, i, t) = {k \in 0..(ns[1] - 1) : k <= t}
      BY <1>5, <1>7, <2>2, <2>3
    <3>2. {k \in 0..(ns[1] - 1) : k <= t} = 0..t
      BY <1>6, <2>1, <2>2, CutOff
    <3>3. starts[1] + t = t
      BY <1>6, <2>3
    <3> QED BY <2>6, <3>1, <3>2, <3>3
  <2>4. CASE T = 1
    <3>1. t = 0 /\ Mask(starts, ns, i, t) = 0..(lk - 1)
      BY <1>5, <1>6, <1>7, <2>4
    <3> QED BY <2>1, <2>2, <2>4, <3>1
  <2>5. CASE starts[1] # 0 /\ T # 1
    <3>1. Mask(starts, ns, i, t) =
            {k \in 0..(starts[1] + ns[1] - 1) : k <= starts[1] + t /\ k < starts[1] + ns[1]}
      BY <1>5, <2>1, <2>2, <2>5
    <3>2. {k \in 0..(starts[1] + ns[1] - 1) : k <= starts[1] + t /\ k < starts[1] + ns[1]}
            = 0..(starts[1] + t)
      BY <1>6, <2>1, <2>2, CutOff, SMTT(30)
    <3> QED BY <2>6, <3>1, <3>2
  <2> QED BY <2>2, <2>3, <2>4, <2>5
<1>8. CASE b # 1
  BY <1>1, <1>2, <1>5, <1>6, <1>8, SMTT(30)
<1> QED BY <1>7, <1>8

-----------------------------------------------------------------------------
(* A position of a request has its own place in the pool. *)
LEMMA OwnPlace ==
    ASSUME KVAssumption, NEW tbl \in Tables, Isolated(tbl),
           NEW r \in KVReq, NEW p \in Nat, Blk(p) \in 1..Len(tbl[r])
    PROVE  /\ PlaceOf(tbl, r, p) \in Place
           /\ \A s \in KVReq, q \in Nat :
                /\ Blk(q) \in 1..Len(tbl[s])
                /\ PlaceOf(tbl, s, q) = PlaceOf(tbl, r, p)
                => s = r /\ q = p
PROOF
<1>1. PlaceOf(tbl, r, p) \in Place
  <2>1. tbl[r] \in Seq(0..(PoolBlocks - 1))
    BY DEF Tables
  <2>2. tbl[r][Blk(p)] \in 0..(PoolBlocks - 1)
    BY <2>1, ElementOfSeq
  <2> QED BY <2>2, PlaceFacts DEF PlaceOf, Place
<1>2. ASSUME NEW s \in KVReq, NEW q \in Nat,
             Blk(q) \in 1..Len(tbl[s]),
             PlaceOf(tbl, s, q) = PlaceOf(tbl, r, p)
      PROVE  s = r /\ q = p
  <2>1. /\ tbl[s][Blk(q)] = tbl[r][Blk(p)]
        /\ Off(q) = Off(p)
    BY <1>2 DEF PlaceOf
  <2>2. s = r /\ Blk(q) = Blk(p)
    BY <1>2, <2>1 DEF Isolated
  <2> QED BY <2>1, <2>2, PlaceFacts
<1> QED BY <1>1, <1>2

(* What a pass writes: the keys of the new tokens, each at its own place,   *)
(* and nothing over the keys that are there.                                *)
LEMMA WrittenFacts ==
    ASSUME KVAssumption, KVInv, NEW rows, NEW starts, NEW ns, IsBatch(rows, starts, ns),
           NEW tbl, Extended(tbl, rows, starts, ns)
    PROVE  /\ \A i \in 1..Len(rows) :
                Filled(Written(rows, starts, ns, tbl), tbl, rows[i], starts[i] + ns[i])
           /\ \A r \in KVReq : (\A i \in 1..Len(rows) : rows[i] # r) =>
                Roomy(tbl, r, cached[r])
                /\ Filled(Written(rows, starts, ns, tbl), tbl, r, cached[r])
PROOF
<1> DEFINE new(pl) == {w \in (1..Len(rows)) \X (0..(MaxLen - 1)) :
                         /\ starts[w[1]] <= w[2] /\ w[2] < starts[w[1]] + ns[w[1]]
                         /\ tbl[rows[w[1]]][Blk(w[2])] = pl[1]
                         /\ Off(w[2]) = pl[2]}
<1>1. /\ Len(rows) \in Nat /\ MaxLen \in Nat /\ tbl \in Tables /\ Isolated(tbl)
      /\ \A i \in 1..Len(rows) :
            /\ rows[i] \in KVReq /\ starts[i] \in Nat /\ ns[i] \in Nat \ {0}
            /\ starts[i] = cached[rows[i]] /\ starts[i] + ns[i] <= MaxLen
            /\ Roomy(tbl, rows[i], starts[i] + ns[i])
  BY LenProperties, ElementOfSeq DEF IsBatch, Extended, KVAssumption
<1>2. \A r \in KVReq : cached[r] \in Nat /\ Len(tables[r]) \in Nat /\ Len(tbl[r]) \in Nat
  BY <1>1, LenProperties DEF KVInv, KVTypeOK, Tables
<1>3. \A pl \in Place : Written(rows, starts, ns, tbl)[pl]
        = IF new(pl) = {} THEN keys[pl] ELSE {Tag(rows[w[1]], w[2]) : w \in new(pl)}
  BY DEF Written, Blk, Off
(* Whoever writes to the place of a position is that position.              *)
<1>4. ASSUME NEW r \in KVReq, NEW p \in Nat, Blk(p) \in 1..Len(tbl[r]),
             NEW w \in new(PlaceOf(tbl, r, p))
      PROVE  rows[w[1]] = r /\ w[2] = p /\ starts[w[1]] <= p
  <2>1. /\ w[1] \in 1..Len(rows) /\ w[2] \in Nat
        /\ w[2] \in 0..((starts[w[1]] + ns[w[1]]) - 1) /\ starts[w[1]] <= w[2]
        /\ PlaceOf(tbl, rows[w[1]], w[2]) = PlaceOf(tbl, r, p)
    BY <1>1, SMTT(30) DEF PlaceOf
  <2>2. Blk(w[2]) \in 1..Len(tbl[rows[w[1]]])
    BY <1>1, <2>1 DEF Roomy
  <2> QED BY <1>1, <1>4, <2>1, <2>2, OwnPlace, SMTT(30)
<1> HIDE DEF new
(* A new token. *)
<1>5. ASSUME NEW i \in 1..Len(rows), NEW p \in Nat, starts[i] <= p, p < starts[i] + ns[i]
      PROVE  Written(rows, starts, ns, tbl)[PlaceOf(tbl, rows[i], p)] = {Tag(rows[i], p)}
  <2>1. Blk(p) \in 1..Len(tbl[rows[i]]) /\ rows[i] \in KVReq
    BY <1>1, <1>5 DEF Roomy
  <2>2. <<i, p>> \in new(PlaceOf(tbl, rows[i], p))
    BY <1>1, <1>5 DEF new, PlaceOf
  <2>3. \A w \in new(PlaceOf(tbl, rows[i], p)) : rows[w[1]] = rows[i] /\ w[2] = p
    BY <1>4, <2>1
  <2>4. PlaceOf(tbl, rows[i], p) \in Place
    BY <1>1, <2>1, OwnPlace
  <2>5. {Tag(rows[w[1]], w[2]) : w \in new(PlaceOf(tbl, rows[i], p))} = {Tag(rows[i], p)}
    BY <2>2, <2>3
  <2> QED BY <1>3, <2>2, <2>4, <2>5
(* A token that was there. *)
<1>6. ASSUME NEW r \in KVReq, NEW p \in 0..(cached[r] - 1)
      PROVE  /\ Blk(p) \in 1..Len(tbl[r])
             /\ Written(rows, starts, ns, tbl)[PlaceOf(tbl, r, p)] = {Tag(r, p)}
  <2>1. Blk(p) \in 1..Len(tables[r]) /\ keys[PlaceOf(tables, r, p)] = {Tag(r, p)}
    BY DEF KVInv, Roomy, Filled
  <2>2. Blk(p) \in 1..Len(tbl[r]) /\ PlaceOf(tbl, r, p) = PlaceOf(tables, r, p)
    BY <1>2, <2>1 DEF Extended, PlaceOf
  <2>3. p \in Nat /\ p < cached[r]
    BY <1>2
  <2>4. PlaceOf(tbl, r, p) \in Place
    BY <1>1, <2>2, <2>3, OwnPlace
  <2>5. new(PlaceOf(tbl, r, p)) = {}
    <3> SUFFICES ASSUME NEW w \in new(PlaceOf(tbl, r, p)) PROVE FALSE
      OBVIOUS
    <3>1. rows[w[1]] = r /\ starts[w[1]] <= p /\ w[1] \in 1..Len(rows)
      BY <1>4, <2>2, <2>3, SMTT(30) DEF new
    <3> QED BY <1>1, <1>2, <2>3, <3>1
  <2> QED BY <1>3, <2>1, <2>2, <2>4, <2>5
<1>7. ASSUME NEW i \in 1..Len(rows), NEW p \in 0..((starts[i] + ns[i]) - 1)
      PROVE  Written(rows, starts, ns, tbl)[PlaceOf(tbl, rows[i], p)] = {Tag(rows[i], p)}
  <2>1. p \in Nat /\ p < starts[i] + ns[i] /\ (starts[i] <= p \/ p \in 0..(cached[rows[i]] - 1))
    BY <1>1
  <2> QED BY <1>1, <1>5, <1>6, <2>1
<1>8. ASSUME NEW r \in KVReq
      PROVE  Roomy(tbl, r, cached[r]) /\ Filled(Written(rows, starts, ns, tbl), tbl, r, cached[r])
  BY <1>6 DEF Roomy, Filled
<1>9. ASSUME NEW i \in 1..Len(rows)
      PROVE  Filled(Written(rows, starts, ns, tbl), tbl, rows[i], starts[i] + ns[i])
  BY <1>7 DEF Filled
<1> QED BY <1>8, <1>9

(* gather finds a token at its place: no padded block of the table is read. *)
LEMMA GatheredFacts ==
    ASSUME KVAssumption, NEW pool, NEW tbl \in Tables, NEW r \in KVReq, NEW k \in Nat,
           Blk(k) \in 1..Len(tbl[r])
    PROVE  Gathered(pool, tbl[r], k) = pool[PlaceOf(tbl, r, k)]
PROOF
<1> DEFINE a == k \div KVBlockSize
<1>1. Len(tbl[r]) \in Nat
  BY LenProperties DEF Tables
<1>2. a + 1 \in 1..Len(tbl[r])
  BY DEF Blk
<1>3. a \in Int
  <2>1. KVBlockSize \in Nat \ {0} /\ k \in Int
    BY DEF KVAssumption
  <2> QED BY <2>1
<1>4. Gathered(pool, tbl[r], k)
        = pool[<<IF a < Len(tbl[r]) THEN tbl[r][a + 1] ELSE 0, k % KVBlockSize>>]
  BY DEF Gathered
<1>5. PlaceOf(tbl, r, k) = <<tbl[r][a + 1], k % KVBlockSize>>
  BY DEF PlaceOf, Blk, Off
<1> HIDE DEF a
<1>6. a < Len(tbl[r])
  BY <1>1, <1>2, <1>3
<1> QED BY <1>4, <1>5, <1>6

(* How far the mask of a query goes, real or padding, is within its row.    *)
LEMMA LastSeen ==
    ASSUME NEW a \in Nat, NEW n \in Nat \ {0}, NEW t \in Nat
    PROVE  /\ a + (IF t < n THEN t ELSE n - 1) \in Nat
           /\ a + (IF t < n THEN t ELSE n - 1) < a + n
           /\ a + n \in Nat
PROOF
<1>1. CASE t < n
  BY <1>1
<1>2. CASE ~(t < n)
  BY <1>2
<1> QED BY <1>1, <1>2

LEMMA PassFacts ==
    ASSUME KVAssumption, KVInv, NEW rows, NEW starts, NEW ns, IsBatch(rows, starts, ns),
           NEW tbl, Extended(tbl, rows, starts, ns), Pass(rows, starts, ns, tbl)
    PROVE  KVInv' /\ RealQueriesSeeTheirPast' /\ PadQueriesStayInTheirRow'
PROOF
<1> DEFINE W == Written(rows, starts, ns, tbl)
           T == Maximum(ToSet(ns))
           at(r) == {i \in 1..Len(rows) : rows[i] = r}
<1>1. /\ Len(rows) \in Nat /\ MaxLen \in Nat /\ tbl \in Tables /\ Isolated(tbl)
      /\ \A i \in 1..Len(rows) :
            /\ rows[i] \in KVReq /\ starts[i] \in Nat /\ ns[i] \in Nat \ {0}
            /\ starts[i] + ns[i] \in 0..MaxLen
            /\ Roomy(tbl, rows[i], starts[i] + ns[i])
            /\ Filled(W, tbl, rows[i], starts[i] + ns[i])
  <2>1. rows \in Seq(KVReq) /\ Len(rows) \in Nat
    BY LenProperties DEF IsBatch
  <2>2. \A i \in 1..Len(rows) : Filled(W, tbl, rows[i], starts[i] + ns[i])
    BY WrittenFacts
  <2> HIDE DEF W
  <2> QED BY <2>1, <2>2, ElementOfSeq DEF IsBatch, Extended, KVAssumption
<1>2. /\ keys' = W /\ tables' = tbl /\ admission' = admission
      /\ cached' = [r \in KVReq |-> IF at(r) = {} THEN cached[r]
                                     ELSE LET i == CHOOSE i \in at(r) : TRUE
                                          IN  starts[i] + ns[i]]
      /\ seen' = {[req |-> rows[i], pos |-> starts[i] + t, real |-> t < ns[i],
                   keys |-> UNION {Gathered(W, tbl[rows[i]], k) : k \in Mask(starts, ns, i, t)}] :
                     i \in 1..Len(rows), t \in 0..(T - 1)}
  BY DEF Pass
<1>3. \A i \in 1..Len(rows) : cached'[rows[i]] = starts[i] + ns[i]
  <2> TAKE i \in 1..Len(rows)
  <2>1. at(rows[i]) = {i}
    BY DEF IsBatch
  <2> HIDE DEF at
  <2> QED BY <1>1, <1>2, <2>1
<1>4. ASSUME NEW r \in KVReq
      PROVE  cached'[r] \in 0..MaxLen /\ Roomy(tbl, r, cached'[r]) /\ Filled(W, tbl, r, cached'[r])
  <2>1. CASE \E i \in 1..Len(rows) : rows[i] = r
    BY <1>1, <1>3, <2>1
  <2>2. CASE \A i \in 1..Len(rows) : rows[i] # r
    <3>1. cached'[r] = cached[r]
      BY <1>2, <2>2
    <3>2. Roomy(tbl, r, cached[r]) /\ Filled(W, tbl, r, cached[r])
      BY <2>2, WrittenFacts
    <3> QED BY <3>1, <3>2 DEF KVInv, KVTypeOK
  <2> QED BY <2>1, <2>2
<1>5. KVInv'
  <2>1. KVTypeOK'
    BY <1>1, <1>2, <1>4 DEF KVTypeOK, KVInv
  <2>2. ASSUME NEW r \in KVReq PROVE (Roomy(tables, r, cached[r]) /\ Filled(keys, tables, r, cached[r]))'
    BY <1>2, <1>4 DEF Roomy, Filled, PlaceOf, Tag
  <2>3. Isolated(tables)'
    BY <1>1, <1>2 DEF Isolated
  <2> QED BY <2>1, <2>2, <2>3 DEF KVInv
<1>6. ASSUME NEW q \in seen'
      PROVE  \E i \in 1..Len(rows), t \in 0..(T - 1) :
               /\ q.req = rows[i] /\ q.pos = starts[i] + t /\ q.real = (t < ns[i])
               /\ q.keys = {Tag(rows[i], p) :
                              p \in 0..(starts[i] + (IF t < ns[i] THEN t ELSE ns[i] - 1))}
  <2>1. PICK i \in 1..Len(rows), t \in 0..(T - 1) :
               /\ q.req = rows[i] /\ q.pos = starts[i] + t /\ q.real = (t < ns[i])
               /\ q.keys = UNION {Gathered(W, tbl[rows[i]], k) : k \in Mask(starts, ns, i, t)}
    BY <1>2
  <2> DEFINE m == starts[i] + (IF t < ns[i] THEN t ELSE ns[i] - 1)
  <2>2. Mask(starts, ns, i, t) = 0..m
    BY MaskFacts
  <2> DEFINE n == starts[i] + ns[i]
  <2>3. m \in Nat /\ m < n /\ n \in Nat
    <3>1. starts[i] \in Nat /\ ns[i] \in Nat \ {0} /\ t \in Nat
      BY <1>1
    <3> QED BY <3>1, LastSeen
  <2>4. \A k \in 0..m : Gathered(W, tbl[rows[i]], k) = {Tag(rows[i], k)}
    <3> TAKE k \in 0..m
    <3> HIDE DEF m
    <3>1. k \in 0..(n - 1) /\ k \in Nat
      BY <2>3
    <3>2. rows[i] \in KVReq /\ Roomy(tbl, rows[i], n) /\ Filled(W, tbl, rows[i], n) /\ tbl \in Tables
      BY <1>1
    <3> HIDE DEF n, W
    <3>3. Blk(k) \in 1..Len(tbl[rows[i]]) /\ W[PlaceOf(tbl, rows[i], k)] = {Tag(rows[i], k)}
      BY <3>1, <3>2 DEF Roomy, Filled
    <3> QED BY <3>1, <3>2, <3>3, GatheredFacts, SMTT(30)
  <2> HIDE DEF m, W
  <2>5. q.keys = {Tag(rows[i], p) : p \in 0..m}
    BY <2>1, <2>2, <2>4
  <2> QED BY <2>1, <2>5 DEF m
<1>7. RealQueriesSeeTheirPast'
  <2> SUFFICES ASSUME NEW q \in seen', q.real
               PROVE  q.keys = {Tag(q.req, p) : p \in 0..q.pos}
    BY <1>2 DEF RealQueriesSeeTheirPast, Tag
  <2> QED BY <1>6
<1>8. PadQueriesStayInTheirRow'
  <2> SUFFICES ASSUME NEW q \in seen', ~q.real
               PROVE  q.keys # {} /\ q.keys \subseteq {Tag(q.req, p) : p \in 0..(cached'[q.req] - 1)}
    <3>1. \A r, p : Tag(r, p)' = Tag(r, p)
      BY <1>2 DEF Tag
    <3> QED BY <3>1 DEF PadQueriesStayInTheirRow
  <2>1. PICK i \in 1..Len(rows) :
               /\ q.req = rows[i]
               /\ q.keys = {Tag(rows[i], p) : p \in 0..(starts[i] + (ns[i] - 1))}
    BY <1>6
  <2>2. starts[i] \in Nat /\ ns[i] \in Nat \ {0} /\ cached'[q.req] = starts[i] + ns[i]
    BY <1>1, <1>3, <2>1
  <2>3. cached'[q.req] - 1 = starts[i] + (ns[i] - 1) /\ 0 \in 0..(starts[i] + (ns[i] - 1))
    BY <2>2, SMTT(30)
  <2> QED BY <2>1, <2>3
<1> QED BY <1>5, <1>7, <1>8

-----------------------------------------------------------------------------
(* Blocks for a pass: what a step takes from the pool extends the tables.   *)
LEMMA CountOfRange ==
    \A l, n \in Nat : IsFiniteSet((l + 1)..n)
                     /\ Cardinality((l + 1)..n) = IF l < n THEN n - l ELSE 0
PROOF
  BY FS_Interval

LEMMA StepExtends ==
    ASSUME KVAssumption, KVInv, NEW rows, NEW starts, NEW ns, IsBatch(rows, starts, ns),
           Step(rows, starts, ns)
    PROVE  \E tbl : Extended(tbl, rows, starts, ns) /\ Pass(rows, starts, ns, tbl)
PROOF
<1> DEFINE Chunk == 0..(PoolBlocks - 1)
           top == CeilDiv(MaxLen, KVBlockSize)
           c == [i \in 1..Len(rows) |-> CeilDiv(starts[i] + ns[i], KVBlockSize)]
           need == [r \in KVReq |->
                     Maximum({0} \cup {CeilDiv(starts[i] + ns[i], KVBlockSize) :
                                         i \in {j \in DOMAIN rows : rows[j] = r}})]
           l == [r \in KVReq |-> Len(tables[r])]
           new == {rk \in KVReq \X (1..top) : l[rk[1]] < rk[2] /\ rk[2] <= need[rk[1]]}
           more == [r \in KVReq |-> Cardinality({rk \in new : rk[1] = r})]
(* The terms of Step. *)
<1>1. \E f \in Injection(new, FreePool) :
        Pass(rows, starts, ns,
             [r \in KVReq |-> tables[r] \o [k \in 1..more[r] |-> f[<<r, l[r] + k>>]]])
  <2> DEFINE need0(r) == Maximum({0} \cup {CeilDiv(starts[i] + ns[i], KVBlockSize) :
                                             i \in {j \in DOMAIN rows : rows[j] = r}})
             new0 == {rk \in KVReq \X (1..top) :
                        Len(tables[rk[1]]) < rk[2] /\ rk[2] <= need0(rk[1])}
  <2>1. \E f \in Injection(new0, FreePool) :
          Pass(rows, starts, ns,
               [r \in KVReq |-> tables[r] \o
                  [k \in 1..Cardinality({rk \in new0 : rk[1] = r}) |-> f[<<r, Len(tables[r]) + k>>]]])
    BY DEF Step
  <2>2. new0 = new
    <3>1. \A rk \in KVReq \X (1..top) : need[rk[1]] = need0(rk[1]) /\ l[rk[1]] = Len(tables[rk[1]])
      OBVIOUS
    <3> HIDE DEF need, need0, l
    <3> QED BY <3>1
  <2> HIDE DEF new, new0, need, need0
  <2>3. \A f : [r \in KVReq |-> tables[r] \o
                  [k \in 1..Cardinality({rk \in new0 : rk[1] = r}) |-> f[<<r, Len(tables[r]) + k>>]]]
             = [r \in KVReq |-> tables[r] \o [k \in 1..more[r] |-> f[<<r, l[r] + k>>]]]
    BY <2>2
  <2> HIDE DEF more, l
  <2> QED BY <2>1, <2>2, <2>3
<1>2. /\ Len(rows) \in Nat /\ DOMAIN rows = 1..Len(rows) /\ MaxLen \in Nat \ {0}
      /\ \A i \in 1..Len(rows) : starts[i] + ns[i] \in Nat \ {0} /\ starts[i] + ns[i] <= MaxLen
                                /\ rows[i] \in KVReq
  <2>1. rows \in Seq(KVReq) /\ MaxLen \in Nat \ {0}
    BY DEF IsBatch, KVAssumption
  <2>2. Len(rows) \in Nat /\ DOMAIN rows = 1..Len(rows) /\ \A i \in 1..Len(rows) : rows[i] \in KVReq
    BY <2>1, LenProperties, ElementOfSeq
  <2>3. \A i \in 1..Len(rows) : starts[i] \in Nat /\ ns[i] \in Nat \ {0} /\ starts[i] + ns[i] <= MaxLen
    BY DEF IsBatch
  <2>4. \A i \in 1..Len(rows) : starts[i] + ns[i] \in Nat \ {0}
    BY <2>3
  <2> QED BY <2>1, <2>2, <2>3, <2>4
<1>3. /\ top \in Nat
      /\ \A i \in 1..Len(rows) :
            /\ c[i] \in Nat /\ c[i] <= top /\ c[i] = CeilDiv(starts[i] + ns[i], KVBlockSize)
            /\ \A p \in 0..((starts[i] + ns[i]) - 1) : Blk(p) <= c[i]
  <2>1. top \in Nat /\ \A m \in Nat : m <= MaxLen => CeilDiv(m, KVBlockSize) <= top
    BY <1>2, CeilDivFacts
  <2>2. \A n \in Nat \ {0} : CeilDiv(n, KVBlockSize) \in Nat
                            /\ \A p \in 0..(n - 1) : Blk(p) <= CeilDiv(n, KVBlockSize)
    BY CeilDivFacts
  <2> QED BY <1>2, <2>1, <2>2
<1>4. ASSUME NEW r \in KVReq
      PROVE  /\ need[r] \in 0..top
             /\ \A i \in 1..Len(rows) : rows[i] = r => c[i] <= need[r]
  <2> DEFINE S == {0} \cup {CeilDiv(starts[i] + ns[i], KVBlockSize) :
                              i \in {j \in DOMAIN rows : rows[j] = r}}
  <2>1. S \in SUBSET (0..top) /\ S # {}
    <3> HIDE DEF top
    <3> QED BY <1>2, <1>3
  <2>2. \A i \in 1..Len(rows) : rows[i] = r => c[i] \in S
    BY <1>2
  <2>3. need[r] = Maximum(S)
    OBVIOUS
  <2> HIDE DEF S, need, top, c
  <2>4. Maximum(S) \in S /\ \A z \in S : z <= Maximum(S)
    BY <1>3, <2>1, MaximumExists
  <2> QED BY <2>1, <2>2, <2>3, <2>4
<1> HIDE DEF need, c, top
<1>5. \A r \in KVReq : tables[r] \in Seq(Chunk) /\ l[r] \in Nat /\ l[r] = Len(tables[r])
  BY LenProperties DEF KVInv, KVTypeOK, Tables
<1> HIDE DEF l
<1>6. ASSUME NEW r \in KVReq
      PROVE  /\ more[r] = IF l[r] < need[r] THEN need[r] - l[r] ELSE 0
             /\ more[r] \in Nat
             /\ \A k \in 1..more[r] : <<r, l[r] + k>> \in new
  <2>1. need[r] \in Nat /\ need[r] <= top /\ top \in Nat /\ l[r] \in Nat
    BY <1>3, <1>4, <1>5
  <2> DEFINE S == {rk \in new : rk[1] = r}
  <2>2. \A x : x \in S <=> \E k \in (l[r] + 1)..need[r] : x = <<r, k>>
    <3>1. \A k : k \in 1..top /\ l[r] < k /\ k <= need[r] <=> k \in (l[r] + 1)..need[r]
      BY <2>1
    <3> QED BY <3>1
  <2>3. more[r] = IF l[r] < need[r] THEN need[r] - l[r] ELSE 0
    <3>1. more[r] = Cardinality(S)
      OBVIOUS
    <3> HIDE DEF more, S
    <3>2. PICK a \in Nat, b \in Nat : a = l[r] /\ b = need[r]
      BY <2>1
    <3>3. S = {<<r, k>> : k \in (a + 1)..b}
      BY <2>2, <3>2
    <3> DEFINE g == [k \in (a + 1)..b |-> <<r, k>>]
    <3>5. g \in Bijection((a + 1)..b, S)
      <4>1. g \in [(a + 1)..b -> S]
        BY <3>3
      <4>2. IsInjective(g)
        BY DEF IsInjective
      <4>3. \A y \in S : \E k \in (a + 1)..b : g[k] = y
        BY <3>3
      <4> QED BY <4>1, <4>2, <4>3 DEF Bijection, Injection, Surjection
    <3> HIDE DEF g
    <3>6. ExistsBijection((a + 1)..b, S)
      BY <3>5 DEF ExistsBijection
    <3>4. Cardinality(S) = IF a < b THEN b - a ELSE 0
      BY <3>6, CountOfRange, FS_Bijection
    <3> QED BY <3>1, <3>2, <3>4
  <2> HIDE DEF more
  <2>4. ASSUME NEW k \in 1..more[r] PROVE <<r, l[r] + k>> \in new
    <3>1. l[r] + k \in 1..top /\ l[r] < l[r] + k /\ l[r] + k <= need[r]
      BY <2>1, <2>3
    <3> QED BY <3>1
  <2> QED BY <2>1, <2>3, <2>4
<1> HIDE DEF more, new
<1>7. PICK f \in Injection(new, FreePool) :
        Pass(rows, starts, ns,
             [r \in KVReq |-> tables[r] \o [k \in 1..more[r] |-> f[<<r, l[r] + k>>]]])
  BY <1>1
<1>8. /\ \A x \in new : f[x] \in FreePool /\ f[x] \in Chunk
      /\ \A x, y \in new : f[x] = f[y] => x = y
  BY DEF Injection, IsInjective, FreePool
<1> DEFINE ext == [r \in KVReq |-> [k \in 1..more[r] |-> f[<<r, l[r] + k>>]]]
           tbl == [r \in KVReq |-> tables[r] \o [k \in 1..more[r] |-> f[<<r, l[r] + k>>]]]
<1>9. ASSUME NEW r \in KVReq
      PROVE  /\ tbl[r] \in Seq(Chunk) /\ Len(tbl[r]) \in Nat /\ Len(tbl[r]) = l[r] + more[r]
             /\ \A k \in 1..l[r] : tbl[r][k] = tables[r][k]
             /\ \A k \in 1..Len(tbl[r]) : k \in 1..l[r]
                  \/ (<<r, k>> \in new /\ tbl[r][k] = f[<<r, k>>])
  <2>1. ext[r] \in Seq(Chunk) /\ Len(ext[r]) = more[r]
    <3>1. more[r] \in Nat /\ \A k \in 1..more[r] : f[<<r, l[r] + k>>] \in Chunk
      BY <1>6, <1>8
    <3> DEFINE g == [k \in 1..more[r] |-> f[<<r, l[r] + k>>]]
    <3> HIDE DEF Chunk
    <3>2. g \in [1..more[r] -> Chunk] /\ ext[r] = g
      BY <3>1
    <3> HIDE DEF g, ext
    <3>3. g \in Seq(Chunk) /\ Len(g) = more[r]
      BY <3>1, <3>2
    <3> QED BY <3>2, <3>3
  <2>2. tbl[r] = tables[r] \o ext[r] /\ \A k \in 1..more[r] : ext[r][k] = f[<<r, l[r] + k>>]
    OBVIOUS
  <2> HIDE DEF tbl, ext, Chunk
  <2>3. /\ tbl[r] \in Seq(Chunk) /\ Len(tbl[r]) = l[r] + more[r]
        /\ \A k \in 1..(l[r] + more[r]) :
             tbl[r][k] = IF k <= l[r] THEN tables[r][k] ELSE ext[r][k - l[r]]
    <3>1. /\ tables[r] \o ext[r] \in Seq(Chunk)
          /\ Len(tables[r] \o ext[r]) = Len(tables[r]) + Len(ext[r])
          /\ \A k \in 1..(Len(tables[r]) + Len(ext[r])) :
               (tables[r] \o ext[r])[k]
                 = IF k <= Len(tables[r]) THEN tables[r][k] ELSE ext[r][k - Len(tables[r])]
      <4>1. tables[r] \in Seq(Chunk) /\ ext[r] \in Seq(Chunk)
        BY <1>5, <2>1
      <4> QED BY <4>1, ConcatProperties
    <3>2. Len(tables[r]) = l[r] /\ Len(ext[r]) = more[r]
      BY <1>5, <2>1
    <3> QED BY <2>2, <3>1, <3>2, Zenon
  <2>4. ASSUME NEW k \in 1..Len(tbl[r]), k \notin 1..l[r]
        PROVE  <<r, k>> \in new /\ tbl[r][k] = f[<<r, k>>]
    <3>1. k - l[r] \in 1..more[r] /\ l[r] + (k - l[r]) = k /\ ~(k <= l[r])
      BY <1>5, <1>6, <2>3, <2>4
    <3> QED BY <1>6, <2>2, <2>3, <3>1
  <2>5. Len(tbl[r]) \in Nat /\ \A k \in 1..l[r] : tbl[r][k] = tables[r][k]
    BY <1>5, <1>6, <2>3, SMTT(30)
  <2>6. \A k \in 1..Len(tbl[r]) : k \in 1..l[r] \/ (<<r, k>> \in new /\ tbl[r][k] = f[<<r, k>>])
    BY <2>4
  <2> QED BY <2>3, <2>5, <2>6
<1>10. tbl \in Tables
  <2>1. \A r \in KVReq : tbl[r] \in Seq(Chunk)
    BY <1>9
  <2> HIDE DEF Chunk
  <2>2. tbl \in [KVReq -> Seq(Chunk)]
    BY <2>1
  <2> QED BY <2>2 DEF Tables, Chunk
<1> HIDE DEF tbl, Chunk
<1>11. Isolated(tbl)
  <2> SUFFICES ASSUME NEW r \in KVReq, NEW s \in KVReq,
                      NEW k \in 1..Len(tbl[r]), NEW m \in 1..Len(tbl[s]),
                      tbl[r][k] = tbl[s][m]
               PROVE  r = s /\ k = m
    BY DEF Isolated
  <2>1. \A t \in KVReq : \A j \in 1..l[t] : tables[t][j] \notin FreePool
    <3>1. \A t \in KVReq : \A j \in 1..l[t] : tables[t][j] \in ToSet(tables[t])
      BY <1>5, LenProperties DEF ToSet
    <3> QED BY <3>1 DEF FreePool
  <2>2. CASE k \in 1..l[r] /\ m \in 1..l[s]
    <3>1. tables[r][k] = tables[s][m]
      BY <1>9, <2>2
    <3>2. k \in 1..Len(tables[r]) /\ m \in 1..Len(tables[s])
      BY <1>5, <2>2
    <3> QED BY <3>1, <3>2 DEF KVInv, Isolated
  <2>3. CASE k \notin 1..l[r] /\ m \notin 1..l[s]
    <3>1. <<r, k>> \in new /\ <<s, m>> \in new /\ f[<<r, k>>] = f[<<s, m>>]
      BY <1>9, <2>3
    <3>2. <<r, k>> = <<s, m>>
      BY <1>8, <3>1
    <3> QED BY <3>2
  <2>4. CASE k \in 1..l[r] /\ m \notin 1..l[s]
    <3>1. tbl[s][m] \in FreePool
      BY <1>8, <1>9, <2>4
    <3>2. tbl[r][k] \notin FreePool
      BY <1>9, <2>1, <2>4
    <3> QED BY <3>1, <3>2
  <2>5. CASE k \notin 1..l[r] /\ m \in 1..l[s]
    <3>1. tbl[r][k] \in FreePool
      BY <1>8, <1>9, <2>5
    <3>2. tbl[s][m] \notin FreePool
      BY <1>9, <2>1, <2>5
    <3> QED BY <3>1, <3>2
  <2> QED BY <2>2, <2>3, <2>4, <2>5
<1>12. ASSUME NEW i \in 1..Len(rows)
       PROVE  Roomy(tbl, rows[i], starts[i] + ns[i])
  <2>0. rows[i] \in KVReq /\ need[rows[i]] \in Nat
    BY <1>2, <1>3, <1>4
  <2>1. Len(tbl[rows[i]]) \in Nat /\ c[i] \in Nat /\ c[i] <= Len(tbl[rows[i]])
    <3>1. c[i] <= need[rows[i]] /\ Len(tbl[rows[i]]) = l[rows[i]] + more[rows[i]]
      BY <1>4, <1>9, <2>0
    <3>2. c[i] \in Nat /\ l[rows[i]] \in Nat
          /\ more[rows[i]] = IF l[rows[i]] < need[rows[i]] THEN need[rows[i]] - l[rows[i]] ELSE 0
      BY <1>3, <1>5, <1>6, <2>0
    <3> QED BY <2>0, <3>1, <3>2, SMTT(30)
  <2>2. \A p \in 0..((starts[i] + ns[i]) - 1) : Blk(p) <= c[i] /\ Blk(p) \in Nat \ {0}
    <3>1. \A p \in 0..((starts[i] + ns[i]) - 1) : p \in Nat
      BY <1>2
    <3> QED BY <1>3, <3>1, PlaceFacts
  <2> QED BY <2>1, <2>2 DEF Roomy
<1>13. Extended(tbl, rows, starts, ns)
  <2>1. ASSUME NEW r \in KVReq
        PROVE  Len(tables[r]) <= Len(tbl[r]) /\ \A k \in 1..Len(tables[r]) : tbl[r][k] = tables[r][k]
    <3>1. Len(tables[r]) = l[r] /\ l[r] \in Nat
      BY <1>5
    <3>2. more[r] \in Nat
      BY <1>6
    <3>3. Len(tbl[r]) = l[r] + more[r] /\ \A k \in 1..l[r] : tbl[r][k] = tables[r][k]
      BY <1>9
    <3> HIDE DEF tbl, ext
    <3> QED BY <3>1, <3>2, <3>3
  <2> QED BY <1>10, <1>11, <1>12, <2>1 DEF Extended
<1> QED BY <1>7, <1>13 DEF tbl

-----------------------------------------------------------------------------
(* The actions.                                                             *)
LEMMA SetToSeqFacts ==
    ASSUME NEW E \in SUBSET KVReq, IsFiniteSet(KVReq)
    PROVE  /\ SetToSeq(E) \in Seq(E) /\ Len(SetToSeq(E)) = Cardinality(E)
           /\ Len(SetToSeq(E)) \in Nat
           /\ DOMAIN SetToSeq(E) = 1..Len(SetToSeq(E))
           /\ \A i, j \in 1..Len(SetToSeq(E)) : SetToSeq(E)[i] = SetToSeq(E)[j] => i = j
           /\ E # {} => Len(SetToSeq(E)) # 0
PROOF
<1> DEFINE n == Cardinality(E)
           f == SetToSeq(E)
<1>0. IsFiniteSet(E)
  BY FS_Subset
<1>1. n \in Nat /\ ExistsBijection(1..n, E) /\ (E # {} => n # 0)
  BY <1>0, FS_CardinalityType, FS_EmptySet
<1>2. \E g \in [1..n -> E] : IsInjective(g)
  BY <1>1 DEF ExistsBijection, Bijection, Injection
<1>3. f \in [1..n -> E] /\ IsInjective(f)
  BY <1>2 DEF SetToSeq
<1> HIDE DEF f, n
<1>4. f \in Seq(E) /\ Len(f) = n
  BY <1>1, <1>3
<1>5. \A i, j \in 1..n : f[i] = f[j] => i = j
  BY <1>3 DEF IsInjective
<1> QED BY <1>1, <1>3, <1>4, <1>5 DEF f, n

LEMMA PrefillStep ==
    ASSUME KVAssumption, KVInv, Prefill
    PROVE  KVInv' /\ RealQueriesSeeTheirPast' /\ PadQueriesStayInTheirRow'
PROOF
<1>0. PICK R \in SUBSET {r \in KVReq : cached[r] = 0 /\ admission[r] < MaxAdmissions} :
        \E len \in [R -> 1..(MaxLen - 1)] :
            /\ R # {}
            /\ Step(SetToSeq(R), [i \in DOMAIN SetToSeq(R) |-> 0],
                    [i \in DOMAIN SetToSeq(R) |-> len[SetToSeq(R)[i]]])
  BY DEF Prefill
<1>1. PICK len \in [R -> 1..(MaxLen - 1)] :
        /\ R # {}
        /\ Step(SetToSeq(R), [i \in DOMAIN SetToSeq(R) |-> 0],
                [i \in DOMAIN SetToSeq(R) |-> len[SetToSeq(R)[i]]])
  BY <1>0
<1> DEFINE rows == SetToSeq(R)
           starts == [i \in DOMAIN rows |-> 0]
           ns == [i \in DOMAIN rows |-> len[rows[i]]]
<1>2. /\ rows \in Seq(R) /\ Len(rows) \in Nat /\ DOMAIN rows = 1..Len(rows) /\ Len(rows) # 0
      /\ \A i, j \in 1..Len(rows) : rows[i] = rows[j] => i = j
      /\ \A i \in 1..Len(rows) : rows[i] \in R
  BY <1>1, SetToSeqFacts, ElementOfSeq DEF KVAssumption
<1> HIDE DEF rows
<1>3. IsBatch(rows, starts, ns)
  <2>1. rows \in Seq(KVReq)
    BY <1>2, SeqMonotonic
  <2>2. \A i \in 1..Len(rows) : cached[rows[i]] = 0 /\ len[rows[i]] \in 1..(MaxLen - 1)
    BY <1>2
  <2>3. MaxLen \in Nat
    BY DEF KVAssumption
  <2>4. \A i \in 1..Len(rows) : len[rows[i]] \in Nat \ {0} /\ 0 + len[rows[i]] <= MaxLen
    BY <2>2, <2>3
  <2>5. starts \in [1..Len(rows) -> Nat] /\ ns \in [1..Len(rows) -> Nat \ {0}]
    BY <1>2, <2>4
  <2> QED BY <1>2, <2>1, <2>2, <2>4, <2>5 DEF IsBatch
<1>4. Step(rows, starts, ns)
  BY <1>1 DEF rows
<1> HIDE DEF starts, ns
<1> QED BY <1>3, <1>4, StepExtends, PassFacts

LEMMA DecodeStepStep ==
    ASSUME KVAssumption, KVInv, DecodeStep
    PROVE  KVInv' /\ RealQueriesSeeTheirPast' /\ PadQueriesStayInTheirRow'
PROOF
<1> DEFINE R == {r \in KVReq : cached[r] \in 1..(MaxLen - 1)}
           rows == SetToSeq(R)
           starts == [i \in DOMAIN rows |-> cached[rows[i]]]
           ns == [i \in DOMAIN rows |-> 1]
<1>1. rows # <<>> /\ Step(rows, starts, ns)
  BY DEF DecodeStep
<1>2. /\ rows \in Seq(R) /\ Len(rows) \in Nat /\ DOMAIN rows = 1..Len(rows)
      /\ \A i, j \in 1..Len(rows) : rows[i] = rows[j] => i = j
      /\ \A i \in 1..Len(rows) : rows[i] \in R
  BY SetToSeqFacts, ElementOfSeq DEF KVAssumption
<1>3. Len(rows) # 0
  BY <1>1, <1>2, EmptySeq
<1> HIDE DEF rows
<1>4. IsBatch(rows, starts, ns)
  <2>1. rows \in Seq(KVReq)
    BY <1>2, SeqMonotonic
  <2>2. MaxLen \in Nat
    BY DEF KVAssumption
  <2>3. \A i \in 1..Len(rows) : cached[rows[i]] \in Nat /\ cached[rows[i]] + 1 <= MaxLen
    BY <1>2, <2>2
  <2>4. starts \in [1..Len(rows) -> Nat] /\ ns \in [1..Len(rows) -> Nat \ {0}]
    BY <1>2, <2>3
  <2> QED BY <1>2, <1>3, <2>1, <2>3, <2>4 DEF IsBatch
<1> HIDE DEF starts, ns
<1> QED BY <1>1, <1>4, StepExtends, PassFacts

LEMMA FreeStep ==
    ASSUME KVAssumption, KVInv, NEW r \in KVReq, Free(r)
    PROVE  KVInv' /\ RealQueriesSeeTheirPast' /\ PadQueriesStayInTheirRow'
PROOF
<1>1. /\ tables' = [tables EXCEPT ![r] = <<>>] /\ cached' = [cached EXCEPT ![r] = 0]
      /\ admission' = [admission EXCEPT ![r] = @ + 1] /\ seen' = {} /\ keys' = keys
  BY DEF Free
<1>2. <<>> \in Seq(0..(PoolBlocks - 1)) /\ Len(<<>>) = 0 /\ MaxLen \in Nat
  BY EmptySeq DEF KVAssumption
<1>3. KVTypeOK'
  BY <1>1, <1>2 DEF KVInv, KVTypeOK, Tables
<1>4. \A s \in KVReq : IF s = r THEN tables'[s] = <<>> /\ cached'[s] = 0
                        ELSE tables'[s] = tables[s] /\ cached'[s] = cached[s]
                             /\ admission'[s] = admission[s]
  BY <1>1 DEF KVInv, KVTypeOK, Tables
<1>5. Isolated(tables)'
  <2> SUFFICES ASSUME NEW s \in KVReq, NEW t \in KVReq,
                      NEW k \in 1..Len(tables'[s]), NEW m \in 1..Len(tables'[t]),
                      tables'[s][k] = tables'[t][m]
               PROVE  s = t /\ k = m
    BY DEF Isolated
  <2>1. s # r /\ t # r
    BY <1>2, <1>4
  <2>2. k \in 1..Len(tables[s]) /\ m \in 1..Len(tables[t]) /\ tables[s][k] = tables[t][m]
    BY <1>4, <2>1
  <2> QED BY <2>2, SMTT(30) DEF KVInv, Isolated
<1>6. ASSUME NEW s \in KVReq
      PROVE  (Roomy(tables, s, cached[s]) /\ Filled(keys, tables, s, cached[s]))'
  <2>1. CASE s = r
    BY <1>4, <2>1 DEF Roomy, Filled
  <2>2. CASE s # r
    BY <1>1, <1>4, <2>2 DEF KVInv, Roomy, Filled, PlaceOf, Tag
  <2> QED BY <2>1, <2>2
<1>7. RealQueriesSeeTheirPast' /\ PadQueriesStayInTheirRow'
  BY <1>1 DEF RealQueriesSeeTheirPast, PadQueriesStayInTheirRow
<1> QED BY <1>3, <1>5, <1>6, <1>7 DEF KVInv

LEMMA KVInvInit ==
    ASSUME KVAssumption, KVInit
    PROVE  KVInv /\ RealQueriesSeeTheirPast /\ PadQueriesStayInTheirRow
PROOF
<1>1. <<>> \in Seq(0..(PoolBlocks - 1)) /\ Len(<<>>) = 0 /\ MaxLen \in Nat
  BY EmptySeq DEF KVAssumption
<1>2. KVTypeOK
  BY <1>1 DEF KVInit, KVTypeOK, Tables
<1>3. Isolated(tables) /\ \A r \in KVReq : Roomy(tables, r, cached[r]) /\ Filled(keys, tables, r, cached[r])
  BY <1>1 DEF KVInit, Isolated, Roomy, Filled
<1> QED BY <1>2, <1>3 DEF KVInv, KVInit, RealQueriesSeeTheirPast, PadQueriesStayInTheirRow

LEMMA KVStep ==
    ASSUME KVAssumption, KVInv, RealQueriesSeeTheirPast, PadQueriesStayInTheirRow,
           [KVNext]_kvcVars
    PROVE  KVInv' /\ RealQueriesSeeTheirPast' /\ PadQueriesStayInTheirRow'
PROOF
<1>1. CASE Prefill
  BY <1>1, PrefillStep
<1>2. CASE DecodeStep
  BY <1>2, DecodeStepStep
<1>3. CASE \E r \in KVReq : Free(r)
  BY <1>3, FreeStep
<1>4. CASE UNCHANGED kvcVars
  <2>1. UNCHANGED <<keys, tables, cached, admission, seen>>
    BY <1>4 DEF kvcVars
  <2>2. KVTypeOK' /\ Isolated(tables)'
    BY <2>1 DEF KVInv, KVTypeOK, Isolated
  <2>3. ASSUME NEW r \in KVReq
        PROVE  (Roomy(tables, r, cached[r]) /\ Filled(keys, tables, r, cached[r]))'
    BY <2>1 DEF KVInv, Roomy, Filled, PlaceOf, Tag
  <2>4. RealQueriesSeeTheirPast'
    BY <2>1 DEF RealQueriesSeeTheirPast, Tag
  <2>5. PadQueriesStayInTheirRow'
    BY <2>1 DEF PadQueriesStayInTheirRow, Tag
  <2> QED BY <2>2, <2>3, <2>4, <2>5 DEF KVInv
<1> QED BY <1>1, <1>2, <1>3, <1>4 DEF KVNext

(* Whatever the batches, the block size, the blocks that are found, the     *)
(* evictions and what the blocks held before: a real query attends to the   *)
(* tokens of its own request up to its own, and to nothing else             *)
(* (BatchAccess.build_mask, write and gather).                              *)
THEOREM RowsAreIsolated == KVSpec => []RealQueriesSeeTheirPast
PROOF
<1>1. KVInit => KVInv /\ RealQueriesSeeTheirPast /\ PadQueriesStayInTheirRow
  BY KVInvInit, KVAssumption
<1>2. KVInv /\ RealQueriesSeeTheirPast /\ PadQueriesStayInTheirRow /\ [KVNext]_kvcVars
        => KVInv' /\ RealQueriesSeeTheirPast' /\ PadQueriesStayInTheirRow'
  BY KVStep, KVAssumption
<1> QED BY <1>1, <1>2, PTL DEF KVSpec

(* The queries that only pad a short row attend to tokens of that row, at   *)
(* least one: no softmax over nothing, and no key of a neighbour or of a    *)
(* former owner of a block (BatchAccess.build_mask).                        *)
THEOREM PaddingIsHarmless == KVSpec => []PadQueriesStayInTheirRow
PROOF
<1>1. KVInit => KVInv /\ RealQueriesSeeTheirPast /\ PadQueriesStayInTheirRow
  BY KVInvInit, KVAssumption
<1>2. KVInv /\ RealQueriesSeeTheirPast /\ PadQueriesStayInTheirRow /\ [KVNext]_kvcVars
        => KVInv' /\ RealQueriesSeeTheirPast' /\ PadQueriesStayInTheirRow'
  BY KVStep, KVAssumption
<1> QED BY <1>1, <1>2, PTL DEF KVSpec
=============================================================================
