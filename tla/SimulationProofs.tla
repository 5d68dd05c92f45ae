-------------------------- MODULE SimulationProofs --------------------------
(***************************************************************************)
(* What the page's simulations show, for every number of slots and cells   *)
(* and every stream of lengths: continuous batching is never behind static *)
(* batching, the picture of a lane is its run, and memory is accounted     *)
(* for.                                                                    *)
(***************************************************************************)
EXTENDS SiteSimulations, DataLemmas

Length(id) == At(stream, id)

Batches == [slots : [Slot -> [id : Int, left : Nat]],
            hist : [Slot -> Seq([id : Int, idle : BOOLEAN])],
            next : Nat, done : Nat, busy : Nat, steps : Nat]

(* The slots that work in a step, and the step after the refill.            *)
Busy(s) == {i \in Slot : s.slots[i].left > 0}
CellOf(s, i) == IF i \in Busy(s) THEN [id |-> s.slots[i].id, idle |-> FALSE]
                ELSE [id |-> -1, idle |-> Busy(s) # {}]
Served(s) ==
    [slots |-> [i \in Slot |-> IF i \in Busy(s) THEN [s.slots[i] EXCEPT !.left = @ - 1]
                               ELSE s.slots[i]],
     hist  |-> [i \in Slot |-> Pushed(s.hist[i], CellOf(s, i))],
     next  |-> s.next,
     done  |-> s.done + Cardinality({i \in Busy(s) : s.slots[i].left = 1}),
     busy  |-> s.busy + Cardinality(Busy(s)),
     steps |-> s.steps + 1]

(* The slot-steps done on each request, and the requests done with.         *)
Worked(s) == {p \in (0..(s.next - 1)) \X Nat :
                 /\ p[2] \in 1..Length(p[1])
                 /\ \A i \in Slot : s.slots[i].id = p[1] =>
                        p[2] + s.slots[i].left <= Length(p[1])}
Finished(s) == {n \in 0..(s.next - 1) : \A i \in Slot : s.slots[i].id = n => s.slots[i].left = 0}

(* A slot is empty or holds an admitted request, each request is in one     *)
(* slot at most, and the lane's counters count what has been done.          *)
SlotsInv(s) ==
    /\ \A i \in Slot : \/ s.slots[i].id = -1 /\ s.slots[i].left = 0
                       \/ /\ s.slots[i].id \in 0..(s.next - 1)
                          /\ s.slots[i].left \in 0..Length(s.slots[i].id)
    /\ \A i, j \in Slot : s.slots[i].id = s.slots[j].id /\ s.slots[i].id # -1 => i = j
CountsInv(s) ==
    /\ IsFiniteSet(Worked(s)) /\ s.busy = Cardinality(Worked(s))
    /\ s.done = Cardinality(Finished(s))
    /\ s.busy <= s.steps * SLOTS
LaneInv(s) == s \in Batches /\ SlotsInv(s) /\ CountsInv(s)

-----------------------------------------------------------------------------
LEMMA ConstantFacts ==
    /\ SLOTS \in Nat \ {0} /\ COLS \in Nat \ {0} /\ RESERVE \in Nat \ {0}
    /\ CELLS \in Nat \ {0} /\ MAXREQS \in Nat \ {0} /\ MINFREE \in Nat \ {0}
    /\ IsFiniteSet(Slot) /\ Cardinality(Slot) = SLOTS
PROOF
<1>1. /\ SLOTS \in Nat \ {0} /\ COLS \in Nat \ {0} /\ RESERVE \in Nat \ {0}
      /\ CELLS \in Nat \ {0} /\ MAXREQS \in Nat \ {0} /\ MINFREE \in Nat \ {0}
  BY SimulationAssumption
<1>2. IsFiniteSet(1..SLOTS) /\ Cardinality(1..SLOTS) = SLOTS
  <2>1. 1 \in Int /\ SLOTS \in Int /\ ~(1 > SLOTS) /\ SLOTS - 1 + 1 = SLOTS
    BY <1>1
  <2> QED BY <2>1, FS_Interval
<1> QED BY <1>1, <1>2 DEF Slot

(* The seeded lengths are positive.                                         *)
LEMMA LengthFacts ==
    ASSUME stream \in Streams, NEW id \in Nat
    PROVE  Length(id) \in Nat \ {0}
PROOF
<1>1. PICK st : st = stream /\ st # <<>> /\ \A i \in DOMAIN st : st[i] \in Nat \ {0}
  BY SimulationAssumption
<1>2. Len(st) \in Nat \ {0} /\ DOMAIN st = 1..Len(st)
  BY <1>1
<1>3. id % Len(st) \in 0..(Len(st) - 1)
  BY <1>2
<1> QED BY <1>1, <1>2, <1>3 DEF Length, At

LEMMA TickIs ==
    ASSUME NEW s, NEW mode
    PROVE  Tick(s, mode) = Served(Refilled(s, mode))
PROOF BY DEF Tick, Served, Busy, CellOf

(* The refill in the cases of the code.                                     *)
LEMMA RefilledIs ==
    ASSUME stream \in Streams, NEW s \in Batches, NEW mode,
           Refills({i \in Slot : s.slots[i].left = 0}, mode)
    PROVE  LET E == {i \in Slot : s.slots[i].left = 0}
               r == Refilled(s, mode)
           IN  /\ r \in Batches
               /\ r.next = s.next + Cardinality(E)
               /\ \A i \in Slot \ E : r.slots[i] = s.slots[i]
               /\ \A i \in E : /\ r.slots[i].id = s.next + Rank(E, i)
                               /\ r.slots[i].left = Length(s.next + Rank(E, i))
               /\ r.hist = s.hist /\ r.done = s.done /\ r.busy = s.busy /\ r.steps = s.steps
PROOF
<1> DEFINE E == {i \in Slot : s.slots[i].left = 0}
           new == [i \in Slot |-> IF i \in E
                                  THEN [id |-> s.next + Rank(E, i), left |-> Length(s.next + Rank(E, i))]
                                  ELSE s.slots[i]]
<1>1. Refilled(s, mode) = [s EXCEPT !.next = @ + Cardinality(E), !.slots = new]
  BY DEF Refilled, Rank, Length
<1>2. /\ IsFiniteSet(E) /\ Cardinality(E) \in Nat
      /\ \A i \in E : Rank(E, i) \in 0..(Cardinality(E) - 1)
  <2>1. IsFiniteSet(Slot) /\ E \in SUBSET Slot /\ Slot \in SUBSET Int
    BY ConstantFacts DEF Slot
  <2> HIDE DEF E
  <2>2. IsFiniteSet(E) /\ E \in SUBSET Int
    BY <2>1, FS_Subset
  <2> QED BY <2>2, RankFacts
<1>3. s.next \in Nat /\ \A i \in Slot : s.slots[i] \in [id : Int, left : Nat]
  BY DEF Batches
<1>4. \A i \in E : s.next + Rank(E, i) \in Nat
  BY <1>2, <1>3
<1>5. \A i \in E : Length(s.next + Rank(E, i)) \in Nat
  BY <1>4, LengthFacts
<1>6. new \in [Slot -> [id : Int, left : Nat]]
  BY <1>3, <1>4, <1>5
<1>7. /\ \A i \in Slot \ E : new[i] = s.slots[i]
      /\ \A i \in E : /\ new[i].id = s.next + Rank(E, i)
                      /\ new[i].left = Length(s.next + Rank(E, i))
  OBVIOUS
<1> HIDE DEF new, E
<1>8. PICK m \in Nat : m = s.next + Cardinality(E)
  BY <1>2, <1>3
<1>9. PICK r : r = [s EXCEPT !.next = m, !.slots = new] /\ r = Refilled(s, mode)
  BY <1>1, <1>8
<1>10. r \in Batches
  BY <1>6, <1>9 DEF Batches
<1>11. r.next = m /\ r.slots = new /\ r.hist = s.hist /\ r.done = s.done /\ r.busy = s.busy
       /\ r.steps = s.steps
  BY <1>9 DEF Batches
<1> QED BY <1>7, <1>8, <1>9, <1>10, <1>11 DEF E

(* After a refill the same work has been done, on requests of which more    *)
(* may be admitted; no slot of the continuous lane is left empty, and the   *)
(* static lane admits SLOTS requests when all it admitted is done, or none. *)
LEMMA RefilledInv ==
    ASSUME stream \in Streams, NEW s, LaneInv(s),
           NEW mode \in {"static", "continuous"}
    PROVE  LET r == Refilled(s, mode)
           IN  /\ LaneInv(r) /\ Worked(r) = Worked(s)
               /\ r.steps = s.steps /\ r.hist = s.hist /\ r.busy = s.busy /\ s.next <= r.next
               /\ mode = "continuous" => \A i \in Slot : r.slots[i].left > 0
               /\ mode = "static" => \/ r.next = s.next
                                     \/ /\ \A i \in Slot : s.slots[i].left = 0
                                        /\ r.next = s.next + SLOTS
PROOF
<1> DEFINE E == {i \in Slot : s.slots[i].left = 0}
<1>0. s \in Batches /\ SlotsInv(s) /\ CountsInv(s)
  BY DEF LaneInv
<1>1. CASE ~Refills(E, mode)
  <2>1. Refilled(s, mode) = s
    BY <1>1 DEF Refilled
  <2>2. mode # "continuous"
    BY <1>1 DEF Refills
  <2>3. s.next <= s.next
    BY <1>0 DEF Batches
  <2> QED BY <1>0, <2>1, <2>2, <2>3 DEF LaneInv
<1>2. CASE Refills(E, mode)
  <2>1. PICK r : r = Refilled(s, mode)
    OBVIOUS
  <2>2. /\ r \in Batches
        /\ r.next = s.next + Cardinality(E)
        /\ \A i \in Slot \ E : r.slots[i] = s.slots[i]
        /\ \A i \in E : /\ r.slots[i].id = s.next + Rank(E, i)
                        /\ r.slots[i].left = Length(s.next + Rank(E, i))
        /\ r.hist = s.hist /\ r.done = s.done /\ r.busy = s.busy /\ r.steps = s.steps
    BY <1>0, <1>2, <2>1, RefilledIs
  <2>3. \A i \in Slot : (i \in E <=> s.slots[i].left = 0)
    OBVIOUS
  <2>4. E \in SUBSET Int /\ IsFiniteSet(E) /\ E \subseteq Slot
    <3>1. IsFiniteSet(Slot) /\ E \in SUBSET Slot /\ Slot \in SUBSET Int
      BY ConstantFacts DEF Slot
    <3> QED BY <3>1, FS_Subset
  <2>5. mode = "static" => E = Slot
    BY <1>2 DEF Refills
  <2> HIDE DEF E
  <2>6. PICK m \in Nat : m = Cardinality(E)
    BY <2>4, RankFacts
  <2>7. /\ \A i \in E : Rank(E, i) \in 0..(m - 1)
        /\ \A i, k \in E : Rank(E, i) = Rank(E, k) => i = k
        /\ \A q \in 0..(m - 1) : \E i \in E : Rank(E, i) = q
    <3>1. \A i \in E : Rank(E, i) \in 0..(Cardinality(E) - 1)
      BY <2>4, RankFacts
    <3>2. \A i, k \in E : Rank(E, i) = Rank(E, k) => i = k
      BY <2>4, RankFacts
    <3>3. \A q \in 0..(Cardinality(E) - 1) : \E i \in E : Rank(E, i) = q
      BY <2>4, RankFacts
    <3> QED BY <2>6, <3>1, <3>2, <3>3
  <2>8. PICK n \in Nat : n = s.next /\ r.next = n + m
    BY <1>0, <2>2, <2>6 DEF Batches
  <2>9. \A i \in E : r.slots[i].id \in n..(n + m - 1) /\ r.slots[i].left = Length(r.slots[i].id)
    <3>1. \A k \in 0..(m - 1) : n + k \in n..(n + m - 1)
      OBVIOUS
    <3> QED BY <2>2, <2>7, <2>8, <3>1
  <2>10. \A i \in Slot : s.slots[i].id \in Int /\ s.slots[i].left \in Nat
                        /\ r.slots[i].id \in Int /\ r.slots[i].left \in Nat
    BY <1>0, <2>2 DEF Batches
  <2>11. \A i \in E : Length(r.slots[i].id) \in Nat \ {0}
    BY <2>9, LengthFacts
  <2>12. SlotsInv(r)
    <3>1. ASSUME NEW i \in Slot
          PROVE  \/ r.slots[i].id = -1 /\ r.slots[i].left = 0
                 \/ /\ r.slots[i].id \in 0..(r.next - 1)
                    /\ r.slots[i].left \in 0..Length(r.slots[i].id)
      <4>1. CASE i \in E
        <5>1. r.slots[i].id \in n..(n + m - 1) /\ r.slots[i].left = Length(r.slots[i].id)
              /\ Length(r.slots[i].id) \in Nat
          BY <2>9, <2>11, <4>1
        <5>2. r.slots[i].id \in 0..(r.next - 1)
          <6>1. r.next - 1 = n + m - 1 /\ \A x \in n..(n + m - 1) : x \in 0..(n + m - 1)
            BY <2>8
          <6> QED BY <5>1, <6>1
        <5> QED BY <5>1, <5>2
      <4>2. CASE i \notin E
        <5>1. r.slots[i] = s.slots[i]
          BY <2>2, <4>2
        <5>2. \/ s.slots[i].id = -1 /\ s.slots[i].left = 0
              \/ /\ s.slots[i].id \in 0..(n - 1)
                 /\ s.slots[i].left \in 0..Length(s.slots[i].id)
          BY <1>0, <2>8 DEF SlotsInv
        <5>3. 0..(n - 1) \subseteq 0..(r.next - 1)
          BY <2>8
        <5> QED BY <5>1, <5>2, <5>3
      <4> QED BY <4>1, <4>2
    <3>2. ASSUME NEW i \in Slot, NEW j \in Slot, r.slots[i].id = r.slots[j].id,
                 r.slots[i].id # -1
          PROVE  i = j
      <4>1. ASSUME NEW k \in Slot \ E PROVE r.slots[k] = s.slots[k] /\ r.slots[k].id < n
        <5>1. s.slots[k].id = -1 \/ s.slots[k].id \in 0..(n - 1)
          BY <1>0, <2>8 DEF SlotsInv
        <5>2. s.slots[k].id < n
          BY <5>1
        <5> QED BY <2>2, <5>2
      <4>2. \A k \in E : r.slots[k].id >= n
        BY <2>9
      <4>3. CASE i \in E /\ j \in E
        <5>1. n + Rank(E, i) = n + Rank(E, j)
          BY <2>2, <2>8, <3>2, <4>3
        <5>2. Rank(E, i) = Rank(E, j)
          BY <2>7, <4>3, <5>1
        <5> QED BY <2>7, <4>3, <5>2
      <4>4. CASE i \notin E /\ j \notin E
        <5>1. s.slots[i].id = s.slots[j].id /\ s.slots[i].id # -1
          BY <3>2, <4>1, <4>4
        <5> QED BY <1>0, <5>1 DEF SlotsInv
      <4>5. CASE i \in E /\ j \notin E
        <5>1. r.slots[i].id >= n /\ r.slots[j].id < n /\ r.slots[j].id \in Int
          BY <2>10, <4>1, <4>2, <4>5
        <5> QED BY <3>2, <5>1
      <4>6. CASE i \notin E /\ j \in E
        <5>1. r.slots[j].id >= n /\ r.slots[i].id < n /\ r.slots[i].id \in Int
          BY <2>10, <4>1, <4>2, <4>6
        <5> QED BY <3>2, <5>1
      <4> QED BY <4>3, <4>4, <4>5, <4>6
    <3> QED BY <3>1, <3>2 DEF SlotsInv
  <2>13. ASSUME NEW q \in n..(n + m - 1)
         PROVE  \E i \in E : r.slots[i].id = q /\ r.slots[i].left = Length(q)
    <3>1. q - n \in 0..(m - 1)
      OBVIOUS
    <3>2. PICK i \in E : Rank(E, i) = q - n
      BY <2>7, <3>1
    <3>3. n + Rank(E, i) = q
      BY <3>2
    <3> QED BY <2>2, <2>8, <3>3
  <2>14. Worked(r) = Worked(s)
    <3>1. ASSUME NEW p \in Worked(r) PROVE p \in Worked(s)
      <4>0. r.next - 1 = n + m - 1
        BY <2>8
      <4>1. /\ p \in (0..(n + m - 1)) \X Nat /\ p[2] \in 1..Length(p[1])
            /\ \A i \in Slot : r.slots[i].id = p[1] =>
                                p[2] + r.slots[i].left <= Length(p[1])
        BY <4>0 DEF Worked
      <4>2. p[1] \in 0..(n - 1)
        <5> SUFFICES ASSUME p[1] \notin 0..(n - 1) PROVE FALSE
          OBVIOUS
        <5>1. p[1] \in n..(n + m - 1)
          BY <4>1
        <5>2. PICK i \in E : r.slots[i].id = p[1] /\ r.slots[i].left = Length(p[1])
          BY <2>13, <5>1
        <5>3. Length(p[1]) \in Nat /\ p[2] \in Nat /\ p[2] >= 1
          BY <2>11, <4>1, <5>2
        <5>4. p[2] + Length(p[1]) <= Length(p[1])
          BY <2>4, <4>1, <5>2
        <5> QED BY <5>3, <5>4
      <4>3. ASSUME NEW i \in Slot, s.slots[i].id = p[1]
            PROVE  p[2] + s.slots[i].left <= Length(p[1])
        <5>1. CASE i \in E
          <6>1. s.slots[i].left = 0 /\ p[2] \in Nat /\ Length(p[1]) \in Nat
            BY <2>3, <4>1, <4>2, <5>1, LengthFacts
          <6> QED BY <4>1, <6>1
        <5>2. CASE i \notin E
          BY <2>2, <4>1, <4>3, <5>2
        <5> QED BY <5>1, <5>2
      <4>4. p \in (0..(n - 1)) \X Nat
        BY <4>1, <4>2
      <4> QED BY <2>8, <4>1, <4>3, <4>4 DEF Worked
    <3>2. ASSUME NEW p \in Worked(s) PROVE p \in Worked(r)
      <4>1. /\ p \in (0..(n - 1)) \X Nat /\ p[2] \in 1..Length(p[1])
            /\ \A i \in Slot : s.slots[i].id = p[1] =>
                                p[2] + s.slots[i].left <= Length(p[1])
        BY <2>8 DEF Worked
      <4>2. p \in (0..(n + m - 1)) \X Nat /\ p[1] < n /\ p[1] \in Nat
        BY <4>1
      <4>3. ASSUME NEW i \in Slot, r.slots[i].id = p[1]
            PROVE  p[2] + r.slots[i].left <= Length(p[1])
        <5>1. i \notin E
          BY <2>9, <4>2, <4>3
        <5> QED BY <2>2, <4>1, <4>3, <5>1
      <4> QED BY <2>8, <4>1, <4>2, <4>3 DEF Worked
    <3> QED BY <3>1, <3>2
  <2>15. Finished(r) = Finished(s)
    <3>1. ASSUME NEW q \in Finished(r) PROVE q \in Finished(s)
      <4>1. /\ q \in 0..(n + m - 1)
            /\ \A i \in Slot : r.slots[i].id = q => r.slots[i].left = 0
        BY <2>8 DEF Finished
      <4>2. q \in 0..(n - 1)
        <5> SUFFICES ASSUME q \notin 0..(n - 1) PROVE FALSE
          OBVIOUS
        <5>1. q \in n..(n + m - 1)
          BY <4>1
        <5>2. PICK i \in E : r.slots[i].id = q /\ r.slots[i].left = Length(q)
          BY <2>13, <5>1
        <5> QED BY <2>4, <2>11, <4>1, <5>2
      <4>3. \A i \in Slot : s.slots[i].id = q => s.slots[i].left = 0
        BY <2>2, <2>3, <4>1
      <4> QED BY <2>8, <4>2, <4>3 DEF Finished
    <3>2. ASSUME NEW q \in Finished(s) PROVE q \in Finished(r)
      <4>1. /\ q \in 0..(n - 1)
            /\ \A i \in Slot : s.slots[i].id = q => s.slots[i].left = 0
        BY <2>8 DEF Finished
      <4>2. \A i \in Slot : r.slots[i].id = q => i \notin E
        BY <2>9, <4>1
      <4>3. \A i \in Slot : r.slots[i].id = q => r.slots[i].left = 0
        BY <2>2, <4>1, <4>2
      <4> QED BY <2>8, <4>1, <4>3 DEF Finished
    <3> QED BY <3>1, <3>2
  <2>16. CountsInv(r)
    BY <1>0, <2>2, <2>14, <2>15 DEF CountsInv
  <2>17. mode = "continuous" => \A i \in Slot : r.slots[i].left > 0
    <3>1. \A i \in Slot \ E : s.slots[i].left > 0
      BY <2>3, <2>10
    <3> QED BY <2>2, <2>9, <2>11, <3>1
  <2>18. mode = "static" => /\ \A i \in Slot : s.slots[i].left = 0
                           /\ r.next = s.next + SLOTS
    BY <2>2, <2>3, <2>5, ConstantFacts
  <2>19. s.next <= r.next
    BY <2>8
  <2> QED BY <2>1, <2>2, <2>12, <2>14, <2>16, <2>17, <2>18, <2>19 DEF LaneInv
<1> QED BY <1>1, <1>2

(* A request of length L that has still f to go before a step, f - 1 after. *)
LEMMA LeftFacts ==
    ASSUME NEW f \in Nat \ {0}, NEW L \in Nat \ {0}, NEW w \in Nat
    PROVE  /\ f <= L => /\ f - 1 \in 0..L /\ L - f + 1 \in 1..L /\ L - f + 1 \in Nat
                        /\ ~((L - f + 1) + f <= L) /\ (L - f + 1) + (f - 1) <= L
           /\ w + f <= L => w + (f - 1) <= L
           /\ ~(w + f <= L) /\ w + (f - 1) <= L => w = L - f + 1
PROOF OBVIOUS

(* What the lane's records are made of, and what a working slot holds.      *)
LEMMA SlotFacts ==
    ASSUME stream \in Streams, NEW s \in Batches, SlotsInv(s)
    PROVE  /\ s.next \in Nat
           /\ \A i \in Slot : s.slots[i].id \in Int /\ s.slots[i].left \in Nat
           /\ \A i \in Slot : s.slots[i].id # -1 =>
                  /\ s.slots[i].id \in 0..(s.next - 1) /\ s.slots[i].id \in Nat
                  /\ s.slots[i].left <= Length(s.slots[i].id)
                  /\ Length(s.slots[i].id) \in Nat \ {0}
           /\ \A i \in Busy(s) : s.slots[i].id # -1 /\ i \in Slot /\ s.slots[i].left \in Nat \ {0}
PROOF
<1>1. s.next \in Nat /\ \A i \in Slot : s.slots[i].id \in Int /\ s.slots[i].left \in Nat
  BY DEF Batches
<1>2. ASSUME NEW i \in Slot, s.slots[i].id # -1
      PROVE  /\ s.slots[i].id \in 0..(s.next - 1) /\ s.slots[i].id \in Nat
             /\ s.slots[i].left <= Length(s.slots[i].id)
             /\ Length(s.slots[i].id) \in Nat \ {0}
  <2>1. /\ s.slots[i].id \in 0..(s.next - 1)
        /\ s.slots[i].left \in 0..Length(s.slots[i].id)
    BY <1>2 DEF SlotsInv
  <2>2. s.slots[i].id \in Nat
    BY <1>1, <2>1
  <2>3. Length(s.slots[i].id) \in Nat \ {0}
    <3>1. PICK d \in Nat : d = s.slots[i].id
      BY <2>2
    <3>2. Length(d) \in Nat \ {0}
      BY LengthFacts
    <3> QED BY <3>1, <3>2
  <2>4. s.slots[i].left <= Length(s.slots[i].id)
    BY <2>1, <2>3
  <2> QED BY <2>1, <2>2, <2>3, <2>4
<1>3. ASSUME NEW i \in Busy(s) PROVE s.slots[i].id # -1 /\ i \in Slot /\ s.slots[i].left \in Nat \ {0}
  <2>1. i \in Slot /\ s.slots[i].left > 0
    BY DEF Busy
  <2>2. s.slots[i].left \in Nat \ {0}
    BY <1>1, <2>1
  <2>3. s.slots[i].id # -1
    BY <2>1, <2>2 DEF SlotsInv
  <2> QED BY <2>1, <2>2, <2>3
<1> QED BY <1>1, <1>2, <1>3

(* The step's slots.                                                        *)
LEMMA ServedIs ==
    ASSUME stream \in Streams, NEW s \in Batches, SlotsInv(s)
    PROVE  LET t == Served(s)
           IN  /\ t.next = s.next /\ t.steps = s.steps + 1
               /\ t.slots \in [Slot -> [id : Int, left : Nat]]
               /\ \A i \in Slot : t.slots[i].id = s.slots[i].id
               /\ \A i \in Busy(s) : t.slots[i].left = s.slots[i].left - 1
               /\ \A i \in Slot \ Busy(s) : t.slots[i].left = 0 /\ s.slots[i].left = 0
PROOF
<1> DEFINE new == [i \in Slot |-> IF i \in Busy(s) THEN [s.slots[i] EXCEPT !.left = @ - 1]
                                  ELSE s.slots[i]]
<1>1. Served(s).slots = new /\ Served(s).next = s.next /\ Served(s).steps = s.steps + 1
  BY DEF Served
<1>2. \A i \in Slot : s.slots[i] \in [id : Int, left : Nat]
  BY DEF Batches
<1>3. ASSUME NEW i \in Busy(s)
      PROVE  /\ i \in Slot /\ new[i] \in [id : Int, left : Nat]
             /\ new[i].id = s.slots[i].id /\ new[i].left = s.slots[i].left - 1
  <2>1. i \in Slot /\ s.slots[i].left \in Nat \ {0}
    BY SlotFacts
  <2>2. PICK v \in [id : Int, left : Nat] : v = s.slots[i]
    BY <1>2, <2>1
  <2>3. new[i] = [v EXCEPT !.left = v.left - 1]
    BY <2>1, <2>2
  <2>4. v.left - 1 \in Nat
    BY <2>1, <2>2
  <2> QED BY <2>1, <2>2, <2>3, <2>4
<1>4. ASSUME NEW i \in Slot \ Busy(s)
      PROVE  new[i] = s.slots[i] /\ s.slots[i].left = 0
  BY <1>2 DEF Busy
<1>5. new \in [Slot -> [id : Int, left : Nat]]
  <2>1. \A i \in Slot : new[i] \in [id : Int, left : Nat]
    BY <1>2, <1>3, <1>4
  <2> QED BY <2>1
<1> HIDE DEF new
<1>6. \A i \in Slot : new[i].id = s.slots[i].id
  BY <1>3, <1>4
<1> QED BY <1>1, <1>3, <1>4, <1>5, <1>6

(* The slot-steps of one step, and the requests it finishes.                *)
NewWork(s) == {<<s.slots[i].id, Length(s.slots[i].id) - s.slots[i].left + 1>> : i \in Busy(s)}
NewDone(s) == {s.slots[i].id : i \in {j \in Busy(s) : s.slots[j].left = 1}}

LEMMA ServedSets ==
    ASSUME stream \in Streams, NEW s \in Batches, SlotsInv(s)
    PROVE  LET t == Served(s)
           IN  /\ SlotsInv(t)
               /\ Worked(t) = Worked(s) \cup NewWork(s) /\ Worked(s) \cap NewWork(s) = {}
               /\ Finished(t) = Finished(s) \cup NewDone(s) /\ Finished(s) \cap NewDone(s) = {}
PROOF
<1>1. PICK t : t = Served(s)
  OBVIOUS
<1>2. PICK n \in Nat : n = s.next /\ n = t.next
  BY <1>1, SlotFacts, ServedIs
<1>3. /\ \A i \in Slot : t.slots[i].id = s.slots[i].id
      /\ \A i \in Busy(s) : t.slots[i].left = s.slots[i].left - 1
      /\ \A i \in Slot \ Busy(s) : t.slots[i].left = 0 /\ s.slots[i].left = 0
  BY <1>1, ServedIs
<1>4. /\ \A i \in Slot : s.slots[i].id \in Int /\ s.slots[i].left \in Nat
      /\ \A i \in Slot : s.slots[i].id # -1 =>
             /\ s.slots[i].id \in 0..(n - 1) /\ s.slots[i].id \in Nat
             /\ s.slots[i].left <= Length(s.slots[i].id)
             /\ Length(s.slots[i].id) \in Nat \ {0}
      /\ \A i \in Busy(s) : s.slots[i].id # -1 /\ i \in Slot /\ s.slots[i].left \in Nat \ {0}
  BY <1>2, SlotFacts
<1>5. \A i, j \in Slot : s.slots[i].id = s.slots[j].id /\ s.slots[i].id # -1 => i = j
  BY DEF SlotsInv
<1>6. SlotsInv(t)
  <2>1. ASSUME NEW i \in Slot
        PROVE  \/ t.slots[i].id = -1 /\ t.slots[i].left = 0
               \/ /\ t.slots[i].id \in 0..(n - 1)
                  /\ t.slots[i].left \in 0..Length(t.slots[i].id)
    <3>1. CASE i \in Busy(s)
      <4>1. PICK d \in Nat, f \in Nat \ {0}, L \in Nat \ {0} :
                d = s.slots[i].id /\ f = s.slots[i].left /\ L = Length(d) /\ f <= L
                /\ d \in 0..(n - 1)
        BY <1>4, <3>1
      <4>2. t.slots[i].id = d /\ t.slots[i].left = f - 1
        BY <1>3, <3>1, <4>1
      <4>3. f - 1 \in 0..L
        BY <4>1, LeftFacts
      <4> QED BY <4>1, <4>2, <4>3
    <3>2. CASE i \notin Busy(s) /\ s.slots[i].id # -1
      <4>1. t.slots[i].id = s.slots[i].id /\ t.slots[i].left = 0
            /\ s.slots[i].id \in 0..(n - 1) /\ Length(s.slots[i].id) \in Nat
        BY <1>3, <1>4, <3>2
      <4>2. 0 \in 0..Length(s.slots[i].id)
        BY <4>1
      <4> QED BY <4>1, <4>2
    <3>3. CASE i \notin Busy(s) /\ s.slots[i].id = -1
      <4>1. t.slots[i].id = -1 /\ t.slots[i].left = 0
        BY <1>3, <3>3
      <4> QED BY <4>1
    <3> QED BY <3>1, <3>2, <3>3
  <2>2. \A i, j \in Slot : t.slots[i].id = t.slots[j].id /\ t.slots[i].id # -1 => i = j
    BY <1>3, <1>5
  <2> QED BY <1>2, <2>1, <2>2 DEF SlotsInv
<1>7. ASSUME NEW p \in Worked(s) PROVE p \in Worked(t)
  <2>1. /\ p \in (0..(n - 1)) \X Nat /\ p[2] \in 1..Length(p[1])
        /\ \A i \in Slot : s.slots[i].id = p[1] => p[2] + s.slots[i].left <= Length(p[1])
    BY <1>2 DEF Worked
  <2>2. Length(p[1]) \in Nat \ {0} /\ p[2] \in Nat
    <3>1. PICK d \in Nat : d = p[1]
      BY <2>1
    <3>2. Length(d) \in Nat \ {0}
      BY LengthFacts
    <3> QED BY <2>1, <3>1, <3>2
  <2>3. ASSUME NEW i \in Slot, t.slots[i].id = p[1] PROVE p[2] + t.slots[i].left <= Length(p[1])
    <3>1. p[2] + s.slots[i].left <= Length(p[1])
      BY <1>3, <2>1, <2>3
    <3>2. CASE i \in Busy(s)
      <4>1. PICK f \in Nat \ {0} : f = s.slots[i].left /\ t.slots[i].left = f - 1
        BY <1>3, <1>4, <3>2
      <4>2. PICK L \in Nat \ {0}, w \in Nat : L = Length(p[1]) /\ w = p[2] /\ w + f <= L
        BY <2>2, <3>1, <4>1
      <4>3. w + (f - 1) <= L
        BY <4>2, LeftFacts
      <4> QED BY <4>1, <4>2, <4>3
    <3>3. CASE i \notin Busy(s)
      BY <1>3, <3>1, <3>3
    <3> QED BY <3>2, <3>3
  <2> QED BY <1>2, <2>1, <2>3 DEF Worked
<1>8. ASSUME NEW p \in NewWork(s) PROVE p \in Worked(t) /\ p \notin Worked(s)
  <2>1. PICK i \in Busy(s) : p = <<s.slots[i].id, Length(s.slots[i].id) - s.slots[i].left + 1>>
    BY DEF NewWork
  <2>2. PICK d \in Nat, f \in Nat \ {0}, L \in Nat \ {0} :
            d = s.slots[i].id /\ f = s.slots[i].left /\ L = Length(d) /\ f <= L /\ d \in 0..(n - 1)
    BY <1>4, <2>1
  <2>3. p[1] = d /\ p[2] = L - f + 1 /\ p \in (0..(n - 1)) \X Nat /\ p[2] \in 1..L
    <3>1. PICK w \in Nat : w = L - f + 1 /\ w \in 1..L
      <4>1. L - f + 1 \in 1..L /\ L - f + 1 \in Nat
        BY <2>2, LeftFacts
      <4> QED BY <4>1
    <3>2. p = <<d, w>>
      BY <2>1, <2>2, <3>1
    <3> QED BY <2>2, <3>1, <3>2
  <2>4. \A j \in Slot : t.slots[j].id = d => t.slots[j].left = f - 1
    BY <1>3, <1>4, <1>5, <2>1, <2>2
  <2>5. p \in Worked(t)
    <3>1. p[2] + (f - 1) <= L
      BY <2>2, <2>3, LeftFacts
    <3> QED BY <1>2, <2>2, <2>3, <2>4, <3>1 DEF Worked
  <2>6. p \notin Worked(s)
    <3>1. ~(p[2] + f <= L)
      BY <2>2, <2>3, LeftFacts
    <3> QED BY <1>4, <2>1, <2>2, <2>3, <3>1 DEF Worked
  <2> QED BY <2>5, <2>6
<1>9. ASSUME NEW p \in Worked(t), p \notin Worked(s) PROVE p \in NewWork(s)
  <2>1. /\ p \in (0..(n - 1)) \X Nat /\ p[2] \in 1..Length(p[1])
        /\ \A i \in Slot : t.slots[i].id = p[1] => p[2] + t.slots[i].left <= Length(p[1])
    BY <1>2 DEF Worked
  <2>2. PICK i \in Slot : s.slots[i].id = p[1] /\ ~(p[2] + s.slots[i].left <= Length(p[1]))
    BY <1>2, <1>9, <2>1 DEF Worked
  <2>3. p[2] + t.slots[i].left <= Length(p[1])
    BY <1>3, <2>1, <2>2
  <2>4. i \in Busy(s)
    BY <1>3, <2>2, <2>3
  <2>5. p[2] = Length(p[1]) - s.slots[i].left + 1
    <3>1. PICK L \in Nat \ {0}, w \in Nat : L = Length(p[1]) /\ w = p[2]
      <4>1. PICK d \in Nat : d = p[1]
        BY <2>1
      <4>2. Length(d) \in Nat \ {0}
        BY LengthFacts
      <4> QED BY <2>1, <4>1, <4>2
    <3>2. PICK f \in Nat \ {0} : f = s.slots[i].left /\ t.slots[i].left = f - 1
      BY <1>3, <1>4, <2>4
    <3>3. ~(w + f <= L) /\ w + (f - 1) <= L
      BY <2>2, <2>3, <3>1, <3>2
    <3>4. w = L - f + 1
      BY <3>3, LeftFacts
    <3> QED BY <3>1, <3>2, <3>4
  <2>6. p = <<p[1], p[2]>>
    BY <2>1
  <2> QED BY <2>2, <2>4, <2>5, <2>6 DEF NewWork
<1>10. ASSUME NEW q \in Finished(s) PROVE q \in Finished(t) /\ q \notin NewDone(s)
  <2>1. q \in 0..(n - 1) /\ \A i \in Slot : s.slots[i].id = q => s.slots[i].left = 0
    BY <1>2 DEF Finished
  <2>2. \A i \in Slot : s.slots[i].id = q => i \notin Busy(s)
    BY <1>4, <2>1
  <2>3. \A i \in Slot : t.slots[i].id = q => t.slots[i].left = 0
    BY <1>3, <2>2
  <2>4. q \notin NewDone(s)
    BY <1>4, <2>2 DEF NewDone
  <2> QED BY <1>2, <2>1, <2>3, <2>4 DEF Finished
<1>11. ASSUME NEW q \in NewDone(s) PROVE q \in Finished(t)
  <2>1. PICK i \in Busy(s) : q = s.slots[i].id /\ s.slots[i].left = 1
    BY DEF NewDone
  <2>2. q \in 0..(n - 1) /\ q # -1 /\ i \in Slot
    BY <1>4, <2>1
  <2>3. \A j \in Slot : t.slots[j].id = q => j = i
    BY <1>3, <1>5, <2>1, <2>2
  <2>4. t.slots[i].left = 0
    BY <1>3, <2>1
  <2> QED BY <1>2, <2>2, <2>3, <2>4 DEF Finished
<1>12. ASSUME NEW q \in Finished(t), q \notin Finished(s) PROVE q \in NewDone(s)
  <2>1. q \in 0..(n - 1) /\ \A i \in Slot : t.slots[i].id = q => t.slots[i].left = 0
    BY <1>2 DEF Finished
  <2>2. PICK i \in Slot : s.slots[i].id = q /\ s.slots[i].left # 0
    BY <1>2, <1>12, <2>1 DEF Finished
  <2>3. i \in Busy(s) /\ t.slots[i].left = 0
    BY <1>3, <2>1, <2>2
  <2>4. s.slots[i].left = 1
    <3>1. PICK f \in Nat \ {0} : f = s.slots[i].left /\ t.slots[i].left = f - 1
      BY <1>3, <1>4, <2>3
    <3>2. f - 1 = 0
      BY <2>3, <3>1
    <3> QED BY <3>1, <3>2
  <2> QED BY <2>2, <2>3, <2>4 DEF NewDone
<1>13. Worked(t) = Worked(s) \cup NewWork(s) /\ Worked(s) \cap NewWork(s) = {}
  BY <1>7, <1>8, <1>9
<1>14. Finished(t) = Finished(s) \cup NewDone(s) /\ Finished(s) \cap NewDone(s) = {}
  BY <1>10, <1>11, <1>12
<1> QED BY <1>1, <1>6, <1>13, <1>14

-----------------------------------------------------------------------------
(* A row of the history grows by a cell up to COLS of them.                 *)
LEMMA PushedFacts ==
    ASSUME NEW C, NEW h \in Seq(C), NEW cell \in C, COLS \in Nat \ {0}, Len(h) <= COLS
    PROVE  /\ Pushed(h, cell) \in Seq(C)
           /\ Len(h) < COLS => Pushed(h, cell) = Append(h, cell)
           /\ Len(Pushed(h, cell)) = IF Len(h) < COLS THEN Len(h) + 1 ELSE COLS
PROOF
<1>1. CASE Len(h) < COLS
  <2>1. Pushed(h, cell) = Append(h, cell)
    BY <1>1 DEF Pushed
  <2> QED BY <1>1, <2>1
<1>2. CASE ~(Len(h) < COLS)
  <2>1. Len(h) = COLS
    BY <1>2
  <2>2. PICK v : v = SubSeq(h, Len(h) - COLS + 2, Len(h))
    OBVIOUS
  <2>3. v \in Seq(C) /\ Len(v) = COLS - 1
    BY <2>1, <2>2
  <2>4. Pushed(h, cell) = Append(v, cell)
    BY <2>1, <2>2 DEF Pushed
  <2>5. Append(v, cell) \in Seq(C) /\ Len(Append(v, cell)) = COLS
    BY <2>3
  <2> QED BY <1>2, <2>4, <2>5
<1> QED BY <1>1, <1>2

(* The rows of a lane: as long as the steps there were, up to COLS.         *)
Rows(s) == \A i \in Slot : Len(s.hist[i]) = IF s.steps < COLS THEN s.steps ELSE COLS

LEMMA ServedRows ==
    ASSUME NEW s \in Batches, Rows(s)
    PROVE  /\ Served(s) \in [slots : {Served(s).slots},
                             hist : [Slot -> Seq([id : Int, idle : BOOLEAN])],
                             next : {s.next}, done : {Served(s).done},
                             busy : {s.busy + Cardinality(Busy(s))}, steps : {s.steps + 1}]
           /\ Rows(Served(s))
           /\ s.steps < COLS => \A i \in Slot : Served(s).hist[i] = Append(s.hist[i], CellOf(s, i))
PROOF
<1> DEFINE C == [id : Int, idle : BOOLEAN]
           new == [i \in Slot |-> Pushed(s.hist[i], CellOf(s, i))]
<1>1. PICK n \in Nat : n = s.steps
  BY DEF Batches
<1>2. COLS \in Nat \ {0}
  BY ConstantFacts
<1>3. ASSUME NEW i \in Slot
      PROVE  /\ new[i] \in Seq(C)
             /\ n < COLS => new[i] = Append(s.hist[i], CellOf(s, i))
             /\ Len(new[i]) = IF n + 1 < COLS THEN n + 1 ELSE COLS
  <2>1. CellOf(s, i) \in C
    <3>1. s.slots[i] \in [id : Int, left : Nat]
      BY DEF Batches
    <3>2. s.slots[i].id \in Int /\ (Busy(s) # {}) \in BOOLEAN
      BY <3>1
    <3> QED BY <3>2 DEF CellOf
  <2>2. PICK h \in Seq(C) : h = s.hist[i]
    BY DEF Batches
  <2>3. Len(h) = IF n < COLS THEN n ELSE COLS
    BY <1>1, <2>2 DEF Rows
  <2>4. Len(h) <= COLS /\ (n < COLS <=> Len(h) < COLS) /\ (n < COLS => Len(h) = n)
    BY <1>1, <1>2, <2>3
  <2>5. /\ Pushed(h, CellOf(s, i)) \in Seq(C)
        /\ Len(h) < COLS => Pushed(h, CellOf(s, i)) = Append(h, CellOf(s, i))
        /\ Len(Pushed(h, CellOf(s, i))) = IF Len(h) < COLS THEN Len(h) + 1 ELSE COLS
    BY <1>2, <2>1, <2>4, PushedFacts
  <2>6. new[i] = Pushed(h, CellOf(s, i))
    BY <2>2
  <2>7. (IF Len(h) < COLS THEN Len(h) + 1 ELSE COLS) = IF n + 1 < COLS THEN n + 1 ELSE COLS
    BY <1>1, <1>2, <2>4
  <2> QED BY <2>2, <2>4, <2>5, <2>6, <2>7
<1>4. new \in [Slot -> Seq(C)]
  BY <1>3
<1>5. Served(s).hist = new /\ Served(s).steps = n + 1
  BY <1>1 DEF Served
<1>6. Served(s) \in [slots : {Served(s).slots}, hist : {new},
                     next : {s.next}, done : {Served(s).done},
                     busy : {s.busy + Cardinality(Busy(s))}, steps : {s.steps + 1}]
  BY DEF Served
<1> HIDE DEF new
<1>7. Rows(Served(s))
  BY <1>3, <1>5 DEF Rows
<1>8. Served(s) \in [slots : {Served(s).slots}, hist : [Slot -> Seq(C)],
                     next : {s.next}, done : {Served(s).done},
                     busy : {s.busy + Cardinality(Busy(s))}, steps : {s.steps + 1}]
  <2>1. PICK t : t = Served(s)
    OBVIOUS
  <2>2. t \in [slots : {t.slots}, hist : {new}, next : {s.next}, done : {t.done},
               busy : {s.busy + Cardinality(Busy(s))}, steps : {s.steps + 1}]
    BY <1>6, <2>1
  <2>3. t \in [slots : {t.slots}, hist : [Slot -> Seq(C)], next : {s.next}, done : {t.done},
               busy : {s.busy + Cardinality(Busy(s))}, steps : {s.steps + 1}]
    BY <1>4, <2>2
  <2> QED BY <2>1, <2>3
<1> QED BY <1>1, <1>3, <1>5, <1>7, <1>8

(* One step adds a slot-step for each working slot.                         *)
LEMMA ServedCounts ==
    ASSUME stream \in Streams, NEW s \in Batches, SlotsInv(s)
    PROVE  /\ IsFiniteSet(Busy(s)) /\ Cardinality(Busy(s)) \in Nat
           /\ Cardinality(Busy(s)) <= SLOTS
           /\ IsFiniteSet(NewWork(s)) /\ Cardinality(NewWork(s)) = Cardinality(Busy(s))
           /\ IsFiniteSet(NewDone(s))
           /\ Cardinality(NewDone(s)) = Cardinality({i \in Busy(s) : s.slots[i].left = 1})
           /\ Cardinality(NewDone(s)) \in Nat
           /\ IsFiniteSet(Finished(s)) /\ Cardinality(Finished(s)) \in Nat
PROOF
<1>1. IsFiniteSet(Slot) /\ Cardinality(Slot) = SLOTS /\ SLOTS \in Nat
  BY ConstantFacts
<1>2. IsFiniteSet(Busy(s)) /\ Cardinality(Busy(s)) <= Cardinality(Slot)
  <2>1. Busy(s) \in SUBSET Slot
    BY DEF Busy
  <2> QED BY <1>1, <2>1, FS_Subset
<1>3. Cardinality(Busy(s)) \in Nat
  BY <1>2, FS_CardinalityType
<1>4. \A i, j \in Busy(s) : s.slots[i].id = s.slots[j].id => i = j
  <2>1. \A i \in Busy(s) : i \in Slot /\ s.slots[i].id # -1
    BY SlotFacts
  <2> QED BY <2>1 DEF SlotsInv
<1>5. IsFiniteSet(NewWork(s)) /\ Cardinality(NewWork(s)) = Cardinality(Busy(s))
  <2> DEFINE f == [i \in Busy(s) |-> <<s.slots[i].id, Length(s.slots[i].id) - s.slots[i].left + 1>>]
  <2>1. \A i, j \in Busy(s) : f[i] = f[j] => i = j
    <3>1. ASSUME NEW i \in Busy(s), NEW j \in Busy(s), f[i] = f[j] PROVE i = j
      <4>1. f[i] = <<s.slots[i].id, Length(s.slots[i].id) - s.slots[i].left + 1>>
        OBVIOUS
      <4>2. f[j] = <<s.slots[j].id, Length(s.slots[j].id) - s.slots[j].left + 1>>
        OBVIOUS
      <4> HIDE DEF f
      <4>3. s.slots[i].id = f[i][1] /\ s.slots[j].id = f[j][1]
        BY <4>1, <4>2
      <4>4. s.slots[i].id = s.slots[j].id
        BY <3>1, <4>3
      <4> QED BY <1>4, <4>4
    <3> QED BY <3>1
  <2>2. /\ \A i \in Busy(s) : f[i] \in NewWork(s)
        /\ \A p \in NewWork(s) : \E i \in Busy(s) : f[i] = p
    BY DEF NewWork
  <2> HIDE DEF f
  <2> QED BY <1>2, <2>1, <2>2, ImageCount
<1>6. /\ IsFiniteSet(NewDone(s))
      /\ Cardinality(NewDone(s)) = Cardinality({i \in Busy(s) : s.slots[i].left = 1})
  <2> DEFINE J == {i \in Busy(s) : s.slots[i].left = 1}
             f == [i \in J |-> s.slots[i].id]
  <2>1. \A i, j \in J : f[i] = f[j] => i = j
    BY <1>4
  <2>2. /\ \A i \in J : f[i] \in NewDone(s)
        /\ \A p \in NewDone(s) : \E i \in J : f[i] = p
    BY DEF NewDone
  <2>3. IsFiniteSet(J)
    <3>1. J \in SUBSET Busy(s)
      OBVIOUS
    <3> QED BY <1>2, <3>1, FS_Subset
  <2> HIDE DEF f, J
  <2>4. IsFiniteSet(NewDone(s)) /\ Cardinality(NewDone(s)) = Cardinality(J)
    BY <2>1, <2>2, <2>3, ImageCount
  <2> QED BY <2>4 DEF J
<1>7. Cardinality(NewDone(s)) \in Nat
  BY <1>6, FS_CardinalityType
<1>8. IsFiniteSet(Finished(s))
  <2>1. s.next \in Nat
    BY DEF Batches
  <2>2. PICK n \in Nat : n = s.next
    BY <2>1
  <2>3. IsFiniteSet(0..(n - 1))
    <3>1. 0 \in Int /\ n - 1 \in Int
      BY <2>2
    <3> QED BY <3>1, FS_Interval
  <2>4. Finished(s) \in SUBSET (0..(n - 1))
    BY <2>2 DEF Finished
  <2> QED BY <2>3, <2>4, FS_Subset
<1>9. Cardinality(Finished(s)) \in Nat
  BY <1>8, FS_CardinalityType
<1> QED BY <1>1, <1>2, <1>3, <1>5, <1>6, <1>7, <1>8, <1>9

LEMMA OneMoreStep ==
    ASSUME NEW n \in Nat, NEW k \in Nat, NEW b \in Nat, NEW w \in Nat, b <= n * k, w <= k
    PROVE  b + w <= (n + 1) * k
PROOF
<1>1. (n + 1) * k = n * k + k /\ n * k \in Nat
  OBVIOUS
<1> QED BY <1>1

LEMMA ServedInv ==
    ASSUME stream \in Streams, NEW s, LaneInv(s), Rows(s)
    PROVE  LaneInv(Served(s)) /\ Rows(Served(s))
PROOF
<1>1. s \in Batches /\ SlotsInv(s) /\ CountsInv(s)
  BY DEF LaneInv
<1>2. PICK t : t = Served(s)
  OBVIOUS
<1>3. /\ SlotsInv(t)
      /\ Worked(t) = Worked(s) \cup NewWork(s) /\ Worked(s) \cap NewWork(s) = {}
      /\ Finished(t) = Finished(s) \cup NewDone(s) /\ Finished(s) \cap NewDone(s) = {}
  BY <1>1, <1>2, ServedSets
<1>4. /\ Cardinality(Busy(s)) \in Nat /\ Cardinality(Busy(s)) <= SLOTS
      /\ IsFiniteSet(NewWork(s)) /\ Cardinality(NewWork(s)) = Cardinality(Busy(s))
      /\ IsFiniteSet(NewDone(s))
      /\ Cardinality(NewDone(s)) = Cardinality({i \in Busy(s) : s.slots[i].left = 1})
      /\ Cardinality(NewDone(s)) \in Nat
      /\ IsFiniteSet(Finished(s)) /\ Cardinality(Finished(s)) \in Nat
  BY <1>1, ServedCounts
<1>5. /\ IsFiniteSet(Worked(s)) /\ s.busy = Cardinality(Worked(s))
      /\ s.done = Cardinality(Finished(s)) /\ s.busy <= s.steps * SLOTS
  BY <1>1 DEF CountsInv
<1>6. s.busy \in Nat /\ s.done \in Nat /\ s.steps \in Nat /\ s.next \in Nat
  BY <1>1 DEF Batches
<1>7. IsFiniteSet(Worked(t)) /\ Cardinality(Worked(t)) = s.busy + Cardinality(Busy(s))
  <2>1. Cardinality(Worked(s) \cup NewWork(s))
            = Cardinality(Worked(s)) + Cardinality(NewWork(s))
        /\ IsFiniteSet(Worked(s) \cup NewWork(s))
    BY <1>3, <1>4, <1>5, DisjointCount
  <2> QED BY <1>3, <1>4, <1>5, <2>1
<1>8. Cardinality(Finished(t)) = s.done + Cardinality(NewDone(s))
  <2>1. Cardinality(Finished(s) \cup NewDone(s))
            = Cardinality(Finished(s)) + Cardinality(NewDone(s))
    BY <1>3, <1>4, DisjointCount
  <2> QED BY <1>3, <1>5, <2>1
<1>9. t.done = s.done + Cardinality(NewDone(s))
  BY <1>2, <1>4 DEF Served
<1>10. /\ t \in [slots : {t.slots}, hist : [Slot -> Seq([id : Int, idle : BOOLEAN])],
                 next : {s.next}, done : {t.done},
                 busy : {s.busy + Cardinality(Busy(s))}, steps : {s.steps + 1}]
       /\ Rows(t)
  BY <1>1, <1>2, ServedRows
<1>11. t.slots \in [Slot -> [id : Int, left : Nat]]
  BY <1>1, <1>2, ServedIs
<1>12. t.busy = s.busy + Cardinality(Busy(s)) /\ t.steps = s.steps + 1
  BY <1>10
<1>13. t \in Batches
  <2>1. PICK b \in Nat, e \in Nat, q \in Nat :
            b = s.busy + Cardinality(Busy(s)) /\ e = t.done /\ q = s.steps + 1
    <3>1. s.busy + Cardinality(Busy(s)) \in Nat
      BY <1>4, <1>6
    <3>2. t.done \in Nat
      <4>1. PICK e \in Nat, f \in Nat : e = s.done /\ f = Cardinality(NewDone(s))
        BY <1>4, <1>6
      <4>2. e + f \in Nat
        OBVIOUS
      <4> QED BY <1>9, <4>1, <4>2
    <3>3. s.steps + 1 \in Nat
      BY <1>6
    <3> QED BY <3>1, <3>2, <3>3
  <2>2. t \in [slots : {t.slots}, hist : [Slot -> Seq([id : Int, idle : BOOLEAN])],
               next : {s.next}, done : {e}, busy : {b}, steps : {q}]
    BY <1>10, <2>1
  <2> QED BY <1>6, <1>11, <2>1, <2>2 DEF Batches
<1>14. t.busy <= t.steps * SLOTS
  <2>1. SLOTS \in Nat
    BY ConstantFacts
  <2>2. s.busy + Cardinality(Busy(s)) <= (s.steps + 1) * SLOTS
    BY <1>4, <1>5, <1>6, <2>1, OneMoreStep
  <2> QED BY <1>12, <2>2
<1>15. CountsInv(t)
  BY <1>7, <1>8, <1>9, <1>12, <1>14 DEF CountsInv
<1> QED BY <1>2, <1>3, <1>10, <1>13, <1>15 DEF LaneInv

-----------------------------------------------------------------------------
(* Two lanes on one stream: b has done, on each request, at least what a    *)
(* has.                                                                     *)
Ahead(a, b) == a.next <= b.next /\ Worked(a) \subseteq Worked(b)

(* What it is to have done k steps on a request, by the slot that holds it. *)
LEMMA AheadFacts ==
    ASSUME NEW f \in Nat \ {0}, NEW L \in Nat \ {0}, NEW e \in Nat
    PROVE  /\ f # L /\ f <= L => L - f \in 1..L /\ L - f + f <= L
           /\ L - f + e <= L => e <= f
           /\ e <= f /\ f <= L => (L - f + 1) + (e - 1) <= L
PROOF OBVIOUS

LEMMA IdFacts ==
    ASSUME NEW n \in Nat, NEW q \in Nat, n <= q
    PROVE  /\ \A d \in 0..(n - 1) : d \in 0..(q - 1) /\ d \in Nat
           /\ n \in Int /\ q - 1 \in Int /\ (n > q - 1 => q - n = 0) /\ (q - 1) - n + 1 = q - n
PROOF OBVIOUS

LEMMA WorkedIs ==
    ASSUME stream \in Streams, NEW s \in Batches, SlotsInv(s),
           NEW d \in 0..(s.next - 1), NEW k \in 1..Length(d)
    PROVE  <<d, k>> \in Worked(s) <=>
               \A i \in Slot : s.slots[i].id = d => k + s.slots[i].left <= Length(d)
PROOF
<1>1. PICK n \in Nat : n = s.next
  BY DEF Batches
<1>2. PICK L \in Nat : L = Length(d)
  <2>1. d \in Nat
    BY <1>1
  <2> QED BY <2>1, LengthFacts
<1>3. k \in Nat /\ k \in 1..L /\ d \in 0..(n - 1)
  BY <1>1, <1>2
<1>4. PICK p : p = <<d, k>>
  OBVIOUS
<1>5. p[1] = d /\ p[2] = k /\ p \in (0..(n - 1)) \X Nat
  BY <1>3, <1>4
<1> QED BY <1>1, <1>2, <1>3, <1>4, <1>5 DEF Worked

(* A request is done with when its last step is.                            *)
LEMMA FinishedIs ==
    ASSUME stream \in Streams, NEW s \in Batches, SlotsInv(s),
           NEW d \in 0..(s.next - 1)
    PROVE  /\ Length(d) \in Nat \ {0} /\ Length(d) \in 1..Length(d)
           /\ d \in Finished(s) <=> <<d, Length(d)>> \in Worked(s)
PROOF
<1>1. PICK n \in Nat : n = s.next
  BY DEF Batches
<1>2. Length(d) \in Nat \ {0}
  <2>1. d \in Nat
    BY <1>1
  <2> QED BY <2>1, LengthFacts
<1>3. Length(d) \in 1..Length(d)
  BY <1>2
<1>4. <<d, Length(d)>> \in Worked(s) <=>
          \A i \in Slot : s.slots[i].id = d => Length(d) + s.slots[i].left <= Length(d)
  BY <1>3, WorkedIs
<1>5. \A i \in Slot : Length(d) + s.slots[i].left <= Length(d) <=> s.slots[i].left = 0
  <2>1. ASSUME NEW f \in Nat, NEW L \in Nat PROVE L + f <= L <=> f = 0
    OBVIOUS
  <2>2. \A i \in Slot : s.slots[i].left \in Nat
    BY SlotFacts
  <2> QED BY <1>2, <2>1, <2>2
<1>6. d \in Finished(s) <=> \A i \in Slot : s.slots[i].id = d => s.slots[i].left = 0
  BY DEF Finished
<1> QED BY <1>2, <1>3, <1>4, <1>5, <1>6

(* A step keeps the lane that is ahead ahead.                               *)
LEMMA ServedAhead ==
    ASSUME stream \in Streams, NEW a \in Batches, NEW b \in Batches,
           SlotsInv(a), SlotsInv(b), Ahead(a, b)
    PROVE  Ahead(Served(a), Served(b))
PROOF
<1>1. PICK n \in Nat, m \in Nat : n = a.next /\ m = b.next /\ n <= m
  BY DEF Batches, Ahead
<1>2. /\ Worked(Served(a)) = Worked(a) \cup NewWork(a)
      /\ Worked(Served(b)) = Worked(b) \cup NewWork(b)
      /\ SlotsInv(Served(b))
  BY ServedSets
<1>3. ASSUME NEW p \in NewWork(a) PROVE p \in Worked(Served(b))
  <2>1. PICK i \in Busy(a) : p = <<a.slots[i].id, Length(a.slots[i].id) - a.slots[i].left + 1>>
    BY DEF NewWork
  <2>2. PICK d \in Nat, f \in Nat \ {0}, L \in Nat \ {0} :
            /\ d = a.slots[i].id /\ f = a.slots[i].left /\ L = Length(d) /\ f <= L
            /\ d \in 0..(n - 1) /\ i \in Slot /\ d # -1
    BY <1>1, <2>1, SlotFacts
  <2>3. PICK w \in Nat : w = L - f + 1 /\ w \in 1..L
    <3>1. L - f + 1 \in 1..L /\ L - f + 1 \in Nat
      BY <2>2, LeftFacts
    <3> QED BY <3>1
  <2>4. p = <<d, w>>
    BY <2>1, <2>2, <2>3
  <2>5. d \in 0..(m - 1)
    <3>1. n \in Nat /\ m \in Nat /\ n <= m
      BY <1>1
    <3>2. \A x \in 0..(n - 1) : x \in 0..(m - 1) /\ x \in Nat
      BY <3>1, IdFacts
    <3> QED BY <2>2, <3>2
  <2>6. ASSUME NEW j \in Slot, b.slots[j].id = d
        PROVE  b.slots[j].left \in Nat /\ b.slots[j].left <= f
    <3>1. PICK e \in Nat : e = b.slots[j].left /\ e <= L
      BY <2>2, <2>6, SlotFacts
    <3>2. CASE f = L
      BY <3>1, <3>2
    <3>3. CASE f # L
      <4>1. L - f \in 1..L
        BY <2>2, <3>3, AheadFacts
      <4>2. <<d, L - f>> \in Worked(a)
        <5>1. \A k \in Slot : a.slots[k].id = d => L - f + a.slots[k].left <= L
          <6>1. \A k \in Slot : a.slots[k].id = d => k = i
            BY <2>2 DEF SlotsInv
          <6>2. L - f + f <= L
            BY <2>2, <3>3, AheadFacts
          <6> QED BY <2>2, <6>1, <6>2
        <5> QED BY <1>1, <2>2, <4>1, <5>1, WorkedIs
      <4>3. <<d, L - f>> \in Worked(b)
        BY <4>2 DEF Ahead
      <4>4. L - f + e <= L
        BY <1>1, <2>2, <2>5, <2>6, <3>1, <4>1, <4>3, WorkedIs
      <4>5. L - f + e <= L => e <= f
        BY AheadFacts
      <4> QED BY <3>1, <4>4, <4>5
    <3> QED BY <3>2, <3>3
  <2>7. PICK t : t = Served(b) /\ t.next = m /\ SlotsInv(t)
    BY <1>1, <1>2, ServedIs
  <2>8. ASSUME NEW j \in Slot, t.slots[j].id = d PROVE w + t.slots[j].left <= L
    <3>1. b.slots[j].id = d
      BY <2>7, <2>8, ServedIs
    <3>2. PICK e \in Nat : e = b.slots[j].left /\ e <= f
      BY <2>6, <3>1
    <3>3. CASE j \in Busy(b)
      <4>1. t.slots[j].left = e - 1
        BY <2>7, <3>2, <3>3, ServedIs
      <4>2. w + (e - 1) <= L
        <5>1. e <= f /\ f <= L => (L - f + 1) + (e - 1) <= L
          BY AheadFacts
        <5> QED BY <2>2, <2>3, <3>2, <5>1
      <4> QED BY <4>1, <4>2
    <3>4. CASE j \notin Busy(b)
      <4>1. t.slots[j].left = 0
        BY <2>7, <3>4, ServedIs
      <4>2. w + 0 <= L
        BY <2>2, <2>3
      <4> QED BY <4>1, <4>2
    <3> QED BY <3>3, <3>4
  <2>9. p[1] = d /\ p[2] = w /\ p \in (0..(m - 1)) \X Nat
    BY <2>3, <2>4, <2>5
  <2> QED BY <2>2, <2>3, <2>7, <2>8, <2>9 DEF Worked
<1>4. Served(a).next = n /\ Served(b).next = m
  BY <1>1, ServedIs
<1> QED BY <1>1, <1>2, <1>3, <1>4 DEF Ahead

(* Admission: the static lane admits only when what it admitted is done     *)
(* with, and then the slots of the other lane, all refilled, hold SLOTS     *)
(* requests that it has not admitted yet.                                   *)
LEMMA RefilledAhead ==
    ASSUME stream \in Streams, NEW a, NEW b,
           LaneInv(a), LaneInv(b), Ahead(a, b)
    PROVE  Ahead(Refilled(a, "static"), Refilled(b, "continuous"))
PROOF
<1>1. PICK x : /\ x = Refilled(a, "static") /\ LaneInv(x) /\ Worked(x) = Worked(a)
               /\ a.next <= x.next
               /\ \/ x.next = a.next
                  \/ /\ \A i \in Slot : a.slots[i].left = 0
                     /\ x.next = a.next + SLOTS
  BY RefilledInv
<1>2. PICK y : /\ y = Refilled(b, "continuous") /\ LaneInv(y) /\ Worked(y) = Worked(b)
               /\ b.next <= y.next /\ \A i \in Slot : y.slots[i].left > 0
  BY RefilledInv
<1>3. /\ a \in Batches /\ SlotsInv(a) /\ b \in Batches /\ SlotsInv(b)
      /\ x \in Batches /\ SlotsInv(x) /\ y \in Batches /\ SlotsInv(y)
  BY <1>1, <1>2 DEF LaneInv
<1>4. PICK n \in Nat, m \in Nat, q \in Nat : n = a.next /\ m = b.next /\ q = y.next
                                            /\ n <= m /\ m <= q
  BY <1>2, <1>3 DEF Batches, Ahead
<1>5. CASE x.next = a.next
  <2>1. x.next <= q
    BY <1>4, <1>5
  <2> QED BY <1>1, <1>2, <1>4, <2>1 DEF Ahead
<1>6. CASE (\A i \in Slot : a.slots[i].left = 0) /\ x.next = a.next + SLOTS
  <2>1. ASSUME NEW i \in Slot PROVE y.slots[i].id \in n..(q - 1)
    <3>1. y.slots[i].left \in Nat /\ y.slots[i].left > 0 /\ i \in Busy(y)
      BY <1>2, <1>3, SlotFacts DEF Busy
    <3>2. PICK d \in Nat : d = y.slots[i].id /\ d \in 0..(q - 1)
      BY <1>3, <1>4, <3>1, SlotFacts
    <3>3. ~(d < n)
      <4> SUFFICES ASSUME d < n PROVE FALSE
        OBVIOUS
      <4>1. d \in 0..(n - 1)
        BY <1>4
      <4>2. d \in Finished(a)
        BY <1>4, <1>6, <4>1 DEF Finished
      <4>3. <<d, Length(d)>> \in Worked(a)
        BY <1>3, <1>4, <4>1, <4>2, FinishedIs
      <4>4. <<d, Length(d)>> \in Worked(y)
        BY <1>2, <4>3 DEF Ahead
      <4>5. d \in Finished(y)
        BY <1>3, <1>4, <3>2, <4>4, FinishedIs
      <4>6. y.slots[i].left = 0
        BY <3>2, <4>5 DEF Finished
      <4> QED BY <3>1, <4>6
    <3>4. d \in n..(q - 1)
      BY <3>2, <3>3, <1>4
    <3> QED BY <3>2, <3>4
  <2>2. \A i, j \in Slot : y.slots[i].id = y.slots[j].id => i = j
    <3>1. \A i \in Slot : y.slots[i].id # -1
      BY <1>4, <2>1
    <3> QED BY <1>3, <3>1 DEF SlotsInv
  <2>3. IsFiniteSet(n..(q - 1)) /\ Cardinality(n..(q - 1)) = q - n
    <3>0. n <= q
      BY <1>4
    <3>1. n \in Int /\ q - 1 \in Int /\ (n > q - 1 => q - n = 0) /\ (q - 1) - n + 1 = q - n
      BY <1>4, <3>0, IdFacts
    <3> QED BY <3>1, FS_Interval
  <2>4. SLOTS <= q - n
    <3> DEFINE f == [i \in Slot |-> y.slots[i].id]
               T == {f[i] : i \in Slot}
    <3>1. \A i, j \in Slot : f[i] = f[j] => i = j
      BY <2>2
    <3>2. \A i \in Slot : f[i] \in T
      OBVIOUS
    <3>3. \A t \in T : \E i \in Slot : f[i] = t
      OBVIOUS
    <3>4. T \in SUBSET (n..(q - 1))
      BY <2>1
    <3> HIDE DEF f, T
    <3>5. IsFiniteSet(Slot) /\ Cardinality(Slot) = SLOTS
      BY ConstantFacts
    <3>6. Cardinality(T) = SLOTS
      BY <3>1, <3>2, <3>3, <3>5, ImageCount
    <3>7. Cardinality(T) <= Cardinality(n..(q - 1))
      BY <2>3, <3>4, FS_Subset
    <3> QED BY <2>3, <3>6, <3>7
  <2>5. x.next <= q
    <3>1. SLOTS \in Nat
      BY ConstantFacts
    <3>2. n + SLOTS <= q
      BY <1>4, <2>4, <3>1
    <3> QED BY <1>4, <1>6, <3>2
  <2> QED BY <1>1, <1>2, <1>4, <2>5 DEF Ahead
<1> QED BY <1>1, <1>5, <1>6

-----------------------------------------------------------------------------
(* The coloured cells of a history that shows every step.                   *)
Shown(s) == {ij \in Slot \X (1..s.steps) : s.hist[ij[1]][ij[2]].id # -1}
HistInv(s) == s.steps <= COLS => IsFiniteSet(Shown(s)) /\ s.busy = Cardinality(Shown(s))

LaneOK(s) == LaneInv(s) /\ Rows(s) /\ HistInv(s)
LanesOK(b) ==
    /\ LaneOK(b.static) /\ LaneOK(b.continuous)
    /\ Ahead(b.static, b.continuous) /\ b.static.steps = b.continuous.steps
LanesInv == stream \in Streams /\ LanesOK(batching)

LEMMA ServedHist ==
    ASSUME stream \in Streams, NEW s, LaneOK(s)
    PROVE  HistInv(Served(s))
PROOF
<1>1. s \in Batches /\ SlotsInv(s) /\ Rows(s)
  BY DEF LaneOK, LaneInv
<1>2. PICK n \in Nat : n = s.steps
  BY <1>1 DEF Batches
<1>3. PICK t : t = Served(s)
  OBVIOUS
<1>4. t.steps = n + 1 /\ t.busy = s.busy + Cardinality(Busy(s))
  BY <1>2, <1>3 DEF Served
<1>5. COLS \in Nat
  BY ConstantFacts
<1>6. CASE n < COLS
  <2> DEFINE New == {<<i, n + 1>> : i \in Busy(s)}
  <2>1. IsFiniteSet(Shown(s)) /\ s.busy = Cardinality(Shown(s))
    <3>1. n <= COLS
      BY <1>5, <1>6
    <3> QED BY <1>2, <3>1 DEF LaneOK, HistInv
  <2>2. IsFiniteSet(New) /\ Cardinality(New) = Cardinality(Busy(s))
    <3> DEFINE f == [i \in Busy(s) |-> <<i, n + 1>>]
    <3>1. \A i, j \in Busy(s) : f[i] = f[j] => i = j
      OBVIOUS
    <3>2. \A i \in Busy(s) : f[i] \in New
      OBVIOUS
    <3>3. \A p \in New : \E i \in Busy(s) : f[i] = p
      OBVIOUS
    <3>4. IsFiniteSet(Busy(s))
      BY <1>1, ServedCounts
    <3> HIDE DEF f, New
    <3> QED BY <3>1, <3>2, <3>3, <3>4, ImageCount
  <2>3. ASSUME NEW i \in Slot
        PROVE  /\ \A k \in 1..n : t.hist[i][k] = s.hist[i][k]
               /\ t.hist[i][n + 1].id # -1 <=> i \in Busy(s)
    <3>1. PICK h \in Seq([id : Int, idle : BOOLEAN]) : h = s.hist[i]
      BY <1>1 DEF Batches
    <3>2. Len(h) = n
      BY <1>1, <1>2, <1>6, <3>1 DEF Rows
    <3>3. PICK c : c = CellOf(s, i)
      OBVIOUS
    <3>4. t.hist[i] = Append(h, c)
      BY <1>1, <1>2, <1>3, <1>6, <3>1, <3>3, ServedRows
    <3>5. c.id # -1 <=> i \in Busy(s)
      <4>1. CASE i \in Busy(s)
        <5>1. s.slots[i].id # -1
          BY <1>1, <4>1, SlotFacts
        <5> QED BY <3>3, <4>1, <5>1 DEF CellOf
      <4>2. CASE i \notin Busy(s)
        BY <3>3, <4>2 DEF CellOf
      <4> QED BY <4>1, <4>2
    <3>6. Append(h, c)[n + 1] = c /\ \A k \in 1..n : Append(h, c)[k] = h[k]
      BY <3>2
    <3> QED BY <3>1, <3>4, <3>5, <3>6
  <2>4. Shown(t) = Shown(s) \cup New /\ Shown(s) \cap New = {}
    <3>1. \A ij \in Slot \X (1..n) : ij \in Shown(t) <=> ij \in Shown(s)
      <4>1. ASSUME NEW i \in Slot, NEW k \in 1..n, NEW ij, ij = <<i, k>>
            PROVE  ij \in Shown(t) <=> ij \in Shown(s)
        <5>1. k \in 1..(n + 1)
          BY <1>2
        <5>2. t.hist[i][k] = s.hist[i][k]
          BY <2>3
        <5> QED BY <1>2, <1>4, <4>1, <5>1, <5>2 DEF Shown
      <4> QED BY <4>1
    <3>2. \A i \in Slot : <<i, n + 1>> \in Shown(t) <=> <<i, n + 1>> \in New
      <4>1. ASSUME NEW i \in Slot, NEW ij, ij = <<i, n + 1>>
            PROVE  ij \in Shown(t) <=> i \in Busy(s)
        <5>1. n + 1 \in 1..(n + 1)
          BY <1>2
        <5>2. t.hist[i][n + 1].id # -1 <=> i \in Busy(s)
          BY <2>3
        <5> QED BY <1>4, <4>1, <5>1, <5>2 DEF Shown
      <4>2. \A i \in Slot : <<i, n + 1>> \in New <=> i \in Busy(s)
        OBVIOUS
      <4> QED BY <4>1, <4>2
    <3>3. ASSUME NEW ij \in Shown(t) PROVE \E i \in Slot, k \in 1..(n + 1) : ij = <<i, k>>
      BY <1>4 DEF Shown
    <3>4. ASSUME NEW ij \in Shown(s) PROVE ij \in Slot \X (1..n)
      BY <1>2 DEF Shown
    <3>5. ASSUME NEW ij \in New PROVE ij \notin Slot \X (1..n) /\ \E i \in Slot : ij = <<i, n + 1>>
      <4>1. PICK i \in Busy(s) : ij = <<i, n + 1>>
        OBVIOUS
      <4>2. n + 1 \notin 1..n /\ i \in Slot
        BY <1>2 DEF Busy
      <4> QED BY <4>1, <4>2
    <3> HIDE DEF New
    <3>6. \A k \in 1..(n + 1) : k \in 1..n \/ k = n + 1
      BY <1>2
    <3>7. ASSUME NEW ij \in Shown(t) PROVE ij \in Shown(s) \cup New
      <4>1. PICK i \in Slot, k \in 1..(n + 1) : ij = <<i, k>>
        BY <3>3
      <4>2. CASE k \in 1..n
        <5>1. ij \in Slot \X (1..n)
          BY <4>1, <4>2
        <5> QED BY <3>1, <3>7, <5>1
      <4>3. CASE k = n + 1
        BY <3>2, <3>7, <4>1, <4>3
      <4> QED BY <3>6, <4>2, <4>3
    <3> QED BY <3>1, <3>2, <3>4, <3>5, <3>7
  <2> HIDE DEF New
  <2>5. IsFiniteSet(Shown(t)) /\ Cardinality(Shown(t)) = Cardinality(Shown(s)) + Cardinality(New)
    <3>1. /\ IsFiniteSet(Shown(s) \cup New)
          /\ Cardinality(Shown(s) \cup New) = Cardinality(Shown(s)) + Cardinality(New)
      BY <2>1, <2>2, <2>4, DisjointCount
    <3> QED BY <2>4, <3>1
  <2>6. t.busy = Cardinality(Shown(t))
    BY <1>4, <2>1, <2>2, <2>5
  <2> QED BY <1>3, <2>5, <2>6 DEF HistInv
<1>7. CASE ~(n < COLS)
  <2>1. ~(n + 1 <= COLS)
    BY <1>5, <1>7
  <2> QED BY <1>3, <1>4, <2>1 DEF HistInv
<1> QED BY <1>6, <1>7

(* A step of both lanes.                                                    *)
LEMMA TickLane ==
    ASSUME stream \in Streams, NEW s, LaneOK(s),
           NEW mode \in {"static", "continuous"}
    PROVE  LaneOK(Tick(s, mode)) /\ Tick(s, mode).steps = s.steps + 1
PROOF
<1>1. PICK r : r = Refilled(s, mode)
  OBVIOUS
<1>2. LaneInv(r) /\ r.steps = s.steps /\ r.hist = s.hist /\ r.busy = s.busy
  BY <1>1, RefilledInv DEF LaneOK
<1>3. LaneOK(r)
  BY <1>2 DEF LaneOK, Rows, HistInv, Shown
<1>4. LaneOK(Served(r))
  BY <1>3, ServedInv, ServedHist DEF LaneOK
<1>5. Served(r).steps = r.steps + 1
  BY DEF Served
<1> QED BY <1>1, <1>2, <1>4, <1>5, TickIs

LEMMA TickLanes ==
    ASSUME stream \in Streams, NEW b, LanesOK(b)
    PROVE  LanesOK(TickBoth(b))
PROOF
<1>1. PICK x, y : x = Refilled(b.static, "static") /\ y = Refilled(b.continuous, "continuous")
  OBVIOUS
<1>2. LaneOK(b.static) /\ LaneOK(b.continuous) /\ Ahead(b.static, b.continuous)
      /\ b.static.steps = b.continuous.steps
  BY DEF LanesOK
<1>3. LaneInv(x) /\ LaneInv(y) /\ Ahead(x, y)
  BY <1>1, <1>2, RefilledInv, RefilledAhead DEF LaneOK
<1>4. Ahead(Served(x), Served(y))
  BY <1>3, ServedAhead DEF LaneInv
<1>5. PICK v, w : v = Tick(b.static, "static") /\ w = Tick(b.continuous, "continuous")
                  /\ v = Served(x) /\ w = Served(y)
  BY <1>1, TickIs
<1>6. LaneOK(v) /\ v.steps = b.static.steps + 1
  BY <1>2, <1>5, TickLane
<1>7. LaneOK(w) /\ w.steps = b.continuous.steps + 1
  BY <1>2, <1>5, TickLane
<1>8. TickBoth(b) = [static |-> v, continuous |-> w]
  BY <1>5 DEF TickBoth
<1> QED BY <1>2, <1>4, <1>5, <1>6, <1>7, <1>8 DEF LanesOK

LEMMA FreshIsOK ==
    ASSUME stream \in Streams
    PROVE  LanesOK(FreshLanes)
PROOF
<1>1. PICK s : s = FreshBatch
  OBVIOUS
<1>2. /\ s.next = 0 /\ s.done = 0 /\ s.busy = 0 /\ s.steps = 0
      /\ \A i \in Slot : s.slots[i].id = -1 /\ s.slots[i].left = 0 /\ s.hist[i] = <<>>
  BY <1>1 DEF FreshBatch
<1>3. s \in Batches
  BY <1>1 DEF FreshBatch, Batches
<1>4. SlotsInv(s)
  BY <1>2 DEF SlotsInv
<1>5. Worked(s) = {} /\ Finished(s) = {} /\ Shown(s) = {}
  BY <1>2 DEF Worked, Finished, Shown
<1>6. SLOTS \in Nat /\ COLS \in Nat \ {0}
  BY ConstantFacts
<1>7. CountsInv(s)
  <2>1. 0 <= 0 * SLOTS
    BY <1>6
  <2> QED BY <1>2, <1>5, <2>1, FS_EmptySet DEF CountsInv
<1>8. Rows(s)
  BY <1>2, <1>6 DEF Rows
<1>9. HistInv(s)
  BY <1>2, <1>5, FS_EmptySet DEF HistInv
<1>10. LaneOK(s)
  BY <1>3, <1>4, <1>7, <1>8, <1>9 DEF LaneOK, LaneInv
<1>11. Ahead(s, s)
  BY <1>2 DEF Ahead
<1>12. FreshLanes = [static |-> s, continuous |-> s]
  BY <1>1 DEF FreshLanes
<1> QED BY <1>10, <1>11, <1>12 DEF LanesOK

-----------------------------------------------------------------------------
(* What a step does to the batching picture.                                *)
LEMMA BatchingStep ==
    ASSUME [SimNext]_simVars
    PROVE  /\ stream' = stream
           /\ batching' \in {batching, TickBoth(batching), FreshLanes}
PROOF
<1>1. CASE UNCHANGED simVars
  BY <1>1 DEF simVars
<1>2. ASSUME NEW w \in Sims, SimStep(w)
      PROVE  stream' = stream /\ batching' \in {batching, TickBoth(batching), FreshLanes}
  <2>1. CASE DrawFrame(w)
    BY <2>1 DEF DrawFrame, Advance
  <2>2. CASE TimerFires(w) \/ StepButton(w)
    BY <2>2 DEF TimerFires, StepButton, Advance
  <2>3. CASE Restart(w)
    BY <2>3 DEF Restart
  <2>4. CASE PlayOrPause(w) \/ SetSpeed(w) \/ Scroll(w)
    BY <2>4 DEF PlayOrPause, SetSpeed, Scroll
  <2> QED BY <1>2, <2>1, <2>2, <2>3, <2>4 DEF SimStep
<1> QED BY <1>1, <1>2 DEF SimNext

LEMMA LanesKept ==
    ASSUME LanesInv, [SimNext]_simVars
    PROVE  LanesInv'
PROOF
<1>1. stream' = stream /\ stream \in Streams
  BY BatchingStep DEF LanesInv
<1>2. PICK b : b = batching'
  OBVIOUS
<1>3. LanesOK(b)
  BY <1>1, <1>2, BatchingStep, TickLanes, FreshIsOK DEF LanesInv
<1>4. \A id : Length(id)' = Length(id)
  BY <1>1 DEF Length, At
<1>5. ASSUME NEW s PROVE Worked(s)' = Worked(s)
  BY <1>4 DEF Worked
<1>6. ASSUME NEW s, SlotsInv(s) PROVE SlotsInv(s)'
  BY <1>4, <1>6 DEF SlotsInv
<1>7. ASSUME NEW s, LaneOK(s) PROVE LaneOK(s)'
  <2>1. LaneInv(s)'
    BY <1>5, <1>6, <1>7 DEF LaneOK, LaneInv, CountsInv, Finished, Batches
  <2> QED BY <1>7, <2>1 DEF LaneOK, Rows, HistInv, Shown
<1>8. LanesOK(b)'
  BY <1>3, <1>5, <1>7 DEF LanesOK, Ahead
<1> QED BY <1>1, <1>2, <1>8 DEF LanesInv

LEMMA LanesAlways ==
    SimSpec => []LanesInv
PROOF
<1>1. SimInit => LanesInv
  BY FreshIsOK DEF SimInit, LanesInv
<1>2. LanesInv /\ [SimNext]_simVars => LanesInv'
  BY LanesKept
<1> QED BY <1>1, <1>2, PTL DEF SimSpec

(* Continuous batching is never behind, whatever the lengths: each request  *)
(* that static batching finished is finished, each slot-step it did is done *)
(* (BatchingSim, tick).                                                     *)
THEOREM ContinuousIsNeverBehind ==
    SimSpec => []ContinuousNeverBehind
PROOF
<1>1. LanesInv => ContinuousNeverBehind
  <2> SUFFICES ASSUME LanesInv PROVE ContinuousNeverBehind
    OBVIOUS
  <2>1. PICK a, b : a = batching.static /\ b = batching.continuous
    OBVIOUS
  <2>2. /\ a \in Batches /\ b \in Batches /\ SlotsInv(a) /\ SlotsInv(b)
        /\ CountsInv(a) /\ CountsInv(b) /\ Ahead(a, b) /\ a.steps = b.steps
        /\ stream \in Streams
    BY <2>1 DEF LanesInv, LanesOK, LaneOK, LaneInv
  <2>3. PICK n \in Nat, m \in Nat : n = a.next /\ m = b.next /\ n <= m
    BY <2>2 DEF Batches, Ahead
  <2>4. Finished(a) \subseteq Finished(b)
    <3>1. ASSUME NEW d \in Finished(a) PROVE d \in Finished(b)
      <4>1. d \in 0..(n - 1)
        BY <2>3 DEF Finished
      <4>2. d \in 0..(m - 1)
        <5>1. \A x \in 0..(n - 1) : x \in 0..(m - 1) /\ x \in Nat
          BY <2>3, IdFacts
        <5> QED BY <4>1, <5>1
      <4>3. <<d, Length(d)>> \in Worked(a)
        BY <2>2, <2>3, <4>1, FinishedIs
      <4>4. <<d, Length(d)>> \in Worked(b)
        BY <2>2, <4>3 DEF Ahead
      <4> QED BY <2>2, <2>3, <4>2, <4>4, FinishedIs
    <3> QED BY <3>1
  <2>5. IsFiniteSet(Finished(b))
    BY <2>2, ServedCounts
  <2>6. a.done <= b.done
    BY <2>2, <2>4, <2>5, FS_Subset DEF CountsInv
  <2>7. a.busy <= b.busy
    BY <2>2, FS_Subset DEF CountsInv, Ahead
  <2>8. b.busy <= b.steps * SLOTS
    BY <2>2 DEF CountsInv
  <2>9. Lane(a).finished = a.done /\ Lane(b).finished = b.done /\ Lane(a).busy = a.busy
        /\ Lane(b).busy = b.busy /\ Lane(b).capacity = b.steps * SLOTS
    BY DEF Lane
  <2> QED BY <2>1, <2>2, <2>3, <2>6, <2>7, <2>8, <2>9 DEF ContinuousNeverBehind
<1> QED BY <1>1, LanesAlways, PTL

(* The history under a lane is its run: as many columns as steps, as many   *)
(* coloured cells as slot-steps of work (BatchingSim, the history grid).    *)
THEOREM HistoryIsTheRun ==
    SimSpec => []LaneShowsTheRun
PROOF
<1>1. LanesInv => LaneShowsTheRun
  <2>1. ASSUME NEW s, LaneOK(s)
        PROVE  /\ \A i \in Slot : Len(s.hist[i]) = IF s.steps < COLS THEN s.steps ELSE COLS
               /\ s.steps <= COLS =>
                      s.busy = Cardinality({ij \in Slot \X (1..s.steps) :
                                                s.hist[ij[1]][ij[2]].id # -1})
    BY <2>1 DEF LaneOK, Rows, HistInv, Shown
  <2> QED BY <2>1 DEF LanesInv, LanesOK, LaneShowsTheRun
<1> QED BY <1>1, LanesAlways, PTL

-----------------------------------------------------------------------------
(* The memory of PagedSim.                                                  *)
Requests == [id : Nat, final : Nat, tokens : Nat, cells : Seq(Cell)]
Marks == [id : Int, used : BOOLEAN]
Memories == [cells : [Cell -> Marks], reqs : Seq(Requests), next : Nat, finished : Nat, steps : Nat]

(* How many numbers there are from 1 to n.                                  *)
LEMMA UpToCount ==
    ASSUME NEW n \in Nat
    PROVE  IsFiniteSet(1..n) /\ Cardinality(1..n) = n
PROOF
<1>1. 1 \in Int /\ n \in Int /\ n - 1 + 1 = n
  OBVIOUS
<1>2. CASE n = 0
  <2>1. 1..n = {}
    BY <1>2
  <2> QED BY <1>2, <2>1, FS_EmptySet
<1>3. CASE n # 0
  <2>1. ~(1 > n)
    BY <1>3
  <2> QED BY <1>1, <2>1, FS_Interval
<1> QED BY <1>2, <1>3

(* A request has a length the run can hold and as many cells as its mode    *)
(* gives it, none twice; no two have one number.                            *)
Fits(q, next, mode) ==
    /\ q.id < next /\ q.tokens <= q.final /\ q.final \in 1..RESERVE
    /\ Len(q.cells) = IF mode = "contiguous" THEN RESERVE ELSE q.tokens
    /\ \A k, l \in 1..Len(q.cells) : q.cells[k] = q.cells[l] => k = l
RequestsInv(r, n, next, mode) ==
    /\ \A i \in 1..n : Fits(r[i], next, mode)
    /\ \A i, j \in 1..n : r[i].id = r[j].id => i = j

(* A cell bears the number of the request that lists it, and is in use if   *)
(* its place in the list is below the request's tokens.                     *)
Bears(m, q, k) == m.id = q.id /\ (m.used <=> k <= q.tokens)
IsAt(q, k, c) == k \in 1..Len(q.cells) /\ q.cells[k] = c
Lists1(q, c) == \E k \in 1..Len(q.cells) : q.cells[k] = c
Listed(r, n, c) == \E i \in 1..n : Lists1(r[i], c)
CellsInv(cells, r, n) ==
    /\ \A i \in 1..n : \A k \in 1..Len(r[i].cells) : Bears(cells[r[i].cells[k]], r[i], k)
    /\ \A c \in Cell : cells[c].id = -1 => ~cells[c].used
    /\ \A c \in Cell : cells[c].id # -1 => Listed(r, n, c)

Young(r, n) == \A i \in 1..n : r[i].tokens < r[i].final

MemInv(s, mode) ==
    /\ s \in Memories /\ Len(s.reqs) <= MAXREQS /\ s.finished + Len(s.reqs) = s.next
    /\ RequestsInv(s.reqs, Len(s.reqs), s.next, mode)
    /\ CellsInv(s.cells, s.reqs, Len(s.reqs))

(* What MemInv says of its parts, by name.                                  *)
LEMMA MemParts ==
    ASSUME NEW mode, NEW s, MemInv(s, mode)
    PROVE  \E cells \in [Cell -> Marks], r \in Seq(Requests), n \in Nat, next \in Nat :
              /\ cells = s.cells /\ r = s.reqs /\ n = Len(r) /\ next = s.next /\ DOMAIN r = 1..n
              /\ RequestsInv(r, n, next, mode) /\ CellsInv(cells, r, n)
              /\ s.finished \in Nat /\ s.steps \in Nat /\ s.finished + n = next /\ n <= MAXREQS
PROOF BY DEF MemInv, Memories

LEMMA RequestTyped ==
    ASSUME NEW r \in Seq(Requests), NEW i \in 1..Len(r)
    PROVE  /\ r[i] \in Requests /\ r[i].id \in Nat /\ r[i].final \in Nat /\ r[i].tokens \in Nat
           /\ r[i].cells \in Seq(Cell) /\ Len(r[i].cells) \in Nat
           /\ \A k \in 1..Len(r[i].cells) : r[i].cells[k] \in Cell
PROOF
<1>1. r[i] \in Requests
  OBVIOUS
<1>2. PICK q \in Seq(Cell) : q = r[i].cells
  BY <1>1 DEF Requests
<1>3. Len(q) \in Nat /\ \A k \in 1..Len(q) : q[k] \in Cell
  BY <1>2
<1> QED BY <1>1, <1>2, <1>3 DEF Requests

(* A cell is listed once, and then it is not free.                          *)
OnceListed(r, n) ==
    \A i, j \in 1..n : \A k, l, c : IsAt(r[i], k, c) /\ IsAt(r[j], l, c) => i = j /\ k = l

LEMMA OneLister ==
    ASSUME NEW mode, NEW next, NEW n, NEW r, NEW cells,
           RequestsInv(r, n, next, mode), CellsInv(cells, r, n)
    PROVE  OnceListed(r, n)
PROOF
<1> SUFFICES ASSUME NEW i \in 1..n, NEW j \in 1..n, NEW k, NEW l, NEW c,
                    IsAt(r[i], k, c), IsAt(r[j], l, c)
             PROVE  i = j /\ k = l
  BY DEF OnceListed
<1> USE DEF IsAt
<1>1. Bears(cells[r[i].cells[k]], r[i], k) /\ Bears(cells[r[j].cells[l]], r[j], l)
  BY DEF CellsInv
<1>2. r[i].id = r[j].id
  BY <1>1 DEF Bears
<1>3. i = j
  BY <1>2 DEF RequestsInv
<1>4. Fits(r[i], next, mode)
  BY DEF RequestsInv
<1> QED BY <1>3, <1>4 DEF Fits

-----------------------------------------------------------------------------
(* The end of the requests that have all their tokens.                      *)
Swept(s) ==
    [s EXCEPT !.cells = [c \in Cell |-> IF c \in UNION {ToSet(s.reqs[i].cells) : i \in Over(s.reqs)}
                                        THEN [id |-> -1, used |-> FALSE] ELSE s.cells[c]],
              !.reqs = AtPlaces(@, DOMAIN @ \ Over(s.reqs)),
              !.finished = @ + Cardinality(Over(s.reqs)),
              !.steps = @ + 1]

LEMMA MemStepIs ==
    ASSUME NEW s, NEW mode
    PROVE  MemStep(s, mode) = Swept(Grown(Admitted(s, mode), mode))
PROOF BY DEF MemStep, Swept

LEMMA SweptKept ==
    ASSUME NEW mode, NEW s, MemInv(s, mode)
    PROVE  MemInv(Swept(s), mode) /\ Young(Swept(s).reqs, Len(Swept(s).reqs))
PROOF
<1>1. PICK cells \in [Cell -> Marks], r \in Seq(Requests), n \in Nat, next \in Nat :
          /\ cells = s.cells /\ r = s.reqs /\ n = Len(r) /\ next = s.next /\ DOMAIN r = 1..n
          /\ RequestsInv(r, n, next, mode) /\ CellsInv(cells, r, n)
          /\ s.finished \in Nat /\ s.steps \in Nat /\ s.finished + n = next /\ n <= MAXREQS
  BY MemParts
<1>0. r \in Seq(Requests) /\ RequestsInv(r, n, next, mode) /\ CellsInv(cells, r, n) /\ n = Len(r)
      /\ next \in Nat /\ n \in Nat
  BY <1>1
<1> DEFINE over == Over(r)
           P == (1..n) \ over
           freed == UNION {ToSet(r[i].cells) : i \in over}
           q == AtPlaces(r, P)
           after == [c \in Cell |-> IF c \in freed THEN [id |-> -1, used |-> FALSE] ELSE cells[c]]
<1>2. Swept(s) = [s EXCEPT !.cells = after, !.reqs = q, !.finished = @ + Cardinality(over), !.steps = @ + 1]
  BY <1>1 DEF Swept
<1>3. over \in SUBSET (1..n) /\ \A i \in 1..n : i \in over <=> r[i].tokens >= r[i].final
  BY <1>1 DEF Over
<1>4. \A c \in Cell : c \in freed <=> \E i \in over : Lists1(r[i], c)
  <2>1. ASSUME NEW i \in over, NEW c
        PROVE  c \in ToSet(r[i].cells) <=> Lists1(r[i], c)
    <3>1. r[i].cells \in Seq(Cell)
      BY <1>1, <1>3, RequestTyped
    <3>2. DOMAIN r[i].cells = 1..Len(r[i].cells)
      BY <3>1
    <3> QED BY <3>2 DEF ToSet, Lists1
  <2> QED BY <2>1
<1> HIDE DEF over, freed
<1>5. P \in SUBSET (1..n) /\ IsFiniteSet(over) /\ IsFiniteSet(P)
      /\ Cardinality(over) \in Nat /\ Cardinality(P) \in Nat /\ Cardinality(over) + Cardinality(P) = n
  <2>1. IsFiniteSet(1..n) /\ Cardinality(1..n) = n
    BY <1>1, UpToCount
  <2>2. P \in SUBSET (1..n) /\ over \cap P = {} /\ over \cup P = 1..n
    BY <1>3
  <2>3. IsFiniteSet(over) /\ IsFiniteSet(P)
    BY <1>3, <2>1, <2>2, FS_Subset
  <2>4. Cardinality(1..n) = Cardinality(over) + Cardinality(P)
    BY <2>2, <2>3, DisjointCount
  <2> QED BY <2>1, <2>2, <2>3, <2>4, FS_CardinalityType
<1> HIDE DEF P
<1>6a. PICK m \in Nat : m = Cardinality(P)
  BY <1>5
<1>6. PICK a : m = Cardinality(P) /\ a = Ascending(P)
  BY <1>6a
<1>7. /\ q \in Seq(Requests) /\ Len(q) = m
      /\ \A k \in 1..m : a[k] \in P /\ a[k] \in 1..n /\ q[k] = r[a[k]]
      /\ \A j \in P : \E k \in 1..m : a[k] = j
      /\ \A j, k \in 1..m : a[j] = a[k] => j = k
  <2>1. P \in SUBSET (1..Len(r))
    BY <1>1, <1>5
  <2>2. /\ AtPlaces(r, P) \in Seq(Requests) /\ Len(AtPlaces(r, P)) = Cardinality(P)
        /\ Enumerates(Ascending(P), P)
        /\ \A k \in 1..Cardinality(P) :
               AtPlaces(r, P)[k] = r[Ascending(P)[k]] /\ Ascending(P)[k] \in P
    BY <1>0, <2>1, AtPlacesFacts
  <2>3. q \in Seq(Requests) /\ Len(q) = m /\ Enumerates(a, P)
    BY <1>6, <2>2
  <2>4. \A k \in 1..m : q[k] = r[a[k]] /\ a[k] \in P
    BY <1>6, <2>2
  <2> HIDE DEF q
  <2> QED BY <1>5, <1>6, <2>3, <2>4 DEF Enumerates
<1> HIDE DEF q
<1>8. /\ Swept(s) \in Memories /\ Swept(s).cells = after /\ Swept(s).reqs = q /\ Swept(s).next = next
      /\ Swept(s).finished = s.finished + Cardinality(over)
  <2>1. after \in [Cell -> Marks]
    BY DEF Marks
  <2>2. PICK f \in Nat, h \in Nat : f = s.finished + Cardinality(over) /\ h = s.steps + 1
    <3>1. PICK o \in Nat, e \in Nat, g \in Nat : o = Cardinality(over) /\ e = s.finished /\ g = s.steps
      BY <1>1, <1>5
    <3>2. e + o \in Nat /\ g + 1 \in Nat
      OBVIOUS
    <3> QED BY <3>1, <3>2
  <2>3. s \in Memories
    BY DEF MemInv
  <2> HIDE DEF after
  <2>4. Swept(s) = [s EXCEPT !.cells = after, !.reqs = q, !.finished = f, !.steps = h]
    BY <1>2, <2>2
  <2>5. PICK x : x = [s EXCEPT !.cells = after, !.reqs = q, !.finished = f, !.steps = h]
    OBVIOUS
  <2>6. x \in Memories /\ x.cells = after /\ x.reqs = q /\ x.next = s.next /\ x.finished = f
    BY <1>7, <2>1, <2>3, <2>5 DEF Memories
  <2> QED BY <1>1, <2>2, <2>4, <2>5, <2>6
<1>9. \A c \in Cell : after[c] = IF c \in freed THEN [id |-> -1, used |-> FALSE] ELSE cells[c]
  OBVIOUS
<1> HIDE DEF after
<1>10. s.finished + Cardinality(over) + m = next /\ m <= MAXREQS
  <2>1. PICK o \in Nat, f \in Nat : o = Cardinality(over) /\ f = s.finished
    BY <1>1, <1>5
  <2>2. MAXREQS \in Nat /\ o + m = n /\ f + n = next /\ n <= MAXREQS
    BY <1>1, <1>5, <1>6, <2>1, ConstantFacts
  <2>3. f + o + m = next /\ m <= MAXREQS
    BY <2>2
  <2> QED BY <2>1, <2>3
<1>11. ASSUME NEW j \in 1..m
       PROVE  \E i \in 1..n : i = a[j] /\ q[j] = r[i] /\ i \notin over
  BY <1>7 DEF P
<1>12. RequestsInv(q, m, next, mode)
  <2>1. ASSUME NEW j \in 1..m PROVE Fits(q[j], next, mode)
    <3>1. PICK i \in 1..n : q[j] = r[i]
      BY <1>11
    <3>2. Fits(r[i], next, mode)
      BY <1>0 DEF RequestsInv
    <3> QED BY <3>1, <3>2
  <2>2. ASSUME NEW j \in 1..m, NEW k \in 1..m, q[j].id = q[k].id PROVE j = k
    <3>1. PICK i \in 1..n : i = a[j] /\ q[j] = r[i]
      BY <1>11
    <3>2. PICK h \in 1..n : h = a[k] /\ q[k] = r[h]
      BY <1>11
    <3>3. i = h
      BY <1>0, <2>2, <3>1, <3>2 DEF RequestsInv
    <3>4. a[j] = a[k]
      BY <3>1, <3>2, <3>3
    <3> QED BY <1>7, <3>4
  <2> QED BY <2>1, <2>2 DEF RequestsInv
<1>13. Young(q, m)
  <2>1. ASSUME NEW j \in 1..m PROVE q[j].tokens < q[j].final
    <3>1. PICK i \in 1..n : q[j] = r[i] /\ i \notin over
      BY <1>11
    <3>2. r[i].tokens \in Nat /\ r[i].final \in Nat
      BY <1>1, RequestTyped
    <3>3. ~(r[i].tokens >= r[i].final)
      BY <1>3, <3>1
    <3>4. r[i].tokens < r[i].final
      BY <3>2, <3>3
    <3> QED BY <3>1, <3>4
  <2> QED BY <2>1 DEF Young
<1>14. ASSUME NEW j \in 1..m, NEW k \in 1..Len(q[j].cells)
       PROVE  after[q[j].cells[k]] = cells[q[j].cells[k]]
  <2>1. PICK i \in 1..n : q[j] = r[i] /\ i \notin over
    BY <1>11
  <2>2. r[i].cells[k] \in Cell
    BY <1>1, <1>14, <2>1, RequestTyped
  <2>3. ASSUME r[i].cells[k] \in freed PROVE FALSE
    <3>1. PICK h \in over : Lists1(r[h], r[i].cells[k])
      BY <1>4, <2>2, <2>3
    <3>2. PICK l \in 1..Len(r[h].cells) : r[h].cells[l] = r[i].cells[k]
      BY <3>1 DEF Lists1
    <3>3. h \in 1..n /\ IsAt(r[h], l, r[i].cells[k]) /\ IsAt(r[i], k, r[i].cells[k])
      BY <1>3, <1>14, <2>1, <3>1, <3>2 DEF IsAt
    <3>4. h = i
      <4>1. OnceListed(r, n)
        BY <1>0, OneLister
      <4>2. PICK c, x : c = r[i].cells[k] /\ x = h
        OBVIOUS
      <4>3. x \in 1..n /\ IsAt(r[x], l, c) /\ IsAt(r[i], k, c) /\ i \in 1..n
        BY <2>1, <3>3, <4>2
      <4>4. x = i
        BY <4>1, <4>3, Zenon DEF OnceListed
      <4> QED BY <4>2, <4>4
    <3> QED BY <2>1, <3>1, <3>4
  <2> QED BY <1>9, <2>1, <2>2, <2>3
<1>15. CellsInv(after, q, m)
  <2>1. ASSUME NEW j \in 1..m, NEW k \in 1..Len(q[j].cells)
        PROVE  Bears(after[q[j].cells[k]], q[j], k)
    <3>1. PICK i \in 1..n : q[j] = r[i]
      BY <1>11
    <3>2. Bears(cells[r[i].cells[k]], r[i], k)
      BY <1>1, <2>1, <3>1 DEF CellsInv
    <3>3. after[q[j].cells[k]] = cells[q[j].cells[k]]
      BY <1>14
    <3> QED BY <3>1, <3>2, <3>3
  <2>2. ASSUME NEW c \in Cell, after[c].id = -1 PROVE ~after[c].used
    <3>1. CASE c \in freed
      BY <1>9, <3>1
    <3>2. CASE c \notin freed
      BY <1>1, <1>9, <2>2, <3>2 DEF CellsInv
    <3> QED BY <3>1, <3>2
  <2>3. ASSUME NEW c \in Cell, after[c].id # -1 PROVE Listed(q, m, c)
    <3>1. c \notin freed /\ cells[c].id # -1
      BY <1>9, <2>3
    <3>2. PICK i \in 1..n : Lists1(r[i], c)
      BY <1>1, <3>1 DEF CellsInv, Listed
    <3>3. i \in P
      BY <1>4, <3>1, <3>2 DEF P
    <3>4. PICK j \in 1..m : a[j] = i /\ q[j] = r[i]
      BY <1>7, <3>3
    <3> QED BY <3>2, <3>4 DEF Listed
  <2> QED BY <2>1, <2>2, <2>3 DEF CellsInv
<1> QED BY <1>7, <1>8, <1>10, <1>12, <1>13, <1>15 DEF MemInv

-----------------------------------------------------------------------------
(* The admission of new requests.                                           *)

(* A reservation is within the memory and shares no cell with another.      *)
LEMMA RunFacts ==
    ASSUME NEW a \in Cell, a % RESERVE = 0
    PROVE  /\ Run(a) \in Seq(Cell) /\ Len(Run(a)) = RESERVE
           /\ \A k \in 1..RESERVE : Run(a)[k] = a + k - 1
           /\ \A b \in Cell : b % RESERVE = 0 /\ a < b => a + RESERVE <= b
PROOF
<1>1. PICK u \in Nat, w \in Nat, x \in Nat \ {0} :
          x = RESERVE /\ a = u * x /\ CELLS = w * x /\ u * x \in Nat /\ w * x \in Nat
  <2>1. PICK x \in Nat \ {0}, z \in Nat : x = RESERVE /\ z = CELLS /\ z % x = 0 /\ a \in Nat /\ a % x = 0
    BY ConstantFacts, SimulationAssumption DEF Cell
  <2>2. a = (a \div x) * x + (a % x) /\ a \div x \in Nat /\ (a \div x) * x \in Nat
    BY <2>1, DivFacts
  <2>3. z = (z \div x) * x + (z % x) /\ z \div x \in Nat /\ (z \div x) * x \in Nat
    BY <2>1, DivFacts
  <2>4. PICK u \in Nat, w \in Nat : u = a \div x /\ w = z \div x
    BY <2>2, <2>3
  <2>5. PICK g \in Nat, h \in Nat : g = (a \div x) * x /\ h = (z \div x) * x
    BY <2>2, <2>3
  <2>6. a = g + 0 /\ z = h + 0
    BY <2>1, <2>2, <2>3, <2>5
  <2>7. a = g /\ z = h
    BY <2>5, <2>6
  <2>8. g = u * x /\ h = w * x
    BY <2>4, <2>5
  <2>9. a = u * x /\ z = w * x /\ u * x \in Nat /\ w * x \in Nat
    BY <2>5, <2>7, <2>8
  <2> QED BY <2>1, <2>4, <2>9
<1>2. \A v \in Nat : u * x < v * x => u * x + x <= v * x
  <2>1. \A i, j, k \in Nat : i <= j => i * k <= j * k
    OBVIOUS
  <2>2. ASSUME NEW v \in Nat, u * x < v * x PROVE u * x + x <= v * x
    <3>1. ~(v <= u)
      <4>1. ASSUME v <= u PROVE FALSE
        <5>1. v * x <= u * x
          BY <1>1, <2>1, <4>1
        <5>2. v * x \in Nat
          BY <1>1
        <5> QED BY <1>1, <2>2, <5>1, <5>2
      <4> QED BY <4>1
    <3>2. u + 1 <= v /\ u + 1 \in Nat
      BY <1>1, <3>1
    <3>3. (u + 1) * x <= v * x
      BY <1>1, <2>1, <3>2
    <3>4. (u + 1) * x = u * x + x
      BY <1>1
    <3> QED BY <3>3, <3>4
  <2> QED BY <2>2
<1>3. a + x <= CELLS
  <2>1. a < CELLS
    BY <1>1 DEF Cell
  <2> QED BY <1>1, <1>2, <2>1
<1>4. ASSUME NEW b \in Cell, b % RESERVE = 0, a < b PROVE a + RESERVE <= b
  <2>1. x \in Nat \ {0} /\ b \in Nat /\ b % x = 0
    BY <1>1, <1>4 DEF Cell
  <2>2. b = (b \div x) * x + (b % x) /\ b \div x \in Nat
    BY <2>1, DivFacts
  <2>3. PICK v \in Nat, h \in Int : v = b \div x /\ h = v * x
    BY <2>2
  <2>4. b = h + 0
    BY <2>1, <2>2, <2>3
  <2>5. b = v * x
    BY <2>3, <2>4
  <2> QED BY <1>1, <1>2, <1>4, <2>3, <2>5
<1>5. \A k \in 1..x : a + k - 1 \in Cell
  <2>1. PICK z \in Nat : z = CELLS
    BY <1>1
  <2>2. a \in Nat /\ a + x <= z /\ Cell = 0..(z - 1)
    BY <1>3, <2>1 DEF Cell
  <2> QED BY <1>1, <2>1, <2>2
<1>6. Run(a) = [k \in 1..x |-> a + k - 1]
  BY <1>1 DEF Run
<1>7. PICK q : q = [k \in 1..x |-> a + k - 1]
  OBVIOUS
<1>8. q \in [1..x -> Cell] /\ \A k \in 1..x : q[k] = a + k - 1
  BY <1>5, <1>7
<1>9. q \in Seq(Cell) /\ Len(q) = x
  <2>1. x \in Nat /\ DOMAIN q = 1..x
    BY <1>1, <1>7
  <2>2. q \in Seq(Cell)
    BY <1>8, <2>1
  <2> QED BY <2>1, <2>2
<1> QED BY <1>1, <1>4, <1>6, <1>7, <1>8, <1>9

(* Aligned runs that meet are one run.                                      *)
LEMMA RunsApart ==
    ASSUME NEW x \in Nat, NEW u \in Nat, NEW v \in Nat, NEW i \in 1..x, NEW j \in 1..x,
           u + i - 1 = v + j - 1, u < v => u + x <= v, v < u => v + x <= u
    PROVE  u = v /\ i = j
PROOF OBVIOUS

LEMMA FinalFacts ==
    ASSUME final \in Finals, NEW id \in Nat
    PROVE  At(final, id) \in 1..RESERVE
PROOF
<1>1. PICK f : /\ f = final /\ f # <<>>
               /\ \A i \in DOMAIN f : f[i] \in Nat \ {0} /\ f[i] <= RESERVE
  BY SimulationAssumption
<1>2. Len(f) \in Nat \ {0} /\ DOMAIN f = 1..Len(f)
  BY <1>1
<1>3. id % Len(f) \in 0..(Len(f) - 1)
  BY <1>2
<1>4. (id % Len(f)) + 1 \in 1..Len(f)
  BY <1>2, <1>3
<1>5. RESERVE \in Nat
  BY ConstantFacts
<1>6. f[(id % Len(f)) + 1] \in 1..RESERVE
  BY <1>1, <1>2, <1>4, <1>5
<1> QED BY <1>1, <1>6 DEF At

(* t is s with the m requests w, which take free cells.                     *)
NewOnes(s, t, mode, m, w) ==
    /\ t \in Memories /\ t.next = s.next + m /\ t.reqs = s.reqs \o w /\ t.finished = s.finished
    /\ Len(s.reqs) + m <= MAXREQS
    /\ w \in Seq(Requests) /\ Len(w) = m
    /\ \A k \in 1..m : Fits(w[k], s.next + m, mode) /\ w[k].tokens = 0 /\ w[k].id = s.next + (k - 1)
    /\ \A k \in 1..m : \A i, c : IsAt(w[k], i, c) => s.cells[c].id = -1
    /\ \A c \in Cell : (\A k \in 1..m : ~Lists1(w[k], c)) => t.cells[c] = s.cells[c]
    /\ \A c \in Cell : \A k \in 1..m :
          Lists1(w[k], c) => t.cells[c].id = w[k].id /\ t.cells[c].used = FALSE

Modes == {"contiguous", "paged"}

LEMMA AdmittedNew ==
    ASSUME final \in Finals, NEW mode \in Modes, NEW s, MemInv(s, mode)
    PROVE  \E m \in Nat : \E w : NewOnes(s, Admitted(s, mode), mode, m, w)
PROOF
<1>1. PICK cells \in [Cell -> Marks], r \in Seq(Requests), l \in Nat, next \in Nat :
          /\ cells = s.cells /\ r = s.reqs /\ l = Len(r) /\ next = s.next /\ DOMAIN r = 1..l
          /\ RequestsInv(r, l, next, mode) /\ CellsInv(cells, r, l)
          /\ s.finished \in Nat /\ s.steps \in Nat /\ s.finished + l = next /\ l <= MAXREQS
  BY MemParts
<1>0. next \in Nat /\ l \in Nat /\ r \in Seq(Requests)
  BY <1>1
<1> DEFINE room == MAXREQS - Len(s.reqs)
           n == IF mode = "contiguous"
                THEN (IF Len(FreeRuns(s)) < room THEN Len(FreeRuns(s)) ELSE room)
                ELSE (IF Len(FreeCells(s)) >= MINFREE THEN room ELSE 0)
           new(k) == [id |-> s.next + k - 1, final |-> At(final, s.next + k - 1), tokens |-> 0,
                      cells |-> IF mode = "contiguous" THEN Run(FreeRuns(s)[k]) ELSE <<>>]
           owner(c) == {k \in 1..n : c \in ToSet(new(k).cells)}
           after == [c \in Cell |-> IF owner(c) = {} THEN s.cells[c]
                                    ELSE [id |-> new(CHOOSE k \in owner(c) : TRUE).id, used |-> FALSE]]
<1>2. Admitted(s, mode) = [s EXCEPT !.next = @ + n, !.reqs = @ \o [k \in 1..n |-> new(k)], !.cells = after]
  BY DEF Admitted
<1> DEFINE F == {start \in Cell : start % RESERVE = 0
                                  /\ \A k \in 1..RESERVE : s.cells[Run(start)[k]].id = -1}
<1>30. PICK f, a : f = Len(FreeRuns(s)) /\ a = FreeRuns(s)
  OBVIOUS
<1>3. /\ f \in Nat /\ f = Len(FreeRuns(s)) /\ a = FreeRuns(s)
      /\ \A k \in 1..f : a[k] \in F
      /\ \A i, k \in 1..f : a[i] = a[k] => i = k
  <2>1. FreeRuns(s) = Ascending(F)
    BY DEF FreeRuns
  <2>2. F \in SUBSET Cell
    OBVIOUS
  <2> HIDE DEF F
  <2>3. IsFiniteSet(Cell) /\ Cell \in SUBSET Int
    <3>1. PICK z \in Int : z = CELLS - 1
      BY ConstantFacts
    <3>2. Cell = 0..z
      BY <3>1 DEF Cell
    <3>3. IsFiniteSet(0..z)
      <4>1. 0 \in Int /\ z \in Int
        BY <3>1
      <4> QED BY <4>1, FS_Interval
    <3>4. 0..z \in SUBSET Int
      BY <3>1
    <3> QED BY <3>2, <3>3, <3>4
  <2>4. IsFiniteSet(F) /\ F \in SUBSET Int
    BY <2>2, <2>3, FS_Subset
  <2>5. PICK g \in Nat : g = Cardinality(F)
    BY <2>4, FS_CardinalityType
  <2>6. Enumerates(a, F)
    BY <1>30, <2>1, <2>4, AscendingFacts
  <2>7. a \in [1..g -> F] /\ \A i, k \in 1..g : a[i] = a[k] => i = k
    BY <2>5, <2>6 DEF Enumerates
  <2>8. Len(a) = g
    BY <2>5, <2>7
  <2>9. f = g /\ f \in Nat
    BY <1>30, <2>5, <2>8
  <2>10. a \in [1..f -> F] /\ \A i, k \in 1..f : a[i] = a[k] => i = k
    BY <2>7, <2>9
  <2>11. \A k \in 1..f : a[k] \in F
    BY <2>10
  <2> QED BY <1>30, <2>9, <2>10, <2>11
<1>4. PICK m \in Nat : m = n /\ l + m <= MAXREQS /\ (mode = "contiguous" => m <= f)
  <2>1. PICK x \in Nat : x = MAXREQS
    BY ConstantFacts
  <2>2. PICK y \in Nat : y = x - l
    <3>1. l <= x
      BY <1>1, <2>1
    <3> QED BY <1>0, <2>1, <3>1
  <2>3. room = y /\ l + y <= x
    BY <1>1, <2>1, <2>2
  <2> HIDE DEF room
  <2>4. n = IF mode = "contiguous" THEN (IF f < y THEN f ELSE y)
            ELSE (IF Len(FreeCells(s)) >= MINFREE THEN y ELSE 0)
    BY <1>3, <2>3
  <2> HIDE DEF n
  <2>5. n \in Nat /\ n <= y /\ (mode = "contiguous" => n <= f)
    BY <1>3, <2>2, <2>4
  <2>6. PICK m \in Nat : m = n
    BY <2>5
  <2>7. m <= y /\ l + y <= x
    BY <2>3, <2>5, <2>6
  <2>8. l + m <= x
    BY <1>1, <2>1, <2>2, <2>6, <2>7
  <2> QED BY <2>1, <2>5, <2>6, <2>8
<1>40. m \in Nat
  BY <1>4
<1> HIDE DEF n
<1>5. PICK w : w = [k \in 1..m |-> new(k)]
  OBVIOUS
<1>6. ASSUME NEW k \in 1..m
      PROVE  /\ w[k] = new(k) /\ w[k].id = next + (k - 1) /\ w[k].id \in Nat /\ w[k].tokens = 0
             /\ w[k].final \in 1..RESERVE
             /\ w[k].cells = (IF mode = "contiguous" THEN Run(a[k]) ELSE <<>>)
  <2>1. w[k] = new(k)
    BY <1>5
  <2>2. s.next + k - 1 = next + (k - 1) /\ next + (k - 1) \in Nat
    <3>1. k \in Nat /\ 1 <= k
      BY <1>4, <1>6
    <3>2. next + k - 1 = next + (k - 1) /\ next + (k - 1) \in Nat
      BY <1>0, <3>1
    <3> QED BY <1>1, <3>2
  <2>3. At(final, s.next + k - 1) \in 1..RESERVE
    BY <2>2, FinalFacts
  <2> QED BY <1>3, <2>1, <2>2, <2>3
<1> HIDE DEF new
<1>7. ASSUME NEW k \in 1..m, mode = "contiguous"
      PROVE  /\ a[k] \in Cell /\ a[k] \in Nat /\ a[k] % RESERVE = 0 /\ w[k].cells = Run(a[k]) /\ w[k].cells \in Seq(Cell)
             /\ Len(w[k].cells) = RESERVE /\ \A i \in 1..RESERVE : w[k].cells[i] = a[k] + i - 1
             /\ \A i \in 1..RESERVE : cells[w[k].cells[i]].id = -1
  <2>1. k \in 1..f
    <3>1. m <= f /\ f \in Nat /\ k \in 1..m
      BY <1>3, <1>4, <1>7
    <3> QED BY <1>40, <3>1
  <2>2. a[k] \in F /\ a[k] \in Cell /\ a[k] % RESERVE = 0
    BY <1>3, <2>1
  <2>3. w[k].cells = Run(a[k])
    BY <1>6, <1>7
  <2>4. /\ Run(a[k]) \in Seq(Cell) /\ Len(Run(a[k])) = RESERVE
        /\ \A i \in 1..RESERVE : Run(a[k])[i] = a[k] + i - 1
    BY <2>2, RunFacts
  <2>5. \A i \in 1..RESERVE : cells[Run(a[k])[i]].id = -1
    BY <1>1, <2>2
  <2>6. a[k] \in Nat
    BY <2>2, ConstantFacts DEF Cell
  <2> HIDE DEF F
  <2> QED BY <2>2, <2>3, <2>4, <2>5, <2>6
<1> HIDE DEF F
<1>8. ASSUME NEW k \in 1..m, mode = "paged"
      PROVE  w[k].cells = <<>> /\ Len(w[k].cells) = 0 /\ 1..0 = {}
  <2>1. w[k].cells = <<>>
    BY <1>6, <1>8
  <2> QED BY <2>1
<1>9. mode = "contiguous" \/ mode = "paged"
  BY DEF Modes
<1>10. ASSUME NEW k \in 1..m PROVE w[k] \in Requests
  <2>1. w[k].cells \in Seq(Cell)
    <3>1. <<>> \in Seq(Cell)
      OBVIOUS
    <3> QED BY <1>7, <1>8, <1>9, <3>1
  <2>2. PICK x \in Nat : x = RESERVE
    BY ConstantFacts
  <2>6. PICK e, f1, c : /\ e = s.next + k - 1 /\ f1 = At(final, s.next + k - 1)
                        /\ c = IF mode = "contiguous" THEN Run(FreeRuns(s)[k]) ELSE <<>>
    OBVIOUS
  <2>7. new(k) = [id |-> e, final |-> f1, tokens |-> 0, cells |-> c]
    BY <2>6 DEF new
  <2>3. w[k] = [id |-> e, final |-> f1, tokens |-> 0, cells |-> c]
    BY <1>6, <1>10, <2>7
  <2>4. e \in Nat /\ f1 \in 1..x /\ c \in Seq(Cell)
    BY <1>6, <1>10, <2>1, <2>2, <2>3
  <2>5. f1 \in Nat
    BY <2>2, <2>4
  <2> QED BY <2>3, <2>4, <2>5 DEF Requests
<1>11. w \in Seq(Requests) /\ Len(w) = m
  <2>1. w \in [1..m -> Requests]
    BY <1>5, <1>10
  <2> QED BY <1>4, <1>5, <2>1
<1>12. ASSUME NEW k \in 1..m, NEW i, NEW c, IsAt(w[k], i, c) PROVE c \in Cell /\ cells[c].id = -1
  <2>1. CASE mode = "contiguous"
    <3>1. i \in 1..RESERVE /\ w[k].cells[i] = c
      BY <1>7, <1>12, <2>1 DEF IsAt
    <3>2. cells[c].id = -1
      BY <1>7, <1>12, <2>1, <3>1
    <3>3. w[k].cells \in Seq(Cell) /\ i \in 1..Len(w[k].cells)
      BY <1>7, <1>12, <2>1 DEF IsAt
    <3> QED BY <3>1, <3>2, <3>3
  <2>2. CASE mode = "paged"
    BY <1>8, <1>12, <2>2 DEF IsAt
  <2> QED BY <1>9, <2>1, <2>2
<1>13. ASSUME NEW h \in 1..m, NEW k \in 1..m, NEW i, NEW j, NEW c, IsAt(w[h], i, c), IsAt(w[k], j, c)
       PROVE  h = k
  <2>1. CASE mode = "contiguous"
    <3>6. PICK x, u, v : x = RESERVE /\ u = a[h] /\ v = a[k]
      OBVIOUS
    <3>1. x = RESERVE /\ u = a[h] /\ v = a[k] /\ x \in Nat /\ u \in Nat /\ v \in Nat
      BY <1>7, <1>13, <2>1, <3>6, ConstantFacts
    <3>2. i \in 1..x /\ w[h].cells[i] = c /\ w[h].cells[i] = u + i - 1
      BY <1>7, <1>13, <2>1, <3>1 DEF IsAt
    <3>7. j \in 1..x /\ w[k].cells[j] = c /\ w[k].cells[j] = v + j - 1
      BY <1>7, <1>13, <2>1, <3>1 DEF IsAt
    <3>3. (u < v => u + x <= v) /\ (v < u => v + x <= u)
      BY <1>7, <1>13, <2>1, <3>1, RunFacts
    <3>8. u + i - 1 = v + j - 1
      BY <3>2, <3>7
    <3>4. u = v
      BY <3>1, <3>2, <3>3, <3>7, <3>8, RunsApart
    <3>5. h \in 1..f /\ k \in 1..f
      <4>1. m <= f /\ f \in Nat /\ h \in 1..m /\ k \in 1..m
        BY <1>3, <1>4, <1>13, <2>1
      <4> QED BY <1>40, <4>1
    <3> QED BY <1>3, <3>1, <3>4, <3>5
  <2>2. CASE mode = "paged"
    BY <1>8, <1>13, <2>2 DEF IsAt
  <2> QED BY <1>9, <2>1, <2>2
<1>14. ASSUME NEW k \in 1..m PROVE Fits(w[k], next + m, mode)
  <2>1. PICK x \in Nat : x = RESERVE
    BY ConstantFacts
  <2>2. next + (k - 1) < next + m
    BY <1>0, <1>40, <1>14
  <2>3. w[k].id < next + m /\ w[k].final \in 1..x /\ w[k].tokens = 0
    BY <1>6, <1>14, <2>1, <2>2
  <2>4. w[k].tokens <= w[k].final
    BY <2>1, <2>3
  <2>5. Len(w[k].cells) = IF mode = "contiguous" THEN RESERVE ELSE w[k].tokens
    BY <1>7, <1>8, <1>9, <1>14, <2>3
  <2>6. ASSUME NEW i \in 1..Len(w[k].cells), NEW j \in 1..Len(w[k].cells), w[k].cells[i] = w[k].cells[j]
        PROVE  i = j
    <3>1. CASE mode = "contiguous"
      <4>1. PICK u \in Nat : u = a[k]
        BY <1>7, <1>14, <3>1
      <4>2. i \in 1..x /\ j \in 1..x
        BY <1>7, <1>14, <2>1, <2>6, <3>1
      <4>3. w[k].cells[i] = u + i - 1
        BY <1>7, <1>14, <2>1, <3>1, <4>1, <4>2
      <4>4. w[k].cells[j] = u + j - 1
        BY <1>7, <1>14, <2>1, <3>1, <4>1, <4>2
      <4>5. u + i - 1 = u + j - 1
        BY <2>6, <4>3, <4>4
      <4> QED BY <2>1, <4>1, <4>2, <4>5, RunsApart
    <3>2. CASE mode = "paged"
      BY <1>8, <1>14, <2>6, <3>2
    <3> QED BY <1>9, <3>1, <3>2
  <2> QED BY <2>1, <2>3, <2>4, <2>5, <2>6 DEF Fits
<1>15. ASSUME NEW k \in 1..m, NEW c PROVE k \in owner(c) <=> Lists1(w[k], c)
  <2>1. PICK x \in Seq(Cell) : x = w[k].cells
    BY <1>10, <1>15 DEF Requests
  <2>2. c \in ToSet(x) <=> \E i \in 1..Len(x) : x[i] = c
    BY <2>1 DEF ToSet
  <2>3. new(k).cells = x
    BY <1>6, <1>15, <2>1
  <2> QED BY <1>4, <1>15, <2>1, <2>2, <2>3 DEF Lists1
<1>16. \A c : owner(c) \in SUBSET (1..m)
  BY <1>4
<1> HIDE DEF owner
<1>17. ASSUME NEW c \in Cell
       PROVE  /\ owner(c) = {} => after[c] = cells[c]
              /\ owner(c) # {} => \E k \in 1..m : /\ Lists1(w[k], c)
                                                  /\ after[c] = [id |-> w[k].id, used |-> FALSE]
  <2>1. after[c] = IF owner(c) = {} THEN cells[c]
                   ELSE [id |-> new(CHOOSE k \in owner(c) : TRUE).id, used |-> FALSE]
    BY <1>1, <1>17
  <2>2. PICK k : k = CHOOSE e \in owner(c) : TRUE
    OBVIOUS
  <2>3. owner(c) # {} => k \in owner(c)
    BY <2>2
  <2>4. owner(c) # {} => k \in 1..m /\ Lists1(w[k], c) /\ new(k).id = w[k].id
    BY <1>6, <1>15, <1>16, <2>3
  <2> QED BY <2>1, <2>2, <2>4
<1>18. after \in [Cell -> Marks]
  <2>1. ASSUME NEW c \in Cell PROVE after[c] \in Marks
    <3>1. CASE owner(c) = {}
      BY <1>1, <1>17, <2>1, <3>1
    <3>2. CASE owner(c) # {}
      <4>1. PICK k \in 1..m : after[c] = [id |-> w[k].id, used |-> FALSE]
        BY <1>17, <2>1, <3>2
      <4>2. w[k].id \in Int
        BY <1>6, <4>1
      <4>3. PICK d \in Int : d = w[k].id
        BY <4>2
      <4>4. [id |-> d, used |-> FALSE] \in Marks
        BY <4>3 DEF Marks
      <4> QED BY <4>1, <4>3, <4>4
    <3> QED BY <3>1, <3>2
  <2>2. DOMAIN after = Cell /\ after = [c \in Cell |-> after[c]]
    OBVIOUS
  <2> HIDE DEF after
  <2> QED BY <2>1, <2>2
<1> HIDE DEF after
<1>19. PICK t : t = Admitted(s, mode)
  OBVIOUS
<1>20. t = [s EXCEPT !.cells = after, !.reqs = r \o w, !.next = next + m]
  <2>1. s.next + n = next + m /\ s.reqs \o [k \in 1..n |-> new(k)] = r \o w
    BY <1>1, <1>4, <1>5
  <2>2. PICK nn, rr : nn = next + m /\ rr = r \o w
    OBVIOUS
  <2>3. t = [s EXCEPT !.next = nn, !.reqs = rr, !.cells = after]
    BY <1>2, <1>19, <2>1, <2>2
  <2>4. s \in Memories
    BY DEF MemInv
  <2>5. t = [s EXCEPT !.cells = after, !.reqs = rr, !.next = nn]
    BY <2>3, <2>4 DEF Memories
  <2> QED BY <2>2, <2>5
<1>21. t \in Memories /\ t.next = next + m /\ t.reqs = r \o w /\ t.cells = after /\ t.finished = s.finished
  <2>1. s \in Memories
    BY DEF MemInv
  <2>2. PICK nn \in Nat, rr \in Seq(Requests) : nn = next + m /\ rr = r \o w
    <3>1. next + m \in Nat
      BY <1>0, <1>40
    <3>2. r \o w \in Seq(Requests)
      BY <1>0, <1>11
    <3> QED BY <3>1, <3>2
  <2>3. t = [s EXCEPT !.cells = after, !.reqs = rr, !.next = nn]
    BY <1>20, <2>2
  <2>4. t \in Memories /\ t.next = nn /\ t.reqs = rr /\ t.cells = after /\ t.finished = s.finished
    BY <1>18, <2>1, <2>2, <2>3 DEF Memories
  <2> QED BY <2>2, <2>4
<1>22. ASSUME NEW c \in Cell, \A k \in 1..m : ~Lists1(w[k], c) PROVE t.cells[c] = s.cells[c]
  <2>1. owner(c) = {}
    BY <1>15, <1>16, <1>22
  <2> QED BY <1>1, <1>17, <1>21, <1>22, <2>1
<1>23. ASSUME NEW c \in Cell, NEW k \in 1..m, Lists1(w[k], c)
       PROVE  t.cells[c].id = w[k].id /\ t.cells[c].used = FALSE
  <2>1. owner(c) # {}
    BY <1>15, <1>23
  <2>2. PICK h \in 1..m : Lists1(w[h], c) /\ after[c] = [id |-> w[h].id, used |-> FALSE]
    BY <1>17, <1>23, <2>1
  <2>3. PICK i, j : IsAt(w[h], i, c) /\ IsAt(w[k], j, c)
    BY <1>23, <2>2 DEF Lists1, IsAt
  <2>4. h = k
    BY <1>13, <1>23, <2>2, <2>3
  <2> QED BY <1>21, <2>2, <2>4
<1>24. PICK mm \in Nat : mm = m
  BY <1>4
<1>25. NewOnes(s, t, mode, m, w)
  <2>1. t \in Memories /\ t.next = s.next + m /\ t.reqs = s.reqs \o w /\ t.finished = s.finished
    BY <1>1, <1>21
  <2>2. Len(s.reqs) + m <= MAXREQS
    BY <1>1, <1>4
  <2>3. \A k \in 1..m : Fits(w[k], s.next + m, mode) /\ w[k].tokens = 0 /\ w[k].id = s.next + (k - 1)
    BY <1>1, <1>6, <1>14
  <2>4. \A k \in 1..m : \A i, c : IsAt(w[k], i, c) => s.cells[c].id = -1
    BY <1>1, <1>12
  <2> QED BY <1>11, <1>22, <1>23, <2>1, <2>2, <2>3, <2>4 DEF NewOnes
<1> QED BY <1>19, <1>24, <1>25
(* Requests that take free cells keep the memory in order.                  *)
LEMMA AdmittedKept ==
    ASSUME NEW mode, NEW s, MemInv(s, mode), Young(s.reqs, Len(s.reqs)),
           NEW t, NEW m \in Nat, NEW w, NewOnes(s, t, mode, m, w)
    PROVE  MemInv(t, mode) /\ Young(t.reqs, Len(t.reqs))
PROOF
<1>1. PICK cells \in [Cell -> Marks], r \in Seq(Requests), l \in Nat, next \in Nat :
          /\ cells = s.cells /\ r = s.reqs /\ l = Len(r) /\ next = s.next /\ DOMAIN r = 1..l
          /\ RequestsInv(r, l, next, mode) /\ CellsInv(cells, r, l)
          /\ s.finished \in Nat /\ s.steps \in Nat /\ s.finished + l = next /\ l <= MAXREQS
  BY MemParts
<1>0. next \in Nat /\ l \in Nat /\ r \in Seq(Requests) /\ l = Len(r)
      /\ RequestsInv(r, l, next, mode) /\ CellsInv(cells, r, l) /\ Young(r, l)
  BY <1>1
<1>20. m \in Nat
  OBVIOUS
<1>2. /\ t \in Memories /\ t.next = next + m /\ t.reqs = r \o w /\ t.finished = s.finished
      /\ l + m <= MAXREQS /\ w \in Seq(Requests) /\ Len(w) = m
  BY <1>1 DEF NewOnes
<1>3. ASSUME NEW k \in 1..m
      PROVE  Fits(w[k], next + m, mode) /\ w[k].tokens = 0 /\ w[k].id = next + (k - 1)
  BY <1>1, <1>3 DEF NewOnes
<1>4. ASSUME NEW k \in 1..m, NEW i, NEW c, IsAt(w[k], i, c) PROVE cells[c].id = -1
  BY <1>1, <1>4 DEF NewOnes
<1>5. ASSUME NEW c \in Cell, \A k \in 1..m : ~Lists1(w[k], c) PROVE t.cells[c] = cells[c]
  BY <1>1, <1>5 DEF NewOnes
<1>6. ASSUME NEW c \in Cell, NEW k \in 1..m, Lists1(w[k], c)
      PROVE  t.cells[c].id = w[k].id /\ t.cells[c].used = FALSE
  BY <1>1, <1>6 DEF NewOnes
<1>7. PICK v : v = r \o w
  OBVIOUS
<1>8. PICK p \in Nat : p = l + m
  <2>1. l + m \in Nat
    BY <1>0
  <2> QED BY <2>1
<1>9. /\ v \in Seq(Requests) /\ Len(v) = p
      /\ \A i \in 1..l : v[i] = r[i]
      /\ \A k \in 1..m : v[l + k] = w[k]
  <2>1. /\ r \o w \in Seq(Requests) /\ Len(r \o w) = l + m
        /\ \A i \in 1..l : (r \o w)[i] = r[i]
        /\ \A k \in 1..m : (r \o w)[l + k] = w[k]
    <3>1. r \in Seq(Requests) /\ w \in Seq(Requests) /\ Len(r) = l /\ Len(w) = m /\ m \in Nat /\ l \in Nat
      BY <1>0, <1>2, <1>20
    <3>2. r \o w \in Seq(Requests) /\ Len(r \o w) = l + m
      BY <3>1
    <3>3. ASSUME NEW i \in 1..l PROVE (r \o w)[i] = r[i]
      BY <3>1, <3>3
    <3>4. ASSUME NEW k \in 1..m PROVE (r \o w)[l + k] = w[k]
      <4>1. l + k \in 1..(l + m) /\ ~(l + k <= l) /\ (l + k) - l = k
        BY <3>1, <3>4
      <4> QED BY <3>1, <3>4, <4>1
    <3> QED BY <3>2, <3>3, <3>4
  <2> QED BY <1>7, <1>8, <2>1
<1>10. ASSUME NEW j \in 1..p
       PROVE  j \in 1..l \/ \E k \in 1..m : j = l + k
  <2>1. CASE j > l
    <3>1. j - l \in 1..m /\ j = l + (j - l)
      BY <1>0, <1>8, <1>10, <2>1
    <3> QED BY <3>1
  <2>2. CASE ~(j > l)
    BY <1>0, <1>8, <1>10, <2>2
  <2> QED BY <2>1, <2>2
<1>11. (\A i \in 1..l : i \in 1..p) /\ (\A k \in 1..m : l + k \in 1..p)
  BY <1>0, <1>8
<1>12. ASSUME NEW i \in 1..l
       PROVE  Fits(r[i], next + m, mode) /\ Fits(r[i], next, mode) /\ r[i].id \in Nat /\ r[i].id < next
  <2>1. Fits(r[i], next, mode)
    BY <1>0, <1>12 DEF RequestsInv
  <2>2. r[i].id \in Nat
    BY <1>0, <1>12, RequestTyped
  <2>3. r[i].id < next
    BY <2>1 DEF Fits
  <2>4. r[i].id < next + m
    BY <1>0, <2>2, <2>3
  <2>5. Fits(r[i], next + m, mode)
    BY <2>1, <2>4 DEF Fits
  <2> QED BY <2>1, <2>2, <2>3, <2>5
<1>13. RequestsInv(v, p, next + m, mode)
  <2>1. ASSUME NEW j \in 1..p PROVE Fits(v[j], next + m, mode)
    <3>1. ASSUME NEW x \in 1..l PROVE Fits(v[x], next + m, mode)
      BY <1>9, <1>12, <3>1
    <3>2. ASSUME NEW k \in 1..m PROVE Fits(v[l + k], next + m, mode)
      BY <1>3, <1>9, <3>2
    <3> QED BY <1>10, <2>1, <3>1, <3>2
  <2>2. ASSUME NEW i \in 1..p, NEW j \in 1..p, v[i].id = v[j].id PROVE i = j
    <3>1. ASSUME NEW x \in 1..l, NEW k \in 1..m PROVE v[x].id # v[l + k].id
      <4>1. r[x].id \in Nat /\ r[x].id < next /\ w[k].id = next + (k - 1)
        BY <1>3, <1>12, <3>1
      <4>2. r[x].id # w[k].id
        BY <1>0, <3>1, <4>1
      <4> QED BY <1>9, <3>1, <4>2
    <3>2. CASE i \in 1..l /\ j \in 1..l
      <4>1. r[i].id = r[j].id
        BY <1>9, <2>2, <3>2
      <4> QED BY <1>0, <3>2, <4>1 DEF RequestsInv
    <3>3. ASSUME NEW x \in 1..m, NEW k \in 1..m, i = l + x, j = l + k PROVE i = j
      <4>1. w[x].id = w[k].id
        BY <1>9, <2>2, <3>3
      <4>2. next + (x - 1) = next + (k - 1)
        BY <1>3, <3>3, <4>1
      <4> QED BY <1>0, <3>3, <4>2
    <3>4. i \in 1..l \/ \E k \in 1..m : i = l + k
      BY <1>10, <2>2
    <3>5. j \in 1..l \/ \E k \in 1..m : j = l + k
      BY <1>10, <2>2
    <3> QED BY <2>2, <3>1, <3>2, <3>3, <3>4, <3>5
  <2> QED BY <2>1, <2>2 DEF RequestsInv
<1>14. Young(v, p)
  <2>1. ASSUME NEW i \in 1..l PROVE v[i].tokens < v[i].final
    BY <1>0, <1>9, <2>1 DEF Young
  <2>2. ASSUME NEW k \in 1..m PROVE v[l + k].tokens < v[l + k].final
    <3>1. PICK f : f = w[k].final
      OBVIOUS
    <3>2. f \in 1..RESERVE /\ w[k].tokens = 0
      BY <1>3, <2>2, <3>1 DEF Fits
    <3>3. 0 < f
      BY <3>2
    <3> QED BY <1>9, <2>2, <3>1, <3>2, <3>3
  <2> QED BY <1>10, <2>1, <2>2 DEF Young
<1>15. CellsInv(t.cells, v, p)
  <2>1. ASSUME NEW i \in 1..l, NEW k \in 1..Len(v[i].cells)
        PROVE  Bears(t.cells[v[i].cells[k]], v[i], k)
    <3>1. PICK c \in Cell : c = r[i].cells[k] /\ k \in 1..Len(r[i].cells)
      BY <1>0, <1>9, <2>1, RequestTyped
    <3>2. cells[c].id # -1
      <4>1. Bears(cells[c], r[i], k)
        BY <1>0, <2>1, <3>1 DEF CellsInv
      <4>2. cells[c].id = r[i].id /\ r[i].id \in Nat
        BY <1>12, <2>1, <4>1 DEF Bears
      <4> QED BY <4>2
    <3>3. ASSUME NEW h \in 1..m, Lists1(w[h], c) PROVE FALSE
      <4>1. PICK z : IsAt(w[h], z, c)
        BY <3>3 DEF Lists1, IsAt
      <4> QED BY <1>4, <3>2, <3>3, <4>1
    <3>4. t.cells[c] = cells[c]
      BY <1>5, <3>1, <3>3
    <3>5. Bears(cells[c], r[i], k)
      BY <1>0, <2>1, <3>1 DEF CellsInv
    <3> QED BY <1>9, <2>1, <3>1, <3>4, <3>5
  <2>2. ASSUME NEW h \in 1..m, NEW k \in 1..Len(w[h].cells)
        PROVE  Bears(t.cells[w[h].cells[k]], w[h], k)
    <3>1. PICK c \in Cell : c = w[h].cells[k]
      BY <1>2, <2>2, RequestTyped
    <3>2. Lists1(w[h], c)
      BY <2>2, <3>1 DEF Lists1
    <3>3. t.cells[c].id = w[h].id /\ t.cells[c].used = FALSE
      BY <1>6, <2>2, <3>1, <3>2
    <3>4. Len(w[h].cells) \in Nat
      BY <1>2, <2>2, RequestTyped
    <3>5. ~(k <= w[h].tokens)
      <4>1. w[h].tokens = 0 /\ k >= 1 /\ k \in Nat
        BY <1>3, <2>2, <3>4
      <4> QED BY <4>1
    <3> QED BY <3>1, <3>3, <3>5 DEF Bears
  <2>3. ASSUME NEW j \in 1..p, NEW k \in 1..Len(v[j].cells)
        PROVE  Bears(t.cells[v[j].cells[k]], v[j], k)
    <3>1. CASE j \in 1..l
      BY <2>1, <2>3, <3>1
    <3>2. ASSUME NEW h \in 1..m, j = l + h PROVE Bears(t.cells[v[j].cells[k]], v[j], k)
      <4>1. v[j] = w[h]
        BY <1>9, <3>2
      <4> QED BY <2>2, <2>3, <3>2, <4>1
    <3> QED BY <1>10, <2>3, <3>1, <3>2
  <2>4. ASSUME NEW c \in Cell, t.cells[c].id = -1 PROVE ~t.cells[c].used
    <3>1. CASE \A k \in 1..m : ~Lists1(w[k], c)
      <4>1. t.cells[c] = cells[c]
        BY <1>5, <2>4, <3>1
      <4> QED BY <1>0, <2>4, <4>1 DEF CellsInv
    <3>2. CASE \E k \in 1..m : Lists1(w[k], c)
      BY <1>6, <2>4, <3>2
    <3> QED BY <3>1, <3>2
  <2>5. ASSUME NEW c \in Cell, t.cells[c].id # -1 PROVE Listed(v, p, c)
    <3>1. CASE \A k \in 1..m : ~Lists1(w[k], c)
      <4>1. t.cells[c] = cells[c]
        BY <1>5, <2>5, <3>1
      <4>2. PICK i \in 1..l : Lists1(r[i], c)
        BY <1>0, <2>5, <4>1 DEF CellsInv, Listed
      <4> QED BY <1>9, <1>11, <4>2 DEF Listed
    <3>2. CASE \E k \in 1..m : Lists1(w[k], c)
      <4>1. PICK k \in 1..m : Lists1(w[k], c)
        BY <3>2
      <4>2. l + k \in 1..p /\ Lists1(v[l + k], c)
        BY <1>9, <1>11, <4>1
      <4> QED BY <4>2 DEF Listed
    <3> QED BY <3>1, <3>2
  <2> QED BY <2>3, <2>4, <2>5 DEF CellsInv
<1>16. s.finished + p = next + m
  <2>1. PICK f \in Nat : f = s.finished
    BY <1>1
  <2>2. f + l = next
    BY <1>1, <2>1
  <2>3. f + p = next + m
    <3>1. next \in Nat /\ l \in Nat /\ m \in Nat /\ p = l + m
      BY <1>0, <1>8, <1>20
    <3>2. f \in Nat /\ f + l = next
      BY <2>1, <2>2
    <3> QED BY <3>1, <3>2
  <2> QED BY <2>1, <2>3
<1>17. t.reqs = v /\ Len(t.reqs) = p /\ p <= MAXREQS
  BY <1>2, <1>7, <1>8, <1>9
<1> QED BY <1>2, <1>13, <1>14, <1>15, <1>16, <1>17 DEF MemInv
-----------------------------------------------------------------------------
(* The tokens of a step.                                                    *)

(* t is s with one token more for each request of T, at its place: the next *)
(* of its reservation, or a free cell that its list takes on.               *)
Grew(s, t, mode, T, place) ==
    /\ t \in Memories /\ t.next = s.next /\ t.finished = s.finished /\ Len(t.reqs) = Len(s.reqs)
    /\ T \in SUBSET (1..Len(s.reqs)) /\ \A i \in T : place[i] \in Cell
    /\ \A i, j \in T : place[i] = place[j] => i = j
    /\ \A i \in 1..Len(s.reqs) : i \notin T => t.reqs[i] = s.reqs[i]
    /\ \A i \in T : /\ t.reqs[i].id = s.reqs[i].id /\ t.reqs[i].final = s.reqs[i].final
                    /\ t.reqs[i].tokens = s.reqs[i].tokens + 1
                    /\ t.cells[place[i]].id = s.reqs[i].id /\ t.cells[place[i]].used = TRUE
    /\ \A c \in Cell : (\A i \in T : place[i] # c) => t.cells[c] = s.cells[c]
    /\ mode = "contiguous" => \A i \in 1..Len(s.reqs) :
           /\ i \in T /\ place[i] = s.reqs[i].cells[s.reqs[i].tokens + 1]
           /\ t.reqs[i].cells = s.reqs[i].cells
    /\ mode = "paged" => \A i \in T : /\ s.cells[place[i]].id = -1
                                      /\ t.reqs[i].cells = Append(s.reqs[i].cells, place[i])

(* The free cells in the order they are taken: none twice.                  *)
LEMMA FreeFacts ==
    ASSUME NEW s, s \in Memories, NEW f, f = Len(FreeCells(s)),
           NEW fr, fr = FreeCells(s)
    PROVE  /\ f \in Nat /\ \A k \in 1..f : fr[k] \in Cell /\ s.cells[fr[k]].id = -1
           /\ \A i, k \in 1..f : fr[i] = fr[k] => i = k
PROOF
<1> DEFINE P == {i \in DOMAIN ORDER : s.cells[ORDER[i]].id = -1}
<1>1. ORDER \in Seq(Cell) /\ \A i, k \in DOMAIN ORDER : ORDER[i] = ORDER[k] => i = k
  BY OrderAssumption DEF Cell, IsInjective
<1>2. DOMAIN ORDER = 1..Len(ORDER)
  BY <1>1
<1>3. P \in SUBSET (1..Len(ORDER)) /\ \A i \in P : s.cells[ORDER[i]].id = -1 /\ i \in DOMAIN ORDER
  BY <1>2
<1>4. fr = AtPlaces(ORDER, P)
  BY DEF FreeCells
<1> HIDE DEF P
<1>5. PICK g, a : g = Cardinality(P) /\ a = Ascending(P)
  OBVIOUS
<1>6. /\ g \in Nat /\ fr \in Seq(Cell) /\ Len(fr) = g /\ Enumerates(a, P)
      /\ \A k \in 1..g : fr[k] = ORDER[a[k]] /\ a[k] \in P
  BY <1>1, <1>3, <1>4, <1>5, AtPlacesFacts
<1>7. f = g
  BY <1>6
<1>8. ASSUME NEW k \in 1..f PROVE fr[k] \in Cell /\ s.cells[fr[k]].id = -1
  <2>1. k \in 1..g
    BY <1>7, <1>8
  <2>2. PICK j : j = a[k]
    OBVIOUS
  <2>3. fr[k] = ORDER[j] /\ j \in P
    BY <1>6, <2>1, <2>2
  <2>4. ORDER[j] \in Cell /\ s.cells[ORDER[j]].id = -1
    BY <1>1, <1>3, <2>3
  <2> QED BY <2>3, <2>4
<1>9. ASSUME NEW i \in 1..f, NEW k \in 1..f, fr[i] = fr[k] PROVE i = k
  <2>1. i \in 1..g /\ k \in 1..g
    BY <1>7, <1>9
  <2>2. ORDER[a[i]] = ORDER[a[k]] /\ a[i] \in DOMAIN ORDER /\ a[k] \in DOMAIN ORDER
    BY <1>3, <1>6, <1>9, <2>1
  <2>3. a[i] = a[k]
    BY <1>1, <2>2
  <2> QED BY <1>5, <1>6, <2>1, <2>3 DEF Enumerates
<1> QED BY <1>6, <1>7, <1>8, <1>9

LEMMA GrownGrew ==
    ASSUME NEW mode \in Modes, NEW s, MemInv(s, mode), Young(s.reqs, Len(s.reqs))
    PROVE  \E T, place : Grew(s, Grown(s, mode), mode, T, place)
PROOF
<1>1. PICK cells \in [Cell -> Marks], r \in Seq(Requests), n \in Nat, next \in Nat :
          /\ cells = s.cells /\ r = s.reqs /\ n = Len(r) /\ next = s.next /\ DOMAIN r = 1..n
          /\ RequestsInv(r, n, next, mode) /\ CellsInv(cells, r, n)
          /\ s.finished \in Nat /\ s.steps \in Nat /\ s.finished + n = next /\ n <= MAXREQS
  BY MemParts
<1>0. n \in Nat /\ r \in Seq(Requests) /\ n = Len(r) /\ cells \in [Cell -> Marks]
      /\ RequestsInv(r, n, next, mode) /\ CellsInv(cells, r, n) /\ Young(r, n)
  BY <1>1
<1> DEFINE free == FreeCells(s)
           takes(i) == mode = "contiguous" \/ i <= Len(free)
           place(i) == IF mode = "contiguous" THEN s.reqs[i].cells[s.reqs[i].tokens + 1] ELSE free[i]
           taker(c) == {i \in DOMAIN s.reqs : takes(i) /\ place(i) = c}
           grow(i) == [s.reqs[i] EXCEPT !.tokens = IF takes(i) THEN @ + 1 ELSE @,
                                        !.cells = IF mode = "paged" /\ takes(i)
                                                  THEN Append(@, free[i]) ELSE @]
           q == [i \in 1..n |-> grow(i)]
           after == [c \in Cell |-> IF taker(c) = {} THEN s.cells[c]
                                    ELSE [id |-> s.reqs[CHOOSE i \in taker(c) : TRUE].id, used |-> TRUE]]
           T == {i \in 1..n : takes(i)}
           at == [i \in 1..n |-> place(i)]
<1>2. Grown(s, mode) = [s EXCEPT !.reqs = q, !.cells = after]
  BY <1>1 DEF Grown
<1>3. mode = "contiguous" \/ mode = "paged"
  BY DEF Modes
<1>4. PICK f, fr : f = Len(free) /\ fr = free
  OBVIOUS
<1>5. /\ f \in Nat /\ \A k \in 1..f : fr[k] \in Cell /\ cells[fr[k]].id = -1
      /\ \A i, k \in 1..f : fr[i] = fr[k] => i = k
  BY <1>1, <1>4, FreeFacts DEF MemInv
<1> HIDE DEF free
<1>6. ASSUME NEW i \in 1..n
      PROVE  /\ r[i] \in Requests /\ r[i].id \in Nat /\ r[i].final \in Nat /\ r[i].tokens \in Nat
             /\ r[i].cells \in Seq(Cell) /\ r[i].tokens < r[i].final /\ Fits(r[i], next, mode)
  BY <1>0, <1>6, RequestTyped DEF Young, RequestsInv
<1>7. ASSUME NEW i \in T
      PROVE  /\ i \in 1..n /\ i \in Nat
             /\ mode = "contiguous" => at[i] = r[i].cells[r[i].tokens + 1]
             /\ mode = "paged" => i \in 1..f /\ at[i] = fr[i]
  <2>1. i \in 1..n /\ i \in Nat /\ takes(i) /\ at[i] = place(i) /\ 1 <= i
    BY <1>0, <1>7
  <2>2. mode = "paged" => i <= f
    BY <1>4, <2>1
  <2>3. mode = "paged" => i \in 1..f
    BY <1>5, <2>1, <2>2
  <2> QED BY <1>1, <1>4, <2>1, <2>3
<1>8. mode = "contiguous" => \A i \in 1..n : i \in T
  OBVIOUS
<1>9. ASSUME NEW i \in 1..n
      PROVE  q[i] = [r[i] EXCEPT !.tokens = IF i \in T THEN @ + 1 ELSE @,
                                 !.cells = IF mode = "paged" /\ i \in T THEN Append(@, at[i]) ELSE @]
  <2>1. takes(i) <=> i \in T
    BY <1>9
  <2>2. mode = "paged" => free[i] = at[i]
    BY <1>9
  <2>3. q[i] = [r[i] EXCEPT !.tokens = IF i \in T THEN @ + 1 ELSE @,
                            !.cells = IF mode = "paged" /\ i \in T THEN Append(@, free[i]) ELSE @]
    BY <1>1, <1>9, <2>1
  <2> QED BY <2>2, <2>3
<1>10. ASSUME NEW i, NEW c PROVE i \in taker(c) <=> i \in T /\ at[i] = c
  BY <1>1
<1>11. ASSUME NEW c \in Cell
       PROVE  after[c] = IF taker(c) = {} THEN cells[c]
                         ELSE [id |-> r[CHOOSE i \in taker(c) : TRUE].id, used |-> TRUE]
  BY <1>1, <1>11
<1>12. T \in SUBSET (1..n)
  OBVIOUS
<1> HIDE DEF takes, place, taker, grow, T, at
<1>13. ASSUME NEW i \in T, mode = "contiguous"
       PROVE  at[i] \in Cell /\ IsAt(r[i], r[i].tokens + 1, at[i])
  <2>1. PICK x \in Nat, y \in Nat, z \in Nat : x = RESERVE /\ y = r[i].tokens /\ z = r[i].final
    BY <1>6, <1>7, <1>13, ConstantFacts
  <2>2. z \in 1..x /\ y < z /\ Len(r[i].cells) = x
    BY <1>6, <1>7, <1>13, <2>1 DEF Fits
  <2>3. y + 1 \in 1..x
    BY <2>1, <2>2
  <2>4. at[i] = r[i].cells[y + 1] /\ r[i].cells \in Seq(Cell)
    BY <1>6, <1>7, <1>13, <2>1
  <2> QED BY <2>1, <2>2, <2>3, <2>4 DEF IsAt
<1>14. ASSUME NEW i \in T PROVE at[i] \in Cell
  BY <1>3, <1>5, <1>7, <1>13, <1>14
<1>15. ASSUME NEW i \in T, NEW j \in T, at[i] = at[j] PROVE i = j
  <2>1. CASE mode = "contiguous"
    <3>1. PICK c, k, l : c = at[i] /\ k = r[i].tokens + 1 /\ l = r[j].tokens + 1
      OBVIOUS
    <3>2. IsAt(r[i], k, c) /\ IsAt(r[j], l, c) /\ i \in 1..n /\ j \in 1..n
      BY <1>7, <1>13, <1>15, <2>1, <3>1
    <3>3. OnceListed(r, n)
      BY <1>0, OneLister
    <3> QED BY <3>2, <3>3, Zenon DEF OnceListed
  <2>2. CASE mode = "paged"
    BY <1>5, <1>7, <1>15, <2>2
  <2> QED BY <1>3, <2>1, <2>2
<1>16. ASSUME NEW i \in 1..n, i \notin T PROVE q[i] = r[i]
  <2>1. q[i] = [r[i] EXCEPT !.tokens = @, !.cells = @]
    BY <1>9, <1>16
  <2>2. r[i] \in Requests
    BY <1>6, <1>16
  <2> QED BY <2>1, <2>2 DEF Requests
<1>17. ASSUME NEW i \in T
       PROVE  /\ q[i] \in Requests /\ q[i].id = r[i].id /\ q[i].final = r[i].final
              /\ q[i].tokens = r[i].tokens + 1
              /\ q[i].cells = IF mode = "paged" THEN Append(r[i].cells, at[i]) ELSE r[i].cells
  <2>1. PICK x, y : x = r[i].tokens + 1 /\ y = IF mode = "paged" THEN Append(r[i].cells, at[i]) ELSE r[i].cells
    OBVIOUS
  <2>2. x \in Nat
    <3>1. PICK z \in Nat : z = r[i].tokens
      BY <1>6, <1>7, <1>17
    <3> QED BY <2>1, <3>1
  <2>3. y \in Seq(Cell)
    <3>1. r[i].cells \in Seq(Cell) /\ at[i] \in Cell
      BY <1>6, <1>7, <1>14, <1>17
    <3>2. Append(r[i].cells, at[i]) \in Seq(Cell)
      BY <3>1
    <3> QED BY <2>1, <3>1, <3>2
  <2>4. q[i] = [r[i] EXCEPT !.tokens = x, !.cells = y]
    <3>1. i \in 1..n
      BY <1>7, <1>17
    <3> QED BY <1>9, <1>17, <2>1, <3>1
  <2>5. r[i] \in Requests
    BY <1>6, <1>7, <1>17
  <2>6. q[i] \in Requests /\ q[i].id = r[i].id /\ q[i].final = r[i].final /\ q[i].tokens = x /\ q[i].cells = y
    BY <2>2, <2>3, <2>4, <2>5 DEF Requests
  <2> QED BY <2>1, <2>6
<1>18. q \in Seq(Requests) /\ Len(q) = n
  <2>1. \A i \in 1..n : q[i] \in Requests
    BY <1>6, <1>16, <1>17
  <2>2. q = [i \in 1..n |-> q[i]]
    OBVIOUS
  <2>3. PICK v : v = q
    OBVIOUS
  <2>4. v \in [1..n -> Requests]
    BY <2>1, <2>2, <2>3
  <2> QED BY <1>0, <2>3, <2>4
<1>19. ASSUME NEW c \in Cell, \A i \in T : at[i] # c PROVE after[c] = cells[c]
  <2>1. taker(c) = {}
    BY <1>10, <1>19
  <2> QED BY <1>11, <1>19, <2>1
<1>20. ASSUME NEW i \in T PROVE after[at[i]] = [id |-> r[i].id, used |-> TRUE]
  <2>1. PICK c \in Cell : c = at[i]
    BY <1>14, <1>20
  <2>2. i \in taker(c)
    BY <1>10, <1>20, <2>1
  <2>3. PICK k : k = CHOOSE e \in taker(c) : TRUE
    OBVIOUS
  <2>4. k \in taker(c)
    BY <2>2, <2>3
  <2>5. k = i
    BY <1>10, <1>15, <1>20, <2>1, <2>4
  <2> QED BY <1>11, <2>1, <2>2, <2>3, <2>5
<1>21. after \in [Cell -> Marks]
  <2>1. ASSUME NEW c \in Cell PROVE after[c] \in Marks
    <3>1. CASE \A i \in T : at[i] # c
      BY <1>0, <1>19, <2>1, <3>1
    <3>2. CASE \E i \in T : at[i] = c
      <4>1. PICK i \in T : at[i] = c
        BY <3>2
      <4>2. PICK d \in Int : d = r[i].id
        BY <1>6, <1>7, <4>1
      <4>3. [id |-> d, used |-> TRUE] \in Marks
        BY <4>2 DEF Marks
      <4> QED BY <1>20, <4>1, <4>2, <4>3
    <3> QED BY <3>1, <3>2
  <2>2. after = [c \in Cell |-> after[c]]
    OBVIOUS
  <2> HIDE DEF after
  <2> QED BY <2>1, <2>2
<1> HIDE DEF q, after
<1>22. PICK t : t = Grown(s, mode)
  OBVIOUS
<1>23. /\ t \in Memories /\ t.next = s.next /\ t.finished = s.finished /\ t.reqs = q /\ t.cells = after
  <2>1. s \in Memories
    BY DEF MemInv
  <2>2. t = [s EXCEPT !.reqs = q, !.cells = after]
    BY <1>2, <1>22
  <2> QED BY <1>18, <1>21, <2>1, <2>2 DEF Memories
<1>24. Grew(s, t, mode, T, at)
  <2>1. Len(t.reqs) = Len(s.reqs) /\ T \in SUBSET (1..Len(s.reqs)) /\ \A i \in T : at[i] \in Cell
    BY <1>1, <1>12, <1>14, <1>18, <1>23
  <2>2. \A i \in 1..Len(s.reqs) : i \notin T => t.reqs[i] = s.reqs[i]
    BY <1>1, <1>16, <1>23
  <2>3. \A i \in T : /\ t.reqs[i].id = s.reqs[i].id /\ t.reqs[i].final = s.reqs[i].final
                     /\ t.reqs[i].tokens = s.reqs[i].tokens + 1
                     /\ t.cells[at[i]].id = s.reqs[i].id /\ t.cells[at[i]].used = TRUE
    <3>1. ASSUME NEW i \in T
          PROVE  /\ q[i].id = r[i].id /\ q[i].final = r[i].final /\ q[i].tokens = r[i].tokens + 1
                 /\ after[at[i]].id = r[i].id /\ after[at[i]].used = TRUE
      <4>1. PICK d, x : d = r[i].id /\ x = after[at[i]]
        OBVIOUS
      <4>2. x = [id |-> d, used |-> TRUE]
        BY <1>20, <3>1, <4>1
      <4>3. x.id = d /\ x.used = TRUE
        BY <4>2
      <4>4. q[i].id = r[i].id /\ q[i].final = r[i].final /\ q[i].tokens = r[i].tokens + 1
        BY <1>17, <3>1
      <4> QED BY <4>1, <4>3, <4>4
    <3> QED BY <1>1, <1>23, <3>1
  <2>4. \A c \in Cell : (\A i \in T : at[i] # c) => t.cells[c] = s.cells[c]
    BY <1>1, <1>19, <1>23
  <2>5. mode = "contiguous" => \A i \in 1..Len(s.reqs) :
           /\ i \in T /\ at[i] = s.reqs[i].cells[s.reqs[i].tokens + 1]
           /\ t.reqs[i].cells = s.reqs[i].cells
    BY <1>1, <1>7, <1>8, <1>17, <1>23
  <2>6. mode = "paged" => \A i \in T : /\ s.cells[at[i]].id = -1
                                       /\ t.reqs[i].cells = Append(s.reqs[i].cells, at[i])
    BY <1>1, <1>5, <1>7, <1>17, <1>23, SMTT(30)
  <2> QED BY <1>15, <1>23, <2>1, <2>2, <2>3, <2>4, <2>5, <2>6 DEF Grew
<1> QED BY <1>22, <1>24
(* Tokens in their places keep the memory in order.                         *)
LEMMA GrewKept ==
    ASSUME NEW mode \in Modes, NEW s, NEW t, NEW T, NEW place,
           MemInv(s, mode), Young(s.reqs, Len(s.reqs)), Grew(s, t, mode, T, place)
    PROVE  MemInv(t, mode)
PROOF
<1>1. PICK cells \in [Cell -> Marks], r \in Seq(Requests), n \in Nat, next \in Nat :
          /\ cells = s.cells /\ r = s.reqs /\ n = Len(r) /\ next = s.next /\ DOMAIN r = 1..n
          /\ RequestsInv(r, n, next, mode) /\ CellsInv(cells, r, n)
          /\ s.finished \in Nat /\ s.steps \in Nat /\ s.finished + n = next /\ n <= MAXREQS
  BY MemParts
<1>0. n \in Nat /\ r \in Seq(Requests) /\ n = Len(r) /\ cells \in [Cell -> Marks]
      /\ RequestsInv(r, n, next, mode) /\ CellsInv(cells, r, n) /\ Young(r, n)
  BY <1>1
<1>2. PICK q, after : q = t.reqs /\ after = t.cells
  OBVIOUS
<1>3. /\ t \in Memories /\ t.next = next /\ t.finished = s.finished /\ Len(q) = n
      /\ T \in SUBSET (1..n) /\ \A i \in T : place[i] \in Cell
  BY <1>1, <1>2 DEF Grew
<1>4. q \in Seq(Requests) /\ after \in [Cell -> Marks]
  BY <1>2, <1>3 DEF Memories
<1>5. ASSUME NEW i \in T, NEW j \in T, place[i] = place[j] PROVE i = j
  BY <1>5 DEF Grew
<1>6. ASSUME NEW i \in 1..n, i \notin T PROVE q[i] = r[i]
  BY <1>1, <1>2, <1>6 DEF Grew
<1>7. ASSUME NEW i \in T
      PROVE  /\ q[i].id = r[i].id /\ q[i].final = r[i].final /\ q[i].tokens = r[i].tokens + 1
             /\ after[place[i]].id = r[i].id /\ after[place[i]].used = TRUE
  BY <1>1, <1>2, <1>7 DEF Grew
<1>8. ASSUME NEW c \in Cell, \A i \in T : place[i] # c PROVE after[c] = cells[c]
  BY <1>1, <1>2, <1>8 DEF Grew
<1>9. ASSUME mode = "contiguous", NEW i \in 1..n
      PROVE  i \in T /\ place[i] = r[i].cells[r[i].tokens + 1] /\ q[i].cells = r[i].cells
  BY <1>1, <1>2, <1>9 DEF Grew
<1>10. ASSUME mode = "paged", NEW i \in T
       PROVE  cells[place[i]].id = -1 /\ q[i].cells = Append(r[i].cells, place[i])
  BY <1>1, <1>2, <1>10 DEF Grew
<1>11. mode = "contiguous" \/ mode = "paged"
  BY DEF Modes
<1>12. ASSUME NEW i \in 1..n
       PROVE  /\ r[i].id \in Nat /\ r[i].final \in Nat /\ r[i].tokens \in Nat /\ r[i].cells \in Seq(Cell)
              /\ Len(r[i].cells) \in Nat /\ (\A k \in 1..Len(r[i].cells) : r[i].cells[k] \in Cell)
              /\ r[i].tokens < r[i].final /\ Fits(r[i], next, mode)
              /\ \A k \in 1..Len(r[i].cells) : Bears(cells[r[i].cells[k]], r[i], k)
  <2>1. r[i].tokens < r[i].final /\ Fits(r[i], next, mode)
    BY <1>0, <1>12 DEF Young, RequestsInv
  <2>2. \A k \in 1..Len(r[i].cells) : Bears(cells[r[i].cells[k]], r[i], k)
    BY <1>0, <1>12 DEF CellsInv
  <2> QED BY <1>0, <1>12, <2>1, <2>2, RequestTyped
<1>13. ASSUME NEW i \in 1..n PROVE q[i].id = r[i].id /\ q[i].final = r[i].final
  BY <1>6, <1>7, <1>13
<1>14. ASSUME NEW c \in Cell, after[c].id = -1 PROVE cells[c].id = -1 /\ ~after[c].used
  <2>1. ASSUME NEW i \in T, place[i] = c PROVE FALSE
    <3>1. after[c].id = r[i].id /\ r[i].id \in Nat
      BY <1>3, <1>7, <1>12, <2>1
    <3> QED BY <1>14, <3>1
  <2>2. after[c] = cells[c]
    BY <1>8, <1>14, <2>1
  <2> QED BY <1>0, <1>14, <2>2 DEF CellsInv
(* Contiguous: the place is the next of the reservation, unused so far.     *)
<1>20. ASSUME mode = "contiguous", NEW i \in 1..n
       PROVE  Fits(q[i], next, mode)
  <2>1. PICK x \in Nat, z \in Nat : x = r[i].tokens /\ z = r[i].final
    BY <1>12, <1>20
  <2>2. x + 1 <= z
    BY <1>12, <1>20, <2>1
  <2>3. q[i].tokens = x + 1 /\ q[i].final = z /\ q[i].id = r[i].id /\ q[i].cells = r[i].cells
    BY <1>7, <1>9, <1>20, <2>1
  <2>4. Fits(r[i], next, mode)
    BY <1>12, <1>20
  <2>5. PICK u, v : u = r[i] /\ v = q[i]
    OBVIOUS
  <2>6. v.id < next /\ v.final \in 1..RESERVE /\ Len(v.cells) = RESERVE
        /\ \A k, l \in 1..Len(v.cells) : v.cells[k] = v.cells[l] => k = l
    BY <1>20, <2>1, <2>3, <2>4, <2>5, SMTT(30) DEF Fits
  <2>7. v.tokens <= v.final
    BY <2>2, <2>3, <2>5
  <2> QED BY <1>20, <2>5, <2>6, <2>7 DEF Fits
<1>21. ASSUME mode = "contiguous", NEW i \in 1..n, NEW k \in 1..Len(q[i].cells)
       PROVE  Bears(after[q[i].cells[k]], q[i], k)
  <2>1. PICK c \in Cell, x \in Nat : c = r[i].cells[k] /\ x = r[i].tokens /\ k \in 1..Len(r[i].cells)
    BY <1>9, <1>12, <1>21
  <2>2. q[i].cells = r[i].cells /\ q[i].id = r[i].id /\ q[i].tokens = x + 1 /\ i \in T
        /\ place[i] = r[i].cells[x + 1] /\ k \in Nat
    <3>1. q[i].cells = r[i].cells /\ i \in T /\ place[i] = r[i].cells[x + 1]
      BY <1>9, <1>21, <2>1
    <3>2. q[i].id = r[i].id /\ q[i].tokens = x + 1
      BY <1>7, <2>1, <3>1
    <3>3. k \in Nat
      BY <1>12, <1>21, <2>1
    <3> QED BY <3>1, <3>2, <3>3
  <2>3. CASE k = x + 1
    <3>1. after[c].id = r[i].id /\ after[c].used = TRUE
      BY <1>7, <2>1, <2>2, <2>3
    <3>2. k <= x + 1
      BY <2>1, <2>3
    <3> QED BY <2>1, <2>2, <3>1, <3>2 DEF Bears
  <2>4. CASE k # x + 1
    <3>1. ASSUME NEW j \in T, place[j] = c PROVE FALSE
      <4>0. PICK y \in Nat : y = r[j].tokens
        BY <1>3, <1>12, <3>1
      <4>1. PICK l : y = r[j].tokens /\ l = y + 1
        BY <4>0
      <4>2. Len(r[j].cells) = RESERVE /\ y < r[j].final /\ r[j].final \in 1..RESERVE /\ j \in 1..n
        BY <1>3, <1>12, <1>21, <3>1, <4>1 DEF Fits
      <4>3. l \in 1..RESERVE
        <5>1. PICK z \in Nat, w \in Nat : z = r[j].final /\ w = RESERVE
          BY <1>12, <4>2, ConstantFacts
        <5> QED BY <4>1, <4>2, <5>1, SMTT(30)
      <4>4. IsAt(r[j], l, c) /\ IsAt(r[i], k, c)
        BY <1>9, <1>21, <2>1, <3>1, <4>1, <4>2, <4>3 DEF IsAt
      <4>5. OnceListed(r, n)
        BY <1>0, OneLister
      <4>6. j = i /\ l = k
        BY <1>21, <4>2, <4>4, <4>5, Zenon DEF OnceListed
      <4> QED BY <2>1, <2>4, <4>1, <4>6
    <3>2. after[c] = cells[c]
      BY <1>8, <2>1, <3>1
    <3>3. Bears(cells[c], r[i], k)
      BY <1>12, <1>21, <2>1
    <3>4. k <= x + 1 <=> k <= x
      BY <2>1, <2>2, <2>4
    <3> QED BY <2>1, <2>2, <3>2, <3>3, <3>4 DEF Bears
  <2> QED BY <2>3, <2>4
<1>22. ASSUME mode = "contiguous", NEW c \in Cell, after[c].id # -1 PROVE Listed(q, n, c)
  <2>1. CASE \E i \in T : place[i] = c
    <3>1. PICK i \in T : place[i] = c
      BY <2>1
    <3>2. PICK x \in Nat, z \in Nat, w \in Nat : x = r[i].tokens /\ z = r[i].final /\ w = RESERVE
      BY <1>3, <1>12, <3>1, ConstantFacts
    <3>3. Len(r[i].cells) = w /\ x < z /\ z \in 1..w /\ i \in 1..n
      BY <1>3, <1>12, <1>22, <3>1, <3>2 DEF Fits
    <3>4. x + 1 \in 1..w
      BY <3>2, <3>3
    <3>5. r[i].cells[x + 1] = c /\ q[i].cells = r[i].cells
      BY <1>9, <1>22, <3>1, <3>2, <3>3
    <3>6. Lists1(q[i], c)
      BY <3>3, <3>4, <3>5 DEF Lists1
    <3> QED BY <3>3, <3>6 DEF Listed
  <2>2. CASE ~\E i \in T : place[i] = c
    <3>1. cells[c].id # -1
      BY <1>8, <1>22, <2>2
    <3>2. PICK i \in 1..n : Lists1(r[i], c)
      BY <1>0, <1>22, <3>1 DEF CellsInv, Listed
    <3>3. Lists1(q[i], c)
      BY <1>9, <1>22, <3>2 DEF Lists1
    <3> QED BY <3>2, <3>3 DEF Listed
  <2> QED BY <2>1, <2>2
(* Paged: the place was free, so no list has it yet.                        *)
<1>30. ASSUME mode = "paged", NEW i \in T
       PROVE  /\ Len(q[i].cells) = r[i].tokens + 1 /\ q[i].cells[r[i].tokens + 1] = place[i]
              /\ (\A k \in 1..Len(r[i].cells) : q[i].cells[k] = r[i].cells[k])
              /\ Len(r[i].cells) = r[i].tokens /\ i \in 1..n
  <2>1. i \in 1..n
    BY <1>3, <1>30
  <2>2. PICK b \in Seq(Cell), a \in Cell, x \in Nat : b = r[i].cells /\ a = place[i] /\ x = r[i].tokens
    BY <1>3, <1>12, <1>30, <2>1
  <2>3. Len(b) = x
    BY <1>12, <1>30, <2>1, <2>2 DEF Fits
  <2>4. Len(Append(b, a)) = x + 1 /\ Append(b, a)[x + 1] = a /\ \A k \in 1..Len(b) : Append(b, a)[k] = b[k]
    BY <2>2, <2>3
  <2>5. q[i].cells = Append(b, a)
    BY <1>10, <1>30, <2>2
  <2> QED BY <2>1, <2>2, <2>3, <2>4, <2>5
<1>31. ASSUME mode = "paged", NEW i \in 1..n, NEW k \in 1..Len(r[i].cells)
       PROVE  r[i].cells[k] \in Cell /\ (\A j \in T : place[j] # r[i].cells[k])
              /\ after[r[i].cells[k]] = cells[r[i].cells[k]]
  <2>1. PICK c \in Cell : c = r[i].cells[k]
    BY <1>12, <1>31
  <2>2. cells[c].id = r[i].id /\ r[i].id \in Nat
    BY <1>12, <1>31, <2>1 DEF Bears
  <2>3. \A j \in T : place[j] # c
    BY <1>10, <1>31, <2>2
  <2> QED BY <1>8, <2>1, <2>3
<1>32. ASSUME mode = "paged", NEW i \in 1..n, NEW k \in 1..Len(r[i].cells)
       PROVE  k \in 1..Len(q[i].cells) /\ q[i].cells[k] = r[i].cells[k]
  <2>1. CASE i \in T
    <3>1. PICK x \in Nat : x = r[i].tokens
      BY <1>12, <1>32
    <3>2. k \in 1..x /\ Len(q[i].cells) = x + 1 /\ q[i].cells[k] = r[i].cells[k]
      BY <1>30, <1>32, <2>1, <3>1
    <3>3. k \in 1..(x + 1)
      BY <3>1, <3>2
    <3> QED BY <3>2, <3>3
  <2>2. CASE i \notin T
    BY <1>6, <1>32, <2>2
  <2> QED BY <2>1, <2>2
<1>33. ASSUME mode = "paged", NEW i \in 1..n
       PROVE  Fits(q[i], next, mode)
  <2>1. CASE i \notin T
    BY <1>6, <1>12, <1>33, <2>1
  <2>2. CASE i \in T
    <3>1. PICK x \in Nat, z \in Nat : x = r[i].tokens /\ z = r[i].final
      BY <1>12, <1>33
    <3>2. PICK u, v : u = r[i] /\ v = q[i]
      OBVIOUS
    <3>3. v.tokens = x + 1 /\ v.final = z /\ v.id = u.id /\ Len(v.cells) = x + 1 /\ Len(u.cells) = x
          /\ v.cells[x + 1] = place[i] /\ \A k \in 1..x : v.cells[k] = u.cells[k]
      BY <1>7, <1>30, <1>33, <2>2, <3>1, <3>2
    <3>4. Fits(u, next, mode) /\ x < z
      BY <1>12, <1>33, <3>1, <3>2
    <3>5. u.id < next /\ z \in 1..RESERVE /\ \A k, l \in 1..x : u.cells[k] = u.cells[l] => k = l
      BY <3>1, <3>2, <3>3, <3>4 DEF Fits
    <3>6. \A k \in 1..x : u.cells[k] # place[i]
      BY <1>31, <1>33, <2>2, <3>2, <3>3
    <3>7. ASSUME NEW k \in 1..(x + 1), NEW l \in 1..(x + 1), v.cells[k] = v.cells[l] PROVE k = l
      <4>1. (k \in 1..x \/ k = x + 1) /\ (l \in 1..x \/ l = x + 1)
        BY <3>1, <3>7, SMTT(30)
      <4> QED BY <3>3, <3>5, <3>6, <3>7, <4>1
    <3>8. x + 1 <= z
      BY <3>1, <3>4
    <3>9. v.id < next /\ v.tokens <= v.final /\ v.final \in 1..RESERVE /\ Len(v.cells) = v.tokens
      BY <3>3, <3>5, <3>8
    <3>10. \A k, l \in 1..Len(v.cells) : v.cells[k] = v.cells[l] => k = l
      BY <3>3, <3>7
    <3>11. mode # "contiguous"
      BY <1>33
    <3> QED BY <3>2, <3>9, <3>10, <3>11 DEF Fits
  <2> QED BY <2>1, <2>2
<1>34. ASSUME mode = "paged", NEW i \in 1..n, NEW k \in 1..Len(r[i].cells)
       PROVE  Bears(after[q[i].cells[k]], q[i], k)
  <2>1. PICK c \in Cell, x \in Nat, y \in Nat : c = r[i].cells[k] /\ x = r[i].tokens /\ y = q[i].tokens
    <3>1. q[i].tokens \in Nat
      BY <1>3, <1>4, <1>34, RequestTyped
    <3> QED BY <1>12, <1>34, <3>1
  <2>2. after[c] = cells[c] /\ q[i].cells[k] = c /\ q[i].id = r[i].id
    BY <1>13, <1>31, <1>32, <1>34, <2>1
  <2>3. cells[c].id = r[i].id /\ (cells[c].used <=> k <= x)
    BY <1>12, <1>34, <2>1 DEF Bears
  <2>4. Len(r[i].cells) = x
    BY <1>12, <1>34, <2>1 DEF Fits
  <2>5. y = x \/ y = x + 1
    BY <1>6, <1>7, <1>34, <2>1
  <2>6. k <= x /\ k <= y
    BY <1>34, <2>1, <2>4, <2>5
  <2> QED BY <2>1, <2>2, <2>3, <2>6 DEF Bears
<1>35. ASSUME mode = "paged", NEW i \in 1..n, NEW k \in 1..Len(q[i].cells)
       PROVE  Bears(after[q[i].cells[k]], q[i], k)
  <2>1. CASE i \notin T
    <3>1. k \in 1..Len(r[i].cells)
      BY <1>6, <1>35, <2>1
    <3> QED BY <1>34, <1>35, <3>1
  <2>2. CASE i \in T
    <3>1. PICK x \in Nat : x = r[i].tokens
      BY <1>12, <1>35
    <3>2. Len(q[i].cells) = x + 1 /\ Len(r[i].cells) = x /\ q[i].cells[x + 1] = place[i]
      BY <1>30, <1>35, <2>2, <3>1
    <3>3. CASE k = x + 1
      <4>1. after[place[i]].id = r[i].id /\ after[place[i]].used = TRUE /\ q[i].id = r[i].id
            /\ q[i].tokens = x + 1
        BY <1>7, <2>2, <3>1
      <4>2. k <= x + 1
        BY <3>1, <3>3
      <4> QED BY <3>2, <3>3, <4>1, <4>2 DEF Bears
    <3>4. CASE k # x + 1
      <4>1. k \in 1..x
        BY <1>35, <3>1, <3>2, <3>4
      <4> QED BY <1>34, <1>35, <3>2, <4>1
    <3> QED BY <3>3, <3>4
  <2> QED BY <2>1, <2>2
<1>36. ASSUME mode = "paged", NEW c \in Cell, after[c].id # -1 PROVE Listed(q, n, c)
  <2>1. CASE \E i \in T : place[i] = c
    <3>1. PICK i \in T : place[i] = c
      BY <2>1
    <3>2. PICK x \in Nat : x = r[i].tokens
      BY <1>3, <1>12, <3>1
    <3>3. Len(q[i].cells) = x + 1 /\ q[i].cells[x + 1] = c /\ i \in 1..n
      BY <1>30, <1>36, <3>1, <3>2
    <3>4. x + 1 \in 1..(x + 1)
      BY <3>2
    <3>5. Lists1(q[i], c)
      BY <3>3, <3>4 DEF Lists1
    <3> QED BY <3>3, <3>5 DEF Listed
  <2>2. CASE ~\E i \in T : place[i] = c
    <3>1. cells[c].id # -1
      BY <1>8, <1>36, <2>2
    <3>2. PICK i \in 1..n : Lists1(r[i], c)
      BY <1>0, <1>36, <3>1 DEF CellsInv, Listed
    <3>3. PICK k \in 1..Len(r[i].cells) : r[i].cells[k] = c
      BY <3>2 DEF Lists1
    <3>4. Lists1(q[i], c)
      BY <1>32, <1>36, <3>2, <3>3 DEF Lists1
    <3> QED BY <3>2, <3>4 DEF Listed
  <2> QED BY <2>1, <2>2
<1>40. RequestsInv(q, n, next, mode)
  <2>1. \A i \in 1..n : Fits(q[i], next, mode)
    BY <1>11, <1>20, <1>33
  <2>2. \A i, j \in 1..n : q[i].id = q[j].id => i = j
    BY <1>0, <1>13 DEF RequestsInv
  <2> QED BY <2>1, <2>2 DEF RequestsInv
<1>41. CellsInv(after, q, n)
  <2>1. \A i \in 1..n : \A k \in 1..Len(q[i].cells) : Bears(after[q[i].cells[k]], q[i], k)
    BY <1>11, <1>21, <1>35
  <2>2. \A c \in Cell : after[c].id = -1 => ~after[c].used
    BY <1>14
  <2>3. \A c \in Cell : after[c].id # -1 => Listed(q, n, c)
    BY <1>11, <1>22, <1>36
  <2> QED BY <2>1, <2>2, <2>3 DEF CellsInv
<1> QED BY <1>1, <1>2, <1>3, <1>40, <1>41 DEF MemInv
-----------------------------------------------------------------------------
(* A simulation from its first frame on.                                    *)
GridInv(s, mode) == MemInv(s, mode) /\ Young(s.reqs, Len(s.reqs))
GridsOK(m) == GridInv(m.contiguous, "contiguous") /\ GridInv(m.paged, "paged")
GridsInv == final \in Finals /\ GridsOK(memory)

LEMMA MemStepKept ==
    ASSUME final \in Finals, NEW mode \in Modes, NEW s, GridInv(s, mode)
    PROVE  GridInv(MemStep(s, mode), mode)
PROOF
<1>1. MemInv(s, mode) /\ Young(s.reqs, Len(s.reqs))
  BY DEF GridInv
<1>2. PICK t : t = Admitted(s, mode)
  OBVIOUS
<1>3a. PICK m \in Nat : \E w : NewOnes(s, t, mode, m, w)
  BY <1>1, <1>2, AdmittedNew
<1>3. PICK w : NewOnes(s, t, mode, m, w)
  BY <1>3a
<1>4. MemInv(t, mode) /\ Young(t.reqs, Len(t.reqs))
  BY <1>1, <1>3, AdmittedKept
<1>5. PICK u : u = Grown(t, mode)
  OBVIOUS
<1>6. PICK T, place : Grew(t, u, mode, T, place)
  BY <1>4, <1>5, GrownGrew
<1>7. MemInv(u, mode)
  BY <1>4, <1>6, GrewKept
<1>8. MemStep(s, mode) = Swept(u)
  BY <1>2, <1>5, MemStepIs
<1> QED BY <1>7, <1>8, SweptKept DEF GridInv

LEMMA StepBothKept ==
    ASSUME final \in Finals, NEW m, GridsOK(m)
    PROVE  GridsOK(StepBoth(m))
PROOF
<1>1. PICK a, b : a = MemStep(m.contiguous, "contiguous") /\ b = MemStep(m.paged, "paged")
  OBVIOUS
<1>2. GridInv(a, "contiguous") /\ GridInv(b, "paged")
  BY <1>1, MemStepKept DEF GridsOK, Modes
<1>3. StepBoth(m) = [contiguous |-> a, paged |-> b]
  BY <1>1 DEF StepBoth
<1> QED BY <1>2, <1>3 DEF GridsOK

LEMMA FreshGridsOK == GridsOK(FreshGrids)
PROOF
<1>1. PICK s : s = FreshMem
  OBVIOUS
<1>2. /\ s.reqs = <<>> /\ s.next = 0 /\ s.finished = 0 /\ s.steps = 0
      /\ \A c \in Cell : s.cells[c].id = -1 /\ s.cells[c].used = FALSE
  BY <1>1 DEF FreshMem
<1>3. s \in Memories
  <2>1. PICK cells : cells = [c \in Cell |-> [id |-> -1, used |-> FALSE]]
    OBVIOUS
  <2>2. cells \in [Cell -> Marks]
    BY <2>1 DEF Marks
  <2>3. s = [cells |-> cells, reqs |-> <<>>, next |-> 0, finished |-> 0, steps |-> 0]
    BY <1>1, <2>1 DEF FreshMem
  <2>4. <<>> \in Seq(Requests)
    OBVIOUS
  <2> QED BY <2>2, <2>3, <2>4 DEF Memories
<1>4. Len(s.reqs) = 0 /\ 1..0 = {} /\ 0 <= MAXREQS
  BY <1>2, ConstantFacts
<1>5. ASSUME NEW mode PROVE GridInv(s, mode)
  <2>1. RequestsInv(s.reqs, 0, 0, mode)
    BY <1>4 DEF RequestsInv
  <2>2. CellsInv(s.cells, s.reqs, 0)
    BY <1>2, <1>4 DEF CellsInv
  <2>3. Young(s.reqs, 0)
    BY <1>4 DEF Young
  <2>4. 0 + 0 = 0
    OBVIOUS
  <2> QED BY <1>2, <1>3, <1>4, <2>1, <2>2, <2>3, <2>4 DEF GridInv, MemInv
<1>6. FreshGrids = [contiguous |-> s, paged |-> s]
  BY <1>1 DEF FreshGrids
<1> QED BY <1>5, <1>6 DEF GridsOK

(* What a step does to the memory picture.                                  *)
LEMMA MemoryStep ==
    ASSUME [SimNext]_simVars
    PROVE  /\ final' = final
           /\ memory' \in {memory, StepBoth(memory), FreshGrids}
PROOF
<1>1. CASE UNCHANGED simVars
  BY <1>1 DEF simVars
<1>2. ASSUME NEW w \in Sims, SimStep(w)
      PROVE  final' = final /\ memory' \in {memory, StepBoth(memory), FreshGrids}
  <2>1. CASE DrawFrame(w)
    BY <2>1 DEF DrawFrame, Advance
  <2>2. CASE TimerFires(w) \/ StepButton(w)
    BY <2>2 DEF TimerFires, StepButton, Advance
  <2>3. CASE Restart(w)
    BY <2>3 DEF Restart
  <2>4. CASE PlayOrPause(w) \/ SetSpeed(w) \/ Scroll(w)
    BY <2>4 DEF PlayOrPause, SetSpeed, Scroll
  <2> QED BY <1>2, <2>1, <2>2, <2>3, <2>4 DEF SimStep
<1> QED BY <1>1, <1>2 DEF SimNext

LEMMA GridsAlways == SimSpec => []GridsInv
PROOF
<1>1. SimInit => GridsInv
  BY FreshGridsOK DEF SimInit, GridsInv
<1>2. ASSUME GridsInv, [SimNext]_simVars PROVE GridsInv'
  <2>1. final' = final /\ final \in Finals /\ memory' \in {memory, StepBoth(memory), FreshGrids}
    BY <1>2, MemoryStep DEF GridsInv
  <2>2. PICK m : m = memory'
    OBVIOUS
  <2>3. GridsOK(m)
    BY <1>2, <2>1, <2>2, StepBothKept, FreshGridsOK DEF GridsInv
  <2>4. GridsOK(m)'
    BY <2>3 DEF GridsOK, GridInv, MemInv, Young
  <2> QED BY <2>1, <2>2, <2>3, <2>4 DEF GridsInv
<1>3. GridsInv /\ [SimNext]_simVars => GridsInv'
  BY <1>2
<1> QED BY <1>1, <1>3, PTL DEF SimSpec

-----------------------------------------------------------------------------
(* What the picture says.                                                   *)

(* The places (i, k) of lists of lengths len, and how many there are.       *)
Stair(n, len) == {p \in (1..n) \X Nat : p[2] \in 1..len[p[1]]}
Adds(d, n, len) == d[0] = 0 /\ \A i \in 1..n : len[i] \in Nat /\ d[i] = d[i - 1] + len[i]

LEMMA StairCount ==
    ASSUME NEW n \in Nat, NEW len, NEW d, Adds(d, n, len)
    PROVE  IsFiniteSet(Stair(n, len)) /\ Cardinality(Stair(n, len)) = d[n] /\ d[n] \in Nat
PROOF
<1> DEFINE Good(k) == /\ IsFiniteSet(Stair(k, len)) /\ Cardinality(Stair(k, len)) = d[k]
                      /\ d[k] \in Nat
           S == {k \in 0..n : Good(k)}
<1>1. 0 \in S
  <2>1. Stair(0, len) = {}
    BY DEF Stair
  <2>2. d[0] = 0 /\ 0 \in 0..n
    BY DEF Adds
  <2> QED BY <2>1, <2>2, FS_EmptySet
<1>2. ASSUME NEW k \in 0..(n - 1), k \in S PROVE k + 1 \in S
  <2>1. k + 1 \in 1..n /\ (k + 1) - 1 = k /\ k + 1 \in 0..n /\ k \in Nat
    BY <1>2
  <2>2. PICK m \in Nat, l \in Nat : m = k + 1 /\ l = len[m] /\ d[m] = d[k] + l
    <3>1. len[k + 1] \in Nat /\ d[k + 1] = d[(k + 1) - 1] + len[k + 1]
      BY <2>1 DEF Adds
    <3>2. k + 1 \in Nat
      BY <2>1
    <3> QED BY <2>1, <3>1, <3>2
  <2>3. PICK new : new = {p \in {m} \X Nat : p[2] \in 1..l}
    OBVIOUS
  <2>4. Stair(m, len) = Stair(k, len) \cup new
    <3>1. 1..m = (1..k) \cup {m} /\ m \notin 1..k
      BY <2>1, <2>2
    <3> QED BY <2>2, <2>3, <3>1 DEF Stair
  <2>5. Stair(k, len) \cap new = {}
    <3>1. m \notin 1..k
      BY <2>1, <2>2
    <3> QED BY <2>3, <3>1 DEF Stair
  <2>6. IsFiniteSet(new) /\ Cardinality(new) = l
    <3>1. IsFiniteSet(1..l) /\ Cardinality(1..l) = l
      BY UpToCount
    <3>2. PICK f : f = [i \in 1..l |-> <<m, i>>]
      OBVIOUS
    <3>3. \A i \in 1..l : f[i] \in new
      <4>1. \A i \in 1..l : i \in Nat
        BY <2>2
      <4> QED BY <2>3, <3>2, <4>1
    <3>4. \A p \in new : \E i \in 1..l : f[i] = p
      BY <2>3, <3>2
    <3>5. \A i, j \in 1..l : f[i] = f[j] => i = j
      BY <3>2
    <3> QED BY <3>1, <3>3, <3>4, <3>5, ImageCount, SMTT(30)
  <2>7. IsFiniteSet(Stair(k, len)) /\ Cardinality(Stair(k, len)) = d[k] /\ d[k] \in Nat
    BY <1>2
  <2>8. IsFiniteSet(Stair(m, len)) /\ Cardinality(Stair(m, len)) = d[k] + l
    BY <2>4, <2>5, <2>6, <2>7, DisjointCount
  <2>9. d[k] + l \in Nat
    BY <2>2, <2>7
  <2> QED BY <2>1, <2>2, <2>8, <2>9
<1> HIDE DEF S
<1>3. \A k \in 0..n : k \in S
  BY <1>1, <1>2, UpTo
<1>4. n \in S
  BY <1>3
<1> QED BY <1>4 DEF S

(* The tokens of the requests, one after the other.                         *)
LEMMA TokensSum ==
    ASSUME NEW r \in Seq(Requests), NEW n, n = Len(r), NEW len, len = [i \in 1..n |-> r[i].tokens]
    PROVE  \E d : Adds(d, n, len) /\ FoldLeft(LAMBDA x, q : x + q.tokens, 0, r) = d[n]
PROOF
<1>1. n \in Nat /\ DOMAIN r = 1..n
  OBVIOUS
<1>2. ASSUME NEW i \in 1..n PROVE len[i] = r[i].tokens /\ len[i] \in Nat
  BY <1>2, RequestTyped
<1> HIDE DEF Requests
<1> DEFINE g == [p \in (1..n) \X Nat |-> p[2] + len[p[1]]]
<1>3. g \in [(1..n) \X Nat -> Nat]
  BY <1>2
<1>4. \A i \in 1..n, e \in Nat : g[<<i, e>>] = e + len[i]
  OBVIOUS
<1> HIDE DEF g
<1>5. PICK fold : IsFold(n, Nat, 0, g, fold)
  BY <1>1, <1>3, FoldExists
<1>6. fold = [s \in SUBSET (1..n) |-> IF s = {} THEN 0 ELSE fold[s \ {Max(s)}] + r[Max(s)].tokens]
  <2>1. ASSUME NEW s \in SUBSET (1..n), s # {}
        PROVE  fold[s] = fold[s \ {Max(s)}] + r[Max(s)].tokens
    <3>1. Max(s) \in 1..n
      BY <1>1, <2>1, MaxIn
    <3>2. fold[s \ {Max(s)}] \in Nat
      BY <1>5 DEF IsFold
    <3>3. fold[s] = g[<<Max(s), fold[s \ {Max(s)}]>>]
      BY <1>5, <2>1 DEF IsFold
    <3> QED BY <1>2, <1>4, <3>1, <3>2, <3>3
  <2>2. fold[{}] = 0
    BY <1>5 DEF IsFold
  <2>3. fold = [s \in SUBSET (1..n) |-> fold[s]]
    BY <1>5 DEF IsFold
  <2> QED BY <2>1, <2>2, <2>3
<1> DEFINE iter == CHOOSE f : f = [s \in SUBSET (1..n) |->
                                     IF s = {} THEN 0 ELSE f[s \ {Max(s)}] + r[Max(s)].tokens]
<1>7. iter = [s \in SUBSET (1..n) |-> IF s = {} THEN 0 ELSE iter[s \ {Max(s)}] + r[Max(s)].tokens]
  BY <1>6
<1>8. FoldLeft(LAMBDA x, q : x + q.tokens, 0, r) = iter[1..n]
  BY <1>1 DEF FoldLeft, MapThenFoldSet
<1> HIDE DEF iter
<1> DEFINE d == [k \in 0..n |-> iter[1..k]]
<1>9. d[0] = 0
  <2>1. 1..0 = {} /\ 0 \in 0..n
    BY <1>1
  <2>2. iter[{}] = 0
    BY <1>7
  <2> QED BY <2>1, <2>2
<1>10. ASSUME NEW k \in 1..n PROVE d[k] = d[k - 1] + len[k]
  <2>1. Max(1..k) = k /\ (1..k) \ {k} = 1..(k - 1) /\ k - 1 \in 0..n /\ k \in 0..n
        /\ 1..k # {} /\ 1..k \in SUBSET (1..n)
    BY <1>1, WithoutTop
  <2>2. iter[1..k] = iter[(1..k) \ {k}] + r[k].tokens
    BY <1>7, <2>1
  <2> QED BY <1>2, <2>1, <2>2
<1>11. d[n] = iter[1..n]
  BY <1>1
<1> HIDE DEF d
<1>12. Adds(d, n, len)
  BY <1>2, <1>9, <1>10 DEF Adds
<1> QED BY <1>8, <1>11, <1>12
(* The cells listed up to some length of each list, counted.                *)
Reaches(r, n, len, A) ==
    /\ \A i \in 1..n : len[i] <= Len(r[i].cells)
    /\ \A c \in Cell : c \in A <=> \E i \in 1..n : \E k \in 1..len[i] : r[i].cells[k] = c
    /\ A \in SUBSET Cell

LEMMA CellsListed ==
    ASSUME NEW r \in Seq(Requests), NEW n, n = Len(r), OnceListed(r, n),
           NEW len, NEW d, Adds(d, n, len), NEW A, Reaches(r, n, len, A)
    PROVE  Cardinality(A) = d[n]
PROOF
<1>1. n \in Nat
  OBVIOUS
<1>0. /\ \A i \in 1..n : len[i] <= Len(r[i].cells)
      /\ \A c \in Cell : c \in A <=> \E i \in 1..n : \E k \in 1..len[i] : r[i].cells[k] = c
      /\ A \in SUBSET Cell
  BY DEF Reaches
<1>2. IsFiniteSet(Stair(n, len)) /\ Cardinality(Stair(n, len)) = d[n]
  BY <1>1, StairCount
<1>3. PICK f : f = [p \in Stair(n, len) |-> r[p[1]].cells[p[2]]]
  OBVIOUS
<1>4. ASSUME NEW i \in 1..n, NEW k \in 1..len[i]
      PROVE  /\ <<i, k>> \in Stair(n, len) /\ f[<<i, k>>] = r[i].cells[k]
             /\ r[i].cells[k] \in Cell /\ k \in 1..Len(r[i].cells)
  <2>1. PICK l \in Nat, x \in Nat : l = len[i] /\ x = Len(r[i].cells) /\ l <= x
    BY <1>0, <1>4, RequestTyped DEF Adds
  <2>2. k \in Nat /\ k \in 1..x
    BY <1>4, <2>1
  <2>3. <<i, k>> \in Stair(n, len)
    BY <1>4, <2>2 DEF Stair
  <2>4. r[i].cells[k] \in Cell
    BY <1>4, <2>1, <2>2, RequestTyped
  <2> QED BY <1>3, <2>1, <2>2, <2>3, <2>4
<1>5. ASSUME NEW p \in Stair(n, len)
      PROVE  \E i \in 1..n : \E k \in 1..len[i] : p = <<i, k>>
  BY <1>5 DEF Stair
<1>6. \A p \in Stair(n, len) : f[p] \in A
  BY <1>0, <1>4, <1>5
<1>7. \A c \in A : \E p \in Stair(n, len) : f[p] = c
  <2>1. ASSUME NEW c \in A PROVE \E p \in Stair(n, len) : f[p] = c
    <3>1. PICK i, k : i \in 1..n /\ k \in 1..len[i] /\ r[i].cells[k] = c
      BY <1>0, <2>1
    <3> QED BY <1>4, <3>1
  <2> QED BY <2>1
<1>8. \A p, q \in Stair(n, len) : f[p] = f[q] => p = q
  <2>1. ASSUME NEW p \in Stair(n, len), NEW q \in Stair(n, len), f[p] = f[q] PROVE p = q
    <3>1. PICK i, k : i \in 1..n /\ k \in 1..len[i] /\ p = <<i, k>>
      BY <1>5, <2>1
    <3>2. PICK j, l : j \in 1..n /\ l \in 1..len[j] /\ q = <<j, l>>
      BY <1>5, <2>1
    <3>3. PICK c : c = f[p]
      OBVIOUS
    <3>4. IsAt(r[i], k, c) /\ IsAt(r[j], l, c)
      BY <1>4, <2>1, <3>1, <3>2, <3>3 DEF IsAt
    <3>5. i = j /\ k = l
      BY <3>1, <3>2, <3>4, Zenon DEF OnceListed
    <3> QED BY <3>1, <3>2, <3>5
  <2> QED BY <2>1
<1> QED BY <1>2, <1>6, <1>7, <1>8, ImageCount

(* What MemoryAccountedFor asks of one grid.                                *)
Accounted(s) ==
    /\ \A c \in Cell :
           {s.reqs[i].id : i \in {j \in DOMAIN s.reqs : c \in ToSet(s.reqs[j].cells)}}
             = IF s.cells[c].id = -1 THEN {} ELSE {s.cells[c].id}
    /\ Grid(s).used = FoldLeft(LAMBDA n, r : n + r.tokens, 0, s.reqs)
    /\ s.finished + Grid(s).running = s.next

LEMMA GridAccounted ==
    ASSUME NEW mode \in Modes, NEW s, MemInv(s, mode)
    PROVE  /\ Accounted(s)
           /\ mode = "paged" => Grid(s).alloc = Grid(s).used
           /\ mode = "contiguous" => Grid(s).alloc = RESERVE * Grid(s).running
PROOF
<1>1. PICK cells \in [Cell -> Marks], r \in Seq(Requests), n \in Nat, next \in Nat :
          /\ cells = s.cells /\ r = s.reqs /\ n = Len(r) /\ next = s.next /\ DOMAIN r = 1..n
          /\ RequestsInv(r, n, next, mode) /\ CellsInv(cells, r, n)
          /\ s.finished \in Nat /\ s.steps \in Nat /\ s.finished + n = next /\ n <= MAXREQS
  BY MemParts
<1>0. n \in Nat /\ r \in Seq(Requests) /\ n = Len(r) /\ cells \in [Cell -> Marks]
      /\ RequestsInv(r, n, next, mode) /\ CellsInv(cells, r, n) /\ DOMAIN r = 1..n
  BY <1>1
<1>2. ASSUME NEW i \in 1..n
      PROVE  /\ r[i].id \in Nat /\ r[i].tokens \in Nat /\ r[i].cells \in Seq(Cell)
             /\ Len(r[i].cells) \in Nat /\ r[i].tokens <= Len(r[i].cells)
             /\ mode = "paged" => Len(r[i].cells) = r[i].tokens
             /\ mode = "contiguous" => Len(r[i].cells) = RESERVE
  <2>1. PICK x \in Nat, y \in Nat, z \in Nat, w \in Nat :
            x = r[i].tokens /\ y = r[i].final /\ z = Len(r[i].cells) /\ w = RESERVE
    BY <1>0, <1>2, RequestTyped, ConstantFacts
  <2>2. x <= y /\ y \in 1..w /\ z = IF mode = "contiguous" THEN w ELSE x
    BY <1>0, <1>2, <2>1 DEF RequestsInv, Fits
  <2>3. x <= z
    BY <2>1, <2>2
  <2>4. mode = "paged" => mode # "contiguous"
    OBVIOUS
  <2> QED BY <1>0, <1>2, <2>1, <2>2, <2>3, <2>4, RequestTyped
<1>3. ASSUME NEW i \in 1..n, NEW k \in 1..Len(r[i].cells)
      PROVE  r[i].cells[k] \in Cell /\ Bears(cells[r[i].cells[k]], r[i], k)
  BY <1>0, <1>3, RequestTyped DEF CellsInv
<1>4. PICK U, A : U = {c \in Cell : cells[c].used} /\ A = {c \in Cell : cells[c].id # -1}
  OBVIOUS
<1>5. /\ Grid(s).used = Cardinality(U) /\ Grid(s).alloc = Cardinality(A) /\ Grid(s).running = n
  BY <1>1, <1>4 DEF Grid
<1>6. PICK len : len = [i \in 1..n |-> r[i].tokens]
  OBVIOUS
<1>7. PICK d : Adds(d, n, len) /\ FoldLeft(LAMBDA x, q : x + q.tokens, 0, r) = d[n]
  BY <1>0, <1>6, TokensSum
<1>8. ASSUME NEW c \in Cell PROVE c \in U <=> \E i \in 1..n : \E k \in 1..len[i] : r[i].cells[k] = c
  <2>1. ASSUME c \in U PROVE \E i \in 1..n : \E k \in 1..len[i] : r[i].cells[k] = c
    <3>1. cells[c].used /\ cells[c].id # -1
      BY <1>0, <1>4, <2>1 DEF CellsInv
    <3>2. PICK i \in 1..n : Lists1(r[i], c)
      BY <1>0, <1>8, <3>1 DEF CellsInv, Listed
    <3>3. PICK k \in 1..Len(r[i].cells) : r[i].cells[k] = c
      BY <3>2 DEF Lists1
    <3>4. k <= r[i].tokens
      BY <1>3, <3>1, <3>2, <3>3 DEF Bears
    <3>5. k \in 1..len[i]
      <4>1. PICK x \in Nat, z \in Nat : x = r[i].tokens /\ z = Len(r[i].cells)
        BY <1>2, <3>2
      <4> QED BY <1>6, <3>2, <3>3, <3>4, <4>1
    <3> QED BY <3>2, <3>3, <3>5
  <2>2. ASSUME NEW i \in 1..n, NEW k \in 1..len[i], r[i].cells[k] = c PROVE c \in U
    <3>1. PICK x \in Nat, z \in Nat : x = r[i].tokens /\ z = Len(r[i].cells) /\ x <= z
      BY <1>2, <2>2
    <3>2. k \in 1..x
      BY <1>6, <2>2, <3>1
    <3>3. k \in 1..z /\ k <= x
      BY <3>1, <3>2
    <3>4. cells[c].used
      BY <1>3, <2>2, <3>1, <3>3 DEF Bears
    <3> QED BY <1>4, <1>8, <3>4
  <2> QED BY <2>1, <2>2
<1>9. Cardinality(U) = d[n]
  <2>1. \A i \in 1..n : len[i] <= Len(r[i].cells)
    BY <1>2, <1>6
  <2>2. U \in SUBSET Cell
    BY <1>4
  <2>3. Reaches(r, n, len, U)
    BY <1>8, <2>1, <2>2 DEF Reaches
  <2>4. OnceListed(r, n)
    BY <1>0, OneLister
  <2> QED BY <1>0, <1>7, <2>3, <2>4, CellsListed
<1>10. ASSUME NEW c \in Cell PROVE c \in A <=> \E i \in 1..n : \E k \in 1..Len(r[i].cells) : r[i].cells[k] = c
  <2>1. ASSUME c \in A PROVE \E i \in 1..n : \E k \in 1..Len(r[i].cells) : r[i].cells[k] = c
    BY <1>0, <1>4, <1>10, <2>1 DEF CellsInv, Listed, Lists1
  <2>2. ASSUME NEW i \in 1..n, NEW k \in 1..Len(r[i].cells), r[i].cells[k] = c PROVE c \in A
    <3>1. cells[c].id = r[i].id /\ r[i].id \in Nat
      BY <1>2, <1>3, <2>2 DEF Bears
    <3> QED BY <1>4, <1>10, <3>1
  <2> QED BY <2>1, <2>2
<1>11. mode = "paged" => A = U
  <2>1. ASSUME mode = "paged", NEW c \in Cell PROVE c \in A <=> c \in U
    <3>1. \A i \in 1..n : len[i] = Len(r[i].cells)
      BY <1>2, <1>6, <2>1
    <3> QED BY <1>8, <1>10, <2>1, <3>1
  <2> QED BY <1>4, <2>1
<1>12. ASSUME mode = "contiguous" PROVE Cardinality(A) = RESERVE * n
  <2>1. PICK x \in Nat : x = RESERVE
    BY ConstantFacts
  <2>2. PICK all, e : all = [i \in 1..n |-> x] /\ e = [i \in 0..n |-> x * i]
    OBVIOUS
  <2>3. Adds(e, n, all)
    <3>1. e[0] = 0
      BY <1>0, <2>1, <2>2
    <3>2. ASSUME NEW i \in 1..n PROVE all[i] \in Nat /\ e[i] = e[i - 1] + all[i]
      <4>1. i \in 0..n /\ i - 1 \in 0..n /\ i \in Nat
        BY <1>0, <3>2
      <4>2. x * i = x * (i - 1) + x
        BY <2>1, <4>1
      <4> QED BY <2>1, <2>2, <3>2, <4>1, <4>2
    <3> QED BY <3>1, <3>2 DEF Adds
  <2>4. \A i \in 1..n : all[i] = Len(r[i].cells) /\ all[i] <= Len(r[i].cells)
    BY <1>2, <1>12, <2>1, <2>2
  <2>5. \A c \in Cell : c \in A <=> \E i \in 1..n : \E k \in 1..all[i] : r[i].cells[k] = c
    BY <1>10, <2>4
  <2>6. A \in SUBSET Cell
    BY <1>4
  <2>7. \A i \in 1..n : all[i] <= Len(r[i].cells)
    BY <2>4
  <2>8. Cardinality(A) = e[n]
    <3>1. Reaches(r, n, all, A)
      BY <2>5, <2>6, <2>7 DEF Reaches
    <3>2. OnceListed(r, n)
      BY <1>0, OneLister
    <3> QED BY <1>0, <2>3, <3>1, <3>2, CellsListed
  <2>9. e[n] = x * n
    BY <1>0, <2>2
  <2> QED BY <2>1, <2>8, <2>9
<1>13. ASSUME NEW c \in Cell
       PROVE  {r[i].id : i \in {j \in 1..n : c \in ToSet(r[j].cells)}}
                = IF cells[c].id = -1 THEN {} ELSE {cells[c].id}
  <2>1. ASSUME NEW j \in 1..n
        PROVE  c \in ToSet(r[j].cells) <=> \E k \in 1..Len(r[j].cells) : r[j].cells[k] = c
    <3>1. PICK q \in Seq(Cell) : q = r[j].cells
      BY <1>2, <2>1
    <3>2. DOMAIN q = 1..Len(q)
      BY <3>1
    <3> QED BY <3>1, <3>2 DEF ToSet
  <2>2. ASSUME NEW j \in 1..n, c \in ToSet(r[j].cells) PROVE r[j].id = cells[c].id /\ cells[c].id # -1
    BY <1>2, <1>3, <2>1, <2>2, SMTT(30) DEF Bears
  <2>3. cells[c].id # -1 => \E j \in 1..n : c \in ToSet(r[j].cells)
    BY <1>0, <1>13, <2>1 DEF CellsInv, Listed, Lists1
  <2>4. PICK J : J = {j \in 1..n : c \in ToSet(r[j].cells)}
    OBVIOUS
  <2>5. (\A j \in J : r[j].id = cells[c].id /\ cells[c].id # -1) /\ (cells[c].id # -1 => \E j : j \in J)
    BY <2>2, <2>3, <2>4
  <2>6. {r[i].id : i \in J} = IF cells[c].id = -1 THEN {} ELSE {cells[c].id}
    BY <2>5
  <2> QED BY <2>4, <2>6
<1>14. Accounted(s)
  <2>1. \A c \in Cell :
           {s.reqs[i].id : i \in {j \in DOMAIN s.reqs : c \in ToSet(s.reqs[j].cells)}}
             = IF s.cells[c].id = -1 THEN {} ELSE {s.cells[c].id}
    <3>1. cells = s.cells /\ r = s.reqs /\ DOMAIN r = 1..n
      BY <1>1
    <3> QED BY <1>13, <3>1, ZenonT(30)
  <2>2. Grid(s).used = FoldLeft(LAMBDA x, q : x + q.tokens, 0, s.reqs)
    BY <1>1, <1>5, <1>7, <1>9
  <2> QED BY <1>1, <1>5, <2>1, <2>2 DEF Accounted
<1> QED BY <1>5, <1>11, <1>12, <1>14

(* Memory is accounted for on every stream of lengths: each cell has the    *)
(* one owner that lists it, the cells in use are the tokens, contiguous     *)
(* requests hold their reservations and paged ones no empty cell, and no    *)
(* request is lost (PagedSim, memStep).                                     *)
THEOREM MemoryAlwaysAccountedFor ==
    SimSpec => []MemoryAccountedFor
PROOF
<1>1. GridsInv => MemoryAccountedFor
  <2> SUFFICES ASSUME GridsInv PROVE MemoryAccountedFor
    OBVIOUS
  <2>1. PICK a, b : a = memory.contiguous /\ b = memory.paged
    OBVIOUS
  <2>2. MemInv(a, "contiguous") /\ MemInv(b, "paged")
    BY <2>1 DEF GridsInv, GridsOK, GridInv
  <2>3. "contiguous" \in Modes /\ "paged" \in Modes
    BY DEF Modes
  <2>4. Accounted(a) /\ Grid(a).alloc = RESERVE * Grid(a).running
    BY <2>2, <2>3, GridAccounted
  <2>5. Accounted(b) /\ Grid(b).alloc = Grid(b).used
    BY <2>2, <2>3, GridAccounted
  <2>6. \A s \in {memory.contiguous, memory.paged} : Accounted(s)
    BY <2>1, <2>4, <2>5
  <2>7. /\ Grid(memory.paged).alloc = Grid(memory.paged).used
        /\ Grid(memory.contiguous).alloc = RESERVE * Grid(memory.contiguous).running
    BY <2>1, <2>4, <2>5
  <2> QED BY <2>6, <2>7, Zenon DEF Accounted, MemoryAccountedFor
<1> QED BY <1>1, GridsAlways, PTL
=============================================================================
