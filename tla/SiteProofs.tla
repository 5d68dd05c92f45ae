----------------------------- MODULE SiteProofs -----------------------------
(***************************************************************************)
(* What the site's diagrams, frame and charts show, for any drawn pool,    *)
(* page and data.                                                          *)
(***************************************************************************)
EXTENDS SiteDiagrams, SiteShell, SiteCharts, DataLemmas

-----------------------------------------------------------------------------
(* The trace of one request (SystemDiagram).                                *)

(* A trace is at one of its places, and moves by itself only if there is    *)
(* one.                                                                     *)
TraceInv ==
    /\ step = {} \/ \E s \in 0..(Len(TRACE) - 1) : step = {s}
    /\ traceOn => step # {}

LEMMA TraceKept ==
    ASSUME TraceInv, [DiagramNext]_diagramVars
    PROVE  TraceInv' /\ TraceMoves
PROOF
<1> USE DEF TraceMoves
<1>1. Len(TRACE) = 10
  BY DEF TRACE
<1>2. CASE step' = step /\ selected' = selected /\ (traceOn' => traceOn \/ step # {})
  BY <1>2 DEF TraceInv
<1>3. CASE StartTrace
  BY <1>1, <1>3 DEF StartTrace, TraceInv
<1>4. CASE TraceTick
  <2>1. PICK s \in 0..9 : step = {s}
    BY <1>1, <1>4 DEF TraceTick, TraceInv
  <2>2. (CHOOSE t \in step : TRUE) = s
    BY <2>1
  <2>3. CASE s + 1 >= 10
    BY <1>1, <1>2, <1>4, <2>1, <2>2, <2>3 DEF TraceTick
  <2>4. CASE ~(s + 1 >= 10)
    <3>1. step' = {s + 1} /\ traceOn' = traceOn /\ selected' = selected
      BY <1>1, <1>4, <2>1, <2>2, <2>4 DEF TraceTick
    <3>2. s + 1 \in 0..9 /\ s + 1 < 10
      BY <2>4
    <3> QED BY <1>1, <2>1, <3>1, <3>2 DEF TraceInv
  <2> QED BY <2>3, <2>4
<1>5. CASE NextStep
  <2>1. PICK s \in 0..9 : step = {s}
    BY <1>1, <1>5 DEF NextStep, TraceInv
  <2>2. step' = {IF s + 1 < 10 THEN s + 1 ELSE 9} /\ traceOn' = FALSE /\ selected' = selected
    BY <1>1, <1>5, <2>1 DEF NextStep
  <2>3. CASE s + 1 < 10
    BY <1>1, <2>1, <2>2, <2>3 DEF TraceInv
  <2>4. CASE ~(s + 1 < 10)
    <3>1. s = 9
      BY <2>4
    <3> QED BY <1>1, <2>1, <2>2, <3>1 DEF TraceInv
  <2> QED BY <2>3, <2>4
<1>6. CASE Reset /\ selected' = selected
  BY <1>6 DEF Reset, TraceInv
<1>7. ASSUME NEW n \in NODES, SelectNode(n)
      PROVE  step' = {} /\ traceOn' = FALSE /\ selected' = n
  BY <1>7 DEF SelectNode, Reset
<1>8. CASE step' = {} /\ traceOn' = FALSE
  <2>1. TraceNode' = {}
    BY <1>8 DEF TraceNode
  <2>2. Detail' = {selected'}
    BY <2>1 DEF Detail, Or
  <2> QED BY <1>8, <2>2 DEF TraceInv
<1>9. CASE SystemStep
  <2>1. CASE PauseOrResume \/ Unhover \/ \E n \in NODES : Hover(n)
    <3>1. step' = step /\ selected' = selected /\ (traceOn' => traceOn \/ step # {})
      BY <2>1 DEF PauseOrResume, Unhover, Hover
    <3> QED BY <1>2, <3>1
  <2>2. CASE ResetButton
    BY <1>6, <2>2 DEF ResetButton
  <2> QED BY <1>3, <1>4, <1>5, <1>7, <1>8, <1>9, <2>1, <2>2 DEF SystemStep
<1>10. CASE LifecycleStep
  <2>1. UNCHANGED systemVars
    BY <1>10 DEF LifecycleStep, ScenarioTick, AutoPlay, IterationTick, RunScenario, PickIteration
  <2> QED BY <1>2, <2>1 DEF systemVars
<1>11. CASE KvStep
  <2>1. UNCHANGED systemVars
    BY <1>11 DEF KvStep, Slide, PickBlockSize
  <2> QED BY <1>2, <2>1 DEF systemVars
<1>12. CASE UNCHANGED diagramVars
  BY <1>2, <1>12 DEF diagramVars
<1> QED BY <1>9, <1>10, <1>11, <1>12 DEF DiagramNext

(* The buttons of a trace are there while it moves; it goes one place at a  *)
(* time; a component that is picked ends it and is explained                *)
(* (SystemDiagram).                                                         *)
THEOREM TraceAlwaysFollowable ==
    DiagramSpec => TraceIsFollowable
PROOF
<1>1. DiagramInit => TraceInv
  BY DEF DiagramInit, TraceInv
<1>2. TraceInv /\ [DiagramNext]_diagramVars => TraceInv'
  BY TraceKept
<1>3. DiagramSpec => []TraceInv
  BY <1>1, <1>2, PTL DEF DiagramSpec
<1>4. TraceInv /\ [DiagramNext]_diagramVars =>
         [TraceMoves]_systemVars
  BY TraceKept
<1> QED BY <1>3, <1>4, PTL DEF DiagramSpec, TraceIsFollowable

-----------------------------------------------------------------------------
(* The packet of the state machine (Lifecycle).                             *)
PacketInv == sid \in DOMAIN SCENARIOS /\ pos \in 0..(Len(Path) - 1)

(* The scenarios as data: each starts at the door and follows the arrows.   *)
LEMMA ScenarioFacts ==
    ASSUME NEW id \in DOMAIN SCENARIOS
    PROVE  LET P == SCENARIOS[id]
           IN  /\ Len(P) \in Nat \ {0} /\ P[1] = "door"
               /\ \A k \in 1..(Len(P) - 1) : <<P[k], P[k + 1]>> \in ARROWS
PROOF
<1> DEFINE normal == <<"door", "waiting", "running", "finished">>
           evicted == <<"door", "waiting", "running", "waiting", "running", "finished">>
           rejected == <<"door", "rejected">>
           Good(P) == /\ Len(P) \in Nat \ {0} /\ P[1] = "door"
                      /\ \A k \in 1..(Len(P) - 1) : <<P[k], P[k + 1]>> \in ARROWS
<1>1. Good(normal)
  <2>1. Len(normal) = 4
    OBVIOUS
  <2>2. \A k \in 1..3 : k = 1 \/ k = 2 \/ k = 3
    OBVIOUS
  <2>3. /\ <<normal[1], normal[2]>> \in ARROWS /\ <<normal[2], normal[3]>> \in ARROWS
        /\ <<normal[3], normal[4]>> \in ARROWS /\ normal[1] = "door"
    BY DEF ARROWS
  <2> QED BY <2>1, <2>2, <2>3
<1>2. Good(evicted)
  <2>1. Len(evicted) = 6
    OBVIOUS
  <2>2. \A k \in 1..5 : k = 1 \/ k = 2 \/ k = 3 \/ k = 4 \/ k = 5
    OBVIOUS
  <2>3. /\ <<evicted[1], evicted[2]>> \in ARROWS /\ <<evicted[2], evicted[3]>> \in ARROWS
        /\ <<evicted[3], evicted[4]>> \in ARROWS /\ <<evicted[4], evicted[5]>> \in ARROWS
        /\ <<evicted[5], evicted[6]>> \in ARROWS /\ evicted[1] = "door"
    BY DEF ARROWS
  <2> QED BY <2>1, <2>2, <2>3
<1>3. Good(rejected)
  <2>1. Len(rejected) = 2 /\ \A k \in 1..1 : k = 1
    OBVIOUS
  <2>2. <<rejected[1], rejected[2]>> \in ARROWS /\ rejected[1] = "door"
    BY DEF ARROWS
  <2> QED BY <2>1, <2>2
<1>4. SCENARIOS[id] \in {normal, evicted, rejected}
  BY DEF SCENARIOS
<1> HIDE DEF normal, evicted, rejected, Good
<1>5. Good(SCENARIOS[id])
  BY <1>1, <1>2, <1>3, <1>4
<1> QED BY <1>5 DEF Good

LEMMA PacketKept ==
    ASSUME PacketInv, [DiagramNext]_diagramVars
    PROVE  /\ PacketInv'
           /\ Here' # Here => <<Here, Here'>> \in ARROWS \/ Here' = "door"
PROOF
<1>1. PICK n \in Nat \ {0} : n = Len(Path) /\ sid \in DOMAIN SCENARIOS /\ pos \in 0..(n - 1)
  BY ScenarioFacts DEF PacketInv, Path
<1>2. Here = Path[pos + 1]
  BY <1>1 DEF Here
<1>3. CASE sid' = sid /\ pos' = pos
  BY <1>3 DEF PacketInv, Here, Path
<1>4. CASE ScenarioTick
  <2>1. sid' = sid /\ Path' = Path
    BY <1>4 DEF ScenarioTick, Path
  <2>2. CASE pos + 1 >= n
    BY <1>1, <1>3, <1>4, <2>1, <2>2 DEF ScenarioTick
  <2>3. CASE ~(pos + 1 >= n)
    <3>1. pos' = pos + 1
      BY <1>1, <1>4, <2>3 DEF ScenarioTick
    <3>2. PICK p \in 1..(n - 1) : p = pos + 1 /\ p < n
      BY <1>1, <2>3
    <3>3. PacketInv'
      <4>1. p \in 0..(n - 1)
        BY <3>2
      <4> QED BY <1>1, <2>1, <3>1, <3>2, <4>1 DEF PacketInv
    <3>4. Here' = Path[p + 1]
      BY <1>1, <2>1, <3>1, <3>2 DEF Here
    <3>5. <<Path[p], Path[p + 1]>> \in ARROWS
      BY <1>1, <3>2, ScenarioFacts DEF Path
    <3> QED BY <1>2, <3>2, <3>3, <3>4, <3>5
  <2> QED BY <2>2, <2>3
<1>5. ASSUME NEW id \in DOMAIN SCENARIOS, RunScenario(id)
      PROVE  PacketInv' /\ Here' = "door"
  <2>1. sid' = id /\ pos' = 0 /\ Path' = SCENARIOS[id]
    BY <1>5 DEF RunScenario, Path
  <2>2. PICK m \in Nat \ {0} : m = Len(SCENARIOS[id])
    BY ScenarioFacts
  <2>3. 0 \in 0..(m - 1) /\ 0 < m
    BY <2>2
  <2>4. Here' = SCENARIOS[id][1]
    BY <2>1, <2>2, <2>3 DEF Here
  <2>5. SCENARIOS[id][1] = "door"
    BY ScenarioFacts
  <2> QED BY <2>1, <2>2, <2>3, <2>4, <2>5 DEF PacketInv
<1>6. CASE LifecycleStep
  <2>1. CASE AutoPlay \/ IterationTick \/ \E i \in 0..(Len(ITERATION) - 1) : PickIteration(i)
    <3>1. sid' = sid /\ pos' = pos
      BY <2>1 DEF AutoPlay, IterationTick, PickIteration
    <3> QED BY <1>3, <3>1
  <2> QED BY <1>4, <1>5, <1>6, <2>1 DEF LifecycleStep
<1>7. CASE SystemStep \/ KvStep
  <2>1. UNCHANGED lifeVars
    BY <1>7 DEF SystemStep, StartTrace, TraceTick, PauseOrResume, NextStep, ResetButton, Reset,
                Unhover, SelectNode, Hover, KvStep, Slide, PickBlockSize
  <2> QED BY <1>3, <2>1 DEF lifeVars
<1>8. CASE UNCHANGED diagramVars
  BY <1>3, <1>8 DEF diagramVars
<1> QED BY <1>6, <1>7, <1>8 DEF DiagramNext

(* The packet moves along a drawn arrow, or back to the door (Lifecycle).   *)
THEOREM PacketAlwaysOnArrows ==
    DiagramSpec => PacketFollowsArrows
PROOF
<1>1. DiagramInit => PacketInv
  <2> SUFFICES ASSUME DiagramInit PROVE PacketInv
    OBVIOUS
  <2>1. sid = "normal" /\ pos = 0
    BY DEF DiagramInit
  <2>2. sid \in DOMAIN SCENARIOS
    BY <2>1 DEF SCENARIOS
  <2>3. Len(Path) \in Nat \ {0}
    BY <2>2, ScenarioFacts DEF Path
  <2>4. 0 \in 0..(Len(Path) - 1)
    BY <2>3
  <2> QED BY <2>1, <2>2, <2>4 DEF PacketInv
<1>2. PacketInv /\ [DiagramNext]_diagramVars => PacketInv'
  BY PacketKept
<1>3. DiagramSpec => []PacketInv
  BY <1>1, <1>2, PTL DEF DiagramSpec
<1>4. PacketInv /\ [DiagramNext]_diagramVars =>
         [Here' # Here => <<Here, Here'>> \in ARROWS \/ Here' = "door"]_lifeVars
  BY PacketKept
<1> QED BY <1>3, <1>4, PTL DEF DiagramSpec, PacketFollowsArrows

-----------------------------------------------------------------------------
(* The drawing of the block table (KvDiagram).                              *)

LEMMA Quotients ==
    ASSUME NEW t \in Nat \ {0}, NEW b \in Nat \ {0}
    PROVE  LET B == (t + b - 1) \div b
           IN  /\ B \in Nat \ {0} /\ B * b - b < t /\ t <= B * b /\ B * b \in Nat
               /\ t % b = 0 <=> t = B * b
               /\ \A n \in Nat : t <= n * b => B <= n
PROOF
<1> DEFINE B == (t + b - 1) \div b
<1>1. B \in Nat \ {0} /\ B * b \in Nat
  BY SMTT(30)
<1>2. B * b - b < t /\ t <= B * b
  BY SMTT(30)
<1>3. \A n \in Nat : t <= n * b => B <= n
  <2> HIDE DEF B
  <2>1. ASSUME NEW n \in Nat, n < B PROVE n * b < t
    <3>1. n <= B - 1 /\ B - 1 \in Nat
      BY <1>1, <2>1
    <3>2. \A u, v, w \in Nat : u <= v => u * w <= v * w
      OBVIOUS
    <3>3. n * b <= (B - 1) * b
      BY <3>1, <3>2
    <3>4. (B - 1) * b = B * b - b
      BY <1>1
    <3> QED BY <1>1, <1>2, <3>3, <3>4
  <2> QED BY <1>1, <2>1
<1>4. t % b = 0 <=> t = B * b
  <2>1. PICK a \in Nat, r \in 0..(b - 1) : t = a * b + r /\ r = t % b /\ a * b \in Nat
    BY DivFacts
  <2> HIDE DEF B
  <2>2. r = 0 => t = B * b
    <3>1. r = 0 => B <= a
      <4>1. r = 0 => t <= a * b
        BY <2>1
      <4> QED BY <1>3, <2>1, <4>1
    <3>2. \A u, v, w \in Nat : u <= v => u * w <= v * w
      OBVIOUS
    <3>3. r = 0 => B * b <= a * b
      BY <1>1, <2>1, <3>1, <3>2
    <3> QED BY <1>1, <1>2, <2>1, <3>3
  <2>3. t = B * b => r = 0
    <3>1. ASSUME t = B * b, a < B PROVE FALSE
      <4>1. a + 1 \in Nat /\ a + 1 <= B
        BY <1>1, <3>1
      <4>2. \A u, v, w \in Nat : u <= v => u * w <= v * w
        OBVIOUS
      <4>3. (a + 1) * b <= B * b
        BY <1>1, <4>1, <4>2
      <4>4. (a + 1) * b = a * b + b
        OBVIOUS
      <4> QED BY <1>1, <2>1, <3>1, <4>3, <4>4
    <3>2. ASSUME t = B * b, B <= a PROVE r = 0
      <4>1. \A u, v, w \in Nat : u <= v => u * w <= v * w
        OBVIOUS
      <4>2. B * b <= a * b
        BY <1>1, <3>2, <4>1
      <4> QED BY <1>1, <2>1, <3>2, <4>2
    <3> QED BY <1>1, <3>1, <3>2
  <2> QED BY <2>1, <2>2, <2>3
<1> QED BY <1>1, <1>2, <1>3, <1>4

KvInv == tokens \in 1..MAXTOKENS /\ bs \in BLOCK_SIZES

LEMMA TableSize ==
    ASSUME DiagramsAssumption, KvInv
    PROVE  /\ tokens \in Nat \ {0} /\ bs \in Nat \ {0} /\ Blocks \in Nat \ {0}
           /\ Blocks * bs - bs < tokens /\ tokens <= Blocks * bs /\ Blocks * bs \in Nat
           /\ ExactlyFull <=> tokens = Blocks * bs
           /\ Blocks <= POOL
PROOF
<1>1. tokens \in Nat \ {0} /\ bs \in Nat \ {0} /\ POOL \in Nat /\ tokens <= POOL * bs
  <2>1. MAXTOKENS <= POOL * bs /\ MAXTOKENS \in Nat /\ POOL \in Nat /\ bs \in Nat \ {0}
    BY DEF DiagramsAssumption, KvInv
  <2>2. tokens \in Nat \ {0} /\ tokens <= MAXTOKENS
    BY <2>1 DEF KvInv
  <2> QED BY <2>1, <2>2
<1> QED BY <1>1, Quotients DEF Blocks, ExactlyFull

(* Every block holds b tokens but the last.                                 *)
HeldSoFar(d, B, b, last) ==
    d[0] = 0 /\ \A k \in 1..B : d[k] = d[k - 1] + (IF k = B THEN last ELSE b)

LEMMA HeldSum ==
    ASSUME NEW B \in Nat \ {0}, NEW b \in Nat, NEW last \in Nat, NEW d, HeldSoFar(d, B, b, last)
    PROVE  d[B] = B * b - b + last
PROOF
<1> USE DEF HeldSoFar
<1> DEFINE S == {k \in 0..(B - 1) : d[k] = k * b}
<1>1. 0 \in S
  OBVIOUS
<1>2. ASSUME NEW k \in 0..((B - 1) - 1), k \in S PROVE k + 1 \in S
  <2>1. k + 1 \in 1..B /\ k + 1 # B /\ (k + 1) - 1 = k /\ k + 1 \in 0..(B - 1)
    OBVIOUS
  <2>2. d[k + 1] = d[k] + b
    BY <2>1
  <2>3. k * b + b = (k + 1) * b
    OBVIOUS
  <2> QED BY <1>2, <2>1, <2>2, <2>3
<1> HIDE DEF S
<1>3. \A k \in 0..(B - 1) : k \in S
  BY <1>1, <1>2, UpTo
<1>4. d[B - 1] = (B - 1) * b
  BY <1>3 DEF S
<1>5. d[B] = d[B - 1] + last
  OBVIOUS
<1>6. (B - 1) * b + last = B * b - b + last
  OBVIOUS
<1> QED BY <1>4, <1>5, <1>6

LEMMA TableHolds ==
    ASSUME DiagramsAssumption, KvInv
    PROVE  FoldLeft(LAMBDA n, i : n + TokensHeld(i), 0, [i \in 1..Blocks |-> i]) = tokens
PROOF
<1>1. PICK n \in Nat \ {0} : n = Blocks
  BY TableSize
<1>2. /\ tokens \in Nat \ {0} /\ bs \in Nat \ {0} /\ n * bs \in Nat
      /\ n * bs - bs < tokens /\ tokens <= n * bs
  BY <1>1, TableSize
<1>3. PICK last \in Nat : last = tokens - (n * bs - bs)
  BY <1>2
<1>4. Tail_ = last
  <2>1. (n - 1) * bs = n * bs - bs
    BY <1>2
  <2> QED BY <1>1, <1>3, <2>1 DEF Tail_
<1>5. \A i \in 1..n : TokensHeld(i) = (IF i = n THEN last ELSE bs) /\ TokensHeld(i) \in Nat
  BY <1>1, <1>2, <1>4 DEF TokensHeld
<1> DEFINE seq == [i \in 1..n |-> i]
           g == [p \in (1..n) \X Nat |-> p[2] + TokensHeld(p[1])]
<1>6. DOMAIN seq = 1..n /\ \A i \in 1..n : seq[i] = i
  OBVIOUS
<1>7. g \in [(1..n) \X Nat -> Nat]
  BY <1>5
<1>8. \A i \in 1..n, e \in Nat : g[<<i, e>>] = e + TokensHeld(i)
  OBVIOUS
<1> HIDE DEF g
<1>9. PICK fold : IsFold(n, Nat, 0, g, fold)
  BY <1>7, FoldExists
<1> HIDE DEF seq
<1>10. fold = [s \in SUBSET (1..n) |->
                 IF s = {} THEN 0 ELSE fold[s \ {Max(s)}] + TokensHeld(seq[Max(s)])]
  <2>1. ASSUME NEW s \in SUBSET (1..n), s # {}
        PROVE  fold[s] = fold[s \ {Max(s)}] + TokensHeld(seq[Max(s)])
    <3>1. Max(s) \in 1..n
      BY <2>1, MaxIn
    <3>2. fold[s \ {Max(s)}] \in Nat
      BY <1>9 DEF IsFold
    <3>3. fold[s] = g[<<Max(s), fold[s \ {Max(s)}]>>]
      BY <1>9, <2>1 DEF IsFold
    <3>4. seq[Max(s)] = Max(s)
      BY <1>6, <3>1
    <3> QED BY <1>8, <3>1, <3>2, <3>3, <3>4
  <2>2. fold[{}] = 0
    BY <1>9 DEF IsFold
  <2>3. fold = [s \in SUBSET (1..n) |-> fold[s]]
    BY <1>9 DEF IsFold
  <2> QED BY <2>1, <2>2, <2>3
<1> DEFINE iter == CHOOSE f : f = [s \in SUBSET (1..n) |->
               IF s = {} THEN 0 ELSE f[s \ {Max(s)}] + TokensHeld(seq[Max(s)])]
<1>11. iter = [s \in SUBSET (1..n) |->
                 IF s = {} THEN 0 ELSE iter[s \ {Max(s)}] + TokensHeld(seq[Max(s)])]
  BY <1>10
<1>12. FoldLeft(LAMBDA m, i : m + TokensHeld(i), 0, seq) = iter[1..n]
  BY <1>6 DEF FoldLeft, MapThenFoldSet
<1> HIDE DEF iter
<1> DEFINE d == [k \in 0..n |-> iter[1..k]]
<1>13. d[0] = 0
  <2>1. 1..0 = {} /\ 0 \in 0..n
    OBVIOUS
  <2>2. iter[{}] = 0
    BY <1>11
  <2> QED BY <2>1, <2>2
<1>14. ASSUME NEW k \in 1..n PROVE d[k] = d[k - 1] + TokensHeld(k)
  <2>1. Max(1..k) = k /\ (1..k) \ {k} = 1..(k - 1) /\ k - 1 \in 0..n /\ k \in 0..n
        /\ 1..k # {} /\ 1..k \in SUBSET (1..n)
    BY WithoutTop
  <2>2. iter[1..k] = iter[(1..k) \ {k}] + TokensHeld(seq[k])
    BY <1>11, <2>1
  <2> QED BY <1>6, <2>1, <2>2
<1>15. d[n] = iter[1..n]
  OBVIOUS
<1> HIDE DEF d
<1>16. \A k \in 1..n : d[k] = d[k - 1] + (IF k = n THEN last ELSE bs)
  BY <1>5, <1>14
<1>17. d[n] = n * bs - bs + last
  <2>1. PICK b \in Nat : b = bs
    BY <1>2
  <2>2. \A k \in 1..n : d[k] = d[k - 1] + (IF k = n THEN last ELSE b)
    BY <1>16, <2>1
  <2>4. PICK e : e = d
    OBVIOUS
  <2>5. HeldSoFar(e, n, b, last)
    BY <1>13, <2>2, <2>4 DEF HeldSoFar
  <2>3. e[n] = n * b - b + last
    BY <1>1, <1>3, <2>1, <2>5, HeldSum
  <2> QED BY <2>1, <2>3, <2>4
<1>18. n * bs - bs + last = tokens
  BY <1>2, <1>3
<1> QED BY <1>1, <1>12, <1>15, <1>17, <1>18 DEF seq

(* A block of the pool has one owner: the pool is shuffled, and no block    *)
(* is drawn twice.                                                          *)
LEMMA OneOwner ==
    ASSUME DiagramsAssumption, KvInv, NEW p \in 0..(POOL - 1)
    PROVE  Len(Table) = Blocks /\ Cardinality(Owner(p)) <= 1
PROOF
<1>1. PICK n \in Nat \ {0} : n = Blocks /\ n <= POOL
  BY TableSize
<1>2. POOL \in Nat /\ DOMAIN PHYS = 1..POOL /\ ToSet(PHYS) = 0..(POOL - 1)
  <2>1. PHYS \in [1..POOL -> 0..(POOL - 1)]
    BY DEF DiagramsAssumption
  <2> QED BY <2>1 DEF DiagramsAssumption
<1>3. IsFiniteSet(1..POOL) /\ Cardinality(1..POOL) = POOL
  BY <1>2, FS_Interval
<1>4. IsFiniteSet(0..(POOL - 1)) /\ Cardinality(0..(POOL - 1)) = POOL
  <2>1. 0 \in Int /\ POOL - 1 \in Int /\ (POOL - 1) - 0 + 1 = POOL
    BY <1>2
  <2> QED BY <1>1, <1>2, <2>1, FS_Interval
<1>5. PICK f : f = [i \in 1..POOL |-> PHYS[i]]
  OBVIOUS
<1>6. f \in Surjection(1..POOL, 0..(POOL - 1))
  <2>1. \A i \in 1..POOL : PHYS[i] \in 0..(POOL - 1)
    BY <1>2 DEF ToSet
  <2>2. \A x \in 0..(POOL - 1) : \E i \in 1..POOL : PHYS[i] = x
    BY <1>2 DEF ToSet
  <2>3. f \in [1..POOL -> 0..(POOL - 1)] /\ \A x \in 0..(POOL - 1) : \E i \in 1..POOL : f[i] = x
    BY <1>5, <2>1, <2>2
  <2> QED BY <2>3, Zenon DEF Surjection
<1>7. f \in Injection(1..POOL, 0..(POOL - 1))
  BY <1>3, <1>4, <1>6, FS_Surjection
<1>8. \A i, j \in 1..POOL : PHYS[i] = PHYS[j] => i = j
  BY <1>5, <1>7 DEF Injection, IsInjective
<1>9. Table = [i \in 1..n |-> PHYS[i]]
  <2>1. PHYS \in [1..POOL -> 0..(POOL - 1)]
    BY DEF DiagramsAssumption
  <2>2. PICK q : q = PHYS
    OBVIOUS
  <2>3. q \in Seq(0..(POOL - 1)) /\ Len(q) = POOL
    BY <1>2, <2>1, <2>2
  <2>4. SubSeq(q, 1, n) = [i \in 1..n |-> q[i]]
    BY <1>1, <1>2, <2>3
  <2> QED BY <1>1, <2>2, <2>4 DEF Table
<1>10. PICK tbl : tbl = [i \in 1..n |-> PHYS[i]]
  OBVIOUS
<1>11. DOMAIN tbl = 1..n /\ Len(tbl) = n /\ \A i, j \in 1..n : tbl[i] = tbl[j] => i = j
  BY <1>1, <1>8, <1>10
<1>12. \A i, j \in Owner(p) : i = j
  BY <1>9, <1>10, <1>11 DEF Owner
<1>13. Owner(p) = {} \/ \E i : Owner(p) = {i}
  <2>1. ASSUME NEW i \in Owner(p) PROVE Owner(p) = {i}
    BY <1>12
  <2> QED BY <2>1
<1>14. Cardinality(Owner(p)) <= 1
  <2>1. \A i : Cardinality({i}) = 1
    BY FS_Singleton, Zenon
  <2>2. Cardinality(Owner(p)) = 0 \/ Cardinality(Owner(p)) = 1
    BY <1>13, <2>1, FS_EmptySet
  <2> QED BY <2>2
<1> QED BY <1>1, <1>9, <1>10, <1>11, <1>14

(* The block table holds exactly the tokens, in distinct blocks, with less  *)
(* than a block to spare (KvDiagram).                                       *)
THEOREM TableAlwaysHolds ==
    DiagramSpec => []TableHoldsTheTokens
PROOF
<1> USE DiagramsAssumption
<1>1. DiagramInit => KvInv
  BY DEF DiagramInit, KvInv, DiagramsAssumption
<1>2. KvInv /\ [DiagramNext]_diagramVars => KvInv'
  <2> SUFFICES ASSUME KvInv, [DiagramNext]_diagramVars PROVE KvInv'
    OBVIOUS
  <2>1. CASE KvStep
    BY <2>1 DEF KvStep, Slide, PickBlockSize, KvInv
  <2>2. CASE SystemStep \/ LifecycleStep \/ UNCHANGED diagramVars
    <3>1. UNCHANGED kvVars
      BY <2>2 DEF SystemStep, StartTrace, TraceTick, PauseOrResume, NextStep, ResetButton, Reset,
                  Unhover, SelectNode, Hover, LifecycleStep, ScenarioTick, AutoPlay, IterationTick,
                  RunScenario, PickIteration, diagramVars, kvVars
    <3> QED BY <3>1 DEF KvInv, kvVars
  <2> QED BY <2>1, <2>2 DEF DiagramNext
<1>3. KvInv => TableHoldsTheTokens
  <2> SUFFICES ASSUME KvInv PROVE TableHoldsTheTokens
    OBVIOUS
  <2>1. PICK n \in Nat \ {0}, t \in Nat \ {0}, b \in Nat \ {0} : n = Blocks /\ t = tokens /\ b = bs
    BY TableSize
  <2>2. PICK m \in Nat : m = n * b
    OBVIOUS
  <2>3. m - b < t /\ t <= m /\ (ExactlyFull <=> t = m)
    BY <2>1, <2>2, TableSize
  <2>4. Tail_ = t - (m - b) /\ Wasted = m - t
    <3>1. (n - 1) * b = n * b - b
      OBVIOUS
    <3> QED BY <2>1, <2>2, <3>1 DEF Tail_, Wasted
  <2>5. Tail_ \in 1..b /\ Wasted \in 0..(b - 1) /\ (t = m <=> t + 1 > m)
    BY <2>3, <2>4
  <2>6. /\ Tail_ \in 1..bs /\ Wasted \in 0..(bs - 1)
        /\ ExactlyFull <=> tokens + 1 > Blocks * bs
    BY <2>1, <2>2, <2>3, <2>5
  <2>7. Len(Table) = Blocks /\ \A p \in 0..(POOL - 1) : Cardinality(Owner(p)) <= 1
    <3>1. POOL \in Nat /\ 0 \in 0..(POOL - 1)
      <4>1. POOL \in Nat /\ Blocks <= POOL
        BY TableSize DEF DiagramsAssumption
      <4> QED BY <2>1, <4>1
    <3> QED BY <3>1, OneOwner
  <2>8. FoldLeft(LAMBDA k, i : k + TokensHeld(i), 0, [i \in 1..Blocks |-> i]) = tokens
    BY TableHolds
  <2> QED BY <2>6, <2>7, <2>8 DEF TableHoldsTheTokens
<1> QED BY <1>1, <1>2, <1>3, PTL DEF DiagramSpec

-----------------------------------------------------------------------------
(* The theme and the drawer (Sidebar, theme-init.js).                       *)

(* What the page shows and hears is what the state asks for, up to the one  *)
(* effect that is still due.                                                *)
EffectsInv ==
    /\ due = {} \/ due = {"theme"} \/ due = {"drawer"}
    /\ theme \in {"dark", "light"} /\ drawer \in BOOLEAN
    /\ "theme" \notin due => dataset = theme /\ (~blocked => stored = theme)
    /\ "drawer" \notin due => overflow = IF drawer THEN "hidden" ELSE "auto"
    /\ listening = IF drawer <=> ("drawer" \in due) THEN 0 ELSE 1

LEMMA EffectsKept ==
    ASSUME EffectsInv, [ShellNext]_shellVars
    PROVE  EffectsInv' /\ EffectsFollow
PROOF
<1>1. CASE SwitchTheme
  BY <1>1 DEF SwitchTheme, Rendered, EffectsInv, EffectsFollow, drawerVars, Reload
<1>2. CASE ThemeEffect
  BY <1>2 DEF ThemeEffect, EffectsInv, EffectsFollow, drawerVars, Reload
<1>3. CASE OpenDrawer
  BY <1>3 DEF OpenDrawer, Rendered, EffectsInv, EffectsFollow, themeVars, Reload
<1>4. CASE CloseDrawer \/ Escape
  BY <1>4 DEF CloseDrawer, Escape, Rendered, EffectsInv, EffectsFollow, themeVars, Reload
<1>5. CASE DrawerEffect
  BY <1>5 DEF DrawerEffect, EffectsInv, EffectsFollow, themeVars, Reload
<1>6. CASE Reload
  <2>1. Loaded \in {"dark", "light"} /\ (due = {} /\ ~blocked => Loaded = theme)
    BY DEF Loaded, EffectsInv
  <2>2. /\ theme' = Loaded /\ dataset' = Loaded /\ drawer' = FALSE /\ overflow' = "auto"
        /\ listening' = 0 /\ due' = {"theme"}
    BY <1>6 DEF Reload, Fresh
  <2>3. "theme" \in due' /\ "drawer" \notin due' /\ due' # {}
    BY <2>2
  <2>4. EffectsInv'
    BY <2>1, <2>2, <2>3 DEF EffectsInv
  <2>5. EffectsFollow
    BY <2>1, <2>2, <2>3 DEF EffectsFollow
  <2> QED BY <2>4, <2>5
<1>7. CASE SpyStep \/ UNCHANGED shellVars
  <2>1. UNCHANGED <<themeVars, drawerVars, due>>
    BY <1>7 DEF SpyStep, Frame, Notify, ScrollTo, shellVars
  <2> QED BY <2>1 DEF EffectsInv, EffectsFollow, themeVars, drawerVars, Reload, Fresh
<1> QED BY <1>1, <1>2, <1>3, <1>4, <1>5, <1>6, <1>7 DEF ShellNext, SidebarStep

(* Once the effects have run the page shows what is chosen, listens once    *)
(* and only for an open drawer, and a reload keeps the theme (Sidebar).     *)
THEOREM EffectsAlwaysCatchUp ==
    ShellSpec => EffectsCatchUp
PROOF
<1>1. ShellInit => EffectsInv
  BY DEF ShellInit, Loaded, EffectsInv
<1>2. EffectsInv /\ [ShellNext]_shellVars => EffectsInv'
  BY EffectsKept
<1>3. ShellSpec => []EffectsInv
  BY <1>1, <1>2, PTL DEF ShellSpec
<1>4. EffectsInv /\ [ShellNext]_shellVars =>
         [EffectsFollow]_<<themeVars, drawerVars, due>>
  BY EffectsKept
<1> QED BY <1>3, <1>4, PTL DEF ShellSpec, EffectsCatchUp

-----------------------------------------------------------------------------
(* The section being read (useScrollSpy) and the bar (useScrollProgress).   *)

(* Whether s is on the band according to the first k of the entries e that  *)
(* are on their way, and otherwise to v, what the callback knows.           *)
Tells(e, k, s) == \E j \in 1..k : e[j][1] = s /\ e[j][2] /\ \A i \in (j + 1)..k : e[i][1] # s
Silent(e, k, s) == \A j \in 1..k : e[j][1] # s
OnBand(v, e, k, s) == Tells(e, k, s) \/ (Silent(e, k, s) /\ s \in v)

Places == DOMAIN Section
Notices == Places \X BOOLEAN

LEMMA OneNotice ==
    ASSUME NEW e, NEW v, NEW k \in Nat, NEW s
    PROVE  /\ e[k + 1][1] = s => (OnBand(v, e, k + 1, s) <=> e[k + 1][2])
           /\ e[k + 1][1] # s => (OnBand(v, e, k + 1, s) <=> OnBand(v, e, k, s))
PROOF
<1>1. /\ 1..(k + 1) = (1..k) \cup {k + 1} /\ k + 1 \in 1..(k + 1)
      /\ \A j \in 1..k : k + 1 \in (j + 1)..(k + 1)
      /\ \A j \in 1..k : (j + 1)..(k + 1) = ((j + 1)..k) \cup {k + 1}
  OBVIOUS
<1>2. ((k + 1) + 1)..(k + 1) = {}
  OBVIOUS
<1>3. ASSUME e[k + 1][1] = s PROVE OnBand(v, e, k + 1, s) <=> e[k + 1][2]
  <2>1. ~Silent(e, k + 1, s)
    BY <1>1, <1>3 DEF Silent
  <2>2. Tells(e, k + 1, s) => e[k + 1][2]
    BY <1>1, <1>3 DEF Tells
  <2>3. e[k + 1][2] => Tells(e, k + 1, s)
    BY <1>1, <1>2, <1>3 DEF Tells
  <2> QED BY <2>1, <2>2, <2>3 DEF OnBand
<1>4. ASSUME e[k + 1][1] # s PROVE OnBand(v, e, k + 1, s) <=> OnBand(v, e, k, s)
  <2>1. Silent(e, k + 1, s) <=> Silent(e, k, s)
    BY <1>1, <1>4 DEF Silent
  <2>2. Tells(e, k + 1, s) <=> Tells(e, k, s)
    BY <1>1, <1>4 DEF Tells
  <2> QED BY <2>1, <2>2 DEF OnBand
<1> QED BY <1>3, <1>4

(* The callback's fold of its entries: the last entry of a section counts.  *)
LEMMA SeenAll ==
    ASSUME NEW e \in Seq(Notices), NEW v \in SUBSET Places
    PROVE  /\ FoldLeft(Seen, v, e) \in SUBSET Places
           /\ \A s \in Places : s \in FoldLeft(Seen, v, e) <=> OnBand(v, e, Len(e), s)
PROOF
<1> DEFINE St == SUBSET Places
<1>1. PICK n \in Nat : n = Len(e) /\ DOMAIN e = 1..n
  OBVIOUS
<1>2. \A i \in 1..n : e[i] \in Notices
  BY <1>1
<1>3. \A i \in 1..n, w \in St : Seen(w, e[i]) \in St
  BY <1>2 DEF Seen, Notices
<1> HIDE DEF St
<1> DEFINE g == [p \in (1..n) \X St |-> Seen(p[2], e[p[1]])]
<1>4. g \in [(1..n) \X St -> St]
  BY <1>3
<1>5. \A i \in 1..n, w \in St : g[<<i, w>>] = Seen(w, e[i])
  OBVIOUS
<1> HIDE DEF g
<1>6. PICK fold : IsFold(n, St, v, g, fold)
  <2>1. v \in St
    BY DEF St
  <2> QED BY <1>4, <2>1, FoldExists
<1>7. fold = [s \in SUBSET (1..n) |->
                 IF s = {} THEN v ELSE Seen(fold[s \ {Max(s)}], e[Max(s)])]
  <2>1. ASSUME NEW s \in SUBSET (1..n), s # {}
        PROVE  fold[s] = Seen(fold[s \ {Max(s)}], e[Max(s)])
    <3>1. Max(s) \in 1..n
      BY <2>1, MaxIn
    <3>2. fold[s \ {Max(s)}] \in St
      BY <1>6 DEF IsFold
    <3>3. fold[s] = g[<<Max(s), fold[s \ {Max(s)}]>>]
      BY <1>6, <2>1 DEF IsFold
    <3> QED BY <1>5, <3>1, <3>2, <3>3
  <2>2. fold[{}] = v
    BY <1>6 DEF IsFold
  <2>3. fold = [s \in SUBSET (1..n) |-> fold[s]]
    BY <1>6 DEF IsFold
  <2> QED BY <2>1, <2>2, <2>3
<1> DEFINE iter == CHOOSE f : f = [s \in SUBSET (1..n) |->
               IF s = {} THEN v ELSE Seen(f[s \ {Max(s)}], e[Max(s)])]
<1>8. iter = [s \in SUBSET (1..n) |->
                 IF s = {} THEN v ELSE Seen(iter[s \ {Max(s)}], e[Max(s)])]
  BY <1>7
<1>9. FoldLeft(Seen, v, e) = iter[1..n]
  BY <1>1 DEF FoldLeft, MapThenFoldSet
<1> HIDE DEF iter
<1> DEFINE d == [k \in 0..n |-> iter[1..k]]
<1>10. d[0] = v
  <2>1. 1..0 = {} /\ 0 \in 0..n
    OBVIOUS
  <2>2. iter[{}] = v
    BY <1>8
  <2> QED BY <2>1, <2>2
<1>11. ASSUME NEW k \in 1..n PROVE d[k] = Seen(d[k - 1], e[k])
  <2>1. Max(1..k) = k /\ (1..k) \ {k} = 1..(k - 1) /\ k - 1 \in 0..n /\ k \in 0..n
        /\ 1..k # {} /\ 1..k \in SUBSET (1..n)
    BY WithoutTop
  <2>2. iter[1..k] = Seen(iter[(1..k) \ {k}], e[k])
    BY <1>8, <2>1
  <2> QED BY <2>1, <2>2
<1>12. d[n] = iter[1..n]
  OBVIOUS
<1> HIDE DEF d
<1> DEFINE Right(k) == d[k] \in St /\ \A s \in Places : s \in d[k] <=> OnBand(v, e, k, s)
           S == {k \in 0..n : Right(k)}
<1>13. Right(0)
  <2>1. 1..0 = {}
    OBVIOUS
  <2>2. \A s \in Places : Silent(e, 0, s) /\ ~Tells(e, 0, s)
    BY <2>1 DEF Silent, Tells
  <2> QED BY <1>10, <2>2 DEF OnBand, St
<1>14. ASSUME NEW k \in 0..(n - 1), Right(k) PROVE Right(k + 1)
  <2>1. k + 1 \in 1..n /\ (k + 1) - 1 = k /\ k \in Nat
    OBVIOUS
  <2>2. d[k + 1] = Seen(d[k], e[k + 1])
    BY <1>11, <2>1
  <2>3. d[k + 1] \in St
    BY <1>3, <1>14, <2>1, <2>2
  <2>4. e[k + 1] \in Notices
    BY <1>2, <2>1
  <2>5. ASSUME NEW s \in Places PROVE s \in d[k + 1] <=> OnBand(v, e, k + 1, s)
    <3>1. CASE e[k + 1][1] = s
      <4>1. s \in d[k + 1] <=> e[k + 1][2]
        BY <2>2, <2>4, <3>1 DEF Seen, Notices
      <4>2. OnBand(v, e, k + 1, s) <=> e[k + 1][2]
        BY <2>1, <3>1, OneNotice
      <4> QED BY <4>1, <4>2
    <3>2. CASE e[k + 1][1] # s
      <4>1. s \in d[k + 1] <=> s \in d[k]
        BY <2>2, <3>2 DEF Seen
      <4>2. OnBand(v, e, k + 1, s) <=> OnBand(v, e, k, s)
        BY <2>1, <3>2, OneNotice
      <4> QED BY <1>14, <4>1, <4>2
    <3> QED BY <3>1, <3>2
  <2> QED BY <2>3, <2>5
<1> HIDE DEF Right
<1>15. 0 \in S /\ \A k \in 0..(n - 1) : k \in S => k + 1 \in S
  <2>1. 0 \in 0..n /\ \A k \in 0..(n - 1) : k + 1 \in 0..n
    OBVIOUS
  <2> QED BY <1>13, <1>14, <2>1
<1> HIDE DEF S
<1>16. n \in S
  <2>1. \A k \in 0..n : k \in S
    BY <1>15, UpTo
  <2> QED BY <2>1
<1> QED BY <1>1, <1>9, <1>12, <1>16 DEF S, Right, St

LEMMA Thresholds ==
    ASSUME ShellAssumption, NEW s \in Places, NEW top \in Nat
    PROVE  /\ ThresholdIndex(s, top) \in Nat /\ OnScreen(s, top) \in BOOLEAN
           /\ ThresholdIndex(s, top) >= 2 => OnScreen(s, top)
           /\ ThresholdIndex(s, top) >= 1 => Touches(s, top)
           /\ ThresholdIndex(s, top) <= 0 => ~OnScreen(s, top)
PROOF
<1>1. Section[s] \in Nat \X Nat /\ Section[s][1] < Section[s][2] /\ BandTop \in Nat /\ BandLen \in Nat
  BY DEF ShellAssumption, Places
<1>2. Overlap(s, top) \in Int /\ Height(s) \in Nat \ {0}
  BY <1>1, SMTT(30) DEF Overlap, Height
<1> DEFINE reached == {t \in {1, 25, 100} : 100 * Overlap(s, top) >= t * Height(s)}
<1>3. IsFiniteSet(reached) /\ Cardinality(reached) \in Nat /\ (reached = {} => Cardinality(reached) = 0)
  <2>1. IsFiniteSet({1, 25, 100})
    <3>1. IsFiniteSet(1..100)
      <4>1. 1 \in Int /\ 100 \in Int
        OBVIOUS
      <4> QED BY <4>1, FS_Interval
    <3>2. {1, 25, 100} \in SUBSET (1..100)
      OBVIOUS
    <3> QED BY <3>1, <3>2, FS_Subset
  <2>2. reached \in SUBSET {1, 25, 100}
    OBVIOUS
  <2> HIDE DEF reached
  <2>3. IsFiniteSet(reached)
    BY <2>1, <2>2, FS_Subset
  <2> QED BY <2>3, FS_CardinalityType, FS_EmptySet
<1>4. ThresholdIndex(s, top) = IF ~Touches(s, top) THEN 0 ELSE 1 + Cardinality(reached)
  BY DEF ThresholdIndex
<1>5. reached # {} => Overlap(s, top) > 0
  <2>1. ASSUME NEW t \in {1, 25, 100}, 100 * Overlap(s, top) >= t * Height(s)
        PROVE  Overlap(s, top) > 0
    <3>1. PICK o \in Int, h \in Nat \ {0} : o = Overlap(s, top) /\ h = Height(s)
      BY <1>2
    <3>2. t = 1 \/ t = 25 \/ t = 100
      OBVIOUS
    <3>3. 100 * o >= t * h => o > 0
      BY <3>1, <3>2, SMTT(30)
    <3> QED BY <2>1, <3>1, <3>3
  <2> QED BY <2>1
<1> HIDE DEF reached
<1> QED BY <1>2, <1>3, <1>4, <1>5 DEF OnScreen, Touches

LEMMA FractionFacts ==
    ASSUME ShellAssumption, NEW top \in Nat
    PROVE  Fraction(top) \in 0..100
PROOF
<1>1. ScrollRange \in Nat
  BY DEF ShellAssumption
<1>2. ASSUME NEW r \in Nat \ {0}, NEW t \in 0..r PROVE (100 * t) \div r \in 0..100
  <2>3. PICK a \in Nat : a = 100 * t
    OBVIOUS
  <2>4. \E q \in Nat, rest \in 0..(r - 1) : a = q * r + rest /\ q = a \div r /\ q * r \in Nat
    BY DivFacts
  <2>1. PICK q \in Nat, rest \in 0..(r - 1) : 100 * t = q * r + rest /\ q = (100 * t) \div r /\ q * r \in Nat
    BY <2>3, <2>4
  <2>2. ASSUME 101 <= q PROVE FALSE
    <3>1. \A u, v, w \in Nat : u <= v => u * w <= v * w
      OBVIOUS
    <3>2. 101 * r <= q * r
      BY <2>1, <2>2, <3>1
    <3> QED BY <2>1, <3>2
  <2> QED BY <2>1, <2>2
<1>3. CASE ScrollRange = 0 \/ top > ScrollRange
  BY <1>3 DEF Fraction
<1>4. CASE ScrollRange # 0 /\ ~(top > ScrollRange)
  <2>1. ScrollRange \in Nat \ {0} /\ top \in 0..ScrollRange
    BY <1>1, <1>4
  <2>2. Fraction(top) = (100 * top) \div ScrollRange
    BY <1>4 DEF Fraction
  <2> QED BY <1>2, <2>1, <2>2
<1> QED BY <1>3, <1>4

(* What is highlighted is the first section the callback knows of; what it  *)
(* will know, the entries on their way included, is right for every section *)
(* but those that only touch the band.                                      *)
SpyInv ==
    /\ y \in Nat /\ progress \in 0..100 /\ raf \in BOOLEAN /\ (~raf => progress = Fraction(y))
    /\ index \in [Places -> Int] /\ entries \in Seq(Notices) /\ visible \in SUBSET Places
    /\ visible = {} \/ (spy \in visible /\ \A s \in visible : spy <= s)
    /\ \A s \in Places : /\ index[s] >= 2 => OnBand(visible, entries, Len(entries), s)
                         /\ index[s] <= 0 => ~OnBand(visible, entries, Len(entries), s)

(* A frame adds one entry for each section it has news of.                  *)
LEMMA FrameKept ==
    ASSUME ShellAssumption, SpyInv, Frame
    PROVE  SpyInv'
PROOF
<1> DEFINE changed == {s \in Places : ThresholdIndex(s, y) # index[s]}
           new == [k \in 1..Cardinality(changed) |->
                     <<Ascending(changed)[k], OnScreen(Ascending(changed)[k], y)>>]
<1>1. changed \in SUBSET Places /\ \A s \in Places : s \in changed <=> ThresholdIndex(s, y) # index[s]
  OBVIOUS
<1>2. /\ raf' = FALSE /\ progress' = (IF raf THEN Fraction(y) ELSE progress)
      /\ index' = [s \in Places |-> ThresholdIndex(s, y)] /\ entries' = entries \o new
      /\ y' = y /\ visible' = visible /\ spy' = spy
  BY DEF Frame, Places
<1> HIDE DEF changed
<1>3. Places \in SUBSET Int /\ IsFiniteSet(Places)
  <2>1. PICK n \in Nat : Places = 1..n
    BY DEF ShellAssumption, Places
  <2>2. IsFiniteSet(1..n)
    BY <2>1, FS_Interval
  <2> QED BY <2>1, <2>2
<1>4. IsFiniteSet(changed) /\ changed \in SUBSET Int
  BY <1>1, <1>3, FS_Subset
<1>5a. PICK m \in Nat : m = Cardinality(changed)
  BY <1>4, FS_CardinalityType
<1>5. PICK q : m = Cardinality(changed) /\ q = Ascending(changed)
  BY <1>5a
<1>6. /\ q \in [1..m -> changed] /\ \A s \in changed : \E k \in 1..m : q[k] = s
      /\ \A i, k \in 1..m : q[i] = q[k] => i = k
  BY <1>4, <1>5, AscendingFacts DEF Enumerates
<1>7. new = [k \in 1..m |-> <<q[k], OnScreen(q[k], y)>>]
  BY <1>5
<1> HIDE DEF new
<1>8. PICK a : a = [k \in 1..m |-> <<q[k], OnScreen(q[k], y)>>]
  OBVIOUS
<1>9. /\ a \in Seq(Notices) /\ Len(a) = m
      /\ \A k \in 1..m : a[k][1] = q[k] /\ a[k][2] = OnScreen(q[k], y)
  <2>1. \A k \in 1..m : <<q[k], OnScreen(q[k], y)>> \in Notices
    BY <1>1, <1>6, Thresholds DEF SpyInv, Notices
  <2>2. a \in [1..m -> Notices]
    BY <1>8, <2>1
  <2>3. a \in Seq(Notices) /\ Len(a) = m
    BY <1>5, <2>2, SMTT(30)
  <2>4. ASSUME NEW k \in 1..m PROVE a[k] = <<q[k], OnScreen(q[k], y)>>
    BY <1>8
  <2> QED BY <2>3, <2>4
<1>10. PICK n \in Nat : n = Len(entries) /\ entries \in Seq(Notices)
  BY DEF SpyInv
<1>11. PICK e : e = entries \o a
  OBVIOUS
<1>12. /\ entries' = e /\ e \in Seq(Notices) /\ Len(e) = n + m
       /\ \A k \in 1..n : e[k] = entries[k]
       /\ \A k \in 1..m : e[n + k] = a[k]
  BY <1>2, <1>7, <1>8, <1>9, <1>10, <1>11, SMTT(30)
<1>13. ASSUME NEW s \in Places, s \notin changed
       PROVE  OnBand(visible, e, n + m, s) <=> OnBand(visible, entries, n, s)
  <2>1. \A k \in (n + 1)..(n + m) : e[k][1] # s
    <3>1. ASSUME NEW k \in (n + 1)..(n + m) PROVE e[k][1] # s
      <4>1. PICK i \in 1..m : k = n + i
        <5>1. k - n \in 1..m /\ k = n + (k - n)
          BY <1>5, <1>10
        <5> QED BY <5>1
      <4>2. e[k] = a[i] /\ a[i][1] = q[i] /\ q[i] \in changed
        BY <1>6, <1>9, <1>12, <4>1
      <4> QED BY <1>13, <4>2
    <3> QED BY <3>1
  <2>2. /\ 1..(n + m) = (1..n) \cup ((n + 1)..(n + m))
        /\ \A j \in 1..n : (j + 1)..(n + m) = ((j + 1)..n) \cup ((n + 1)..(n + m))
    BY <1>5, <1>10, SMTT(30)
  <2>3. Silent(e, n + m, s) <=> Silent(entries, n, s)
    BY <1>12, <2>1, <2>2 DEF Silent
  <2>4. Tells(e, n + m, s) <=> Tells(entries, n, s)
    <3>1. \A j \in 1..n : (j + 1)..n \in SUBSET (1..n)
      BY <1>10
    <3>2. ASSUME Tells(entries, n, s) PROVE Tells(e, n + m, s)
      <4>1. PICK j \in 1..n : entries[j][1] = s /\ entries[j][2] /\ \A i \in (j + 1)..n : entries[i][1] # s
        BY <3>2 DEF Tells
      <4>2. \A i \in (j + 1)..n : e[i][1] # s
        BY <1>12, <3>1, <4>1
      <4>3. \A i \in (j + 1)..(n + m) : e[i][1] # s
        BY <2>1, <2>2, <4>2
      <4>4. j \in 1..(n + m) /\ e[j] = entries[j]
        BY <1>12, <2>2
      <4> QED BY <4>1, <4>3, <4>4 DEF Tells
    <3>3. ASSUME Tells(e, n + m, s) PROVE Tells(entries, n, s)
      <4>1. PICK j \in 1..(n + m) : e[j][1] = s /\ e[j][2] /\ \A i \in (j + 1)..(n + m) : e[i][1] # s
        BY <3>3 DEF Tells
      <4>2. j \in 1..n
        BY <2>1, <2>2, <4>1
      <4>3. \A i \in (j + 1)..n : entries[i][1] # s
        BY <1>12, <2>2, <3>1, <4>1, <4>2
      <4> QED BY <1>12, <4>1, <4>2, <4>3 DEF Tells
    <3> QED BY <3>2, <3>3
  <2> QED BY <2>3, <2>4 DEF OnBand
<1>14. ASSUME NEW s \in Places, s \in changed
       PROVE  OnBand(visible, e, n + m, s) <=> OnScreen(s, y)
  <2>1. PICK k \in 1..m : q[k] = s
    BY <1>6, <1>14
  <2>2. n + k \in 1..(n + m) /\ e[n + k][1] = s /\ e[n + k][2] = OnScreen(s, y)
    BY <1>5, <1>9, <1>10, <1>12, <2>1, SMTT(30)
  <2>3. \A j \in (n + k + 1)..(n + m) : e[j][1] # s
    <3>1. ASSUME NEW j \in (n + k + 1)..(n + m) PROVE e[j][1] # s
      <4>1. PICK i \in 1..m : j = n + i /\ i # k
        <5>1. j - n \in 1..m /\ j = n + (j - n) /\ j - n # k
          BY <1>5, <1>10, <2>1, SMTT(30)
        <5> QED BY <5>1
      <4>2. e[j][1] = q[i]
        BY <1>9, <1>12, <4>1
      <4> QED BY <1>6, <2>1, <4>1, <4>2
    <3> QED BY <3>1
  <2>4. ~Silent(e, n + m, s)
    BY <2>2 DEF Silent
  <2>5. OnScreen(s, y) => Tells(e, n + m, s)
    BY <2>2, <2>3 DEF Tells
  <2>6. ASSUME Tells(e, n + m, s) PROVE OnScreen(s, y)
    <3>1. PICK j \in 1..(n + m) : e[j][1] = s /\ e[j][2] /\ \A i \in (j + 1)..(n + m) : e[i][1] # s
      BY <2>6 DEF Tells
    <3>2. j = n + k
      <4>1. j < n + k => n + k \in (j + 1)..(n + m)
        BY <1>5, <1>10, <2>1, <3>1, SMTT(30)
      <4>2. j > n + k => j \in (n + k + 1)..(n + m)
        BY <1>5, <1>10, <2>1, <3>1
      <4>3. ~(j < n + k) /\ ~(j > n + k)
        BY <2>2, <2>3, <3>1, <4>1, <4>2
      <4>4. j \in Int /\ n + k \in Int
        BY <1>10, <2>1, <3>1
      <4>5. \A u, v \in Int : ~(u < v) /\ ~(u > v) => u = v
        OBVIOUS
      <4> QED BY <4>3, <4>4, <4>5
    <3> QED BY <2>2, <3>1, <3>2
  <2> QED BY <2>4, <2>5, <2>6 DEF OnBand
<1>15. ASSUME NEW s \in Places
       PROVE  /\ ThresholdIndex(s, y) >= 2 => OnBand(visible, e, n + m, s)
              /\ ThresholdIndex(s, y) <= 0 => ~OnBand(visible, e, n + m, s)
  <2>1. CASE s \in changed
    BY <1>14, <2>1, Thresholds DEF SpyInv
  <2>2. CASE s \notin changed
    <3>1. ThresholdIndex(s, y) = index[s]
      BY <1>1, <2>2
    <3> QED BY <1>10, <1>13, <2>2, <3>1 DEF SpyInv
  <2> QED BY <2>1, <2>2
<1>16. index' \in [Places -> Int] /\ \A s \in Places : index'[s] = ThresholdIndex(s, y)
  BY <1>2, Thresholds DEF SpyInv
<1>17. progress' \in 0..100 /\ progress' = Fraction(y)
  BY <1>2, FractionFacts DEF SpyInv
<1>18. Fraction(y)' = Fraction(y) /\ Places' = Places
  BY <1>2 DEF Fraction, Places
<1>19. Len(entries') = n + m
  BY <1>12
<1>20. \A s \in Places : OnBand(visible, entries, Len(entries), s)' <=> OnBand(visible, e, n + m, s)
  BY <1>2, <1>12, <1>19 DEF OnBand, Tells, Silent
<1> QED BY <1>2, <1>12, <1>15, <1>16, <1>17, <1>18, <1>20 DEF SpyInv, Notices

LEMMA SpyInit ==
    ASSUME ShellAssumption, y = 0, visible = {}, raf = TRUE, progress = 0, entries = <<>>,
           index = [s \in Places |-> -1]
    PROVE  SpyInv
PROOF
<1>1. entries \in Seq(Notices) /\ Len(entries) = 0 /\ 1..0 = {}
  OBVIOUS
<1>2. \A s \in Places : ~OnBand(visible, entries, Len(entries), s) /\ index[s] = -1
  BY <1>1 DEF OnBand, Tells, Silent
<1>3. index \in [Places -> Int]
  OBVIOUS
<1>4. 0 \in Nat /\ 0 \in 0..100 /\ TRUE \in BOOLEAN
  OBVIOUS
<1> QED BY <1>1, <1>2, <1>3, <1>4 DEF SpyInv

(* The callback catches up with the entries.                                *)
LEMMA NotifyKept ==
    ASSUME ShellAssumption, SpyInv, Notify
    PROVE  SpyInv'
PROOF
<1>1. PICK v : v = FoldLeft(Seen, visible, entries)
  OBVIOUS
<1>2. v \in SUBSET Places /\ \A s \in Places : s \in v <=> OnBand(visible, entries, Len(entries), s)
  BY <1>1, SeenAll DEF SpyInv
<1>3. /\ visible' = v /\ entries' = <<>> /\ y' = y /\ index' = index /\ raf' = raf /\ progress' = progress
      /\ spy' = (IF v = {} THEN spy ELSE CHOOSE s \in v : \A t \in v : s <= t)
  BY <1>1 DEF Notify
<1>4. entries' \in Seq(Notices) /\ Len(entries') = 0 /\ 1..0 = {}
  BY <1>3
<1>5. \A s \in Places : OnBand(visible, entries, Len(entries), s)' <=> s \in v
  BY <1>3, <1>4 DEF OnBand, Tells, Silent
<1>6. v = {} \/ (spy' \in v /\ \A s \in v : spy' <= s)
  <2>1. SUFFICES ASSUME v # {} PROVE spy' \in v /\ \A s \in v : spy' <= s
    OBVIOUS
  <2>2. PICK n \in Nat : Places = 1..n
    BY DEF ShellAssumption, Places
  <2>3. v \in SUBSET Nat
    BY <1>2, <2>2
  <2>4. \E s \in v : \A t \in v : s <= t
    BY <2>1, <2>3, LeastIn
  <2>5. spy' = CHOOSE s \in v : \A t \in v : s <= t
    BY <1>3, <2>1
  <2> QED BY <2>4, <2>5
<1>7. Fraction(y)' = Fraction(y) /\ Places' = Places /\ Notices' = Notices
  BY <1>3 DEF Fraction, Places, Notices
<1> QED BY <1>2, <1>3, <1>4, <1>5, <1>6, <1>7 DEF SpyInv

LEMMA SpyKept ==
    ASSUME ShellAssumption, SpyInv, [ShellNext]_shellVars
    PROVE  SpyInv'
PROOF
<1>1. Places' = Places /\ Notices' = Notices
  BY DEF Places, Notices
<1>2. ASSUME UNCHANGED spyVars PROVE SpyInv'
  BY <1>1, <1>2 DEF SpyInv, spyVars, OnBand, Tells, Silent, Fraction
<1>3. ASSUME NEW top \in Positions, ScrollTo(top) PROVE SpyInv'
  <2>1. top \in Nat
    BY DEF ShellAssumption
  <2>2. /\ y' = top /\ raf' = TRUE /\ index' = index /\ entries' = entries /\ visible' = visible
        /\ spy' = spy /\ progress' = progress
    BY <1>3 DEF ScrollTo
  <2> QED BY <1>1, <2>1, <2>2 DEF SpyInv, OnBand, Tells, Silent
<1>4. CASE Reload
  <2>1. /\ y' = 0 /\ visible' = {} /\ raf' = TRUE /\ progress' = 0
        /\ index' = [s \in Places |-> -1] /\ entries' = <<>>
    BY <1>4 DEF Reload, Fresh, Places
  <2>2. entries' \in Seq(Notices) /\ Len(entries') = 0 /\ 1..0 = {}
    BY <2>1
  <2>3. \A s \in Places : ~OnBand(visible, entries, Len(entries), s)' /\ index'[s] = -1
    BY <2>1, <2>2 DEF OnBand, Tells, Silent
  <2>4. index' \in [Places -> Int]
    BY <2>1
  <2>5. 0 \in Nat /\ 0 \in 0..100 /\ TRUE \in BOOLEAN
    OBVIOUS
  <2> QED BY <1>1, <2>1, <2>2, <2>3, <2>4, <2>5 DEF SpyInv
<1>5. CASE SidebarStep
  <2>1. CASE SwitchTheme \/ ThemeEffect \/ OpenDrawer \/ CloseDrawer \/ Escape \/ DrawerEffect
    <3>1. UNCHANGED spyVars
      BY <2>1 DEF SwitchTheme, ThemeEffect, OpenDrawer, CloseDrawer, Escape, DrawerEffect
    <3> QED BY <1>2, <3>1
  <2> QED BY <1>4, <1>5, <2>1 DEF SidebarStep
<1>6. CASE SpyStep
  BY <1>3, <1>6, FrameKept, NotifyKept DEF SpyStep
<1>7. CASE UNCHANGED shellVars
  BY <1>2, <1>7 DEF shellVars
<1> QED BY <1>5, <1>6, <1>7 DEF ShellNext

(* When the callback has caught up, the section highlighted is on the band  *)
(* and none that is firmly on it comes before it; the bar is where the page *)
(* is whenever no frame is due (useScrollSpy, useScrollProgress).           *)
THEOREM HighlightAlwaysFollows ==
    ShellSpec => []HighlightFollowsReading
PROOF
<1> USE ShellAssumption
<1>1. ShellInit => SpyInv
  <2> SUFFICES ASSUME ShellInit PROVE SpyInv
    OBVIOUS
  <2> QED BY SpyInit DEF ShellInit, Places
<1>2. SpyInv /\ [ShellNext]_shellVars => SpyInv'
  BY SpyKept
<1>3. SpyInv => HighlightFollowsReading
  <2> DEFINE firm == {s \in Places : ThresholdIndex(s, y) >= 2}
  <2> SUFFICES ASSUME SpyInv, entries = <<>>, \A s \in Places : ThresholdIndex(s, y) = index[s],
                      firm # {}
               PROVE  Touches(spy, y) /\ \A s \in firm : spy <= s
    BY DEF SpyInv, HighlightFollowsReading, Places
  <2>1. Len(entries) = 0 /\ 1..0 = {}
    OBVIOUS
  <2>2. \A s \in Places : OnBand(visible, entries, Len(entries), s) <=> s \in visible
    BY <2>1 DEF OnBand, Tells, Silent
  <2>3. \A s \in firm : s \in visible
    BY <2>2 DEF SpyInv
  <2>4. spy \in visible /\ spy \in Places /\ \A s \in visible : spy <= s
    BY <2>3 DEF SpyInv
  <2>5. ~(index[spy] <= 0) /\ index[spy] = ThresholdIndex(spy, y)
    BY <2>2, <2>4 DEF SpyInv
  <2>6. Touches(spy, y)
    BY <2>4, <2>5, Thresholds DEF SpyInv
  <2> QED BY <2>3, <2>4, <2>6
<1> QED BY <1>1, <1>2, <1>3, PTL DEF ShellSpec

-----------------------------------------------------------------------------
(* The charts (LineChart, StallChart, Ablation).                            *)

LEMMA GreatestIn ==
    ASSUME NEW S \in SUBSET Int, IsFiniteSet(S), S # {}
    PROVE  Greatest(S) \in S /\ \A x \in S : x <= Greatest(S)
PROOF
<1>1. Cardinality(S) \in Nat /\ Cardinality(S) # 0
  BY FS_CardinalityType, FS_EmptySet
<1>2. PICK n \in Nat : n = Cardinality(S) - 1
  BY <1>1
<1>3. PICK m \in S : Rank(S, m) = n
  <2>1. n \in 0..(Cardinality(S) - 1)
    BY <1>2
  <2> QED BY <2>1, RankFacts
<1>4. ASSUME NEW x \in S PROVE x <= m
  <2>1. m < x => Rank(S, m) < Rank(S, x)
    BY RankFacts
  <2>2. Rank(S, x) \in 0..n
    BY <1>2, RankFacts
  <2> QED BY <1>2, <1>3, <2>1, <2>2
<1> QED BY <1>4 DEF Greatest

LEMMA LeastOf ==
    ASSUME NEW S \in SUBSET Nat, S # {}
    PROVE  Least(S) \in S /\ \A x \in S : Least(S) <= x
PROOF
<1>1. \E m \in S : \A x \in S : m <= x
  BY LeastIn
<1> QED BY <1>1 DEF Least

LEMMA TimesMono ==
    ASSUME NEW a \in Nat, NEW b \in Nat, NEW c \in Nat, a <= b
    PROVE  a * c \in Nat /\ b * c \in Nat /\ a * c <= b * c
PROOF
<1>1. PICK d \in Nat : b = a + d
  <2>1. b - a \in Nat /\ b = a + (b - a)
    OBVIOUS
  <2> QED BY <2>1
<1>2. a * c \in Nat /\ d * c \in Nat /\ (a + d) * c = a * c + d * c
  OBVIOUS
<1> QED BY <1>1, <1>2

(* niceTicks: the magnitude and the step.                                   *)
Reach == 100000
LEMMA StepCovers ==
    ASSUME NEW max \in Nat, NEW count \in {4, 5}, count <= max, max <= Reach * count
    PROVE  LET mag == Greatest({p \in MAGNITUDES : p * count <= max})
               tick == Least({s \in {mag, 2 * mag, (5 * mag) \div 2, 5 * mag, 10 * mag} : s * count >= max})
           IN  tick \in Nat \ {0} /\ tick * count >= max
PROOF
<1> DEFINE P == {p \in MAGNITUDES : p * count <= max}
           mag == Greatest(P)
           C == {mag, 2 * mag, (5 * mag) \div 2, 5 * mag, 10 * mag}
           S == {s \in C : s * count >= max}
<1>1. P \in SUBSET Int /\ IsFiniteSet(P) /\ P # {}
  <2>1. PICK n \in Nat : n = 10000
    OBVIOUS
  <2>2. MAGNITUDES \in SUBSET (1..n)
    BY <2>1, SMT DEF MAGNITUDES
  <2>3. IsFiniteSet(1..n)
    BY FS_Interval
  <2>4. 1 \in P
    BY SMT DEF MAGNITUDES
  <2>5. P \in SUBSET (1..n)
    BY <2>2
  <2> QED BY <2>3, <2>4, <2>5, FS_Subset
<1>2. mag \in MAGNITUDES /\ mag * count <= max /\ \A p \in MAGNITUDES : p * count <= max => p <= mag
  <2> HIDE DEF mag
  <2>1. mag \in P /\ \A p \in P : p <= mag
    BY <1>1, GreatestIn DEF mag
  <2> QED BY <2>1
<1> HIDE DEF mag, P
<1>3. (10 * mag) * count >= max
  <2>1. CASE count = 4
    BY <1>2, <2>1, SMT DEF MAGNITUDES, Reach
  <2>2. CASE count = 5
    BY <1>2, <2>2, SMT DEF MAGNITUDES, Reach
  <2> QED BY <2>1, <2>2
<1>4. C \in SUBSET (Nat \ {0})
  BY <1>2, SMT DEF MAGNITUDES
<1> HIDE DEF C
<1>5. S \in SUBSET Nat /\ S # {}
  BY <1>3, <1>4 DEF C
<1>6. Least(S) \in S
  BY <1>5, LeastOf
<1> QED BY <1>4, <1>6 DEF C, mag, P

LEMMA NiceTicksCover ==
    ASSUME NEW max \in Nat, NEW count \in {4, 5}, count <= max, max <= Reach * count
    PROVE  /\ CoversTo(NiceTicks(max, count), max, count)
           /\ NiceTicks(max, count) \in Seq(Nat)
           /\ \E i \in DOMAIN NiceTicks(max, count) : NiceTicks(max, count)[i] >= max
PROOF
<1> DEFINE mag == Greatest({p \in MAGNITUDES : p * count <= max})
           tick == Least({s \in {mag, 2 * mag, (5 * mag) \div 2, 5 * mag, 10 * mag} : s * count >= max})
<1>1. PICK s \in Nat \ {0} : s = tick /\ s * count >= max
  BY StepCovers
<1>2. PICK n : n = (max + tick - 1) \div tick
  OBVIOUS
<1>3. NiceTicks(max, count) = [i \in 1..(1 + n) |-> (i - 1) * s]
  BY <1>1, <1>2 DEF NiceTicks
<1> HIDE DEF tick, mag
<1>4. PICK r \in 0..(s - 1) : n \in Nat /\ n * s \in Nat /\ max + s - 1 = n * s + r
  <2>1. max + s - 1 \in Nat
    OBVIOUS
  <2> QED BY <1>1, <1>2, <2>1, DivFacts, ZenonT(30)
<1>5. n >= 1
  BY <1>4
<1>6. n <= count
  <2>1. n * s < s * count + s
    BY <1>1, <1>4
  <2>2. (count + 1) * s = s * count + s /\ count + 1 \in Nat
    OBVIOUS
  <2>3. count + 1 <= n => (count + 1) * s <= n * s
    BY <1>4, <2>2, TimesMono
  <2> QED BY <1>4, <2>1, <2>2, <2>3
<1>7. (n - 1) * s = n * s - s
  BY <1>4
<1> DEFINE t == [i \in 1..(1 + n) |-> (i - 1) * s]
<1>8. t \in Seq(Nat) /\ Len(t) = 1 + n /\ DOMAIN t = 1..(1 + n)
  <2>1. \A i \in 1..(1 + n) : (i - 1) * s \in Nat
    <3>1. \A i \in 1..(1 + n) : i - 1 \in Nat
      BY <1>4
    <3> QED BY <3>1, TimesMono
  <2>2. 1 + n \in Nat
    BY <1>4
  <2> QED BY <2>1, <2>2
<1>9. t[1] = 0 /\ t[1 + n] = n * s /\ t[n] = n * s - s
  <2>1. t[1] = (1 - 1) * s /\ t[1 + n] = (1 + n - 1) * s /\ t[n] = (n - 1) * s
    BY <1>4, <1>5
  <2>2. (1 - 1) * s = 0 /\ 1 + n - 1 = n
    BY <1>4
  <2> QED BY <1>7, <2>1, <2>2
<1> HIDE DEF t
<1>10. Last(t) = n * s /\ Len(t) - 1 = n
  BY <1>4, <1>8, <1>9 DEF Last
<1>11. n * s >= max /\ n * s - s < max
  BY <1>4
<1>12. CoversTo(t, max, count)
  <2>1. Len(t) \in 2..(count + 1)
    BY <1>4, <1>5, <1>6, <1>8
  <2> QED BY <1>9, <1>10, <1>11, <2>1 DEF CoversTo
<1>13. \E i \in DOMAIN t : t[i] >= max
  <2>1. 1 + n \in 1..(1 + n)
    BY <1>4
  <2> QED BY <1>8, <1>9, <1>11, <2>1
<1> QED BY <1>3, <1>8, <1>12, <1>13 DEF t

(* loadSeries: the points of a system are its figures that are not null, in *)
(* the order of the rates.                                                  *)
Measured(m, s) == {i \in DOMAIN Rates : load[m][s][i] # Null}
Figures == [y : Nat, max : 0..MaxFigure]
Marked == [x : Nat, y : Nat, max : 0..MaxFigure]

LEMMA DataFacts ==
    ASSUME load \in Loads
    PROVE  /\ load \in [Metrics -> [Systems -> [DOMAIN Rates -> Figures]]]
           /\ \A m \in Metrics, s \in Systems, i \in DOMAIN Rates :
                 /\ load[m][s][i] \in Figures
                 /\ load[m][s][i] # Null => 0 < load[m][s][i].y /\ load[m][s][i].y <= load[m][s][i].max
           /\ \A m \in Metrics : \E s \in Systems : Measured(m, s) # {}
           /\ \A m \in Metrics, s \in Systems : Measured(m, s) \in SUBSET (1..Len(Rates))
           /\ Rates \in Seq(Nat) /\ DOMAIN Rates = 1..Len(Rates) /\ Len(Rates) \in Nat /\ Len(Rates) > 1
           /\ \A i, j \in DOMAIN Rates : i < j => Rates[i] < Rates[j]
PROOF
<1>1. load \in [Metrics -> [Systems -> [DOMAIN Rates -> Figures]]]
  BY ChartsAssumption, Zenon DEF ChartsAssumption, Figures
<1>2. ASSUME NEW m \in Metrics, NEW s \in Systems, NEW i \in DOMAIN Rates
      PROVE  /\ load[m][s][i] \in Figures
             /\ load[m][s][i] # Null => 0 < load[m][s][i].y /\ load[m][s][i].y <= load[m][s][i].max
  <2>1. load[m][s][i] \in Figures
    BY <1>1
  <2>2. load[m][s][i] # Null => 0 < load[m][s][i].y /\ load[m][s][i].y <= load[m][s][i].max
    BY ChartsAssumption, Zenon DEF ChartsAssumption
  <2> QED BY <2>1, <2>2
<1>3. ASSUME NEW m \in Metrics PROVE \E s \in Systems : Measured(m, s) # {}
  <2>1. PICK s \in Systems : \E i \in DOMAIN Rates : load[m][s][i] # Null
    BY ChartsAssumption, Zenon DEF ChartsAssumption
  <2> QED BY <2>1 DEF Measured
<1>4. Rates \in Seq(Nat) /\ Len(Rates) > 1 /\ \A i, j \in DOMAIN Rates : i < j => Rates[i] < Rates[j]
  BY ChartsAssumption, Zenon DEF ChartsAssumption
<1>5. DOMAIN Rates = 1..Len(Rates) /\ Len(Rates) \in Nat
  BY <1>4
<1>6. \A m \in Metrics, s \in Systems : Measured(m, s) \in SUBSET (1..Len(Rates))
  BY <1>5, Zenon DEF Measured
<1> QED BY <1>1, <1>2, <1>3, <1>4, <1>5, <1>6

LEMMA PointsFacts ==
    ASSUME load \in Loads, NEW m \in Metrics, NEW s \in Systems
    PROVE  \E n, at :
              /\ n \in Nat /\ n = Cardinality(Measured(m, s)) /\ at = Ascending(Measured(m, s))
              /\ at \in [1..n -> Measured(m, s)]
              /\ \A i \in Measured(m, s) : \E k \in 1..n : at[k] = i
              /\ DOMAIN Points(m, s) = 1..n
              /\ Points(m, s) \in Seq(Marked)
              /\ \A k \in 1..n : /\ Points(m, s)[k].x = Rates[at[k]]
                                 /\ Points(m, s)[k].y = load[m][s][at[k]].y
                                 /\ Points(m, s)[k].max = load[m][s][at[k]].max
PROOF
<1> DEFINE E == Measured(m, s)
<1>1. E \in SUBSET Int /\ IsFiniteSet(E) /\ E \in SUBSET DOMAIN Rates
  <2>1. E \in SUBSET (1..Len(Rates)) /\ Len(Rates) \in Nat /\ DOMAIN Rates = 1..Len(Rates)
    BY DataFacts
  <2>2. IsFiniteSet(1..Len(Rates))
    BY <2>1, FS_Interval
  <2> QED BY <2>1, <2>2, FS_Subset
<1>2. PICK n, at : n = Cardinality(E) /\ at = Ascending(E)
  OBVIOUS
<1>3. n \in Nat /\ at \in [1..n -> E] /\ \A i \in E : \E k \in 1..n : at[k] = i
  BY <1>1, <1>2, AscendingFacts, FS_CardinalityType DEF Enumerates
<1>4. Points(m, s) = [k \in 1..n |-> [x |-> Rates[at[k]], y |-> load[m][s][at[k]].y,
                                      max |-> load[m][s][at[k]].max]]
  <2>1. DOMAIN at = 1..n
    BY <1>3
  <2> QED BY <1>2, <2>1, Zenon DEF Points, Measured
<1>5. ASSUME NEW k \in 1..n
      PROVE  [x |-> Rates[at[k]], y |-> load[m][s][at[k]].y, max |-> load[m][s][at[k]].max]
               \in Marked
  <2>1. PICK i \in DOMAIN Rates : i = at[k]
    BY <1>1, <1>3, <1>5
  <2>2. Rates[i] \in Nat /\ load[m][s][i] \in Figures
    BY DataFacts
  <2>3. load[m][s][i].y \in Nat /\ load[m][s][i].max \in 0..MaxFigure
    BY <2>2 DEF Figures
  <2> QED BY <2>1, <2>2, <2>3 DEF Marked
<1>6. /\ DOMAIN Points(m, s) = 1..n
      /\ Points(m, s) \in Seq(Marked)
      /\ \A k \in 1..n : /\ Points(m, s)[k].x = Rates[at[k]]
                         /\ Points(m, s)[k].y = load[m][s][at[k]].y
                         /\ Points(m, s)[k].max = load[m][s][at[k]].max
  BY <1>3, <1>4, <1>5
<1> QED BY <1>2, <1>3, <1>6

(* The figure at a rate is the one measured there.                          *)
LEMMA FigureIs ==
    ASSUME load \in Loads, NEW m \in Metrics, NEW s \in Systems, NEW i \in DOMAIN Rates
    PROVE  Figure(m, s, Rates[i]) = load[m][s][i]
PROOF
<1>1. PICK n, at :
          /\ n \in Nat
          /\ at \in [1..n -> Measured(m, s)]
          /\ \A j \in Measured(m, s) : \E k \in 1..n : at[k] = j
          /\ DOMAIN Points(m, s) = 1..n
          /\ \A k \in 1..n : /\ Points(m, s)[k].x = Rates[at[k]]
                             /\ Points(m, s)[k].y = load[m][s][at[k]].y
                             /\ Points(m, s)[k].max = load[m][s][at[k]].max
  BY PointsFacts
<1> DEFINE here == {p \in ToSet(Points(m, s)) : p.x = Rates[i]}
<1>2. ASSUME NEW p \in here
      PROVE  i \in Measured(m, s) /\ p.y = load[m][s][i].y /\ p.max = load[m][s][i].max
  <2>1. PICK k \in 1..n : p = Points(m, s)[k] /\ p.x = Rates[i]
    BY <1>1, <1>2 DEF ToSet
  <2>2. PICK j \in Measured(m, s) : j = at[k]
    BY <1>1
  <2>3. Rates[j] = Rates[i]
    BY <1>1, <2>1, <2>2
  <2>4. j = i
    <3>1. i \in Nat /\ j \in Nat /\ j \in DOMAIN Rates /\ Rates[i] \in Nat
      BY DataFacts
    <3>2. (i < j => Rates[i] < Rates[j]) /\ (j < i => Rates[j] < Rates[i])
      BY <3>1, DataFacts
    <3> QED BY <2>3, <3>1, <3>2
  <2>5. p.y = load[m][s][at[k]].y /\ p.max = load[m][s][at[k]].max
    BY <1>1, <2>1, Zenon
  <2> QED BY <2>2, <2>4, <2>5, Zenon
<1>3. ASSUME i \in Measured(m, s) PROVE here # {}
  <2>1. PICK k \in 1..n : at[k] = i
    BY <1>1, <1>3
  <2>2. Points(m, s)[k] \in ToSet(Points(m, s))
    BY <1>1 DEF ToSet
  <2>3. Points(m, s)[k].x = Rates[i]
    BY <1>1, <2>1
  <2> QED BY <2>2, <2>3
<1>4. Figure(m, s, Rates[i]) = IF here = {} THEN Null
                               ELSE LET p == CHOOSE p \in here : TRUE IN [y |-> p.y, max |-> p.max]
  BY Zenon DEF Figure
<1> HIDE DEF here
<1>5. CASE here = {}
  <2>1. i \notin Measured(m, s)
    BY <1>3, <1>5
  <2>2. load[m][s][i] = Null
    BY <2>1 DEF Measured
  <2> QED BY <1>4, <1>5, <2>2
<1>6. CASE here # {}
  <2>1. PICK p \in here : p = CHOOSE q \in here : TRUE
    BY <1>6
  <2>2. p.y = load[m][s][i].y /\ p.max = load[m][s][i].max
    BY <1>2
  <2>3. Figure(m, s, Rates[i]) = [y |-> p.y, max |-> p.max]
    BY <1>4, <1>6, <2>1
  <2>4. load[m][s][i] = [y |-> load[m][s][i].y, max |-> load[m][s][i].max]
    <3>1. load[m][s][i] \in Figures
      BY DataFacts
    <3> QED BY <3>1 DEF Figures
  <2> QED BY <2>2, <2>3, <2>4
<1> QED BY <1>5, <1>6

(* The greatest figure, the top of the axis and the place of a figure.      *)
LEMMA DMaxFacts ==
    ASSUME load \in Loads, NEW m \in Metrics
    PROVE  \E g \in 1..MaxFigure : DMax(m) = 1080 * g
PROOF
<1> DEFINE U == UNION {{p.max : p \in ToSet(Points(m, s))} : s \in Systems}
<1>1. PICK b \in Nat : b = MaxFigure
  BY DEF MaxFigure
<1>2. ASSUME NEW s \in Systems, NEW p \in ToSet(Points(m, s)) PROVE p.max \in 0..b
  <2>1. PICK k \in DOMAIN Points(m, s) : p = Points(m, s)[k]
    BY DEF ToSet
  <2>2. Points(m, s) \in Seq(Marked)
    BY PointsFacts
  <2>3. PICK q \in Seq(Marked) : q = Points(m, s)
    BY <2>2
  <2>4. q[k] \in Marked
    BY <2>1, <2>3
  <2> QED BY <1>1, <2>1, <2>3, <2>4 DEF Marked
<1>3. U \in SUBSET (0..b)
  <2>1. ASSUME NEW u \in U PROVE u \in 0..b
    <3>1. PICK s \in Systems : u \in {p.max : p \in ToSet(Points(m, s))}
      BY <2>1, Zenon
    <3>2. PICK p \in ToSet(Points(m, s)) : u = p.max
      BY <3>1, Zenon
    <3> QED BY <1>2, <3>1, <3>2
  <2> QED BY <2>1, Zenon
<1>4. IsFiniteSet(U) /\ U \in SUBSET Int
  <2>1. IsFiniteSet(0..b)
    BY FS_Interval
  <2> QED BY <1>3, <2>1, FS_Subset
<1>5. \E u \in U : u > 0
  <2>1. PICK s \in Systems : Measured(m, s) # {}
    BY DataFacts
  <2>2. PICK i \in Measured(m, s) : TRUE
    BY <2>1
  <2>3. PICK n, at :
            /\ \A j \in Measured(m, s) : \E k \in 1..n : at[k] = j
            /\ DOMAIN Points(m, s) = 1..n
            /\ \A k \in 1..n : Points(m, s)[k].max = load[m][s][at[k]].max
    BY PointsFacts
  <2>4. PICK k \in 1..n : at[k] = i
    BY <2>3
  <2>5. Points(m, s)[k] \in ToSet(Points(m, s)) /\ Points(m, s)[k].max = load[m][s][i].max
    BY <2>3, <2>4 DEF ToSet
  <2>6. load[m][s][i].max > 0
    <3>1. i \in DOMAIN Rates /\ load[m][s][i] # Null
      BY DEF Measured
    <3>2. load[m][s][i] \in Figures
      BY <3>1, DataFacts
    <3>3. 0 < load[m][s][i].y /\ load[m][s][i].y <= load[m][s][i].max
      BY <3>1, DataFacts
    <3>4. PICK a \in Nat, c \in 0..MaxFigure : a = load[m][s][i].y /\ c = load[m][s][i].max
      BY <3>2 DEF Figures
    <3> QED BY <1>1, <3>3, <3>4
  <2>7. Points(m, s)[k].max \in U
    <3>1. Points(m, s)[k].max \in {p.max : p \in ToSet(Points(m, s))}
      BY <2>5, Zenon
    <3> QED BY <3>1
  <2> QED BY <2>5, <2>6, <2>7
<1> HIDE DEF U
<1>6. PICK g : g = Greatest(U) /\ g \in U /\ \A u \in U : u <= g
  BY <1>4, <1>5, GreatestIn
<1>7. g \in 1..MaxFigure
  BY <1>1, <1>3, <1>5, <1>6
<1> QED BY <1>6, <1>7 DEF DMax, U

LEMMA DecadesFacts ==
    10 \in DECADES /\ \A e \in DECADES : e \in Nat /\ e >= 1
PROOF BY SMT DEF DECADES

LEMMA TopFacts ==
    ASSUME load \in Loads, NEW m \in Metrics
    PROVE  /\ Top(m) \in Nat \ {0}
           /\ m \in LogMetrics => Decades(Top(m)) \in Nat \ {0}
           /\ m \notin LogMetrics => CoversTo(Ticks(m), DMax(m), 5)
PROOF
<1>1. PICK g \in 1..MaxFigure : DMax(m) = 1080 * g
  BY DMaxFacts
<1>2. PICK d \in Nat : d = DMax(m) /\ 1080 <= d /\ d <= Reach * 5
  BY <1>1, SMT DEF MaxFigure, Reach
<1>3. ASSUME NEW q \in Seq(Nat), q = Ticks(m), NEW i \in DOMAIN q, NEW low \in Nat, q[i] >= low
      PROVE  \E k \in DOMAIN q : Top(m) = q[k] /\ q[k] \in Nat /\ q[k] >= low
  <2>1. PICK n \in Nat : DOMAIN q = 1..n
    BY <1>3
  <2>2. IsFiniteSet(1..n)
    BY FS_Interval
  <2>3. ToSet(q) \in SUBSET Int /\ q[i] \in ToSet(q)
    BY <1>3 DEF ToSet
  <2>4. IsFiniteSet(ToSet(q))
    <3> DEFINE f == [k \in 1..n |-> q[k]]
    <3>1. f \in Surjection(1..n, ToSet(q))
      BY <2>1, Zenon DEF Surjection, ToSet
    <3> QED BY <2>2, <3>1, FS_Surjection, Zenon
  <2>5. Greatest(ToSet(q)) \in ToSet(q) /\ \A x \in ToSet(q) : x <= Greatest(ToSet(q))
    BY <2>3, <2>4, GreatestIn
  <2>6. PICK k \in DOMAIN q : q[k] = Top(m)
    BY <1>3, <2>5 DEF ToSet, Top
  <2>7. q[k] \in Nat /\ q[i] \in Nat
    BY <1>3
  <2>8. q[i] <= q[k]
    BY <1>3, <2>3, <2>5, <2>6 DEF Top
  <2> QED BY <1>3, <2>6, <2>7, <2>8
<1>4. CASE m \notin LogMetrics
  <2>1. Ticks(m) = NiceTicks(d, 5)
    BY <1>2, <1>4 DEF Ticks
  <2>2. CoversTo(Ticks(m), d, 5) /\ Ticks(m) \in Seq(Nat) /\ \E i \in DOMAIN Ticks(m) : Ticks(m)[i] >= d
    <3>1. 5 \in {4, 5} /\ 5 <= d
      BY <1>2
    <3> QED BY <1>2, <2>1, <3>1, NiceTicksCover
  <2>3. Top(m) \in Nat /\ Top(m) >= d
    BY <1>3, <2>2
  <2> QED BY <1>2, <1>4, <2>2, <2>3
<1>5. CASE m \in LogMetrics
  <2> DEFINE P == {i \in DOMAIN LogTicks : 2 * LogTicks[i] <= 3 * d}
  <2>1. /\ LogTicks \in Seq(Nat) /\ Len(LogTicks) = 4 /\ DOMAIN LogTicks = 1..4
        /\ \A i \in 1..4 : LogTicks[i] >= 100
        /\ LogTicks[1] = 100
    BY SMT DEF LogTicks
  <2>2. 1 \in P /\ P \in SUBSET (1..Len(LogTicks))
    BY <1>2, <2>1
  <2>3. Ticks(m) = AtPlaces(LogTicks, P)
    BY <1>2, <1>5 DEF Ticks
  <2> HIDE DEF P
  <2>4. PICK q : q = AtPlaces(LogTicks, P)
    OBVIOUS
  <2>5. /\ q \in Seq(Nat) /\ Len(q) = Cardinality(P) /\ Cardinality(P) \in Nat /\ IsFiniteSet(P)
        /\ \A k \in 1..Cardinality(P) : q[k] = LogTicks[Ascending(P)[k]] /\ Ascending(P)[k] \in P
    <3>1. LogTicks \in Seq(Nat) /\ P \in SUBSET (1..Len(LogTicks))
      BY <2>1, <2>2
    <3> HIDE DEF AtPlaces
    <3> QED BY <2>4, <3>1, AtPlacesFacts, Zenon
  <2>6. \A k \in DOMAIN q : q[k] >= 100
    <3>1. ASSUME NEW k \in DOMAIN q PROVE q[k] >= 100
      <4>1. k \in 1..Cardinality(P)
        BY <2>5
      <4>2. PICK i \in 1..4 : i = Ascending(P)[k]
        BY <2>1, <2>2, <2>5, <4>1
      <4> QED BY <2>1, <2>5, <4>1, <4>2
    <3> QED BY <3>1
  <2>7. 1 \in DOMAIN q
    <3>1. Cardinality(P) # 0
      BY <2>2, <2>5, FS_EmptySet
    <3> QED BY <2>5, <3>1
  <2>8. PICK t \in Nat : t = Top(m) /\ t >= 100
    BY <1>3, <2>3, <2>4, <2>5, <2>6, <2>7
  <2> DEFINE E == {e \in DECADES : t >= e}
  <2>9. Cardinality(E) \in Nat /\ Cardinality(E) # 0
    <3>1. E \in SUBSET (1..t) /\ IsFiniteSet(1..t)
      <4>1. \A e \in DECADES : e \in Nat /\ e >= 1
        BY DecadesFacts
      <4> QED BY <4>1, FS_Interval
    <3>2. 10 \in E
      BY <2>8, DecadesFacts
    <3>3. IsFiniteSet(E) /\ E # {}
      BY <3>1, <3>2, FS_Subset
    <3> HIDE DEF E
    <3> QED BY <3>3, FS_CardinalityType, FS_EmptySet
  <2>10. Decades(Top(m)) = Cardinality(E)
    BY <2>8, Zenon DEF Decades
  <2> HIDE DEF E
  <2> QED BY <1>5, <2>8, <2>9, <2>10
<1> QED BY <1>4, <1>5

LEMMA YTyped ==
    ASSUME load \in Loads, NEW m \in Metrics, NEW v \in Nat
    PROVE  Y(m, v) \in Int
PROOF
<1>1. PICK h \in Nat : h = IH
  BY ChartsAssumption, Zenon DEF ChartsAssumption
<1>2. PICK u \in Nat : u = 1000 * v
  BY SMT
<1>3. CASE m \in LogMetrics
  <2>1. PICK c \in Nat : c = Decades(u)
    <3>1. IsFiniteSet({e \in DECADES : u >= e})
      <4>1. {e \in DECADES : u >= e} \in SUBSET (1..u)
        BY DecadesFacts
      <4>2. IsFiniteSet(1..u)
        BY FS_Interval
      <4> QED BY <4>1, <4>2, FS_Subset
    <3> QED BY <3>1, FS_CardinalityType DEF Decades
  <2>2. PICK b \in Nat \ {0} : b = Decades(Top(m))
    BY <1>3, TopFacts
  <2>3. c * h \in Nat
    BY TimesMono
  <2>4. (c * h) \div b \in Nat
    BY <2>3, DivFacts
  <2>5. Y(m, v) = h - (c * h) \div b
    BY <1>1, <1>2, <1>3, <2>1, <2>2 DEF Y
  <2> QED BY <2>4, <2>5
<1>4. CASE m \notin LogMetrics
  <2>1. PICK b \in Nat \ {0} : b = Top(m)
    BY TopFacts
  <2>2. u * h \in Nat
    BY TimesMono
  <2>3. (u * h) \div b \in Nat
    BY <2>2, DivFacts
  <2>4. Y(m, v) = h - (u * h) \div b
    BY <1>1, <1>2, <1>4, <2>1 DEF Y
  <2> QED BY <2>3, <2>4
<1> QED BY <1>3, <1>4

(* The labels: the ends of the lines in the order of their places.          *)
LEMMA KeyOrder ==
    ASSUME NEW S \in SUBSET Nat, NEW v \in [S -> Int], NEW R,
           \A x, z \in S : <<x, z>> \in R <=> (v[x] < v[z] \/ (v[x] = v[z] /\ x < z))
    PROVE  Ordered(S, R)
PROOF
<1>1. ASSUME NEW x \in S PROVE <<x, x>> \notin R
  OBVIOUS
<1>2. ASSUME NEW x \in S, NEW a \in S, NEW z \in S, <<x, a>> \in R, <<a, z>> \in R PROVE <<x, z>> \in R
  <2>1. v[x] < v[a] \/ (v[x] = v[a] /\ x < a)
    BY <1>2
  <2>2. v[a] < v[z] \/ (v[a] = v[z] /\ a < z)
    BY <1>2
  <2>3. v[x] \in Int /\ v[a] \in Int /\ v[z] \in Int /\ x \in Nat /\ a \in Nat /\ z \in Nat
    OBVIOUS
  <2>4. v[x] < v[z] \/ (v[x] = v[z] /\ x < z)
    BY <2>1, <2>2, <2>3
  <2> QED BY <2>4
<1>3. ASSUME NEW x \in S, NEW z \in S, x # z PROVE <<x, z>> \in R \/ <<z, x>> \in R
  <2>1. v[x] \in Int /\ v[z] \in Int /\ x \in Nat /\ z \in Nat
    OBVIOUS
  <2> QED BY <1>3, <2>1
<1> QED BY <1>1, <1>2, <1>3, Zenon DEF Ordered

Tags == [series : Systems, x : {X(z) : z \in Nat}, y : Int]

LEMMA EndsTyped ==
    ASSUME load \in Loads, NEW m \in Metrics
    PROVE  Ends(m) \in Seq(Tags)
PROOF
<1> DEFINE last(s) == Last(Points(m, s))
           S == {s \in Systems : Points(m, s) # <<>>}
           above == {st \in Systems \X Systems :
                        \/ Y(m, last(st[1]).y) < Y(m, last(st[2]).y)
                        \/ Y(m, last(st[1]).y) = Y(m, last(st[2]).y) /\ st[1] < st[2]}
           v == [s \in S |-> Y(m, last(s).y)]
<1>1. ASSUME NEW s \in S PROVE last(s).x \in Nat /\ Y(m, last(s).y) \in Int /\ s \in Systems
  <2>1. PICK q \in Seq(Marked) : q = Points(m, s)
    BY PointsFacts
  <2>2. q # <<>>
    BY <2>1
  <2>3. Len(q) \in DOMAIN q
    BY <2>2
  <2>4. Last(q) \in Marked
    BY <2>3 DEF Last
  <2>5. Last(q).x \in Nat /\ Last(q).y \in Nat
    BY <2>4 DEF Marked
  <2> QED BY <2>1, <2>5, YTyped
<1>2. v \in [S -> Int]
  BY <1>1
<1>3. S \in SUBSET Nat /\ IsFiniteSet(S)
  <2>1. IsFiniteSet(Systems) /\ Systems \subseteq Nat
    BY ChartsAssumption, Zenon DEF ChartsAssumption
  <2>2. S \in SUBSET Systems
    BY Zenon
  <2> QED BY <2>1, <2>2, FS_Subset
<1>4. \A x, z \in S : <<x, z>> \in above <=> (v[x] < v[z] \/ (v[x] = v[z] /\ x < z))
  <2>1. ASSUME NEW a \in S, NEW z \in S
        PROVE  <<a, z>> \in above <=> (Y(m, last(a).y) < Y(m, last(z).y)
                                       \/ (Y(m, last(a).y) = Y(m, last(z).y) /\ a < z))
    <3>1. <<a, z>> \in Systems \X Systems
      BY <1>1
    <3> HIDE DEF last
    <3> QED BY <3>1
  <2>2. \A s \in S : v[s] = Y(m, last(s).y)
    OBVIOUS
  <2> HIDE DEF v, S, above, last
  <2> QED BY <2>1, <2>2, ZenonT(30)
<1>5. PICK R : R = above
  OBVIOUS
<1>6. PICK Q : Q = S
  OBVIOUS
<1>7. Ordered(S, above)
  <2> HIDE DEF v, S, above
  <2> QED BY <1>2, <1>3, <1>4, KeyOrder
<1>8. PICK n \in Nat : n = Cardinality(S)
  <2> HIDE DEF S
  <2> QED BY <1>3, FS_CardinalityType
<1>9. PICK o : o = InOrder(S, above)
  OBVIOUS
<1>10. o \in [1..n -> S]
  <2> HIDE DEF S, above
  <2> QED BY <1>3, <1>7, <1>8, <1>9, InOrderFacts DEF Enumerates
<1>11. Ends(m) = [k \in 1..n |-> [series |-> o[k], x |-> X(last(o[k]).x), y |-> Y(m, last(o[k]).y)]]
  <2>1. Ends(m) = [k \in DOMAIN o |-> [series |-> o[k], x |-> X(last(o[k]).x), y |-> Y(m, last(o[k]).y)]]
    BY <1>9, Zenon DEF Ends
  <2>2. DOMAIN o = 1..n
    BY <1>10
  <2> QED BY <2>1, <2>2
<1>12. ASSUME NEW k \in 1..n
       PROVE  [series |-> o[k], x |-> X(last(o[k]).x), y |-> Y(m, last(o[k]).y)] \in Tags
  <2>1. PICK s \in S : s = o[k]
    BY <1>10
  <2>2. s \in Systems /\ X(last(s).x) \in {X(z) : z \in Nat} /\ Y(m, last(s).y) \in Int
    BY <1>1
  <2> HIDE DEF S, last
  <2>3. PICK a, b : a = X(last(s).x) /\ b = Y(m, last(s).y)
    OBVIOUS
  <2>4. [series |-> s, x |-> a, y |-> b] \in Tags
    BY <2>2, <2>3 DEF Tags
  <2> QED BY <2>1, <2>3, <2>4
<1> HIDE DEF last
<1> QED BY <1>11, <1>12

LEMMA NudgedTyped ==
    ASSUME NEW q \in Seq(Tags), NEW b \in Tags
    PROVE  Nudged(q, b) \in Tags
PROOF
<1>1. CASE q # <<>>
  <2>1. PICK n \in DOMAIN q : n = Len(q)
    BY <1>1
  <2>2. Last(q) = q[n] /\ q[n] \in Tags
    BY <2>1 DEF Last
  <2>3. q[n].y \in Int
    BY <2>2 DEF Tags
  <2>4. PICK e \in Int : e = q[n].y + GAP
    BY <2>3, SMT DEF GAP
  <2>5. [b EXCEPT !.y = e] \in Tags
    BY DEF Tags
  <2> QED BY <2>2, <2>4, <2>5 DEF Nudged
<1>2. CASE q = <<>>
  BY <1>2 DEF Nudged
<1> QED BY <1>1, <1>2

(* Each label is GAP below the one before it if they are at the same place. *)
Apart(q, n) ==
    /\ q \in Seq(Tags) /\ Len(q) = n
    /\ \A i \in 1..(n - 1) : q[i].x = q[i + 1].x => q[i + 1].y - q[i].y >= GAP

LEMMA NudgedApart ==
    ASSUME NEW q, NEW n \in Nat, Apart(q, n), NEW b \in Tags
    PROVE  Nudged(q, b) \in Tags /\ Apart(Append(q, Nudged(q, b)), n + 1)
PROOF
<1>1. q \in Seq(Tags) /\ Len(q) = n /\ (q # <<>> <=> n # 0)
  BY DEF Apart
<1>2. PICK c : c = Nudged(q, b)
  OBVIOUS
<1>3. b.x \in {X(z) : z \in Nat} /\ b.y \in Int /\ b.series \in Systems
  BY DEF Tags
<1>4. n # 0 => Last(q) = q[n] /\ q[n] \in Tags /\ q[n].y \in Int
  <2>1. n # 0 => Last(q) = q[n] /\ q[n] \in Tags
    BY <1>1 DEF Last
  <2> QED BY <2>1 DEF Tags
<1>5. c \in Tags /\ c.x = b.x /\ (n # 0 /\ q[n].x = b.x => c.y - q[n].y >= GAP)
  <2>1. CASE n # 0 /\ q[n].x = b.x /\ b.y - q[n].y < GAP
    <3>1. PICK l \in Int : l = q[n].y
      BY <1>4, <2>1
    <3>2. PICK e \in Int : e = l + GAP /\ e - l >= GAP
      BY SMT DEF GAP
    <3>3. c = [b EXCEPT !.y = e]
      BY <1>1, <1>2, <1>4, <2>1, <3>1, <3>2 DEF Nudged
    <3>4. c \in Tags /\ c.x = b.x /\ c.y = e
      BY <3>3 DEF Tags
    <3> QED BY <3>1, <3>2, <3>4
  <2>2. CASE ~(n # 0 /\ q[n].x = b.x /\ b.y - q[n].y < GAP)
    <3>1. c = b
      BY <1>1, <1>2, <1>4, <2>2 DEF Nudged
    <3>2. n # 0 /\ q[n].x = b.x => b.y - q[n].y >= GAP
      BY <1>3, <1>4, <2>2, SMT DEF GAP
    <3> QED BY <3>1, <3>2
  <2> QED BY <2>1, <2>2
<1>6. PICK a : a = Append(q, c)
  OBVIOUS
<1>7. a \in Seq(Tags) /\ Len(a) = n + 1 /\ a[n + 1] = c /\ \A i \in 1..n : a[i] = q[i]
  BY <1>1, <1>5, <1>6
<1>8. ASSUME NEW i \in 1..n, a[i].x = a[i + 1].x PROVE a[i + 1].y - a[i].y >= GAP
  <2>1. CASE i = n
    BY <1>5, <1>7, <1>8, <2>1
  <2>2. CASE i # n
    <3>1. i \in 1..(n - 1) /\ i + 1 \in 1..n
      BY <2>2
    <3>2. a[i] = q[i] /\ a[i + 1] = q[i + 1]
      BY <1>7, <3>1
    <3> QED BY <1>8, <3>1, <3>2 DEF Apart
  <2> QED BY <2>1, <2>2
<1>9. (n + 1) - 1 = n
  OBVIOUS
<1> QED BY <1>2, <1>5, <1>6, <1>7, <1>8, <1>9 DEF Apart

LEMMA LabelsApart ==
    ASSUME NEW E \in Seq(Tags)
    PROVE  \E n \in Nat : Apart(FoldLeft(LAMBDA q, b : Append(q, Nudged(q, b)), <<>>, E), n)
PROOF
<1>1. PICK n \in Nat : n = Len(E) /\ DOMAIN E = 1..n
  OBVIOUS
<1> DEFINE St == Seq(Tags)
           g == [p \in (1..n) \X St |-> Append(p[2], Nudged(p[2], E[p[1]]))]
<1>2. ASSUME NEW i \in 1..n, NEW q \in St
      PROVE  /\ g[<<i, q>>] = Append(q, Nudged(q, E[i]))
             /\ Append(q, Nudged(q, E[i])) \in St
  <2>1. <<i, q>> \in (1..n) \X St /\ E[i] \in Tags
    BY <1>1
  <2>2. g[<<i, q>>] = Append(q, Nudged(q, E[i]))
    BY <2>1
  <2>3. Nudged(q, E[i]) \in Tags
    BY <2>1, NudgedTyped
  <2> QED BY <2>2, <2>3
<1>3. g \in [(1..n) \X St -> St]
  <2>1. ASSUME NEW p \in (1..n) \X St PROVE Append(p[2], Nudged(p[2], E[p[1]])) \in St
    BY <1>2
  <2> QED BY <2>1
<1>4. <<>> \in St
  OBVIOUS
<1> HIDE DEF g, St
<1>5. PICK fold : IsFold(n, St, <<>>, g, fold)
  BY <1>3, <1>4, FoldExists
<1>6. fold = [s \in SUBSET (1..n) |->
                IF s = {} THEN <<>> ELSE Append(fold[s \ {Max(s)}], Nudged(fold[s \ {Max(s)}], E[Max(s)]))]
  <2>1. ASSUME NEW s \in SUBSET (1..n), s # {}
        PROVE  fold[s] = Append(fold[s \ {Max(s)}], Nudged(fold[s \ {Max(s)}], E[Max(s)]))
    <3>1. Max(s) \in 1..n
      BY <1>1, <2>1, MaxIn
    <3>2. fold[s \ {Max(s)}] \in St
      BY <1>5 DEF IsFold
    <3>3. fold[s] = g[<<Max(s), fold[s \ {Max(s)}]>>]
      BY <1>5, <2>1 DEF IsFold
    <3> QED BY <1>2, <3>1, <3>2, <3>3
  <2>2. fold[{}] = <<>>
    BY <1>5 DEF IsFold
  <2>3. fold = [s \in SUBSET (1..n) |-> fold[s]]
    BY <1>5 DEF IsFold
  <2> QED BY <2>1, <2>2, <2>3
<1> DEFINE iter == CHOOSE f : f = [s \in SUBSET (1..n) |->
                IF s = {} THEN <<>> ELSE Append(f[s \ {Max(s)}], Nudged(f[s \ {Max(s)}], E[Max(s)]))]
<1>7. iter = [s \in SUBSET (1..n) |->
                IF s = {} THEN <<>> ELSE Append(iter[s \ {Max(s)}], Nudged(iter[s \ {Max(s)}], E[Max(s)]))]
  BY <1>6
<1>8. FoldLeft(LAMBDA q, b : Append(q, Nudged(q, b)), <<>>, E) = iter[1..n]
  BY <1>1 DEF FoldLeft, MapThenFoldSet
<1> HIDE DEF iter
<1> DEFINE S == {k \in 0..n : Apart(iter[1..k], k)}
<1>9. 0 \in S
  <2>1. 1..0 = {} /\ iter[{}] = <<>> /\ 1..(0 - 1) = {} /\ <<>> \in Seq(Tags) /\ Len(<<>>) = 0
    BY <1>7
  <2>2. Apart(<<>>, 0)
    BY <2>1 DEF Apart
  <2> QED BY <2>1, <2>2
<1>10. ASSUME NEW k \in 0..(n - 1), k \in S PROVE k + 1 \in S
  <2>1. PICK j \in 1..n : j = k + 1
    BY <1>10
  <2>2. Max(1..j) = j /\ (1..j) \ {j} = 1..(j - 1) /\ j \in 0..n
        /\ 1..j # {} /\ 1..j \in SUBSET (1..n)
    BY <1>1, WithoutTop
  <2>3. iter[1..j] = Append(iter[1..k], Nudged(iter[1..k], E[j]))
    <3>1. j - 1 = k
      BY <2>1
    <3> QED BY <1>7, <2>2, <3>1
  <2>4. E[j] \in Tags /\ k \in Nat
    BY <1>1
  <2>5. Apart(iter[1..k], k)
    BY <1>10
  <2>6. Apart(iter[1..j], k + 1)
    BY <2>3, <2>4, <2>5, NudgedApart
  <2> QED BY <2>1, <2>2, <2>6
<1>11. n \in S
  <2> HIDE DEF S
  <2>1. \A k \in 0..n : k \in S
    BY <1>9, <1>10, UpTo
  <2> QED BY <2>1
<1> QED BY <1>8, <1>11

LEMMA ApartFar ==
    ASSUME NEW q, NEW n \in Nat, Apart(q, n),
           NEW i \in 1..n, NEW j \in 1..n, i < j, \A k \in i..j : q[k].x = q[i].x
    PROVE  q[j].y - q[i].y >= GAP * (j - i)
PROOF
<1>1. PICK h \in Nat : h = j - i /\ i + h = j
  OBVIOUS
<1> DEFINE S == {k \in 0..h : q[i + k].y - q[i].y >= GAP * k}
<1>2. ASSUME NEW k \in 1..n PROVE q[k].y \in Int
  <2>1. q[k] \in Tags
    BY DEF Apart
  <2> QED BY <2>1 DEF Tags
<1>3. 0 \in S
  <2>1. i + 0 = i /\ q[i].y \in Int
    BY <1>2
  <2>2. q[i].y - q[i].y >= GAP * 0
    BY <2>1, SMT DEF GAP
  <2> QED BY <2>1, <2>2
<1>4. ASSUME NEW k \in 0..(h - 1), k \in S PROVE k + 1 \in S
  <2>1. PICK a \in 1..(n - 1) : a = i + k /\ a + 1 = i + (k + 1) /\ a \in i..j /\ a + 1 \in i..j
    BY <1>1, <1>4
  <2>2. q[a].x = q[a + 1].x
    BY <2>1
  <2>3. q[a + 1].y - q[a].y >= GAP
    BY <2>1, <2>2 DEF Apart
  <2>4. q[a].y - q[i].y >= GAP * k
    BY <1>4, <2>1
  <2>5. PICK u \in Int, v \in Int, z \in Int : u = q[i].y /\ v = q[a].y /\ z = q[a + 1].y
    BY <1>2, <2>1
  <2>6. z - u >= GAP * (k + 1)
    <3>1. v - u >= 15 * k /\ z - v >= 15
      BY <2>3, <2>4, <2>5 DEF GAP
    <3> QED BY <3>1 DEF GAP
  <2> QED BY <2>1, <2>5, <2>6
<1>5. h \in S
  <2> HIDE DEF S
  <2>1. \A k \in 0..h : k \in S
    BY <1>3, <1>4, UpTo
  <2> QED BY <2>1
<1> QED BY <1>1, <1>5

-----------------------------------------------------------------------------
(* The stall chart: the first of the windows nearest to t.                  *)
Windows(s) ==
    /\ s \in Seq(Nat \X (1..MaxFigure)) /\ s # <<>>
    /\ \A i, j \in DOMAIN s : i < j => s[i][1] < s[j][1]

LEMMA StallFacts ==
    ASSUME stall \in Stalls
    PROVE  Windows(stall[1]) /\ Windows(stall[2])
PROOF
<1>1. 1 \in 1..2 /\ 2 \in 1..2
  OBVIOUS
<1> QED BY <1>1, ChartsAssumption, Zenon DEF ChartsAssumption, Windows

LEMMA NearFacts ==
    ASSUME NEW s, Windows(s), NEW t \in Nat
    PROVE  /\ Near(s, t) \in DOMAIN s
           /\ \A j \in DOMAIN s : Distance(s[Near(s, t)][1], t) <= Distance(s[j][1], t)
           /\ \A i \in DOMAIN s :
                 (\A j \in DOMAIN s : Distance(s[i][1], t) <= Distance(s[j][1], t)) => Near(s, t) <= i
PROOF
<1> DEFINE D == {Distance(s[j][1], t) : j \in DOMAIN s}
           N == {i \in DOMAIN s : \A j \in DOMAIN s : Distance(s[i][1], t) <= Distance(s[j][1], t)}
<1>1. ASSUME NEW j \in DOMAIN s PROVE Distance(s[j][1], t) \in Nat
  <2>1. PICK a \in Nat : a = s[j][1]
    BY DEF Windows
  <2> QED BY <2>1 DEF Distance
<1>2. D \in SUBSET Nat /\ D # {}
  <2>1. 1 \in DOMAIN s
    BY DEF Windows
  <2> QED BY <1>1, <2>1
<1>3. PICK d \in D : \A e \in D : d <= e
  BY <1>2, LeastIn
<1>4. N \in SUBSET Nat /\ N # {}
  <2>1. PICK i \in DOMAIN s : d = Distance(s[i][1], t)
    OBVIOUS
  <2>2. i \in N
    BY <1>3, <2>1
  <2>3. DOMAIN s \in SUBSET Nat
    BY DEF Windows
  <2> QED BY <2>2, <2>3
<1>5. Near(s, t) = Least(N)
  BY DEF Near
<1> HIDE DEF D
<1>6. Least(N) \in N /\ \A x \in N : Least(N) <= x
  BY <1>4, LeastOf
<1> QED BY <1>5, <1>6

(* A window's place in its series is its rank.                              *)
Times(s) == {e[1] : e \in ToSet(s)}

LEMMA TimesFacts ==
    ASSUME NEW s, Windows(s)
    PROVE  /\ \A i \in DOMAIN s : s[i][1] \in Times(s) /\ s[i][1] \in Nat
           /\ \A x \in Times(s) : \E i \in DOMAIN s : s[i][1] = x
           /\ \A i \in DOMAIN s : Rank(Times(s), s[i][1]) = i - 1
PROOF
<1>1. PICK n \in Nat : n = Len(s) /\ DOMAIN s = 1..n
  BY DEF Windows
<1>2. ASSUME NEW i \in DOMAIN s PROVE s[i][1] \in Times(s) /\ s[i][1] \in Nat
  <2>1. s[i] \in ToSet(s)
    BY DEF ToSet
  <2>2. s[i][1] \in Times(s)
    BY <2>1, Zenon DEF Times
  <2> QED BY <2>2 DEF Windows
<1>3. ASSUME NEW x \in Times(s) PROVE \E i \in DOMAIN s : s[i][1] = x
  <2>1. PICK e \in ToSet(s) : x = e[1]
    BY Zenon DEF Times
  <2> QED BY <2>1 DEF ToSet
<1>4. ASSUME NEW i \in DOMAIN s PROVE Rank(Times(s), s[i][1]) = i - 1
  <2> DEFINE below == {z \in Times(s) : z < s[i][1]}
             f == [j \in 1..(i - 1) |-> s[j][1]]
  <2>1. PICK h \in Nat : h = i - 1 /\ \A j \in 1..h : j \in DOMAIN s /\ j < i
    BY <1>1
  <2>2. \A j \in 1..h : f[j] = s[j][1] /\ f[j] \in below
    BY <1>1, <1>2, <2>1 DEF Windows
  <2>3. ASSUME NEW z \in below PROVE \E j \in 1..h : f[j] = z
    <3>1. PICK j \in DOMAIN s : s[j][1] = z
      BY <1>3
    <3>2. PICK a \in Nat, b \in Nat : a = s[j][1] /\ b = s[i][1] /\ a < b
      BY <1>2, <3>1
    <3>3. (i < j => b < a) /\ (i = j => b = a)
      BY <3>2 DEF Windows
    <3>4. j \in 1..h
      BY <1>1, <2>1, <3>2, <3>3
    <3> QED BY <2>2, <3>1, <3>4
  <2>4. ASSUME NEW j \in 1..h, NEW k \in 1..h, f[j] = f[k] PROVE j = k
    <3>1. PICK a \in Nat : a = s[j][1] /\ a = s[k][1]
      BY <1>2, <2>1, <2>2, <2>4
    <3>2. (j < k => a < a) /\ (k < j => a < a)
      BY <2>1, <3>1 DEF Windows
    <3> QED BY <3>1, <3>2
  <2>5. IsFiniteSet(1..h) /\ Cardinality(1..h) = h
    BY FS_Interval
  <2>6. \A j \in 1..h : f[j] \in below
    BY <2>2
  <2> HIDE DEF f, below
  <2>7. Cardinality(below) = h
    BY <2>3, <2>4, <2>5, <2>6, ImageCount
  <2> QED BY <2>1, <2>7 DEF Rank, below
<1> QED BY <1>2, <1>3, <1>4

(* Two series with the same windows have them at the same places.           *)
LEMMA SamePlaces ==
    ASSUME NEW p, NEW q, Windows(p), Windows(q), Times(p) = Times(q), NEW i \in DOMAIN p
    PROVE  i \in DOMAIN q /\ p[i][1] = q[i][1]
PROOF
<1>1. p[i][1] \in Times(p) /\ Rank(Times(p), p[i][1]) = i - 1
  BY TimesFacts
<1>2. PICK j \in DOMAIN q : q[j][1] = p[i][1]
  BY <1>1, TimesFacts
<1>3. Rank(Times(q), q[j][1]) = j - 1
  BY TimesFacts
<1>4. i \in Nat /\ j \in Nat
  BY SMTT(30) DEF Windows
<1>5. i = j
  BY <1>1, <1>2, <1>3, <1>4
<1> QED BY <1>2, <1>5

LEMMA NearNotLater ==
    ASSUME NEW p, NEW q, Windows(p), Windows(q), Times(p) = Times(q), NEW t \in Nat
    PROVE  Near(p, t) \in DOMAIN q /\ Near(q, t) <= Near(p, t)
PROOF
<1>1. PICK k \in DOMAIN p : k = Near(p, t)
  BY NearFacts
<1>2. \A j \in DOMAIN p : Distance(p[k][1], t) <= Distance(p[j][1], t)
  BY <1>1, NearFacts
<1>3. k \in DOMAIN q /\ p[k][1] = q[k][1]
  BY SamePlaces
<1>4. ASSUME NEW j \in DOMAIN q PROVE j \in DOMAIN p /\ p[j][1] = q[j][1]
  BY SamePlaces
<1>5. \A j \in DOMAIN q : Distance(q[k][1], t) <= Distance(q[j][1], t)
  <2>1. ASSUME NEW j \in DOMAIN q PROVE Distance(q[k][1], t) <= Distance(q[j][1], t)
    <3>1. Distance(p[k][1], t) <= Distance(p[j][1], t)
      BY <1>2, <1>4
    <3> QED BY <1>3, <1>4, <3>1, Zenon
  <2> QED BY <2>1
<1> QED BY <1>1, <1>3, <1>5, NearFacts

LEMMA SameWindow ==
    ASSUME NEW p, NEW q, Windows(p), Windows(q), Times(p) = Times(q), NEW t \in Nat
    PROVE  \E k \in DOMAIN p : /\ k \in DOMAIN q /\ p[k][1] = q[k][1]
                               /\ Near(p, t) = k /\ Near(q, t) = k
PROOF
<1>1. PICK k, l : k = Near(p, t) /\ l = Near(q, t)
  OBVIOUS
<1>2. k \in DOMAIN p /\ k \in DOMAIN q /\ l \in DOMAIN q
  BY <1>1, NearFacts, NearNotLater
<1>3. k <= l /\ l <= k
  BY <1>1, NearNotLater
<1>4. k \in Nat /\ l \in Nat
  BY <1>2, SMTT(30) DEF Windows
<1>5. k = l
  BY <1>3, <1>4
<1>6. p[k][1] = q[k][1]
  BY <1>2, SamePlaces
<1> QED BY <1>1, <1>2, <1>5, <1>6

-----------------------------------------------------------------------------
(* Where the crosshair and the hover are.                                   *)
HoverInv ==
    \A h \in hoverStall :
        {p[1] : p \in ToSet(stall[1])} = {p[1] : p \in ToSet(stall[2])} =>
            \E k \in DOMAIN stall[1] : stall[1][k] = <<h.t, h.b>> /\ stall[2][k] = <<h.t, h.i>>
ChartInv ==
    /\ load \in Loads /\ stall \in Stalls /\ metric \in Metrics
    /\ active \in 0..Len(Rates)
    /\ HoverInv
    /\ wl \in DOMAIN RowsOf /\ opened \subseteq RowsOf[wl]

LEMMA CrosshairKept ==
    ASSUME ChartInv, NEW i \in 0..Len(Rates), Crosshair(i)
    PROVE  ChartInv'
PROOF BY DEF ChartInv, Crosshair, HoverInv

LEMMA NearestIs ==
    ASSUME load \in Loads, NEW px \in Nat
    PROVE  Nearest(px) \in 1..Len(Rates)
PROOF
<1> DEFINE D == {Distance(X(Rates[j]), px) : j \in DOMAIN Rates}
           N == {i \in DOMAIN Rates : \A j \in DOMAIN Rates :
                                        Distance(X(Rates[i]), px) <= Distance(X(Rates[j]), px)}
<1>1. PICK n \in Nat : n = Len(Rates) /\ DOMAIN Rates = 1..n /\ n > 1
  BY DataFacts
<1>2. ASSUME NEW j \in DOMAIN Rates PROVE X(Rates[j]) \in Nat
  <2>1. PICK a \in Nat, b \in Nat, c \in Nat, w \in Nat :
            a = Rates[1] /\ b = Rates[j] /\ c = Last(Rates) /\ w = IW /\ c = Rates[n]
    <3>1. IW \in Nat
      BY ChartsAssumption, Zenon DEF ChartsAssumption
    <3>2. 1 \in DOMAIN Rates /\ n \in DOMAIN Rates
      BY <1>1
    <3>3. Rates \in Seq(Nat)
      BY DataFacts
    <3>4. Rates[1] \in Nat /\ Rates[j] \in Nat /\ Rates[n] \in Nat
      BY <1>1, <3>2, <3>3
    <3>5. Last(Rates) = Rates[n]
      BY <1>1 DEF Last
    <3> QED BY <3>1, <3>4, <3>5
  <2>2. a <= b /\ a < c
    <3>1. \A i, k \in DOMAIN Rates : i < k => Rates[i] < Rates[k]
      BY DataFacts
    <3>2. 1 \in DOMAIN Rates /\ n \in DOMAIN Rates /\ 1 < n /\ (j = 1 \/ 1 < j)
      BY <1>1
    <3> QED BY <2>1, <3>1, <3>2
  <2>3. PICK u \in Nat, v \in Nat \ {0} : u = b - a /\ v = c - a
    BY <2>2
  <2>4. u * w \in Nat
    BY TimesMono
  <2>5. (u * w) \div v \in Nat
    BY <2>4, DivFacts
  <2> QED BY <2>1, <2>3, <2>5 DEF X
<1>3. ASSUME NEW j \in DOMAIN Rates PROVE Distance(X(Rates[j]), px) \in Nat
  <2>1. PICK a \in Nat : a = X(Rates[j])
    BY <1>2
  <2> QED BY <2>1 DEF Distance
<1>4. D \in SUBSET Nat /\ D # {}
  <2>1. 1 \in DOMAIN Rates
    BY <1>1
  <2> QED BY <1>3, <2>1
<1>5. PICK d \in D : \A e \in D : d <= e
  BY <1>4, LeastIn
<1>6. N \in SUBSET Nat /\ N # {}
  <2>1. PICK i \in DOMAIN Rates : d = Distance(X(Rates[i]), px)
    OBVIOUS
  <2>2. i \in N
    BY <1>5, <2>1
  <2> QED BY <1>1, <2>2
<1>7. Nearest(px) = Least(N)
  BY DEF Nearest
<1> HIDE DEF D
<1>8. Least(N) \in N
  BY <1>6, LeastOf
<1> QED BY <1>1, <1>7, <1>8

LEMMA MoveStallKept ==
    ASSUME ChartInv, MoveStall
    PROVE  ChartInv'
PROOF
<1>1. PICK p, q : p = stall[1] /\ q = stall[2] /\ Windows(p) /\ Windows(q)
  BY StallFacts DEF ChartInv
<1>2. PICK t \in Nat :
          hoverStall' = {[t |-> q[Near(q, t)][1], b |-> p[Near(p, t)][2], i |-> q[Near(q, t)][2]]}
  BY <1>1, SMT DEF MoveStall
<1>3. UNCHANGED <<load, stall, metric, active, wl, opened>>
  BY DEF MoveStall
<1>4. ASSUME Times(p) = Times(q), NEW h, h \in hoverStall'
      PROVE  \E k \in DOMAIN p : p[k] = <<h.t, h.b>> /\ q[k] = <<h.t, h.i>>
  <2>1. PICK k \in DOMAIN p : /\ k \in DOMAIN q /\ p[k][1] = q[k][1]
                             /\ Near(p, t) = k /\ Near(q, t) = k
    BY <1>1, <1>4, SameWindow
  <2>2. h.t = q[k][1] /\ h.b = p[k][2] /\ h.i = q[k][2]
    BY <1>2, <1>4, <2>1
  <2>3. p[k] = <<p[k][1], p[k][2]>> /\ q[k] = <<q[k][1], q[k][2]>>
    <3>1. p[k] \in Nat \X (1..MaxFigure) /\ q[k] \in Nat \X (1..MaxFigure)
      BY <1>1, <2>1 DEF Windows
    <3> QED BY <3>1
  <2> QED BY <2>1, <2>2, <2>3
<1>5. HoverInv'
  <2>1. stall' = stall
    BY <1>3
  <2> QED BY <1>1, <1>4, <2>1, Zenon DEF HoverInv, Times
<1> QED BY <1>3, <1>5 DEF ChartInv

LEMMA ChartKept ==
    ASSUME ChartInv, [ChartNext]_chartVars
    PROVE  ChartInv'
PROOF
<1>1. PICK n \in Nat : n = Len(Rates) /\ n > 1
  BY DataFacts DEF ChartInv
<1>2. CASE LineChartStep
  <2>1. CASE MovePointer
    <3>1. PICK px \in Nat : Crosshair(Nearest(px))
      BY <2>1, SMT DEF MovePointer
    <3>2. Nearest(px) \in 0..Len(Rates)
      <4>1. load \in Loads
        BY DEF ChartInv
      <4>2. Nearest(px) \in 1..Len(Rates)
        BY <4>1, NearestIs
      <4> QED BY <1>1, <4>2
    <3> QED BY <3>1, <3>2, CrosshairKept
  <2>2. CASE LeaveChart \/ FocusChart \/ ArrowRight \/ ArrowLeft
    <3>1. active \in 0..n
      BY <1>1 DEF ChartInv
    <3>2. PICK i \in 0..n : Crosshair(i)
      <4>1. CASE LeaveChart
        BY <1>1, <4>1 DEF LeaveChart
      <4>2. CASE FocusChart
        BY <1>1, <3>1, <4>2 DEF FocusChart
      <4>3. CASE ArrowRight
        BY <1>1, <3>1, <4>3 DEF ArrowRight
      <4>4. CASE ArrowLeft
        BY <1>1, <3>1, <4>4 DEF ArrowLeft
      <4> QED BY <2>2, <4>1, <4>2, <4>3, <4>4
    <3> QED BY <1>1, <3>2, CrosshairKept
  <2>3. CASE ToggleTable \/ Resize
    BY <2>3 DEF ToggleTable, Resize, ChartInv, HoverInv
  <2>4. ASSUME NEW m \in Metrics, SetMetric(m) PROVE ChartInv'
    <3>1. 0 \in 0..Len(Rates)
      BY <1>1
    <3> QED BY <2>4, <3>1 DEF SetMetric, ChartInv, HoverInv
  <2> QED BY <1>2, <2>1, <2>2, <2>3, <2>4 DEF LineChartStep
<1>3. CASE StallStep
  <2>1. CASE LeaveStall
    BY <2>1 DEF LeaveStall, ChartInv, HoverInv
  <2> QED BY <1>3, <2>1, MoveStallKept DEF StallStep
<1>4. CASE AblationStep
  <2>1. ASSUME NEW w \in DOMAIN RowsOf, PickWorkload(w) PROVE ChartInv'
    BY <2>1 DEF PickWorkload, ChartInv, HoverInv
  <2>2. ASSUME NEW r \in RowsOf[wl], ClickRow(r) PROVE ChartInv'
    BY <2>2 DEF ClickRow, ChartInv, HoverInv
  <2> QED BY <1>4, <2>1, <2>2 DEF AblationStep
<1>5. CASE UNCHANGED chartVars
  BY <1>5 DEF chartVars, ChartInv, HoverInv
<1> QED BY <1>2, <1>3, <1>4, <1>5 DEF ChartNext

LEMMA ChartInvHolds ==
    ChartSpec => []ChartInv
PROOF
<1>1. ChartInit => ChartInv
  <2> SUFFICES ASSUME ChartInit PROVE ChartInv
    OBVIOUS
  <2>1. 0 \in 0..Len(Rates)
    BY DataFacts DEF ChartInit
  <2>2. "goodput" \in Metrics /\ "A" \in DOMAIN RowsOf
    BY ChartsAssumption, Zenon DEF ChartsAssumption
  <2> QED BY <2>1, <2>2 DEF ChartInit, ChartInv, HoverInv
<1>2. ChartInv /\ [ChartNext]_chartVars => ChartInv'
  BY ChartKept
<1> QED BY <1>1, <1>2, PTL DEF ChartSpec

(* What the readouts say is what was measured: crosshair, table, the stall  *)
(* chart's two figures and the open row (LineChart, StallChart, Ablation).  *)
THEOREM ReadoutsAlwaysRight ==
    ChartSpec => []ReadoutsTellTheData
PROOF
<1>1. ChartInv => ReadoutsTellTheData
  <2> SUFFICES ASSUME ChartInv PROVE ReadoutsTellTheData
    OBVIOUS
  <2>1. load \in [Metrics -> [Systems -> [DOMAIN Rates -> Figures]]] /\ metric \in Metrics
    BY DataFacts DEF ChartInv
  <2>2. ASSUME active # 0
        PROVE  active \in DOMAIN Rates /\ Readout(metric) = [s \in Systems |-> load[metric][s][active]]
    <3>1. active \in DOMAIN Rates
      BY <2>2, DataFacts DEF ChartInv
    <3>2. \A s \in Systems : Figure(metric, s, Rates[active]) = load[metric][s][active]
      BY <2>1, <3>1, FigureIs DEF ChartInv
    <3> QED BY <3>1, <3>2, Zenon DEF Readout
  <2>3. Table_(metric) = load[metric]
    <3>1. ASSUME NEW s \in Systems, NEW i \in DOMAIN Rates
          PROVE  Figure(metric, s, Rates[i]) = load[metric][s][i]
      BY <2>1, FigureIs DEF ChartInv
    <3>2. PICK d : d = load[metric]
      OBVIOUS
    <3>3. d \in [Systems -> [DOMAIN Rates -> Figures]]
      BY <2>1, <3>2
    <3>4. Table_(metric) = [s \in Systems |-> [i \in DOMAIN Rates |-> d[s][i]]]
      BY <3>1, <3>2, Zenon DEF Table_
    <3>5. ASSUME NEW s \in Systems PROVE [i \in DOMAIN Rates |-> d[s][i]] = d[s]
      <4>1. PICK e : e = d[s]
        OBVIOUS
      <4>2. e \in [DOMAIN Rates -> Figures]
        BY <3>3, <4>1
      <4>3. [i \in DOMAIN Rates |-> e[i]] = e
        BY <4>2
      <4> QED BY <4>1, <4>3
    <3>6. [s \in Systems |-> [i \in DOMAIN Rates |-> d[s][i]]] = [s \in Systems |-> d[s]]
      BY <3>5, Zenon
    <3>7. [s \in Systems |-> d[s]] = d
      BY <3>3
    <3> QED BY <3>2, <3>4, <3>6, <3>7, Zenon
  <2>4. HoverInv /\ opened \subseteq RowsOf[wl]
    BY DEF ChartInv
  <2> QED BY <2>2, <2>3, <2>4, Zenon DEF ReadoutsTellTheData, HoverInv
<1> QED BY <1>1, ChartInvHolds, PTL

(* Labels at one place with none from another place between them are GAP    *)
(* apart, however many were pushed down (LineChart).                        *)
THEOREM LabelsApartInARow ==
    ChartSpec => []LabelsApartUnlessParted
PROOF
<1>1. ChartInv => LabelsApartUnlessParted
  <2> SUFFICES ASSUME ChartInv PROVE LabelsApartUnlessParted
    OBVIOUS
  <2>1. CASE narrow
    <3>1. Labels(metric) = <<>>
      BY <2>1, Zenon DEF Labels
    <3>2. DOMAIN <<>> = {}
      OBVIOUS
    <3> QED BY <3>1, <3>2, Zenon DEF LabelsApartUnlessParted
  <2>2. CASE ~narrow
    <3>1. PICK l : l = Labels(metric)
      OBVIOUS
    <3>2. Ends(metric) \in Seq(Tags)
      BY EndsTyped DEF ChartInv
    <3>3. l = FoldLeft(LAMBDA q, b : Append(q, Nudged(q, b)), <<>>, Ends(metric))
      BY <2>2, <3>1 DEF Labels
    <3>4. PICK n \in Nat : Apart(l, n)
      BY <3>2, <3>3, LabelsApart
    <3>5. DOMAIN l = 1..n
      BY <3>4 DEF Apart
    <3>6. ASSUME NEW i \in 1..n, NEW j \in 1..n, i < j, \A k \in i..j : l[k].x = l[i].x
          PROVE  l[j].y - l[i].y >= GAP * (j - i)
      BY <3>4, <3>6, ApartFar
    <3> QED BY <3>1, <3>5, <3>6, Zenon DEF LabelsApartUnlessParted
  <2> QED BY <2>1, <2>2
<1> QED BY <1>1, ChartInvHolds, PTL

(* The linear axes start at 0, cover the largest value with no tick to      *)
(* spare, and have at most one tick more than asked for (niceTicks).        *)
THEOREM AxisAlwaysCovers ==
    ChartSpec => []AxisCoversTheData
PROOF
<1>1. ChartInv => AxisCoversTheData
  <2> SUFFICES ASSUME ChartInv PROVE AxisCoversTheData
    OBVIOUS
  <2>1. metric \notin LogMetrics => CoversTo(Ticks(metric), DMax(metric), 5)
    BY TopFacts DEF ChartInv
  <2> DEFINE G == {p[2] : p \in ToSet(stall[1]) \cup ToSet(stall[2])}
  <2>2. PICK b \in Nat : b = MaxFigure
    BY DEF MaxFigure
  <2>3. Windows(stall[1]) /\ Windows(stall[2])
    BY StallFacts DEF ChartInv
  <2>4. ASSUME NEW p \in ToSet(stall[1]) \cup ToSet(stall[2]) PROVE p[2] \in 1..b
    <3>1. PICK s, i : i \in DOMAIN s /\ p = s[i] /\ Windows(s)
      BY <2>3 DEF ToSet
    <3>2. s[i] \in Nat \X (1..MaxFigure)
      BY <3>1 DEF Windows
    <3> QED BY <2>2, <3>1, <3>2
  <2>5. G \in SUBSET (1..b) /\ G # {}
    <3>1. 1 \in DOMAIN stall[1]
      BY <2>3 DEF Windows
    <3>2. stall[1][1] \in ToSet(stall[1])
      BY <3>1 DEF ToSet
    <3> QED BY <2>4, <3>2
  <2>6. IsFiniteSet(1..b)
    BY FS_Interval
  <2> HIDE DEF G
  <2>7. IsFiniteSet(G) /\ G \in SUBSET Int
    <3>1. IsFiniteSet(G)
      BY <2>5, <2>6, FS_Subset
    <3> QED BY <2>5, <3>1
  <2>8. PICK g \in 1..b : g = Greatest(G)
    BY <2>5, <2>7, GreatestIn
  <2>9. PICK d \in Nat : d = 1100 * g /\ 4 <= d /\ d <= Reach * 4
    BY <2>2, SMT DEF MaxFigure, Reach
  <2>10. GMax = d
    BY <2>8, <2>9 DEF GMax, G
  <2>11. CoversTo(NiceTicks(d, 4), d, 4)
    <3>1. 4 \in {4, 5}
      OBVIOUS
    <3> QED BY <2>9, <3>1, NiceTicksCover
  <2> QED BY <2>1, <2>10, <2>11 DEF AxisCoversTheData, StallTicks
<1> QED BY <1>1, ChartInvHolds, PTL
=============================================================================
