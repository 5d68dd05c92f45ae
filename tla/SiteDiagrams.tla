---------------------------- MODULE SiteDiagrams ----------------------------
(***************************************************************************)
(* The diagrams of site-src that explain the engine: SystemDiagram.tsx     *)
(* with content/architecture.ts (the map and the trace of one request),    *)
(* Lifecycle.tsx (the request's states and the scheduler's iteration) and  *)
(* KvDiagram.tsx (paging).  A ticker (useTicker) advances a trace, a       *)
(* scenario or the iteration while it plays.                               *)
(*                                                                         *)
(* Abstractions: texts, coordinates and colours are left out; the drawing  *)
(* of KvDiagram is on PHYS, any order of the pool's blocks.                *)
(***************************************************************************)
EXTENDS Integers, SequencesExt

CONSTANTS
    POOL, MAXTOKENS,   \* blocks of the drawn pool, the slider's largest value
    BLOCK_SIZES,       \* the block sizes offered
    PHYS               \* the shuffled pool

ASSUME DiagramsAssumption ==
    /\ POOL \in Nat /\ MAXTOKENS \in Nat \ {0}
    /\ BLOCK_SIZES \subseteq Nat \ {0} /\ 16 \in BLOCK_SIZES /\ 17 <= MAXTOKENS
    /\ \A b \in BLOCK_SIZES : MAXTOKENS <= POOL * b
    /\ PHYS \in [1..POOL -> 0..(POOL - 1)] /\ ToSet(PHYS) = 0..(POOL - 1)

VARIABLES
    selected, hover, step, traceOn,  \* SystemDiagram: {} for null; traceOn is its playing
    sid, pos, scOn, it, itPlay,      \* Lifecycle: scOn is its playing
    tokens, bs                       \* KvDiagram

diagramVars == <<selected, hover, step, traceOn, sid, pos, scOn, it, itPlay, tokens, bs>>
systemVars  == <<selected, hover, step, traceOn>>
lifeVars    == <<sid, pos, scOn, it, itPlay>>
kvVars      == <<tokens, bs>>

-----------------------------------------------------------------------------
(* content/architecture.ts.                                                 *)
NODES == {"loadgen", "api", "loop", "sched", "obs", "runner", "blocks", "kv", "gate", "deploy"}

EDGES == [e1 |-> <<"loadgen", "api">>,  e2 |-> <<"api", "loop">>,    e3 |-> <<"loop", "sched">>,
          e4 |-> <<"sched", "runner">>, e5 |-> <<"sched", "blocks">>, e6 |-> <<"runner", "kv">>,
          e7 |-> <<"blocks", "kv">>,    e8 |-> <<"sched", "api">>,   e9 |-> <<"api", "obs">>,
          e10 |-> <<"gate", "deploy">>]

TRACE == <<"loadgen", "api", "loop", "sched", "blocks", "runner", "kv", "sched", "api", "obs">>

(* SystemDiagram.  step counts from 0, as in the code.                      *)
TraceNode == {TRACE[s + 1] : s \in step}
Or(S, T) == IF S # {} THEN S ELSE T      \* ?? of a value or {}
Focus  == Or(hover, Or(TraceNode, {selected}))
Detail == Or(TraceNode, {selected})
TraceEdges ==
    {e \in DOMAIN EDGES : \E s \in step : s > 0 /\ ToSet(EDGES[e]) = {TRACE[s], TRACE[s + 1]}}
Hot == TraceEdges \cup {e \in DOMAIN EDGES : ToSet(EDGES[e]) \cap Focus # {}}

StartTrace ==
    /\ step = {}
    /\ step' = {0} /\ traceOn' = TRUE
    /\ UNCHANGED <<selected, hover, lifeVars, kvVars>>

(* The ticker: past the end it stops the trace and leaves it at its end.    *)
TraceTick ==
    /\ traceOn
    /\ LET n == IF step = {} THEN 0 ELSE (CHOOSE s \in step : TRUE) + 1
       IN  IF n >= Len(TRACE) THEN traceOn' = FALSE /\ UNCHANGED step
                              ELSE step' = {n} /\ UNCHANGED traceOn
    /\ UNCHANGED <<selected, hover, lifeVars, kvVars>>

(* Pause, Resume, Next and Reset are there while step is not null.          *)
PauseOrResume ==
    /\ step # {}
    /\ traceOn' = ~traceOn
    /\ UNCHANGED <<selected, hover, step, lifeVars, kvVars>>
NextStep ==
    /\ step # {}
    /\ traceOn' = FALSE
    /\ step' = {IF s + 1 < Len(TRACE) THEN s + 1 ELSE Len(TRACE) - 1 : s \in step}
    /\ UNCHANGED <<selected, hover, lifeVars, kvVars>>
ResetStep ==    \* mutant: the ticker is left on
    /\ step' = {}
    /\ UNCHANGED <<traceOn, lifeVars, kvVars>>
Reset ==
    /\ traceOn' = FALSE /\ step' = {}
    /\ UNCHANGED <<lifeVars, kvVars>>
ResetButton == step # {} /\ Reset /\ UNCHANGED <<selected, hover>>

(* A click, Enter or Space on a component, which has the focus then.        *)
SelectNode(n) == selected' = n /\ hover' = {n} /\ Reset
Hover(n) == hover' = {n} /\ UNCHANGED <<selected, step, traceOn, lifeVars, kvVars>>
Unhover  == hover' = {}  /\ UNCHANGED <<selected, step, traceOn, lifeVars, kvVars>>

SystemStep ==
    \/ StartTrace \/ TraceTick \/ PauseOrResume \/ NextStep \/ ResetButton \/ Unhover
    \/ \E n \in NODES : SelectNode(n) \/ Hover(n)

-----------------------------------------------------------------------------
(* Lifecycle.                                                               *)
SCENARIOS ==
    [normal    |-> <<"door", "waiting", "running", "finished">>,
     evicted   |-> <<"door", "waiting", "running", "waiting", "running", "finished">>,
     cancelled |-> <<"door", "waiting", "running", "finished">>,
     rejected  |-> <<"door", "rejected">>]
ITERATION == <<"Retire", "Admit", "Make room", "Decode", "Emit">>

(* The arrows of the drawing.                                               *)
ARROWS == {<<"door", "waiting">>, <<"waiting", "running">>, <<"running", "finished">>,
           <<"running", "waiting">>, <<"door", "rejected">>}

Path == SCENARIOS[sid]
Here == Path[IF pos < Len(Path) THEN pos + 1 ELSE Len(Path)]

RunScenarioFromHere(id) ==    \* mutant: pos is kept
    /\ sid' = id /\ scOn' = TRUE
    /\ UNCHANGED <<pos, it, itPlay, systemVars, kvVars>>
RunScenario(id) ==
    /\ sid' = id /\ pos' = 0 /\ scOn' = TRUE
    /\ UNCHANGED <<it, itPlay, systemVars, kvVars>>
ScenarioTick ==
    /\ scOn
    /\ IF pos + 1 >= Len(Path) THEN scOn' = FALSE /\ UNCHANGED pos
                               ELSE pos' = pos + 1 /\ UNCHANGED scOn
    /\ UNCHANGED <<sid, it, itPlay, systemVars, kvVars>>

PickIteration(i) ==
    /\ it' = i /\ itPlay' = FALSE
    /\ UNCHANGED <<sid, pos, scOn, systemVars, kvVars>>
AutoPlay ==
    /\ itPlay' = ~itPlay
    /\ UNCHANGED <<sid, pos, scOn, it, systemVars, kvVars>>
IterationTick ==
    /\ itPlay
    /\ it' = (it + 1) % Len(ITERATION)
    /\ UNCHANGED <<sid, pos, scOn, itPlay, systemVars, kvVars>>

LifecycleStep ==
    \/ ScenarioTick \/ AutoPlay \/ IterationTick
    \/ \E id \in DOMAIN SCENARIOS : RunScenario(id)
    \/ \E i \in 0..(Len(ITERATION) - 1) : PickIteration(i)

-----------------------------------------------------------------------------
(* KvDiagram.                                                               *)
BlocksFloor == tokens \div bs + 1    \* mutant: one too many when exactly full
Blocks == (tokens + bs - 1) \div bs
Tail_  == tokens - (Blocks - 1) * bs
Wasted == Blocks * bs - tokens
ExactlyFull == tokens % bs = 0
Table == SubSeq(PHYS, 1, Blocks)
Owner(p) == {i \in DOMAIN Table : Table[i] = p}
TokensHeld(i) == IF i = Blocks THEN Tail_ ELSE bs

Slide(n) == tokens' = n /\ UNCHANGED <<bs, systemVars, lifeVars>>
PickBlockSize(b) == bs' = b /\ UNCHANGED <<tokens, systemVars, lifeVars>>
KvStep == \/ \E n \in 1..MAXTOKENS : Slide(n)
          \/ \E b \in BLOCK_SIZES : PickBlockSize(b)

-----------------------------------------------------------------------------
DiagramInit ==
    /\ selected = "sched" /\ hover = {} /\ step = {} /\ traceOn = FALSE
    /\ sid = "normal" /\ pos = 0 /\ scOn = FALSE /\ it = 0 /\ itPlay = FALSE
    /\ tokens = 17 /\ bs = 16
DiagramNext == SystemStep \/ LifecycleStep \/ KvStep

DiagramSpec == DiagramInit /\ [][DiagramNext]_diagramVars

-----------------------------------------------------------------------------
(* Properties.                                                              *)

(* "Trace a single request": a trace moves on by itself only while the      *)
(* buttons for it are there; it goes one place at a time, from its start;   *)
(* a component the reader picks ends it, and is the one explained.          *)
TraceMoves ==
    /\ step' # step => \/ step' \in {{}, {0}}
                       \/ \E s \in step : step' = {s + 1} /\ s + 1 < Len(TRACE)
    /\ traceOn' => step' # {}
    /\ selected' # selected => Detail' = {selected'}
TraceIsFollowable == [][TraceMoves]_systemVars

(* The packet of the state machine moves along a drawn arrow, or back to    *)
(* the door where every scenario starts.                                    *)
PacketFollowsArrows ==
    [][Here' # Here => <<Here, Here'>> \in ARROWS \/ Here' = "door"]_lifeVars

(* The drawing is the engine's arithmetic: the logical blocks hold exactly  *)
(* the tokens in distinct blocks of the pool, the last one is never empty,  *)
(* less than a block is wasted, and the very next token opens a block just  *)
(* when the drawing says that the last one is exactly full.                 *)
TableHoldsTheTokens ==
    /\ FoldLeft(LAMBDA n, i : n + TokensHeld(i), 0, [i \in 1..Blocks |-> i]) = tokens
    /\ Len(Table) = Blocks /\ \A p \in 0..(POOL - 1) : Cardinality(Owner(p)) <= 1
    /\ Tail_ \in 1..bs /\ Wasted \in 0..(bs - 1)
    /\ ExactlyFull <=> tokens + 1 > Blocks * bs
=============================================================================
