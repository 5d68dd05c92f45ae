-------------------------- MODULE SiteSimulations --------------------------
(***************************************************************************)
(* The two simulations of site-src/src/components/Motion.tsx: BatchingSim  *)
(* runs static and continuous batching side by side on one stream of       *)
(* requests, PagedSim contiguous slots and paged blocks on one stream of   *)
(* final lengths.  A timer (useTicker) advances a simulation while it is   *)
(* playing, on screen and motion is not reduced; buttons play, step and    *)
(* restart it.  With reduced motion a simulation is mounted after a fixed  *)
(* number of frames, paused.                                               *)
(*                                                                         *)
(* Abstractions: the seeded lengths are any member of Streams and Finals;  *)
(* colours, shades and geometry are left out; an empty slot has left = 0,  *)
(* an empty cell id = -1.                                                  *)
(***************************************************************************)
EXTENDS Integers, SequencesExt, Orders

CONSTANTS
    SLOTS, COLS,        \* slots of a lane, steps its history shows
    CELLS, RESERVE,     \* cells of memory, cells a contiguous request reserves
    MAXREQS, MINFREE,   \* memStep's 12 and 4
    ORDER,              \* the order in which paged cells are taken
    Streams, Finals,    \* the streams of lengths a run explores, as sequences
    BatchFrames, MemFrames,  \* frames shown at once under reduced motion
    MaxSteps            \* bounds the steps of a simulation, for TLC

ASSUME SimulationAssumption ==
    /\ {SLOTS, COLS, CELLS, RESERVE, MAXREQS, MINFREE} \subseteq Nat \ {0}
    /\ CELLS % RESERVE = 0
    /\ \A s \in Streams \cup Finals : s # <<>> /\ \A i \in DOMAIN s : s[i] \in Nat \ {0}
    /\ \A s \in Finals : \A i \in DOMAIN s : s[i] <= RESERVE
    /\ {BatchFrames, MemFrames} \subseteq 0..MaxSteps

ASSUME OrderAssumption ==    \* every cell, once
    ORDER \in Seq(0..(CELLS - 1)) /\ IsInjective(ORDER) /\ ToSet(ORDER) = 0..(CELLS - 1)

VARIABLES
    stream, final,      \* STREAM and FINAL
    batching,           \* BatchingSim's sims: [static |-> ., continuous |-> .]
    memory,             \* PagedSim's sims: [contiguous |-> ., paged |-> .]
    controls,           \* [playing, speed, inView] of each of the two
    reduce,             \* useReducedMotion()
    frames              \* what the effect under reduced motion has still to draw

simVars == <<stream, final, batching, memory, controls, reduce, frames>>

Slot == 1..SLOTS
Cell == 0..(CELLS - 1)
At(s, id) == s[(id % Len(s)) + 1]

-----------------------------------------------------------------------------
(* BatchingSim.                                                             *)
FreshBatch == [slots |-> [i \in Slot |-> [id |-> -1, left |-> 0]],
               hist |-> [i \in Slot |-> <<>>],
               next |-> 0, done |-> 0, busy |-> 0, steps |-> 0]

(* Static: admit only when every slot is empty.  Continuous: refill every   *)
(* free slot now.  Slots are filled from the first, in the stream's order.  *)
RefillsSwapped(empty, mode) == mode = "static" \/ empty = Slot    \* mutant: modes swapped
Refills(empty, mode) == mode = "continuous" \/ empty = Slot

Refilled(s, mode) ==
    LET empty == {i \in Slot : s.slots[i].left = 0}
        id(i) == s.next + Cardinality({j \in empty : j < i})
    IN  IF Refills(empty, mode)
        THEN [s EXCEPT !.next = @ + Cardinality(empty),
                       !.slots = [i \in Slot |-> IF i \in empty
                                                 THEN [id |-> id(i), left |-> At(stream, id(i))]
                                                 ELSE s.slots[i]]]
        ELSE s

(* h.slice(h.length - COLS + 1) makes room for one more cell.               *)
PushedShort(h, cell) ==    \* mutant: slices one too many
    Append(IF Len(h) >= COLS THEN SubSeq(h, Len(h) - COLS + 3, Len(h)) ELSE h, cell)
Pushed(h, cell) ==
    Append(IF Len(h) >= COLS THEN SubSeq(h, Len(h) - COLS + 2, Len(h)) ELSE h, cell)

Tick(s0, mode) ==
    LET s == Refilled(s0, mode)
        active == {i \in Slot : s.slots[i].left > 0}
        cell(i) == IF i \in active THEN [id |-> s.slots[i].id, idle |-> FALSE]
                   ELSE [id |-> -1, idle |-> active # {}]
    IN  [slots |-> [i \in Slot |-> IF i \in active THEN [s.slots[i] EXCEPT !.left = @ - 1]
                                   ELSE s.slots[i]],
         hist  |-> [i \in Slot |-> Pushed(s.hist[i], cell(i))],
         next  |-> s.next,
         done  |-> s.done + Cardinality({i \in active : s.slots[i].left = 1}),
         busy  |-> s.busy + Cardinality(active),
         steps |-> s.steps + 1]

TickBoth(b) == [static |-> Tick(b.static, "static"),
                continuous |-> Tick(b.continuous, "continuous")]
FreshLanes == [static |-> FreshBatch, continuous |-> FreshBatch]

(* What a lane says under its picture; utilisation is busy / capacity.      *)
Lane(s) == [busyNow |-> Cardinality({i \in Slot : s.slots[i].left > 0}),
            idleNow |-> Cardinality({i \in Slot : s.hist[i] # <<>> /\ Last(s.hist[i]).idle}),
            finished |-> s.done,
            busy |-> s.busy, capacity |-> s.steps * SLOTS]

-----------------------------------------------------------------------------
(* PagedSim.                                                                *)
FreshMem == [cells |-> [c \in Cell |-> [id |-> -1, used |-> FALSE]],
             reqs |-> <<>>, next |-> 0, finished |-> 0, steps |-> 0]

FreeCells(s) == AtPlaces(ORDER, {i \in DOMAIN ORDER : s.cells[ORDER[i]].id = -1})
Run(start) == [k \in 1..RESERVE |-> start + k - 1]
FreeRunsOverlapping(s) ==    \* mutant: any start, as [0, 16, 32] would be for a longer reservation
    Ascending({start \in 0..(CELLS - RESERVE) :
                   \A k \in 1..RESERVE : s.cells[Run(start)[k]].id = -1})
FreeRuns(s) ==
    Ascending({start \in Cell : start % RESERVE = 0
                                /\ \A k \in 1..RESERVE : s.cells[Run(start)[k]].id = -1})

(* The admission loop.  A contiguous request takes a free run of cells;     *)
(* paged admission takes none, so its condition is the same on every turn.  *)
Admitted(s, mode) ==
    LET room == MAXREQS - Len(s.reqs)
        n == IF mode = "contiguous"
             THEN (IF Len(FreeRuns(s)) < room THEN Len(FreeRuns(s)) ELSE room)
             ELSE (IF Len(FreeCells(s)) >= MINFREE THEN room ELSE 0)
        new(k) == [id |-> s.next + k - 1, final |-> At(final, s.next + k - 1), tokens |-> 0,
                   cells |-> IF mode = "contiguous" THEN Run(FreeRuns(s)[k]) ELSE <<>>]
        owner(c) == {k \in 1..n : c \in ToSet(new(k).cells)}
    IN  [s EXCEPT !.next = @ + n,
                  !.reqs = @ \o [k \in 1..n |-> new(k)],
                  !.cells = [c \in Cell |-> IF owner(c) = {} THEN s.cells[c]
                                            ELSE [id |-> new(CHOOSE k \in owner(c) : TRUE).id,
                                                  used |-> FALSE]]]

(* reqs.map: the requests take a token in turn, in its place in the run or  *)
(* in the first free cell; a paged request that finds none waits.           *)
Grown(s, mode) ==
    LET free == FreeCells(s)
        takes(i) == mode = "contiguous" \/ i <= Len(free)
        place(i) == IF mode = "contiguous" THEN s.reqs[i].cells[s.reqs[i].tokens + 1] ELSE free[i]
        taker(c) == {i \in DOMAIN s.reqs : takes(i) /\ place(i) = c}
        grow(i) == [s.reqs[i] EXCEPT !.tokens = IF takes(i) THEN @ + 1 ELSE @,
                                     !.cells = IF mode = "paged" /\ takes(i)
                                               THEN Append(@, free[i]) ELSE @]
    IN  [s EXCEPT !.reqs = [i \in DOMAIN s.reqs |-> grow(i)],
                  !.cells = [c \in Cell |-> IF taker(c) = {} THEN s.cells[c]
                                            ELSE [id |-> s.reqs[CHOOSE i \in taker(c) : TRUE].id,
                                                  used |-> TRUE]]]

Over(reqs) == {i \in DOMAIN reqs : reqs[i].tokens >= reqs[i].final}

MemStep(s0, mode) ==
    LET s == Grown(Admitted(s0, mode), mode)
        over == Over(s.reqs)
        freed == UNION {ToSet(s.reqs[i].cells) : i \in over}
    IN  [s EXCEPT !.cells = [c \in Cell |-> IF c \in freed THEN [id |-> -1, used |-> FALSE]
                                            ELSE s.cells[c]],
                  !.reqs = AtPlaces(@, DOMAIN @ \ over),
                  !.finished = @ + Cardinality(over),
                  !.steps = @ + 1]

StepBoth(m) == [contiguous |-> MemStep(m.contiguous, "contiguous"),
                paged |-> MemStep(m.paged, "paged")]
FreshGrids == [contiguous |-> FreshMem, paged |-> FreshMem]

(* What a grid says under its picture; efficiency is used / alloc.          *)
Grid(s) == [running |-> Len(s.reqs),
            used |-> Cardinality({c \in Cell : s.cells[c].used}),
            alloc |-> Cardinality({c \in Cell : s.cells[c].id # -1})]

-----------------------------------------------------------------------------
(* The components: a simulation, its controls and its timer.                *)
Sims == {"batching", "paging"}

SimInit ==
    /\ stream \in Streams /\ final \in Finals
    /\ reduce \in BOOLEAN
    /\ batching = FreshLanes
    /\ memory = FreshGrids
    /\ controls = [w \in Sims |-> [playing |-> TRUE, speed |-> 1, inView |-> FALSE]]
    /\ frames = [w \in Sims |-> IF ~reduce THEN 0
                                ELSE IF w = "batching" THEN BatchFrames ELSE MemFrames]

StepsOf(w) == IF w = "batching" THEN batching.static.steps ELSE memory.paged.steps

Advance(w) ==
    /\ StepsOf(w) < MaxSteps
    /\ batching' = IF w = "batching" THEN TickBoth(batching) ELSE batching
    /\ memory' = IF w = "paging" THEN StepBoth(memory) ELSE memory

Active(w) == controls[w].playing /\ controls[w].inView /\ ~reduce

(* The effect under reduced motion: its frames, one by one, then a pause.   *)
DrawFrame(w) ==
    /\ frames[w] > 0
    /\ Advance(w)
    /\ frames' = [frames EXCEPT ![w] = @ - 1]
    /\ controls' = IF frames[w] = 1 THEN [controls EXCEPT ![w].playing = FALSE] ELSE controls
    /\ UNCHANGED <<stream, final, reduce>>

TimerFires(w) ==
    /\ Active(w) /\ Advance(w)
    /\ UNCHANGED <<stream, final, controls, reduce, frames>>

PlayOrPause(w) ==
    /\ controls' = [controls EXCEPT ![w].playing = ~@]
    /\ UNCHANGED <<stream, final, batching, memory, reduce, frames>>

StepButton(w) ==
    /\ controls' = [controls EXCEPT ![w].playing = FALSE]
    /\ Advance(w)
    /\ UNCHANGED <<stream, final, reduce, frames>>

Restart(w) ==
    /\ batching' = IF w = "batching" THEN FreshLanes ELSE batching
    /\ memory' = IF w = "paging" THEN FreshGrids ELSE memory
    /\ UNCHANGED <<stream, final, controls, reduce, frames>>

SetSpeed(w) ==
    /\ \E v \in {1, 2, 4} : controls' = [controls EXCEPT ![w].speed = v]
    /\ UNCHANGED <<stream, final, batching, memory, reduce, frames>>

Scroll(w) ==
    /\ controls' = [controls EXCEPT ![w].inView = ~@]
    /\ UNCHANGED <<stream, final, batching, memory, reduce, frames>>

SimStep(w) ==
    \/ DrawFrame(w)
    \/ /\ frames[w] = 0
       /\ \/ TimerFires(w) \/ PlayOrPause(w) \/ StepButton(w)
          \/ Restart(w) \/ SetSpeed(w) \/ Scroll(w)
SimNext == \E w \in Sims : SimStep(w)

SimSpec == SimInit /\ [][SimNext]_simVars

-----------------------------------------------------------------------------
(* Properties.                                                              *)

(* What the page's batching picture is there to show: at every step, on any *)
(* stream, continuous batching has started and finished at least as many    *)
(* requests as static batching and kept at least as many slot-steps busy.   *)
ContinuousNeverBehind ==
    LET s == Lane(batching.static)
        c == Lane(batching.continuous)
    IN  /\ batching.static.steps = batching.continuous.steps
        /\ s.finished <= c.finished /\ s.busy <= c.busy /\ c.busy <= c.capacity
        /\ batching.static.next <= batching.continuous.next

(* The history of a lane: its rows show the same steps, as many as there    *)
(* were up to COLS, and their coloured cells add up to the busy count.      *)
LaneShowsTheRun ==
    \A s \in {batching.static, batching.continuous} :
        /\ \A i \in Slot : Len(s.hist[i]) = IF s.steps < COLS THEN s.steps ELSE COLS
        /\ s.steps <= COLS =>
               s.busy = Cardinality({ij \in Slot \X (1..s.steps) : s.hist[ij[1]][ij[2]].id # -1})

(* Memory: a cell has an owner exactly when a running request lists it, and *)
(* then one; the cells in use are the requests' tokens; a contiguous        *)
(* request holds its whole reservation and paging leaves no cell reserved   *)
(* and empty; no request is lost between admission and its end.             *)
MemoryAccountedFor ==
    /\ \A s \in {memory.contiguous, memory.paged} :
         /\ \A c \in Cell :
                {s.reqs[i].id : i \in {j \in DOMAIN s.reqs : c \in ToSet(s.reqs[j].cells)}}
                  = IF s.cells[c].id = -1 THEN {} ELSE {s.cells[c].id}
         /\ Grid(s).used = FoldLeft(LAMBDA n, r : n + r.tokens, 0, s.reqs)
         /\ s.finished + Grid(s).running = s.next
    /\ Grid(memory.paged).alloc = Grid(memory.paged).used
    /\ Grid(memory.contiguous).alloc = RESERVE * Grid(memory.contiguous).running

(* "Simplified simulations so you can watch them work" (the introduction of *)
(* the section): a step of the paged simulation that has requests running   *)
(* gives one of them a token, or finishes one.                              *)
PagedSimKeepsWorking ==
    [][memory'.paged.steps > memory.paged.steps =>
           \/ memory'.paged.finished > memory.paged.finished
           \/ memory'.paged.reqs # memory.paged.reqs]_simVars
=============================================================================
