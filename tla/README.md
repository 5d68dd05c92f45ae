# LLM-serve in TLA+

LLM-serve is an inference server for GPT-2: a scheduler with continuous batching, a paged KV
cache with preemption, an HTTP front end, a load generator in Go, a performance gate, and a
release pipeline with a canary rollout, explained by a documentation site with interactive
figures. This directory holds its specifications, the TLC
configurations that check them on small instances, and proofs, checked by TLAPS, of what the
core promises for every instance. Paths below are relative to `src/`.

## 1. Inventory

### 1.1 Components of the engine

**Scheduler** (`engine/scheduler.py`, `engine/request.py`). State: the lists `waiting` and
`running`, a counter of admissions, and the fields of each `Request` (tokens, `state`,
`finish_reason`, `admit_seq`, `preempt_count`, `cancelled`). Operations: `submit`, and `step` =
`_retire`, `_admit` (with `_pop_admissible` and `_prefill`), `_decode` (with `_ensure_capacity`,
`_preempt` and `_emit`). It calls the allocator and the model runner, and hands every token to
the request's sink. Only the engine thread runs it, but the handler of a request may set
`req.cancelled` at any moment. Hard: long histories of admission, growth, eviction and
retirement; the index arithmetic of `_ensure_capacity` while it evicts; a client that leaves in
the middle of any of them. Correct when: a request is served in the order it came, gets exactly
its tokens, ends once, is evicted only finitely often, and the thread never dies.

**KV allocators** (`engine/block_manager.py`). State: a stack of free blocks (or slots), the
block table of every request, the dicts `live` and `committed`, both keyed by request id.
Operations: `can_allocate`, `allocate`, `append_slot`, `free`, `fits_ever`, `stats`. Called by
the scheduler; `stats()` is also read from the API thread. Hard: the exact partition of the pool
after any sequence of calls; reservations that are too small show up many steps later. Correct
when: a block belongs to one sequence or is free, none is lost, and a pool that is admitted
against the worst case never runs out.

**HTTP handler** (`engine/api.py`). State: per request an event queue, the status it will
report. Operations: validate, refuse with 413 (`fits_ever`) or 429 (`EngineLoop.submit`), relay
events, cancel in `finally`, count the outcome. Hard: the answer races the client's departure.
Correct when: every request is counted under one status that matches what became of it.

**EngineLoop** (`engine/scheduler.py`). State: inbox, wake and stop events, the thread.
Operations: `submit`, `queue_depth`, `stop`, `_run`. Hard: wake-ups that are lost between `wait`
and `clear`, admission control that reads two counters which a third party moves between,
a thread that dies unnoticed. Correct when: a request that was accepted is picked up, and the
queue stays bounded.

**NaiveScheduler and `ModelRunner.run`** (`engine/scheduler.py`, `engine/model_runner.py`). One
request at a time, with its own rule for the last event. Hard: events sent before the request's
own fields say that it ended. Correct when: exactly one last event per request.

**KV cache and masks** (`engine/cache.py`, `engine/model_runner.py`). State: keys and values per
(block, offset); block tables padded with block 0. Correct when: a row attends exactly to the
positions it wrote itself, whatever its neighbours and the earlier owners of its blocks did.

**Metrics and observability** (`engine/metrics.py`, `engine/observability.py`). State: counters
written by the engine thread, read and reset from the API thread. Correct when: served requests
are counted once, averages come from one period.

**Incremental detokenizer** (`engine/detokenizer.py`). State: token ids and two indices. Correct
when: the pieces add up to the plain decode.

### 1.2 Components around the engine

**Documentation site** (`site-src/`, React). *Simulations* (`Motion.tsx`): static against
continuous batching, contiguous slots against paged blocks; each has a timer, buttons and a
variant for readers who reduce motion. *Charts* (`LineChart.tsx`, `Results.tsx`, `Cpu.tsx`,
`lib/format.ts`, `lib/series.ts`): crosshair, labels, axes, the same data as a table. *Diagrams*
(`SystemDiagram.tsx`, `Lifecycle.tsx`, `KvDiagram.tsx`): a trace through the map, scenarios in a
state machine, a block table to play with. *Frame* (`Sidebar.tsx`, `lib/hooks.ts`,
`theme-init.js`): theme and its storage, drawer, highlight and progress bar. Hard: effects and
observer callbacks that run later than what caused them, timers against buttons, arithmetic at
the edges. Correct when: what is said under a figure is what the figure's data say, and the
figures do what the text around them claims.

**Load generator** (`bench/main.go`, `bench/report.go`): one goroutine per request against a
deadline; every request is to be counted once. **Performance gate** (`scripts/perf_gate.py`):
the order of measurements and the verdict. **Release pipeline** (`.github/workflows`): publish,
drill, canary, performance, promotion of the moving tag `stable`. **Canary analysis and drills**
(`deploy/overlays/canary`, `scripts/*_drill.sh`): failure limits and abort. **Kubernetes
manifests, alert rules, plots, benchmark drivers, the site's text and its generator**:
configuration, sequential scripts and presentation.

`PROJECT.json` lists each with its status, and under `hazards` the places where this code is
hard to test, with the properties that watch them.

### 1.3 How they interact

    handler --Request--> inbox --submit--> waiting --_admit--> batch --_prefill--> running
       ^                                      ^                                      |  |
       |                                      +------------- _preempt ---------------+  |
       +---- events <---- sink(token, done) <---- _emit <---- _decode / _prefill        |
       |                                                                                |
       +---- req.cancelled = True ----> read by the next _retire ----> free, FINISHED <-+

All arrows but those from the handler are taken by the engine thread. The detokenizer belongs to
one handler, the KV pool to the engine thread. The site shares no state with the engine, and its
figures none with each other.

## 2. What is modelled

| module | of the code | kind |
|---|---|---|
| `BlockManager` | `engine/block_manager.py`, both allocators | component; its operations are used by `Scheduler` |
| `Scheduler` | `Scheduler` of `engine/scheduler.py`, `Request`, the cancelling handler | component, composes `BlockManager` (EXTENDS) |
| `RequestLifecycle` | what a client may rely on about one request | abstract specification |
| `EngineLoop` | `EngineLoop` and `NaiveScheduler` of `engine/scheduler.py`, `ModelRunner.run`, the handler of `POST /generate` | composition of the two threads |
| `KVCache` | the pools, `gather`, `write` and `build_mask` of `engine/cache.py`, `step_tokens` | component |
| `Detokenizer` | `engine/detokenizer.py` | component, against the plain decode |
| `SiteSimulations`, `SiteCharts`, `SiteDiagrams`, `SiteShell` | the four parts of the site named above | components |
| `Orders` | a set in an order, the elements of a list at some of its places | operators the site's modules share |
| `MCScheduler`, `MCEngineLoop`, `MCParts`, `MCPagedSim`, `MCCharts` | values of the constants for TLC | model-checking modules |
| `SchedulerProofs` | the allocator's operations; the scheduler's inductive invariant and six properties | proofs |
| `CapacityProofs` | what counts or looks further: batch size, served requests, blocks promised; progress; static batches; the refinement of `RequestLifecycle` | proofs |
| `HandOverProofs` | wake-ups and the hand-over between the threads | proofs |
| `KVCacheProofs` | isolation of rows | proofs |
| `DataLemmas` | induction, folds, ranks, orders and counting | lemmas the next three rest on |
| `DetokenizerProofs` | streamed text | proofs |
| `SimulationProofs` | the two simulations | proofs |
| `SiteProofs` | diagrams, frame and charts | proofs |

### 2.1 `BlockManager`

`free_blocks`, `block_table`, `live` and `committed` are the fields of the same names. `Paged`
chooses the manager: with `Paged = FALSE` an index is a slot, `BlocksNeeded` is 1 and `committed`
stays empty. `ReserveMaxNew` is the constructor's argument. `Allocate`, `AppendSlot` and `Free` are the bodies of the
methods; `AfterPop` and `Popped` are the successive `pop()` calls; `Reversed` is the order in
which `free` pushes blocks back. `append_slot`'s loop is unrolled: one `AppendSlot` per
iteration, `LongEnough` is its exit. `AllocateAsserts` is the assertion in `allocate`; the slot
manager's `pop()` raises under the same condition. `Committed` is `sum(committed.values())`,
written as a difference of two sizes of sets, since a negative `max_new_tokens` can make an entry
negative, so that it can be reasoned about without recursion.

### 2.2 `Scheduler`

`pc` says where the engine thread is inside `step()`: `top` (between two steps), `retire`,
`admit`, `prefill`, `capacity`, `decode`, and `dead` once an exception has ended the thread. Each
loop of the code is cut into one step per iteration, so that a handler's cancellation falls
between any two of them.

| action | code |
|---|---|
| `Submit(r)` | guard `fits_ever` in `generate`, then `Scheduler.submit` |
| `ClientLeaves(r)`, `SetCancelled(r)` | the handler's `finally`: reads `req.finished`, then sets `req.cancelled` |
| `BeginStep` | `_retire` up to the loop that frees |
| `RetireOne(r)`, `RetireDone` | that loop; `completed` is `len(metrics.requests)` |
| `PopAdmissible(r)`, `AllocateFails(r)`, `AdmitDone` | `_pop_admissible` and the limit set by `_admit` |
| `Prefill(S, eos)` | `_prefill` of the whole batch (static) or of one request (continuous), with `_emit` |
| `BeginDecode` | `_decode` up to the call of `_ensure_capacity` |
| `TakeBlock(r)`, `RowSecured(r)`, `RaiseOutOfBlocks(r)`, `Preempt(r, v)`, `CapacityDone` | the loop of `_ensure_capacity` |
| `Decode(eos)` | one forward pass and `_emit` for every row |

Abstractions, each with its reason:

- Token values are dropped. A request counts its tokens; whether the next one is EOS is a free
  choice (`eos`), except for requests with `ignore_eos`.
- `waiting`, `running` and `batch` are sets. The code sorts `waiting` by
  `(-preempt_count, arrival_time)` before its order matters, and keeps the other two in the
  order of `admit_seq`. Two equal readings of `perf_counter` are not modelled. `active` is the
  sorted list of `_ensure_capacity` and `idx` its `i`; `Struck` is `active.pop(vi)` with the index
  moved along.
- `BeginStep` reads all flags at once. The code reads each flag once, and setting the flag of one
  request commutes with reading that of another.
- `Submit` happens between two steps only, because `EngineLoop._run` empties the inbox there. A
  request cancelled while it is still in the inbox behaves as one cancelled right after `submit`:
  the next `_retire` drops it. The inbox itself and the 429 answer are in `EngineLoop`.
- `max_new_tokens` is any integer: the API does not refuse zero or negative values. Section 6
  says what a negative one does.
- `progressed` is a history variable: it records that the current step emitted, retired or
  dropped something.

### 2.3 `RequestLifecycle`

A request is new, waiting, running, done or dropped. It is given one token at a time, at most
`MaxOutput` (at least one), may be sent back to wait and keeps its tokens then, is done with the
token that completes it, and is dropped only after its client has left. `Scheduler` implements it
under the mapping at the end of that module: `Phase` derives the phase from `state`,
`finish_reason` and the lists, `tokens` is `out`, `left` is `cancelled`.

### 2.4 `EngineLoop`

The handlers of `POST /generate` are coroutines of one event loop, so two of them are never inside
`submit()` at once (`Submitting`); between two awaits the engine thread may still run. `epc` is
where the engine thread is, `hpc[r]` where the handler of `r` is.

| action | code |
|---|---|
| `ReadInbox`, `AdmitOrReject`, `Put`, `SetWake` | `EngineLoop.submit` with `queue_depth`, cut at every read or write of shared state |
| `Receive`, `Resume` | the loop over `events.get()`, streaming (a yield per event) or not |
| `Leave` | the client disconnects in `events.get()` or at a yield |
| `CheckFinished`, `Cancel` | the `finally` block, in its two steps |
| `Stop`, `StopWakes` | the end of the lifespan: `EngineLoop.stop` sets `_stop`, then `_wake` |
| `Top`, `GetNowait`, `SubmitHand`, `InboxEmpty`, `Woken`, `TimesOut`, `Clear` | `_run` |
| `RetireAndAdmit`, `Decode`, `Emit`, `Sink`, `StepReturns` | `Scheduler.step` as requests and handlers see it |
| `NaiveStep`, `RunToken`, `RunSink`, `RunEnds`, `Label` | `NaiveScheduler.step`, `ModelRunner.run`, `on_token` |

`backend` chooses the scheduler. For `batched` the module keeps what leaves the scheduler (who is
in which list, tokens, labels, sinks) and lets it admit and evict anyone within `MaxBatch`.
Memory is `Scheduler`'s concern; that it can fail is not: `RetireAndAdmit` may end the thread in
the assertion of `allocate`, with the requests it had taken in no list that anybody serves, and
`Decode` in the RuntimeError of `_ensure_capacity`, before any row has its token. Both are free
choices here, so the invariants hold whether and whenever the thread dies; when it really does is
`DiesOnlyOfBadReservation` of `Scheduler`. No refinement between the two modules is shown (section
5). `hand` is the request between `get_nowait()` and `submit()`, which no list has.
`call_soon_threadsafe` keeps the order, so a token goes straight into `events`. The engine thread
reads the flags of all waiting requests in one step, as in `Scheduler`. Not in the model: parsing
and validation (400, 413), the figures of the log line, `join`'s timeout in `stop`.

### 2.5 `KVCache`

Every key that is written carries a tag: its request, how often that request had been evicted,
its position. `seen` holds, for every query of the last pass, padding included, the keys that the
mask leaves it. `Prefill` and `DecodeStep` choose batches the way `_prefill` and `_decode` do,
`Free` is retirement or eviction and leaves the pool as it is. `Mask` is `build_mask` with both
shortcuts for a single row, `Gathered` pads a short table with block 0, `Written` skips a row's
padding. Blocks are any free ones, which covers every order of the free list. A slot is a block
of the maximal length. One pass stands for twelve layers; `ContiguousKVCache`, `positions()` and
the arithmetic of tensors are left out.

### 2.6 `Detokenizer`

`Push` and `Flush` with the fields `ids`, `prefix`, `read`. A token is a sequence of bytes and a
byte one of six kinds, enough for characters of one, two and three bytes, their cut-off
beginnings, bytes that are never valid and a U+FFFD that the model wrote itself. `Decode` is the
tokenizer's decode (external): UTF-8 with replacement.

### 2.7 The site

`SiteSimulations`: `Tick` and `MemStep` are the pure functions of the same names, `SimStep` the
timer, the buttons, scrolling and the frames drawn under reduced motion. `SiteCharts`: the
crosshair from pointer and keys, the labels' nudging, `niceTicks`, the table, the stall chart and
the rows of the ablation. `SiteDiagrams`: step, hover and selection of the trace, the scenarios'
timer, the block table. `SiteShell`: each React effect is a step of its own between the render
that caused it and the next; the observer of `useScrollSpy` queues an entry when a section's
threshold index changes, and its callback runs later; a scroll asks for one frame of the
progress bar. Colours, geometry, texts and seeded random lengths are left out or constants.
Measurements are natural numbers, ticks are thousandths, logarithms whole decades. A filter or a
sort is written with `Orders`: as a set of places, or a set in an order, put in sequence.

## 3. Runs

Deadlock is not checked: requests, tokens and steps of a run are finite, and when all have ended
the system rightly stops; so do a stopped or dead engine thread and a simulation at `MaxSteps`.

| run | instance | states | shows |
|---|---|---|---|
| `sched_preempt` | paged, optimistic admission, preemption; 5 requests, 7 blocks of 2 tokens, batch 3 | 1.03 M | types, the partition of the pool, who holds memory, decode rows have their block, evictions are paid for by tokens, first admissions in order, the limit of a batch, every pass makes progress |
| `sched_static` | paged, reserved, static batching; 5 requests, two with the same id, 8 blocks of 2, batch 3, one client leaves | 394 k | a batch moves in lockstep; served requests are counted once; the thread dies only of the reservation that the shared id spoilt, and even then no block is shared or lost and decode rows have theirs |
| `sched_live` | `FairSpec`, preemption; 4 requests, 3 blocks of 2, one client leaves | 15 k | every accepted request ends; `Scheduler` implements `RequestLifecycle` |
| `sched_shared_ids_dies` | paged, reserved, continuous; 3 requests, two with the same id | | **violation** of `NeverOverCommits` |
| `sched_negative_starves` | `FairSpec`, preemption, 2 requests, one with a prompt larger than the pool, for -5 tokens; 3 blocks of 2 | | **violation** of `EveryRequestEnds` |
| `engine_loop` | `FairSpec`, both backends; 3 requests for 3, 1 and 0 tokens, queue of 1, batch of 2; one streams, may stop early and may leave; the thread may die in any batched step | 467 k | the queue's bound, nothing lost or held twice, no wake-up lost, each token once, labels before the last token, what kills the naive scheduler; every accepted request is answered unless the thread died first, `stop` ends the thread |
| `naive_cancels` | the same, naive backend | | **violation** of `CancelledOnlyIfClientLeft` |
| `queue_refuses` | the same, queue of 2 | | **violation** of `RefusesOnlyAFullQueue` |
| `parts` | each part that shares no state with the others, one at a time | 85 k | isolation of rows, streamed text, and what the site's figures say |
| `paged_stalls` | the paging simulation with the page's own constants | | **violation** of `PagedSimKeepsWorking` |
| `axis_cuts_off` | the load chart with latencies as published | | **violation** of `NothingAboveTheAxis` |
| `labels_overlap` | the load chart with three systems that end close together, one at a lower rate | | **violation** of `LabelsNeverOverlap` |

The violations are explained in section 6.

**Bounds of the scheduler's runs.** The only bounds are the constants: requests, pool, block size,
context, output lengths, and `MayLeave`, which limits whose client may disconnect. No counter is
cut off: tokens are bounded by `MaxNew`, evictions by tokens. The instances are chosen so that
what they are about happens. In `sched_preempt` the five requests need more blocks than there
are, so rows are evicted, readmitted with longer prompts and evicted again, each at most twice;
the victim stands before, at and after the row that asked; a request finishes with EOS while it
competes; and `r5` needs more than the whole pool, so that `fits_ever` refuses it. A block size of
2 gives both a token that opens a block and one that does not. Seven blocks are what a fourth
row beside three would need, so that there the limit stops it and not the pool. In `sched_static`
`r2` overwrites the reservation of `r1`, another request seems to fit beside them, and the thread
runs out of blocks in `append_slot` or in `allocate`; in other orders of arrival the two ids never
meet and the batch drains. In `sched_live` the pool of three blocks is smaller than any two
requests' needs. No run has slots (`Paged = FALSE`); the invariants above hold for
them by their theorems.

**Bounds of `engine_loop`.** With a queue of 1 and three requests the queue is full, exceeds its
limit by the one request in the thread's hand, and is drained again. Outputs of 3, 1 and 0 tokens
give a stream with a middle, a first token that is also the last, and a request that ends without
one. Two rows in a batch of 2 are evicted with a third waiting. A request for three tokens runs
across several steps, so that the thread must come back to it with nobody waiting.

**Bounds of `parts`.** `focus` names the part that moves; the others stay in an initial state, so
the states add up and do not multiply. `MCParts` gives the simulations every stream of three
lengths up to 3, two slots, a history of three columns that fills and scrolls, and six cells in
two reservations, which run out; `MaxSteps` = 6 goes through a batch twice. The charts
have three systems at three rates with missing, equal and outlying values, so that labels collide.
The block table has the page's own bounds. The highlight is tried with a section taller than the
band (its ratio never reaches the higher thresholds) between two small ones, from ten positions at
either side of each edge, with up to `MaxPending` = 3 entries under way. The KV pool has three
blocks of two tokens for two requests of up to four tokens, each admitted twice (`MaxAdmissions`):
rows of different lengths in one batch, tables that are padded with a neighbour's block, blocks
that come back with a former owner's keys. The detokenizer reads every sequence of up to four
(`MaxTokens`) of eight tokens, two of which end or begin inside a character.

Every property has a mutant of the code (`PROJECT.json`, `mutants`; the definitions marked
`mutant:` in the modules) that violates it under the run's own bounds.

**Fairness.** `Scheduler`'s `FairSpec` assumes weak fairness of `EngineStep` and of nothing else:
`EngineLoop._run` calls `step()` again as long as `has_work()`, and inside `step()` nothing
blocks. `EngineLoop`'s `FairSpec` assumes that the engine thread runs (`LoopStep`) and that the
event loop does: while the handler of some request that was called can go on, one of them does,
and a `stop()` that has set `_stop` goes on to set `_wake` (`StopWakes`).
The latter includes that a client which stays reads what it is sent. No fairness is assumed of
the 50 ms timeout (`TimesOut` is not part of `LoopStep`), so the runs show that the wake event
suffices; none of clients, which may never call and never leave; none of `Stop`.

## 4. Proofs

The scheduler's theorems hold for every finite set of requests, any pool, block size, batch size
and output lengths, negative ones included, static or continuous, with or without preemption,
paged or contiguous. Their assumptions are `BlockManagerAssumption` and `SchedulerAssumption`:
prompts of 1 to `MaxContext` - 1 tokens, which the handler ensures, and what the configuration
does: a positive batch limit and block size, `reserve_max_new = not preemption`.

**Allocator.** `SchedulerProofs` first shows of `Allocate`, `AppendSlot` and `Free` that they keep
the types and `BlocksPartitioned`. All three move a piece between the top of a stack and one
table, so two lemmas carry the argument: pops keep the partition (`PopsKeepsPartition`), returns keep it
(`ReturnsKeepsPartition`).

**The inductive invariant** is

    IInv == TypeOK /\ LinedUp /\ Numbered /\ Places /\ OnlyAdmittedHoldKV /\ BlocksPartitioned

`BlocksPartitioned` is not inductive alone: `Allocate` overwrites the block table, so it loses
blocks unless the request had none, and this is `OnlyAdmittedHoldKV`; that in turn needs to know
that a request is in one place only, in the middle of a step too, which is `Places`: the thread's
lists agree with each request's `state`, rows that are being secured run and are unfinished, and
the lists are empty where `pc` says so. `LinedUp` says that `active` lists nobody twice and that
the index stays inside it, and `Numbered` that admitted requests have numbers of their own, so
that sorting by them keeps every row; striking a victim then takes one row, and the index still
stands behind the rows that were served. `PlacesStep`, `TypeOKStep` and `KVSafeStep` go through
the actions; `IInvHolds` puts them together. From it follow `TypeCorrect`, `PoolPartitioned` and
`AdmittedOnly`. The other theorems strengthen it by one part each:

| theorem | says | added to `IInv` |
|---|---|---|
| `RowsAlwaysCovered` | `RowsCovered` | `SecuredRows`: a row that was served keeps a long enough table while others are evicted |
| `PreemptionsArePaid` | `PreemptionPaid` | `Paid`: an admitted request has strictly more tokens than evictions |
| `NobodyOvertakes` | `FirstAdmissionsInOrder` | `Queue`: arrival numbers grow; whoever was never admitted and not abandoned still waits with no evictions |
| `BatchNeverExceeded` | `BatchBounded` | nothing |
| `ServedExactlyOnce` | `ServedOnce` | the count itself, by the theorems about cardinality |
| `DiesOnlyWhenMisled` | `DiesOnlyOfBadReservation` | `Room` and `Commitments` |

`DiesOnlyWhenMisled` is the deepest. The thread dies only when blocks are reserved and some request
came with a negative `max_new_tokens` or with the id of another. As long as none has, `Commitments` says that the keys of
`committed` are the ids of the admitted requests, each entry is the worst case of its request, no
table is longer than its entry, and the sum is at most `NumBlocks`. `Room` says that an
unfinished row has a token left, so the block it asks for next is within its entry. If the free
list were empty at that moment, `EveryBlockCounted`, a pigeonhole argument, would inject all
blocks into the promised ones but one. Both exceptions are real: section 6.

**Refinement.** `SchedulerImplementsLifecycle` proves that every behaviour of `Scheduler` is one of
`RequestLifecycle` under its mapping. `Clients` adds to `IInv` what the mapping needs: a FINISHED
request has a reason, and only a client that submitted is about to leave. Each action is shown to
be one abstract step or a stutter: `Prefill` and `Decode` are one `Serve` of all their rows,
`BeginStep` is one `Drop` of all departed clients' requests, and freeing what has ended is a
stutter. `StaticBatchesMoveInLockstep` adds `Lockstep`: without preemption nobody who waits has a
token, and a batch is only filled while nobody runs.

**Progress.** `EveryPassProgresses` is `SomeSlot => (Spec => EveryStepProgresses)`. `SomeSlot`, at
least one slot if there are slots, is what `slots_for_budget` ensures; for blocks nothing is
assumed. A pass that neither retires nor emits would have to find nobody admissible with an empty
batch, or evict its last row. The first case contradicts `SomebodyIsAdmissible`: some waiting
request is first (the order is well-founded, `FirstInLine`), `fits_ever` let it in, and the whole
pool is free; only a prompt that `fits_ever` let in for its negative `max_new_tokens` can be too
large still (`NeverFits`), which the property excepts. The second contradicts `TheLastRowStays`: by `AloneInThePool`, a pigeonhole
argument, the last row owns or may take every block of the pool, and it was promised to fit.

**Hand-over.** `HandOverProofs` has the types and `WakeupsAreNotLost`, which is inductive by the
order of the calls: the inbox is filled, and `_stop` set, before the event is, and the event is
cleared before the inbox is drained and `_stop` looked at. The other safety properties of `EngineLoop` rest on one invariant,

    HandOver == TypeOK /\ Rows /\ Places /\ Clients /\ Admission /\ Emission /\ Cancelling
                /\ LastTokenComesLabelled /\ tokens owed to each client

`Rows` ties the thread's position to the rows it holds, `Places` says that the inbox, the hand, the
waiting list, the batch and the rows are disjoint and list nobody twice, `Clients` when a request
is in one of them. `Admission` carries the queue's bound through `submit()`: what a handler has
counted is too small by at most the request in the thread's hand. `Emission` says that nothing
follows a token flagged last, and that the batched schedulers label before they send. From it
follow `QueueIsBounded`, `NothingLostOrDoubled`, `TokensArriveOnce`, `LabelsComeFirst` and
`NaiveDiesOneWay`, for any finite set of requests, any limits and both backends
(`EngineLoopAssumption`), and whenever the thread dies. `NaiveDiesOneWay` is about `NaiveScheduler`
only; the death of the others is `DiesOnlyWhenMisled`'s.

**Isolation.** `KVCacheProofs` proves both properties of `KVCache` for any number of requests,
blocks, block sizes and lengths (`KVAssumption`). The invariant says that no block stands in two
tables or twice in one (`Isolated`), that a table has room for the cached tokens (`Roomy`), and
that each cached token's key is where its table says (`Filled`). A pass keeps it because the
places written belong to the row that writes them; the mask then selects exactly the cached
positions, so block 0, which pads a short table, is gathered but never seen.

**Induction over data.** The library's induction theorems take an operator as parameter, which no
prover here can instantiate. `DataLemmas` states induction for sets instead (`UpTo`: a set that
has 0 and the successor of each of its numbers has them all; `LeastIn`: a set of numbers has a
least), and proves from it what the specifications' data are made of: that the recursive function
inside a fold exists and what it is (`FoldExists`, `FlattenIs`), that a set put in order is listed
once and in that order (`InOrderFacts`, `AscendingFacts`, `AtPlacesFacts`), and counting
(`ImageCount`, `DisjointCount`). That is what the following theorems needed.

**Streamed text.** `DetokenizerProofs` proves `StreamedTextIsTheText` and `NothingHeldButATail` for
every vocabulary of non-empty tokens and every stream. The point is that decoding in pieces is
decoding: if a text ends in a whole character, what is decoded after it does not depend on it.
The invariant, `DetokInv`, says that until the flush `prefix` and `read` only ever stand where the
decoder wants no more bytes, that `sent` is the decode of what was read, and that a text that ends
in a whole character has been read to its end.

**Simulations.** `SimulationProofs` proves the three properties for any number of slots, cells and
columns, and any streams of positive lengths (`SimulationAssumption`, `OrderAssumption`: the order
in which paged cells are taken lists every cell once). `LanesInv` compares the two lanes not by
their slots but by the work they have done: `Worked` is the set of the (request, token) pairs a
lane has served, and `Ahead` says that continuous batching has started and served whatever static
batching has. `Rows` gives the lengths of the history's rows, and `HistInv` counts the busy cells
in them while nothing has left the picture. `GridsInv` is about memory: every listed cell bears
its request's id and says whether a token is in it, no cell is listed twice, unlisted cells are
free. `SweptKept`, `AdmittedKept` and `GrewKept` carry it through the three parts of `memStep`;
the figures under the picture are then counts of the same cells (`TokensSum`, `CellsListed`).

**Diagrams and frame.** `SiteProofs` proves the two action properties of the diagrams, the block
table for every pool, block size and number of tokens (`TableHolds`), and the two properties of the
frame. `EffectsInv` says for each effect that is not due that its consequences are there.
`SpyInv` is needed because the observer's entries are read late: a section is on the band
according to the last entry about it that is still under way, or, if there is none, according to
`visible`; this is what agrees with the threshold index of the last frame.

**Charts.** `ReadoutsAlwaysRight`, `LabelsApartInARow` and `AxisAlwaysCovers` hold for all data with
positive figures up to `MaxFigure`, which is what the model's magnitudes of `niceTicks` are enough
for, ascending rates, and stall series sorted by time, as `build_site.py:79` writes them
(`ChartsAssumption`). The figure at a rate is found through the places of the figures that are
not null (`PointsFacts`); two stall series with the same windows have them at the same places, since
a window's place is its rank (`SamePlaces`), so both figures of the hover come from one window; the
labels are a fold each of whose steps keeps `Apart`, which is about labels at one place with none of
another place between them (for the others see section 6); and the step of the ticks covers because ten
times the greatest magnitude that is not too large is large enough (`StepCovers`).

**Model-checked only.** `EveryRequestEnds`, `EveryRequestAnswered` and `StopEndsTheThread` are liveness
under fairness, beyond this prover. Every invariant and action property of a passing run is proved
as well. What the seven violations show is a counterexample and needs no more than its run.

## 5. Plan

Done, in this order: `BlockManager`, `Scheduler` and `RequestLifecycle` with their proofs;
`EngineLoop` with the handler and `NaiveScheduler`; `KVCache`; `Detokenizer`; the site; the proofs
about the hand-over, the KV cache, the refinement and progress; the proofs about the detokenizer
and the site.

Left, the most useful first:

1. The composition of `EngineLoop`'s batched backend with `Scheduler` as a refinement: each
   `step()` of `Scheduler` seen as `RetireAndAdmit`, `Decode` and `Emit`. It needs a mapping of
   the rows between two emissions, and would let `EngineLoop`'s theorems speak of real memory.
2. What can be said about progress without fairness: that a request which is passed over has a
   bounded number of others ahead of it, which is what the fairness of the engine thread turns
   into `EveryRequestEnds`.
3. `EngineMetrics`: `record_step` assignment by assignment against `reset` and `summary` from the
   API thread; `percentile` against its definition.
4. `LoadGen`: goroutines, deadline and report. Property: outcomes add up, no request is counted
   twice.
5. `Release` and `Canary`: pipeline runs, concurrency groups and the tag `stable`; limits and
   abort of a rollout. `PerfGate`: the order of runs and the verdict.

## 6. Findings

**Request ids are not unique** (`sched_shared_ids_dies`). `committed` and `live` are keyed by
`request_id`, and `api.py:126` takes the id from `X-Request-ID`. Two admitted requests with the
same id share one reservation: the second overwrites the first, and freeing one withdraws the
other's. Admission then passes when the worst case no longer fits, and the engine thread ends in
the `RuntimeError` of `scheduler.py:154` or the assertion of `block_manager.py:88`, while
`block_manager.py:63-64` says "it must never over-commit". `sched_static`, where two ids collide
as well, shows the limit of the damage: no block is ever shared or lost. `PoolPartitioned` proves
it for any ids.

**A negative `max_new_tokens` can block the queue** (`sched_negative_starves`). Nobody checks its sign
(`api.py:130-133`). `fits_ever` (`block_manager.py:76`) lets in a
prompt that is larger than the pool if `max_new_tokens` is negative enough. It waits at the head
of the queue, where `_pop_admissible` stops, so nobody behind it is ever admitted, while the thread
spins. The docstring (`block_manager.py:74-75`) promises "False if the request could not complete even
with the whole pool to itself". `EveryPassProgresses` proves that nothing else makes a pass idle.
The same sign can end the engine thread where blocks are reserved: `can_allocate`
(`block_manager.py:81`) then promises less than the prompt takes at once, and a request that was
promised its worst case finds no block. No run of its own shows this; it is the other exception of
`DiesOnlyOfBadReservation`, and `DiesOnlyWhenMisled` proves that a shared id and a negative number
are the only two ways, and that with slots or preemption there is none.

**The naive scheduler cancels what was read to the end** (`naive_cancels`). `NaiveScheduler` sends
the last token from inside `runner.run` (`scheduler.py:216-221`), before the request has a finish
time and a reason. A handler that is quick enough finds `req.finished` false, sets
`req.cancelled` and counts the request as cancelled, which its comment reserves for "Client went
away" (`api.py:182-183`). For the batched scheduler `LabelsComeFirst` proves that this cannot happen.

**A queue that is not full can refuse** (`queue_refuses`). `queue_depth()` (`scheduler.py:296-297`) adds
two lengths read at different times, and a request that moves from the inbox to `waiting` in
between counts twice. `docs/01-architecture.md:282` refuses "when the queue reaches `max_queue`".
The error in the other direction is bounded: `QueueIsBounded` proves at most one request too many.

**The paging simulation freezes** (`paged_stalls`). The admission loop of `memStep` asks for four free
cells (`Motion.tsx:203`), but admitting takes none, so each step that finds four fills all twelve
places. With the page's seeded lengths two short requests end in the fourth and the fifth step and
are replaced at once; the sixth step hands out the last free cells while everyone still needs
more, and the seventh and all later ones change nothing. `MemoryAccountedFor` holds throughout:
the figures shown are right.

**The logarithmic axis ends below its data** (`axis_cuts_off`). `LineChart.tsx:69` keeps the ticks up
to one and a half times the largest value, which drops the one that would cover it; with the published
latencies of up to 43 s the axis ends at 10 s and the rest is drawn above the plot. For linear axes
`AxisCoversTheData` holds.

**Labels can overlap** (`labels_overlap`). `LineChart.tsx:118` compares a label only with the one next
above it, and only if both stand at the same place, so a label of a line that ends earlier keeps
the two around it from being compared. The comment (`LineChart.tsx:106`) says "nudged apart so they
never overlap". The data of the run are made up; the published ones do not contain the case.
Otherwise the labels are apart: `LabelsApartUnlessParted`.

## 7. Not modelled

Within modelled parts: the arithmetic of the model and the tensors; wall-clock times other than
the order of arrival; `slots_for_budget` and `blocks_for_budget` (their result is `NumBlocks`);
validation in the handler beyond `fits_ever`; `ContiguousKVCache` and `positions()`; the site's
geometry and colours, the point mode and annotations of `LineChart`, the second chart of Load with
its budget line, and a page that grows without being scrolled (opening a row leaves the progress
bar where it was until the next scroll).

Components with status `not_modelled`: the load generator, the performance gate, the release
pipeline and the canary, for the plan; the engine facade, observability, benchmark drivers, plots,
the site's text, generator and preview server, which hold no state that anything depends on; and
manifests and alert rules, which configure controllers that are not in the repository.

Hazards without a property, and why: `metrics.py:75` (a reset while a step is being recorded: the
figures are read by people only); `block_manager.py:113` (a dict summed while it changes: what the
interpreter does then is not this code's); `bench/main.go:164`, `release.yml:185`,
`rollout_drill.sh:50` (their components are not modelled yet).
