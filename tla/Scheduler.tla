----------------------------- MODULE Scheduler -----------------------------
(***************************************************************************)
(* The scheduler of src/engine/scheduler.py: submit, and step() = _retire, *)
(* _admit, _decode, run by the engine thread, with the allocators of       *)
(* BlockManager.  The engine thread is cut into the steps of its loops     *)
(* (one request retired, admitted, prefilled, given a block or evicted at  *)
(* a time); the only other actor is the HTTP handler of a request, which   *)
(* may set req.cancelled between any two of them.                          *)
(*                                                                         *)
(* Abstractions.  Token values are left out: a request counts its tokens,  *)
(* and whether a token is EOS is a free choice.  `waiting` is a set: the   *)
(* list is sorted by (-preempt_count, arrival_time) before its order is    *)
(* used.  `running` and `batch` are sets: these lists are always in the    *)
(* order of admit_seq.                                                     *)
(***************************************************************************)
EXTENDS BlockManager, SequencesExt, Orders

CONSTANTS
    Prompt,         \* len(req.prompt_token_ids)
    MaxNewTokens,   \* max_new_tokens, as the client asks for it; nobody checks its sign
    IgnoreEos,      \* the requests with ignore_eos
    MayLeave,       \* the requests whose client may disconnect (bounds TLC's runs)
    MaxBatch,       \* cfg.max_batch
    Static,         \* cfg.batching = "static"
    Preemption      \* cfg.preemption

ASSUME SchedulerAssumption ==
    /\ Prompt \in [Req -> Nat \ {0}]
    /\ MaxNewTokens \in [Req -> Int]
    /\ \A r \in Req : Prompt[r] < MaxContext
    /\ IgnoreEos \subseteq Req
    /\ MayLeave \subseteq Req
    /\ MaxBatch \in Nat \ {0}
    /\ Static \in BOOLEAN
    /\ Preemption \in BOOLEAN
    /\ ReserveMaxNew = ~Preemption

VARIABLES
    pc,             \* where the engine thread is
    waiting, running,
    state,          \* req.state; "NEW" until submit
    out,            \* len(req.output_token_ids)
    finish_reason,  \* "none" is None
    arrival,        \* the order of arrival_time
    admit_seq, admit_counter,
    preempt_count,
    leaving,        \* handlers that saw req.finished = False and go on to cancel
    cancelled,      \* the requests with req.cancelled
    batch,          \* _pop_admissible's batch, what _prefill has still to do
    active,         \* _ensure_capacity's active, then the decode batch
    idx,            \* _ensure_capacity's i: how many of them got their block
    completed,      \* len(metrics.requests)
    progressed      \* history: this step() emitted, retired or dropped something

request == <<state, out, finish_reason, arrival, admit_seq, admit_counter, preempt_count>>
client  == <<leaving, cancelled>>
row     == <<active, idx>>
vars == <<kv, pc, waiting, running, request, client, batch, row, completed, progressed>>

TypeOK ==
    /\ KVTypeOK
    /\ pc \in {"top", "retire", "admit", "prefill", "capacity", "decode", "dead"}
    /\ waiting \subseteq Req /\ running \subseteq Req
    /\ state \in [Req -> {"NEW", "WAITING", "RUNNING", "FINISHED"}]
    /\ out \in [Req -> Nat]
    /\ finish_reason \in [Req -> {"none", "length", "stop", "cancelled"}]
    /\ arrival \in [Req -> Nat]
    /\ admit_seq \in [Req -> Nat \cup {-1}]
    /\ admit_counter \in Nat
    /\ preempt_count \in [Req -> Nat]
    /\ leaving \subseteq Req /\ cancelled \subseteq Req
    /\ batch \subseteq Req
    /\ active \in Seq(Req) /\ idx \in Nat
    /\ completed \in Nat
    /\ progressed \in BOOLEAN

Init ==
    /\ KVInit
    /\ pc = "top"
    /\ waiting = {} /\ running = {}
    /\ state = [r \in Req |-> "NEW"]
    /\ out = [r \in Req |-> 0]
    /\ finish_reason = [r \in Req |-> "none"]
    /\ arrival = [r \in Req |-> 0]
    /\ admit_seq = [r \in Req |-> -1]
    /\ admit_counter = 0
    /\ preempt_count = [r \in Req |-> 0]
    /\ leaving = {} /\ cancelled = {}
    /\ batch = {} /\ active = <<>> /\ idx = 0
    /\ completed = 0
    /\ progressed = FALSE

-----------------------------------------------------------------------------
(* The request's own numbers. *)
SeqLen(r) == Prompt[r] + out[r]
Finished(r) == finish_reason[r] # "none"

(* submit() caps max_new_tokens; the handler computes the same eff_max. *)
MaxNew(r) == IF MaxNewTokens[r] <= MaxContext - Prompt[r]
             THEN MaxNewTokens[r] ELSE MaxContext - Prompt[r]
Worst(r) == Prompt[r] + MaxNew(r)

Oldest(S) == CHOOSE r \in S : \A q \in S : admit_seq[r] <= admit_seq[q]

(* sorted(..., key = admit_seq), and what is in active and in active[:i].   *)
Older == {qr \in Req \X Req : admit_seq[qr[1]] < admit_seq[qr[2]]}
Rows == ToSet(active)
Secured == {active[k] : k \in {k \in DOMAIN active : k <= idx}}

(* The request reaches the scheduler: POST /generate answers 413 to one     *)
(* that could never fit, and the others go through the inbox to submit().   *)
Submit(r) ==
    /\ pc = "top"
    /\ state[r] = "NEW"
    /\ FitsEver(Worst(r))
    /\ state' = [state EXCEPT ![r] = "WAITING"]
    /\ waiting' = waiting \cup {r}
    /\ arrival' = [arrival EXCEPT ![r] = Cardinality({q \in Req : state[q] # "NEW"})]
    /\ UNCHANGED <<kv, pc, running, out, finish_reason, admit_seq, admit_counter,
                   preempt_count, client, batch, row, completed, progressed>>

(* The handler's finally: `if not req.finished: req.cancelled = True`, two  *)
(* steps of another thread, between which the request may finish.           *)
ClientLeaves(r) ==
    /\ r \in MayLeave \ (leaving \cup cancelled)
    /\ state[r] # "NEW"
    /\ ~Finished(r)
    /\ leaving' = leaving \cup {r}
    /\ UNCHANGED <<kv, pc, waiting, running, request, cancelled, batch, row, completed, progressed>>

SetCancelled(r) ==
    /\ r \in leaving
    /\ leaving' = leaving \ {r}
    /\ cancelled' = cancelled \cup {r}
    /\ UNCHANGED <<kv, pc, waiting, running, request, batch, row, completed, progressed>>

-----------------------------------------------------------------------------
(* _retire: the comprehension over waiting and the loop that marks running  *)
(* requests read each request's flag once, so they are one step ...         *)
BeginStep ==
    /\ pc = "top"
    /\ waiting \cup running # {}
    /\ waiting' = waiting \ cancelled
    /\ finish_reason' = [r \in Req |-> IF r \in running \cap cancelled /\ ~Finished(r)
                                       THEN "cancelled" ELSE finish_reason[r]]
    /\ progressed' = (waiting \cap cancelled # {})
    /\ pc' = "retire"
    /\ UNCHANGED <<kv, running, state, out, arrival, admit_seq, admit_counter, preempt_count,
                   client, batch, row, completed>>

Done == {r \in running : Finished(r)}

(* ... and every finished request is then freed, in its turn; abandoned     *)
(* work is not recorded.                                                    *)
ServedUnlessFlagged(r) == r \notin cancelled    \* mutant: asks the flag, not the reason
Served(r) == finish_reason[r] # "cancelled"

RetireOne(r) ==
    /\ pc = "retire"
    /\ r \in Done /\ r = Oldest(Done)
    /\ Free(r)
    /\ running' = running \ {r}
    /\ state' = [state EXCEPT ![r] = "FINISHED"]
    /\ completed' = IF Served(r) THEN completed + 1 ELSE completed
    /\ progressed' = TRUE
    /\ UNCHANGED <<pc, waiting, out, finish_reason, arrival, admit_seq, admit_counter,
                   preempt_count, client, batch, row>>

RetireDone ==
    /\ pc = "retire"
    /\ Done = {}
    /\ pc' = "admit"
    /\ UNCHANGED <<kv, waiting, running, request, client, batch, row, completed, progressed>>

-----------------------------------------------------------------------------
(* _admit and _pop_admissible. *)
LimitAlways == MaxBatch    \* mutant: whoever runs
Limit == CASE Static /\ running # {} -> 0
           [] Static /\ running = {} -> MaxBatch
           [] OTHER -> MaxBatch - Cardinality(running)

(* The sort key (-preempt_count, arrival_time). *)
Before(q, r) == \/ preempt_count[q] > preempt_count[r]
                \/ preempt_count[q] = preempt_count[r] /\ arrival[q] < arrival[r]

AdmissibleAnyFit(r) ==    \* mutant: looks past a request that does not fit
    /\ r \in waiting
    /\ Cardinality(batch) < Limit
    /\ CanAllocate(SeqLen(r), Worst(r), Cardinality(running) + Cardinality(batch))

Admissible(r) ==
    /\ r \in waiting
    /\ \A q \in waiting \ {r} : Before(r, q)
    /\ Cardinality(batch) < Limit
    /\ CanAllocate(SeqLen(r), Worst(r), Cardinality(running) + Cardinality(batch))

PopAdmissible(r) ==
    /\ pc = "admit"
    /\ Admissible(r)
    /\ AllocateAsserts(SeqLen(r))
    /\ Allocate(r, SeqLen(r), Worst(r))
    /\ waiting' = waiting \ {r}
    /\ admit_seq' = [admit_seq EXCEPT ![r] = admit_counter]
    /\ admit_counter' = admit_counter + 1
    /\ batch' = batch \cup {r}
    /\ UNCHANGED <<pc, running, state, out, finish_reason, arrival, preempt_count,
                   client, row, completed, progressed>>

(* The assertion of allocate() fails: the exception ends the engine thread. *)
AllocateFails(r) ==
    /\ pc = "admit"
    /\ Admissible(r)
    /\ ~AllocateAsserts(SeqLen(r))
    /\ pc' = "dead"
    /\ UNCHANGED <<kv, waiting, running, request, client, batch, row, completed, progressed>>

AdmitDone ==
    /\ pc = "admit"
    /\ \A r \in waiting : ~Admissible(r)
    /\ pc' = "prefill"
    /\ UNCHANGED <<kv, waiting, running, request, client, batch, row, completed, progressed>>

(* _emit for every row of one forward pass; `eos` are the rows whose token  *)
(* is EOS_TOKEN_ID.                                                         *)
Emit(S, eos) ==
    /\ out' = [r \in Req |-> IF r \in S THEN out[r] + 1 ELSE out[r]]
    /\ finish_reason' =
         [r \in Req |-> IF r \in S /\ out[r] + 1 >= MaxNew(r) THEN "length"
                        ELSE IF r \in S \cap eos THEN "stop"
                        ELSE finish_reason[r]]
    /\ progressed' = TRUE

(* _prefill: the whole batch in one pass (static), or one pass per request. *)
Prefill(S, eos) ==
    /\ pc = "prefill"
    /\ batch # {}
    /\ S = IF Static THEN batch ELSE {Oldest(batch)}
    /\ eos \subseteq S \ IgnoreEos
    /\ Emit(S, eos)
    /\ state' = [r \in Req |-> IF r \in S THEN "RUNNING" ELSE state[r]]
    /\ running' = running \cup S
    /\ batch' = batch \ S
    /\ UNCHANGED <<kv, pc, waiting, arrival, admit_seq, admit_counter, preempt_count,
                   client, row, completed>>

(* The first lines of _decode. *)
DecodeRowsAll == running    \* mutant: finished rows decode again
DecodeRows == running \ Done

BeginDecode ==
    /\ pc = "prefill"
    /\ batch = {}
    /\ active' = InOrder(DecodeRows, Older)
    /\ idx' = 0
    /\ pc' = IF DecodeRows = {} THEN "top" ELSE "capacity"
    /\ UNCHANGED <<kv, waiting, running, request, client, batch, completed, progressed>>

-----------------------------------------------------------------------------
(* _ensure_capacity: this is active[i].                                     *)
Current(r) == /\ pc = "capacity"
              /\ idx < Len(active)
              /\ r = active[idx + 1]

TakeBlock(r) ==
    /\ Current(r)
    /\ ~LongEnough(r, SeqLen(r))
    /\ free_blocks # <<>>
    /\ AppendSlot(r)
    /\ UNCHANGED <<pc, waiting, running, request, client, batch, row, completed, progressed>>

RowSecured(r) ==
    /\ Current(r)
    /\ LongEnough(r, SeqLen(r))
    /\ idx' = idx + 1
    /\ UNCHANGED <<kv, pc, waiting, running, request, client, batch, active, completed, progressed>>

OutOfBlocks(r) == /\ Current(r)
                  /\ ~LongEnough(r, SeqLen(r))
                  /\ free_blocks = <<>>

(* RuntimeError("out of KV blocks and preemption is disabled") *)
RaiseOutOfBlocks(r) ==
    /\ OutOfBlocks(r)
    /\ ~Preemption
    /\ pc' = "dead"
    /\ UNCHANGED <<kv, waiting, running, request, client, batch, row, completed, progressed>>

(* min(active, key = (preempt_count, -admit_seq)) *)
IsVictim(v) ==
    /\ v \in Rows
    /\ \A q \in Rows :
         \/ preempt_count[v] < preempt_count[q]
         \/ preempt_count[v] = preempt_count[q] /\ admit_seq[v] >= admit_seq[q]

(* active.pop(vi), with i moved along when the victim stood before it.      *)
StruckKeepingIndex(vi) ==    \* mutant: i stays, so a row is skipped
    active' = RemoveAt(active, vi) /\ idx' = idx
Struck(vi) ==
    /\ active' = RemoveAt(active, vi)
    /\ idx' = IF vi <= idx THEN idx - 1 ELSE idx

(* _preempt(victim); the requester itself may be the victim. *)
Preempt(r, v) ==
    /\ OutOfBlocks(r)
    /\ Preemption
    /\ IsVictim(v)
    /\ \E vi \in DOMAIN active : active[vi] = v /\ Struck(vi)
    /\ Free(v)
    /\ running' = running \ {v}
    /\ waiting' = waiting \cup {v}
    /\ state' = [state EXCEPT ![v] = "WAITING"]
    /\ preempt_count' = [preempt_count EXCEPT ![v] = @ + 1]
    /\ UNCHANGED <<pc, out, finish_reason, arrival, admit_seq, admit_counter,
                   client, batch, completed, progressed>>

CapacityDone ==
    /\ pc = "capacity"
    /\ idx >= Len(active)
    /\ pc' = IF active = <<>> THEN "top" ELSE "decode"
    /\ UNCHANGED <<kv, waiting, running, request, client, batch, row, completed, progressed>>

(* One token for every active row. *)
Decode(eos) ==
    /\ pc = "decode"
    /\ eos \subseteq Rows \ IgnoreEos
    /\ Emit(Rows, eos)
    /\ active' = <<>> /\ idx' = 0
    /\ pc' = "top"
    /\ UNCHANGED <<kv, waiting, running, state, arrival, admit_seq, admit_counter, preempt_count,
                   client, batch, completed>>

-----------------------------------------------------------------------------
EngineStep ==
    \/ BeginStep
    \/ \E r \in Req : RetireOne(r)
    \/ RetireDone
    \/ \E r \in Req : PopAdmissible(r)
    \/ \E r \in Req : AllocateFails(r)
    \/ AdmitDone
    \/ \E S, eos \in SUBSET batch : Prefill(S, eos)
    \/ BeginDecode
    \/ \E r \in Req : TakeBlock(r)
    \/ \E r \in Req : RowSecured(r)
    \/ \E r \in Req : RaiseOutOfBlocks(r)
    \/ \E r, v \in Req : Preempt(r, v)
    \/ CapacityDone
    \/ \E eos \in SUBSET Rows : Decode(eos)

Next ==
    \/ EngineStep
    \/ \E r \in Req : Submit(r)
    \/ \E r \in Req : ClientLeaves(r)
    \/ \E r \in Req : SetCancelled(r)

Spec == Init /\ [][Next]_vars

(* The engine thread is never stopped here: EngineLoop._run calls step()    *)
(* again as long as has_work().                                             *)
FairSpec == Spec /\ WF_vars(EngineStep)

-----------------------------------------------------------------------------
(* A request holds KV memory exactly while it is admitted: neither a waiting,  *)
(* preempted, retired or abandoned request keeps a block (Scheduler._retire,   *)
(* _preempt), nor does an admitted one lose all of its blocks.                 *)
OnlyAdmittedHoldKV ==
    \A r \in Req : (block_table[r] # <<>>) <=> (r \in running \cup batch)

(* When a decode step runs, the block table of each of its rows covers the     *)
(* position seq_len - 1 its token is written to, whatever was evicted after    *)
(* that row had been served (_ensure_capacity, _decode).                       *)
RowsCovered ==
    pc = "decode" =>
        \A r \in Rows :
            /\ r \in running
            /\ ~Finished(r)
            /\ Paged => SeqLen(r) - 1 < BlockSize * Len(block_table[r])

(* The engine thread never dies of a failed assertion or for want of blocks:   *)
(* "it must never over-commit" (BlockManager.__init__), "allocate() called     *)
(* without can_allocate()" (BlockManager.allocate).                            *)
NeverOverCommits == pc # "dead"

(* What it does die of: a reservation that is too small because its request    *)
(* asked for a negative number of tokens, or has the id of another request.    *)
(* With slots, with preemption, or if all that came asked for at least no      *)
(* tokens under ids of their own, it lives (can_allocate, allocate,            *)
(* append_slot, free).                                                         *)
Misreserved(r) ==
    /\ state[r] # "NEW"
    /\ MaxNewTokens[r] < 0 \/ \E q \in Req \ {r} : state[q] # "NEW" /\ Id[q] = Id[r]

DiesOnlyOfBadReservation ==
    pc = "dead" => Paged /\ ReserveMaxNew /\ \E r \in Req : Misreserved(r)

(* No request is evicted forever: every admission earns it a token before it   *)
(* can be evicted again, so it is evicted at most as often as it has emitted,  *)
(* and one that is finished was evicted less often (_ensure_capacity).         *)
PreemptionPaid ==
    \A r \in Req :
        /\ preempt_count[r] <= out[r]
        /\ Finished(r) /\ finish_reason[r] # "cancelled" => preempt_count[r] < out[r]

(* Requests start in the order in which they arrived: a later request is never *)
(* admitted, however well it fits, while an earlier one that nobody abandoned  *)
(* has not been (_pop_admissible: "stop at the first request that does not     *)
(* fit, so big requests are not starved").                                     *)
FirstAdmissionsInOrder ==
    \A q, r \in Req :
        /\ state[q] # "NEW" /\ state[r] # "NEW"
        /\ arrival[q] < arrival[r]
        /\ admit_seq[r] >= 0
        => admit_seq[q] >= 0 \/ q \in cancelled

(* No more rows than cfg.max_batch are ever admitted (_admit), ... *)
BatchBounded == Cardinality(running \cup batch) <= MaxBatch

(* ... and a static batch that is never preempted moves in lockstep: nobody    *)
(* joins it before it has drained (_admit: "nothing joins until the batch has  *)
(* fully drained").                                                            *)
StaticLockstep ==
    Static /\ ~Preemption /\ pc = "top" =>
        \A q, r \in DecodeRows : out[q] = out[r]

(* The served requests of the metrics are those that reached their end, each   *)
(* once; an abandoned one is not among them, although its client may leave     *)
(* after the last token (_retire: "abandoned work is not a served request").   *)
ServedOnce ==
    completed = Cardinality({r \in Req : /\ state[r] = "FINISHED"
                                         /\ finish_reason[r] \in {"length", "stop"}})

(* A pass of the loop that finds work emits a token, or retires or drops a     *)
(* request: the scheduler cannot spin on requests it never admits, or preempt  *)
(* and readmit for ever (Scheduler.step, fits_ever).  The exception is a       *)
(* prompt larger than the pool that a negative max_new_tokens brought past     *)
(* fits_ever and that waits.                                                   *)
NeverFits(r) == MaxNewTokens[r] < 0 /\ BlocksNeeded(Prompt[r]) > NumBlocks

EveryStepProgresses ==
    [][pc # "top" /\ pc' = "top" => progressed' \/ \E r \in waiting : NeverFits(r)]_vars

Dropped(r) == state[r] = "WAITING" /\ r \notin waiting \cup batch

(* Every request the scheduler accepts is served to its end, or leaves because *)
(* its client did: none starves behind preemptions (_pop_admissible's          *)
(* "starvation guard", _ensure_capacity).                                      *)
EveryRequestEnds ==
    \A r \in Req : state[r] = "WAITING" ~> (state[r] = "FINISHED" \/ Dropped(r))

(* The scheduler implements the life of a request: tokens are never lost or    *)
(* duplicated by a preemption, nobody gets a token after the end or beyond     *)
(* max_new_tokens, and only an abandoned request is dropped (Request, _emit).  *)
Phase(r) ==
    CASE finish_reason[r] \in {"length", "stop"} -> "done"
      [] finish_reason[r] = "cancelled" \/ Dropped(r) -> "dropped"
      [] OTHER -> CASE state[r] = "NEW" -> "new"
                    [] state[r] = "WAITING" -> "waiting"
                    [] OTHER -> "running"

Lifecycle == INSTANCE RequestLifecycle WITH
    MaxOutput <- [r \in Req |-> MaxNew(r)],
    phase <- [r \in Req |-> Phase(r)],
    tokens <- out,
    left <- cancelled

ImplementsLifecycle == Lifecycle!Spec
=============================================================================
