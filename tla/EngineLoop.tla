----------------------------- MODULE EngineLoop -----------------------------
(***************************************************************************)
(* EngineLoop of src/engine/scheduler.py and the two threads it joins: the *)
(* POST /generate handlers of src/engine/api.py, coroutines of one event   *)
(* loop, and the engine thread, which drains the inbox and calls step().   *)
(*                                                                         *)
(* backend selects the scheduler the thread drives.  "naive" is            *)
(* NaiveScheduler.step with ModelRunner.run, in full.  "batched" is what   *)
(* Scheduler.step does to the requests as seen from outside (retire, admit *)
(* or evict some, one token for each row); module Scheduler has the rest.  *)
(*                                                                         *)
(* Abstractions: tokens are counted, and a token is EOS by free choice.    *)
(* Memory is Scheduler's concern: whether a row is evicted, and whether a  *)
(* batched step dies for want of a block, is a free choice here.           *)
(***************************************************************************)
EXTENDS Integers, SequencesExt

CONSTANTS
    Req,
    MaxNew,      \* max_new_tokens after submit's cap; the API accepts 0 and less
    MayStop,     \* the requests without ignore_eos
    Streams,     \* the requests with stream = true
    MayLeave,    \* the requests whose client may disconnect (bounds TLC's runs)
    MaxQueue,    \* cfg.max_queue
    MaxBatch,    \* cfg.max_batch
    Backends     \* the values of cfg.backend a run explores

ASSUME EngineLoopAssumption ==
    /\ IsFiniteSet(Req)
    /\ MaxNew \in [Req -> Int]
    /\ MayStop \subseteq Req /\ Streams \subseteq Req /\ MayLeave \subseteq Req
    /\ MaxQueue \in Nat
    /\ MaxBatch \in Nat \ {0}
    /\ Backends \subseteq {"naive", "batched"}

VARIABLES
    backend,
    epc,            \* where the engine thread is
    inbox, wake,
    stop,           \* where stop() is: "no", "set" (_stop is set), "done" (_wake is too)
    hand,           \* what get_nowait() returned and submit() has not appended yet
    waiting, running,
    batch,          \* the requests admitted in this step
    todo,           \* the rows of this step that have no token yet
    cur, fin,       \* the row being emitted, and whether its token is its last
    out, finish_reason, finish_time, cancelled,
    recorded,       \* requests in metrics.requests
    hpc,            \* where the handler of each request is
    qsize,          \* what queue_depth() read of the inbox, while it is needed
    events,         \* the asyncio queue: the fin flag of each token
    got,            \* tokens the handler took from it
    status, left    \* the outcome counted, and the clients that went away

mailbox == <<inbox, wake, hand>>
rows    == <<running, batch, todo, cur, fin>>
thread  == <<epc, mailbox, waiting, rows>>
request == <<out, finish_reason, finish_time, cancelled, recorded>>
handler == <<hpc, qsize, got, status, left>>
vars == <<backend, stop, thread, request, handler, events>>

HandlerPoints == {"new", "depth", "put", "wake", "await", "yield", "summary",
                  "finally", "cancel", "done"}

TypeOK ==
    /\ backend \in Backends
    /\ epc \in {"top", "drain", "submit", "wait", "clear", "step", "prefill", "decode", "sink",
                "run", "label", "stopped", "dead"}
    /\ inbox \in Seq(Req) /\ waiting \in Seq(Req)
    /\ {wake, fin} \subseteq BOOLEAN
    /\ stop \in {"no", "set", "done"}
    /\ hand \subseteq Req /\ running \subseteq Req /\ batch \subseteq Req /\ todo \subseteq Req /\ cur \subseteq Req
    /\ out \in [Req -> Nat] /\ got \in [Req -> Nat]
    /\ finish_reason \in [Req -> {"none", "length", "stop", "cancelled"}]
    /\ finish_time \subseteq Req /\ cancelled \subseteq Req /\ recorded \subseteq Req
    /\ hpc \in [Req -> HandlerPoints]
    /\ qsize \in Nat
    /\ events \in [Req -> Seq(BOOLEAN)]
    /\ status \in [Req -> {"none", "ok", "rejected", "cancelled", "error"}]
    /\ left \subseteq Req

Init ==
    /\ backend \in Backends
    /\ epc = "top" /\ inbox = <<>> /\ wake = FALSE /\ stop = "no"
    /\ hand = {} /\ waiting = <<>> /\ running = {} /\ batch = {} /\ todo = {} /\ cur = {} /\ fin = FALSE
    /\ out = [r \in Req |-> 0]
    /\ finish_reason = [r \in Req |-> "none"]
    /\ finish_time = {} /\ cancelled = {} /\ recorded = {}
    /\ hpc = [r \in Req |-> "new"]
    /\ qsize = 0
    /\ events = [r \in Req |-> <<>>]
    /\ got = [r \in Req |-> 0]
    /\ status = [r \in Req |-> "none"]
    /\ left = {}

-----------------------------------------------------------------------------
(* The handlers.                                                            *)
Finished(r) == finish_reason[r] # "none"
Goto(r, point) == hpc' = [hpc EXCEPT ![r] = point]

(* submit() has no await in it, so two handlers are never inside it at once. *)
Submitting == \E r \in Req : hpc[r] \in {"depth", "put", "wake"}

(* queue_depth(): self.inbox.qsize() first, len(self.sched.waiting) later.  *)
ReadInbox(r) ==
    /\ hpc[r] = "new" /\ ~Submitting /\ stop = "no"
    /\ qsize' = Len(inbox)
    /\ Goto(r, "depth")
    /\ UNCHANGED <<backend, stop, thread, request, got, status, left, events>>

QueueFullByInbox == qsize >= MaxQueue    \* mutant: the waiting list is not counted
QueueFull == qsize + Len(waiting) >= MaxQueue

AdmitOrReject(r) ==
    /\ hpc[r] = "depth"
    /\ IF QueueFull
       THEN Goto(r, "done") /\ status' = [status EXCEPT ![r] = "rejected"]
       ELSE Goto(r, "put") /\ UNCHANGED status
    /\ qsize' = 0
    /\ UNCHANGED <<backend, stop, thread, request, got, left, events>>

Put(r) ==
    /\ hpc[r] = "put"
    /\ inbox' = Append(inbox, r)
    /\ Goto(r, "wake")
    /\ UNCHANGED <<backend, stop, epc, wake, hand, waiting, rows, request, qsize, got,
                   status, left, events>>

SetWake(r) ==
    /\ hpc[r] = "wake"
    /\ wake' = TRUE
    /\ Goto(r, "await")
    /\ UNCHANGED <<backend, stop, epc, inbox, hand, waiting, rows, request, qsize, got,
                   status, left, events>>

(* One event.  A streaming handler is suspended at the yield that sends it; *)
(* the other one goes round, or after the last event runs straight on.      *)
Receive(r) ==
    /\ hpc[r] = "await" /\ events[r] # <<>>
    /\ events' = [events EXCEPT ![r] = Tail(@)]
    /\ got' = [got EXCEPT ![r] = @ + 1]
    /\ Goto(r, IF r \in Streams THEN (IF Head(events[r]) THEN "summary" ELSE "yield")
               ELSE (IF Head(events[r]) THEN "finally" ELSE "await"))
    /\ status' = [status EXCEPT ![r] = IF r \notin Streams /\ Head(events[r])
                                       THEN "ok" ELSE "error"]
    /\ UNCHANGED <<backend, stop, thread, request, qsize, left>>

(* The client took the line: back to the queue, or after the line that says *)
(* done, on to the finally block.                                           *)
Resume(r) ==
    /\ \/ hpc[r] = "yield" /\ Goto(r, "await") /\ UNCHANGED status
       \/ hpc[r] = "summary" /\ Goto(r, "finally")
          /\ status' = [status EXCEPT ![r] = "ok"]
    /\ UNCHANGED <<backend, stop, thread, request, qsize, got, left, events>>

(* The client disconnects.  In events.get() the coroutine is cancelled; at  *)
(* a yield it is closed, which no except clause sees.                       *)
Leave(r) ==
    /\ r \in MayLeave
    /\ hpc[r] \in {"await", "yield", "summary"}
    /\ hpc[r] = "await" => events[r] = <<>>
    /\ left' = left \cup {r}
    /\ status' = [status EXCEPT ![r] = IF hpc[r] = "await" THEN "cancelled" ELSE "error"]
    /\ Goto(r, "finally")
    /\ UNCHANGED <<backend, stop, thread, request, qsize, got, events>>

(* finally: `if not req.finished` and, a step of the engine thread later    *)
(* perhaps, `req.cancelled = True; status = "cancelled"`.                   *)
CheckFinished(r) ==
    /\ hpc[r] = "finally"
    /\ Goto(r, IF Finished(r) THEN "done" ELSE "cancel")
    /\ UNCHANGED <<backend, stop, thread, request, qsize, got, status, left, events>>

Cancel(r) ==
    /\ hpc[r] = "cancel"
    /\ cancelled' = cancelled \cup {r}
    /\ status' = [status EXCEPT ![r] = "cancelled"]
    /\ Goto(r, "done")
    /\ UNCHANGED <<backend, stop, thread, out, finish_reason, finish_time, recorded,
                   qsize, got, left, events>>

(* The lifespan's end, when uvicorn has let the requests in flight finish:  *)
(* stop() sets _stop, and then _wake; the engine thread may act in between. *)
Stop ==
    /\ stop = "no"
    /\ \A r \in Req : hpc[r] \in {"new", "done"}
    /\ stop' = "set"
    /\ UNCHANGED <<backend, thread, request, handler, events>>

StopUnheard ==    \* mutant: stop() does not set _wake
    /\ stop = "set"
    /\ stop' = "done"
    /\ UNCHANGED <<backend, thread, request, handler, events>>

StopWakes ==
    /\ stop = "set"
    /\ stop' = "done"
    /\ wake' = TRUE
    /\ UNCHANGED <<backend, epc, inbox, hand, waiting, rows, request, handler, events>>

HandlerStep(r) ==
    \/ ReadInbox(r) \/ AdmitOrReject(r) \/ Put(r) \/ SetWake(r)
    \/ Receive(r) \/ Resume(r) \/ CheckFinished(r) \/ Cancel(r)

-----------------------------------------------------------------------------
(* The engine thread: _run.                                                 *)
Thread(point) == epc' = point

Top ==
    /\ epc = "top"
    /\ Thread(IF stop = "no" THEN "drain" ELSE "stopped")
    /\ UNCHANGED <<backend, stop, mailbox, waiting, rows, request, handler, events>>

GetNowait ==
    /\ epc = "drain" /\ inbox # <<>>
    /\ hand' = {Head(inbox)}
    /\ inbox' = Tail(inbox)
    /\ Thread("submit")
    /\ UNCHANGED <<backend, stop, wake, waiting, rows, request, handler, events>>

SubmitHand ==
    /\ epc = "submit"
    /\ \E r \in hand : waiting' = Append(waiting, r)
    /\ hand' = {}
    /\ Thread("drain")
    /\ UNCHANGED <<backend, stop, inbox, wake, rows, request, handler, events>>

HasWorkWaiting == waiting # <<>>    \* mutant: the running rows are forgotten
HasWork == waiting # <<>> \/ (backend = "batched" /\ running # {})

InboxEmpty ==
    /\ epc = "drain" /\ inbox = <<>>
    /\ Thread(IF HasWork THEN "step" ELSE "wait")
    /\ UNCHANGED <<backend, stop, mailbox, waiting, rows, request, handler, events>>

(* self._wake.wait(0.05): the event is set, or the time is up.              *)
Woken ==
    /\ epc = "wait" /\ wake
    /\ Thread("clear")
    /\ UNCHANGED <<backend, stop, mailbox, waiting, rows, request, handler, events>>

TimesOut ==
    /\ epc = "wait" /\ ~wake
    /\ Thread("clear")
    /\ UNCHANGED <<backend, stop, mailbox, waiting, rows, request, handler, events>>

ClearAndWait ==    \* mutant: the inbox is not drained again
    /\ epc = "clear"
    /\ wake' = FALSE
    /\ Thread("wait")
    /\ UNCHANGED <<backend, stop, inbox, hand, waiting, rows, request, handler, events>>

Clear ==
    /\ epc = "clear"
    /\ wake' = FALSE
    /\ Thread("top")
    /\ UNCHANGED <<backend, stop, inbox, hand, waiting, rows, request, handler, events>>

-----------------------------------------------------------------------------
(* step().                                                                  *)
Keep(s, S) ==    \* what s has of S, in its order
    LET at == {i \in DOMAIN s : s[i] \in S}
        nth(k) == CHOOSE i \in at : Cardinality({j \in at : j <= i}) = k
    IN  [k \in 1..Cardinality(at) |-> s[nth(k)]]
Queued == Keep(waiting, Req \ cancelled)

PeekedAt(A) == Queued    \* mutant: who is admitted stays in the queue
NotAdmitted(A) == Keep(Queued, Req \ A)

(* Scheduler.step, seen from outside.  _retire drops the cancelled and      *)
(* records the served; _admit takes A, and each of A gets a first token --  *)
(* unless the memory promised to the last of A is not there: allocate()'s   *)
(* assertion ends the thread, and nobody runs the requests it had taken.    *)
RetireAndAdmit ==
    /\ backend = "batched" /\ epc = "step"
    /\ LET live == {r \in running : r \notin cancelled /\ ~Finished(r)}
           abandoned == {r \in running : r \in cancelled /\ ~Finished(r)}
       IN  \E A \in SUBSET ToSet(Queued) :
             /\ Cardinality(live \cup A) <= MaxBatch
             /\ live = {} /\ Queued # <<>> => A # {}
             /\ finish_reason' = [r \in Req |-> IF r \in abandoned THEN "cancelled"
                                                ELSE finish_reason[r]]
             /\ finish_time' = finish_time \cup abandoned
             /\ recorded' = recorded \cup {r \in running : Finished(r)}
             /\ running' = live
             /\ batch' = A /\ todo' = A
             /\ waiting' = NotAdmitted(A)
             /\ Thread("prefill") \/ (A # {} /\ Thread("dead"))
    /\ UNCHANGED <<backend, stop, mailbox, cur, fin, out, cancelled, handler, events>>

(* _decode: a token for every row that is left, E having been evicted for   *)
(* want of memory -- unless preemption is off and a block is missing, which *)
(* raises RuntimeError before any row has its token and ends the thread.    *)
Decode ==
    /\ epc = "prefill" /\ todo = {}
    /\ \E E \in SUBSET {r \in running \cup batch : ~Finished(r)} :
         /\ todo' = {r \in running \cup batch : ~Finished(r)} \ E
         /\ todo' = {} => E = {}
         /\ running' = (running \cup batch) \ E
         /\ waiting' = waiting \o SetToSeq(E)
         /\ Thread("decode") \/ (E = {} /\ todo' # {} /\ Thread("dead"))
    /\ batch' = {}
    /\ UNCHANGED <<backend, stop, mailbox, cur, fin, request, handler, events>>

(* A token is the last by its number, or by being EOS.                      *)
IsLast(r, eos) == out[r] + 1 >= MaxNew[r] \/ (eos /\ r \in MayStop)

ReasonIfStopped(r, last) ==    \* mutant: reaching the limit is no reason
    IF last /\ out[r] + 1 < MaxNew[r] THEN "stop" ELSE finish_reason[r]
Reason(r, last) ==
    IF out[r] + 1 >= MaxNew[r] THEN "length" ELSE IF last THEN "stop" ELSE finish_reason[r]

(* _emit up to its last line: the request is labelled before the sink runs. *)
Emit(r) ==
    /\ epc \in {"prefill", "decode"} /\ r \in todo
    /\ \E eos \in BOOLEAN :
         /\ fin' = IsLast(r, eos)
         /\ finish_reason' = [finish_reason EXCEPT ![r] = Reason(r, IsLast(r, eos))]
         /\ finish_time' = IF IsLast(r, eos) THEN finish_time \cup {r} ELSE finish_time
    /\ out' = [out EXCEPT ![r] = @ + 1]
    /\ todo' = todo \ {r}
    /\ cur' = {r}
    /\ Thread("sink")
    /\ UNCHANGED <<backend, stop, mailbox, waiting, running, batch, cancelled, recorded,
                   handler, events>>

SendToRows ==    \* mutant: every row's sink gets the token
    events' = [r \in Req |-> IF r \in cur \cup todo THEN Append(events[r], fin) ELSE events[r]]
Send == events' = [r \in Req |-> IF r \in cur THEN Append(events[r], fin) ELSE events[r]]

Sink ==
    /\ backend = "batched" /\ epc = "sink"
    /\ Send
    /\ cur' = {} /\ fin' = FALSE
    /\ Thread(IF cur \subseteq batch THEN "prefill" ELSE "decode")
    /\ UNCHANGED <<backend, stop, mailbox, waiting, running, batch, todo, request, handler>>

StepReturns ==
    /\ epc = "decode" /\ todo = {}
    /\ Thread("top")
    /\ UNCHANGED <<backend, stop, mailbox, waiting, rows, request, handler, events>>

(* NaiveScheduler.step: one request, to its end.                            *)
NaiveStep ==
    /\ backend = "naive" /\ epc = "step"
    /\ IF Queued = <<>>
       THEN waiting' = <<>> /\ Thread("top") /\ UNCHANGED <<running, cur>>
       ELSE /\ waiting' = Tail(Queued)
            /\ running' = {Head(Queued)}
            /\ cur' = running'
            /\ Thread("run")
    /\ UNCHANGED <<backend, stop, mailbox, batch, todo, fin, request, handler, events>>

(* ModelRunner.run: one token, handed to on_token before anything is        *)
(* labelled ...                                                             *)
RunToken ==
    /\ epc = "run"
    /\ \E r \in cur :
         /\ ~fin /\ out[r] < MaxNew[r] /\ r \notin cancelled
         /\ out' = [out EXCEPT ![r] = @ + 1]
         /\ \E eos \in BOOLEAN : fin' = IsLast(r, eos)
    /\ Thread("sink")
    /\ UNCHANGED <<backend, stop, mailbox, waiting, running, batch, todo, cur,
                   finish_reason, finish_time, cancelled, recorded, handler, events>>

(* ... the loop ends on the last token or, at its head, on a cancellation;  *)
RunSink ==
    /\ backend = "naive" /\ epc = "sink"
    /\ Send
    /\ Thread("run")
    /\ UNCHANGED <<backend, stop, mailbox, waiting, rows, request, handler>>

NeverAbandoned(r) == FALSE    \* mutant: a cancelled request is recorded as well
Abandoned(r) == r \in cancelled

(* then record_request() asserts that there was a first token.              *)
RunEnds ==
    /\ epc = "run"
    /\ \E r \in cur :
         /\ fin \/ out[r] >= MaxNew[r] \/ r \in cancelled
         /\ finish_time' = finish_time \cup {r}
         /\ IF Abandoned(r)
            THEN /\ finish_reason' = [finish_reason EXCEPT ![r] = "cancelled"]
                 /\ Thread("label") /\ UNCHANGED recorded
            ELSE /\ IF out[r] = 0
                    THEN Thread("dead") /\ UNCHANGED recorded
                    ELSE Thread("label") /\ recorded' = recorded \cup {r}
                 /\ UNCHANGED finish_reason
    /\ fin' = FALSE
    /\ UNCHANGED <<backend, stop, mailbox, waiting, running, batch, todo, cur, out,
                   cancelled, handler, events>>

LabelNone ==    \* mutant: an unknown reason
    /\ epc = "label"
    /\ finish_reason' = [r \in Req |-> IF r \in cur /\ ~Finished(r) THEN "eos"
                                       ELSE finish_reason[r]]
    /\ running' = {} /\ cur' = {}
    /\ Thread("top")
    /\ UNCHANGED <<backend, stop, mailbox, waiting, batch, todo, fin, out, finish_time,
                   cancelled, recorded, handler, events>>

Label ==
    /\ epc = "label"
    /\ finish_reason' = [r \in Req |-> IF r \in cur /\ ~Finished(r) THEN "length"
                                       ELSE finish_reason[r]]
    /\ running' = {} /\ cur' = {}
    /\ Thread("top")
    /\ UNCHANGED <<backend, stop, mailbox, waiting, batch, todo, fin, out, finish_time,
                   cancelled, recorded, handler, events>>

LoopStep ==
    \/ Top \/ GetNowait \/ SubmitHand \/ InboxEmpty \/ Woken \/ Clear
    \/ RetireAndAdmit \/ Decode \/ (\E r \in Req : Emit(r)) \/ Sink \/ StepReturns
    \/ NaiveStep \/ RunToken \/ RunSink \/ RunEnds \/ Label

Next ==
    \/ \E r \in Req : HandlerStep(r) \/ Leave(r)
    \/ Stop \/ StopWakes
    \/ LoopStep \/ TimesOut

Spec == Init /\ [][Next]_vars

(* The two threads run: while some handler that was called can go on, one   *)
(* does, and the clients that stay read what they are sent.  stop() goes on *)
(* once begun.  Nothing is assumed of the 50 ms timeout: the event alone    *)
(* must suffice.                                                            *)
FairSpec ==
    /\ Spec
    /\ WF_vars(LoopStep)
    /\ WF_vars(StopWakes)
    /\ WF_vars(\E r \in Req : HandlerStep(r) /\ hpc[r] # "new")
-----------------------------------------------------------------------------
(* Properties.                                                              *)

(* Front-door admission control (submit): requests that have not run yet    *)
(* fill the inbox, the engine thread's hand and the waiting list to at most *)
(* one more than max_queue, although submit() reads the two lengths at      *)
(* different times and the request in hand is in neither.                   *)
FreshQueueBounded ==
    LET fresh == {r \in Req : out[r] = 0}
    IN  Cardinality(fresh \cap (ToSet(inbox) \cup hand \cup ToSet(waiting))) <= MaxQueue + 1

(* Hand-over: a request submit() accepted is in exactly one of the inbox,   *)
(* the hand, the waiting list, the batch and the rows, once, until it is    *)
(* finished or its client has cancelled it.                                 *)
HeldOnce ==
    \A r \in Req :
        LET places == Cardinality({i \in DOMAIN inbox : inbox[i] = r})
                      + Cardinality({i \in DOMAIN waiting : waiting[i] = r})
                      + Cardinality({S \in {<<1, hand>>, <<2, running>>, <<3, batch>>} : r \in S[2]})
        IN  /\ places <= 1
            /\ hpc[r] \in {"wake", "await", "yield"} /\ ~Finished(r) => places = 1

(* The wake-up protocol of submit(), stop() and _run(): while the engine    *)
(* thread waits, a request in the inbox or a stop() that has returned has   *)
(* the event set, or the handler that filled the inbox is about to set it;  *)
(* nobody needs the timeout.                                                *)
NoLostWakeup ==
    epc = "wait" =>
        /\ inbox # <<>> => wake \/ \E r \in Req : hpc[r] = "wake"
        /\ stop = "done" => wake

(* Streaming: what the handler has taken and what is queued for it are the  *)
(* tokens generated so far, each once, and only the last is flagged last;   *)
(* evictions and the other rows of a step notwithstanding.                  *)
EachTokenOnce ==
    \A r \in Req :
        /\ got[r] + Len(events[r]) = out[r] - (IF r \in cur /\ epc = "sink" THEN 1 ELSE 0)
        /\ \A i \in DOMAIN events[r] : events[r][i] => i = Len(events[r]) /\ got[r] + i = out[r]

(* What the batched schedulers promise the handler: the last token carries  *)
(* a reason and a finish time with it, so the summary line and the response *)
(* have them, and only a request whose client left is ever cancelled.       *)
LastTokenComesLabelled ==
    backend = "batched" =>
        \A r \in Req :
            /\ hpc[r] = "summary" \/ status[r] = "ok" => Finished(r) /\ r \in finish_time
            /\ r \in cancelled => r \in left

(* NaiveScheduler has the "same interface" (its docstring), and POST        *)
(* /generate cancels when the "client went away" (the comment of its        *)
(* finally block): a client that stays does not see its request cancelled.  *)
CancelledOnlyIfClientLeft == cancelled \subseteq left

(* "When the queue reaches max_queue it refuses the request" (architecture  *)
(* document): a request that is refused found max_queue requests queued.    *)
RefusesOnlyAFullQueue ==
    [][\A r \in Req :
          status[r] # "rejected" /\ status'[r] = "rejected" =>
              Len(inbox) + Cardinality(hand) + Len(waiting) >= MaxQueue]_vars

(* Every request that was accepted is answered, or its client is gone; only *)
(* those the engine thread had not finished when it died are not.           *)
EveryRequestAnswered ==
    \A r \in Req : hpc[r] = "put" ~> hpc[r] = "done" \/ (epc = "dead" /\ ~Finished(r))

(* With NaiveScheduler only record_request's assertion kills the thread, on *)
(* a request that asked for no tokens; one cancelled before its first token *)
(* does not.  (DiesOnlyOfBadReservation is Scheduler's.)                    *)
NaiveDiesOnlyOfEmptyOutput ==
    backend = "naive" /\ epc = "dead" => \E r \in cur : MaxNew[r] <= 0 /\ out[r] = 0

(* Shutdown: a thread that is alive sees _stop within one step.             *)
StopEndsTheThread == stop # "no" ~> epc \in {"stopped", "dead"}
=============================================================================
