------------------------------ MODULE KVCache ------------------------------
(***************************************************************************)
(* The pools and the attention masks of src/engine/cache.py, as            *)
(* ModelRunner.step_tokens uses them: a batch of rows writes the keys of   *)
(* its new tokens through the block tables, gathers what the tables name   *)
(* and attends to what the mask leaves.  SlotPool is a pool with one block *)
(* of MaxLen tokens for each request.                                      *)
(*                                                                         *)
(* A key is tagged <<request, admission, position>>; one forward pass      *)
(* stands for its twelve layers, which repeat the same reads and writes.   *)
(* Blocks are found by free choice: BlockManager has the allocators.       *)
(***************************************************************************)
EXTENDS Integers, SequencesExt

CONSTANTS
    KVReq,        \* requests
    PoolBlocks,   \* blocks of the pool, numbered from 0
    KVBlockSize,
    MaxLen,       \* longest sequence, for TLC
    MaxAdmissions \* bounds how often a request is evicted and admitted again

ASSUME KVAssumption ==
    /\ IsFiniteSet(KVReq)
    /\ {PoolBlocks, KVBlockSize, MaxLen, MaxAdmissions} \subseteq Nat \ {0}

VARIABLES
    keys,       \* the pool: what each place holds, {} before the first write
    tables,     \* block table of each request, <<>> when it is not admitted
    cached,     \* tokens of each request that are in the pool
    admission,  \* how often each request has left the pool
    seen        \* the last pass: [req, pos, real, keys] of every query

kvcVars == <<keys, tables, cached, admission, seen>>

Place == (0..(PoolBlocks - 1)) \X (0..(KVBlockSize - 1))
Tag(r, p) == <<r, admission[r], p>>
CeilDiv(a, b) == (a + b - 1) \div b
Maximum(S) == CHOOSE x \in S : \A z \in S : z <= x

KVInit ==
    /\ keys = [p \in Place |-> {}]
    /\ tables = [r \in KVReq |-> <<>>]
    /\ cached = [r \in KVReq |-> 0]
    /\ admission = [r \in KVReq |-> 0]
    /\ seen = {}

-----------------------------------------------------------------------------
(* One pass.  rows is a sequence of requests, starts and ns its starts and  *)
(* ns; positions, queries and keys count from 0.                            *)
FreePool == (0..(PoolBlocks - 1)) \ UNION {ToSet(tables[r]) : r \in KVReq}

(* build_mask: the keys that query t of row i may see, of the lk gathered.  *)
UnmaskedByT(b, T) == T = 1    \* mutant: also when other rows are longer
Unmasked(b, T) == b = 1 /\ T = 1
Causal(last, total, lk) == {k \in 0..(lk - 1) : k <= last}    \* mutant: the row's end is forgotten
General(last, total, lk) == {k \in 0..(lk - 1) : k <= last /\ k < total}

Mask(starts, ns, i, t) ==
    LET b == Len(starts)
        T == Maximum(ToSet(ns))
        total(k) == starts[k] + ns[k]
        lk == Maximum({total(k) : k \in 1..b})
    IN  IF b = 1 /\ starts[1] = 0 /\ T > 1 THEN {k \in 0..(lk - 1) : k <= t}
        ELSE IF Unmasked(b, T) THEN 0..(lk - 1)
        ELSE General(starts[i] + t, total(i), lk)

(* gather: key k of row i, from its table padded with block 0.              *)
Gathered(pool, table, k) ==
    LET n == k \div KVBlockSize
    IN  pool[<<IF n < Len(table) THEN table[n + 1] ELSE 0, k % KVBlockSize>>]

(* write: the new tokens of each row, without its padding.  A place that   *)
(* two rows wrote could hold either key.                                    *)
Written(rows, starts, ns, tbl) ==
    [p \in Place |->
        LET new == {w \in (1..Len(rows)) \X (0..(MaxLen - 1)) :
                      /\ starts[w[1]] <= w[2] /\ w[2] < starts[w[1]] + ns[w[1]]
                      /\ tbl[rows[w[1]]][w[2] \div KVBlockSize + 1] = p[1]
                      /\ w[2] % KVBlockSize = p[2]}
        IN  IF new = {} THEN keys[p] ELSE {Tag(rows[w[1]], w[2]) : w \in new}]

(* step_tokens, once every row has the blocks for its new tokens.           *)
Pass(rows, starts, ns, tbl) ==
    LET pool == Written(rows, starts, ns, tbl)
        T == Maximum(ToSet(ns))
    IN  /\ keys' = pool
        /\ cached' = [r \in KVReq |->
                        LET at == {i \in 1..Len(rows) : rows[i] = r}
                        IN  IF at = {} THEN cached[r]
                            ELSE LET i == CHOOSE i \in at : TRUE IN starts[i] + ns[i]]
        /\ seen' = {[req |-> rows[i], pos |-> starts[i] + t, real |-> t < ns[i],
                     keys |-> UNION {Gathered(pool, tbl[rows[i]], k) : k \in Mask(starts, ns, i, t)}] :
                       i \in 1..Len(rows), t \in 0..(T - 1)}
        /\ tables' = tbl
        /\ UNCHANGED admission

(* Every row gets the blocks for its new tokens, free ones in any order,    *)
(* and the pass is run.                                                     *)
Step(rows, starts, ns) ==
    LET need(r) == Maximum({0} \cup {CeilDiv(starts[i] + ns[i], KVBlockSize) :
                                       i \in {j \in DOMAIN rows : rows[j] = r}})
        new == {rk \in KVReq \X (1..CeilDiv(MaxLen, KVBlockSize)) :
                  Len(tables[rk[1]]) < rk[2] /\ rk[2] <= need(rk[1])}
    IN  \E f \in Injection(new, FreePool) :
            Pass(rows, starts, ns,
                 [r \in KVReq |->
                    tables[r] \o [k \in 1..Cardinality({rk \in new : rk[1] = r}) |->
                                    f[<<r, Len(tables[r]) + k>>]]])

(* A prefill: requests that are not in, from position 0; after an eviction  *)
(* with the tokens generated before.  Static batching takes several.        *)
Prefill ==
    \E R \in SUBSET {r \in KVReq : cached[r] = 0 /\ admission[r] < MaxAdmissions} :
        \E len \in [R -> 1..(MaxLen - 1)] :
            LET rows == SetToSeq(R)
            IN  /\ R # {}
                /\ Step(rows, [i \in DOMAIN rows |-> 0], [i \in DOMAIN rows |-> len[rows[i]]])

(* A decode step: every row that is in feeds one token at its own place.    *)
DecodeStep ==
    LET rows == SetToSeq({r \in KVReq : cached[r] \in 1..(MaxLen - 1)})
    IN  /\ rows # <<>>
        /\ Step(rows, [i \in DOMAIN rows |-> cached[rows[i]]], [i \in DOMAIN rows |-> 1])

(* A request ends or is evicted; its blocks keep what they hold.            *)
Free(r) ==
    /\ cached[r] > 0
    /\ tables' = [tables EXCEPT ![r] = <<>>]
    /\ cached' = [cached EXCEPT ![r] = 0]
    /\ admission' = [admission EXCEPT ![r] = @ + 1]
    /\ seen' = {}
    /\ UNCHANGED keys

KVNext == Prefill \/ DecodeStep \/ \E r \in KVReq : Free(r)

KVSpec == KVInit /\ [][KVNext]_kvcVars

-----------------------------------------------------------------------------
(* Properties.                                                              *)

(* "Query t of row i may attend to key j iff j <= starts[i]+t and           *)
(* j < totals[i]" (build_mask): whatever the batch, the layout of the       *)
(* blocks and what they held before, a real query sees the keys of its own  *)
(* request's tokens up to its own, all of them, written since it was last   *)
(* admitted, and nothing else: "output must not depend on what else was in  *)
(* the batch".                                                              *)
RealQueriesSeeTheirPast ==
    \A q \in seen : q.real => q.keys = {Tag(q.req, p) : p \in 0..q.pos}

(* The padding queries of a short row see some keys, so that their softmax  *)
(* is a number, and only keys of their own row; no query reads a place that *)
(* was never written.                                                       *)
PadQueriesStayInTheirRow ==
    \A q \in seen : ~q.real =>
        q.keys # {} /\ q.keys \subseteq {Tag(q.req, p) : p \in 0..(cached[q.req] - 1)}
=============================================================================
