---------------------------- MODULE BlockManager ----------------------------
(***************************************************************************)
(* The two allocators of KV memory of src/engine/block_manager.py.  Both   *)
(* hand out indices of a pool of NumBlocks entries from a LIFO free list:  *)
(*   - BlockManager (Paged = TRUE): an entry holds BlockSize tokens and a  *)
(*     request owns as many as its sequence has reached.  With             *)
(*     ReserveMaxNew admission counts the worst case of every request that *)
(*     runs, without it admission looks at the free list only;             *)
(*   - SlotManager (Paged = FALSE): an entry is a slot that holds a whole  *)
(*     context of MaxContext tokens and a request owns exactly one.        *)
(*                                                                         *)
(* The operations are called by the scheduler, from the engine thread      *)
(* only.  They take the request's seq_len and its prompt_len + max_new as  *)
(* arguments, because the request's fields belong to the scheduler.        *)
(***************************************************************************)
EXTENDS Integers, Sequences, FiniteSets

CONSTANTS
    Req,            \* the Request objects
    RequestId,      \* the strings a request_id can be
    Id,             \* [Req -> RequestId]: a client may choose it (X-Request-ID)
    NumBlocks,      \* num_blocks, or n_slots
    BlockSize,      \* tokens per block
    MaxContext,     \* MAX_LEN = MAX_CONTEXT, 1024 in the code
    Paged,          \* BlockManager (TRUE) or SlotManager (FALSE)
    ReserveMaxNew   \* reserve_max_new = not cfg.preemption

ASSUME BlockManagerAssumption ==
    /\ IsFiniteSet(Req)
    /\ Id \in [Req -> RequestId]
    /\ NumBlocks \in Nat
    /\ BlockSize \in Nat \ {0}
    /\ MaxContext \in Nat \ {0}
    /\ Paged \in BOOLEAN
    /\ ReserveMaxNew \in BOOLEAN

VARIABLES
    free_blocks,    \* free_blocks / free_slots: a stack, its top is the last element
    block_table,    \* req.block_table of every request
    live,           \* the dict request_id -> Request
    committed       \* the dict request_id -> worst-case number of blocks; negative if max_new is

kv == <<free_blocks, block_table, live, committed>>

Block == 0 .. NumBlocks - 1

KVTypeOK ==
    /\ free_blocks \in Seq(Block)
    /\ block_table \in [Req -> Seq(Block)]
    /\ DOMAIN live \subseteq RequestId
    /\ live \in [DOMAIN live -> Req]
    /\ DOMAIN committed \subseteq RequestId
    /\ committed \in [DOMAIN committed -> Int]

(* list(range(num_blocks - 1, -1, -1)): block 0 is handed out first. *)
KVInitFromOne ==    \* mutant: the range starts one too high
    /\ free_blocks = [i \in 1 .. NumBlocks |-> NumBlocks - i + 1]
    /\ block_table = [r \in Req |-> <<>>]
    /\ live = [k \in {} |-> 0]
    /\ committed = [k \in {} |-> 0]

KVInit ==
    /\ free_blocks = [i \in 1 .. NumBlocks |-> NumBlocks - i]
    /\ block_table = [r \in Req |-> <<>>]
    /\ live = [k \in {} |-> 0]
    /\ committed = [k \in {} |-> 0]

-----------------------------------------------------------------------------
(* blocks_needed: the ceiling of n / BlockSize, as -(-n // block_size).  A  *)
(* slot holds any sequence.                                                 *)
BlocksNeeded(n) == IF Paged THEN -((-n) \div BlockSize) ELSE 1

FitsEverUnchecked(worst) == worst >= 0    \* mutant: the check is not made
FitsEver(worst) ==
    IF Paged THEN BlocksNeeded(worst) <= NumBlocks ELSE worst <= MaxContext

(* sum(committed.values()): one element per block promised, less one for    *)
(* each that a negative entry takes away.                                   *)
Promised == UNION {{k} \X (1 .. committed[k]) : k \in DOMAIN committed}
Overdrawn == UNION {{k} \X (1 .. -committed[k]) : k \in DOMAIN committed}
Committed == Cardinality(Promised) - Cardinality(Overdrawn)

CanAllocateNow(seq_len, worst, headroom) ==    \* mutant: reserves the present need only
    CASE ~Paged -> TRUE
      [] Paged /\ ReserveMaxNew ->
           Committed + BlocksNeeded(seq_len) <= NumBlocks
      [] OTHER -> Len(free_blocks) >= BlocksNeeded(seq_len) + headroom

CanAllocate(seq_len, worst, headroom) ==
    CASE ~Paged -> Len(free_blocks) > 0
      [] Paged /\ ReserveMaxNew ->
           Committed + BlocksNeeded(worst) <= NumBlocks
      [] OTHER -> Len(free_blocks) >= BlocksNeeded(seq_len) + headroom

(* The blocks that n successive free_blocks.pop() return, and what is left. *)
Popped(n) == [i \in 1 .. n |-> free_blocks[Len(free_blocks) + 1 - i]]
AfterPeek(n) == SubSeq(free_blocks, 1, Len(free_blocks) - n + 1)    \* mutant: one too few
AfterPop(n) == SubSeq(free_blocks, 1, Len(free_blocks) - n)

(* reversed(...) *)
Reversed(s) == [i \in 1 .. Len(s) |-> s[Len(s) + 1 - i]]

(* d[k] = v and d.pop(k, None) *)
Put(d, k, v) == [x \in DOMAIN d \cup {k} |-> IF x = k THEN v ELSE d[x]]
Without(d, k) == [x \in DOMAIN d \ {k} |-> d[x]]

(* What allocate() asserts; the SlotManager's pop() raises on an empty list. *)
AllocateAsserts(seq_len) == Len(free_blocks) >= BlocksNeeded(seq_len)

Allocate(r, seq_len, worst) ==
    /\ block_table' = [block_table EXCEPT ![r] = Popped(BlocksNeeded(seq_len))]
    /\ free_blocks' = AfterPop(BlocksNeeded(seq_len))
    /\ live' = Put(live, Id[r], r)
    /\ committed' = IF Paged THEN Put(committed, Id[r], BlocksNeeded(worst))
                             ELSE committed

(* append_slot is a loop: one iteration takes one block, the loop leaves    *)
(* with True when the table is long enough, with False when no block is     *)
(* left.  The slot of the SlotManager is always long enough.                *)
LongEnoughForPast(r, seq_len) ==    \* mutant: forgets the token about to be fed
    Len(block_table[r]) >= BlocksNeeded(seq_len - 1)
LongEnough(r, seq_len) == Len(block_table[r]) >= BlocksNeeded(seq_len)

AppendSlot(r) ==
    /\ block_table' = [block_table EXCEPT ![r] = @ \o Popped(1)]
    /\ free_blocks' = AfterPop(1)
    /\ UNCHANGED <<live, committed>>

FreeKeepsTable(r) ==    \* mutant: req.block_table = [] is missing
    /\ free_blocks' = free_blocks \o Reversed(block_table[r])
    /\ block_table' = block_table
    /\ live' = Without(live, Id[r])
    /\ committed' = Without(committed, Id[r])

Free(r) ==
    /\ free_blocks' = free_blocks \o Reversed(block_table[r])
    /\ block_table' = [block_table EXCEPT ![r] = <<>>]
    /\ live' = Without(live, Id[r])
    /\ committed' = Without(committed, Id[r])

-----------------------------------------------------------------------------
(* Every block is free exactly once or in one place of one block table:     *)
(* a block never serves two sequences and none is lost (block_manager.py,   *)
(* the LIFO list that allocate, append_slot and free share).                *)
FreeOnce ==
    \A i, j \in 1 .. Len(free_blocks) : free_blocks[i] = free_blocks[j] => i = j

OwnedOnce ==
    \A q, r \in Req : \A i \in 1 .. Len(block_table[q]), j \in 1 .. Len(block_table[r]) :
        block_table[q][i] = block_table[r][j] => q = r /\ i = j

FreeOrOwned ==
    \A i \in 1 .. Len(free_blocks), r \in Req : \A j \in 1 .. Len(block_table[r]) :
        free_blocks[i] # block_table[r][j]

NoneLost ==
    \A b \in Block :
        \/ \E i \in 1 .. Len(free_blocks) : free_blocks[i] = b
        \/ \E r \in Req : \E j \in 1 .. Len(block_table[r]) : block_table[r][j] = b

BlocksPartitioned == FreeOnce /\ OwnedOnce /\ FreeOrOwned /\ NoneLost
=============================================================================
