-------------------------- MODULE CapacityProofs ---------------------------
(***************************************************************************)
(* The results about Scheduler that count or look further: the batch       *)
(* limit, the number of served requests, and the engine's death: it dies   *)
(* for want of KV memory only where a reservation misled it, by a negative *)
(* max_new_tokens or a shared id; that every pass makes progress unless a  *)
(* request that never fits was accepted; and the refinement of             *)
(* RequestLifecycle.                                                       *)
(***************************************************************************)
EXTENDS SchedulerProofs

LEMMA FiniteParts ==
    ASSUME BlockManagerAssumption, TypeOK
    PROVE  /\ IsFiniteSet(running) /\ IsFiniteSet(batch) /\ IsFiniteSet(running \cup batch)
           /\ Cardinality(running) \in Nat /\ Cardinality(batch) \in Nat
           /\ Cardinality(running \cup batch) \in Nat
PROOF
<1>1. running \subseteq Req /\ batch \subseteq Req /\ IsFiniteSet(Req)
  BY DEF TypeOK, BlockManagerAssumption
<1> QED
  BY <1>1, FS_Subset, FS_Union, FS_CardinalityType

-----------------------------------------------------------------------------
(* The batch. *)
LEMMA BatchStep ==
    ASSUME BlockManagerAssumption, SchedulerAssumption, IInv, BatchBounded, [Next]_vars
    PROVE  BatchBounded'
PROOF
<1> USE DEF request, client, row, kv
<1>0. TypeOK /\ MaxBatch \in Nat
  BY DEF IInv, SchedulerAssumption
<1>1. ASSUME running' \cup batch' \subseteq running \cup batch PROVE BatchBounded'
  <2>1. /\ Cardinality(running' \cup batch') <= Cardinality(running \cup batch)
        /\ Cardinality(running' \cup batch') \in Nat
    BY <1>0, <1>1, FiniteParts, FS_Subset, FS_CardinalityType
  <2> QED BY <1>0, <2>1, FiniteParts DEF BatchBounded
<1>2. ASSUME NEW r \in Req, PopAdmissible(r) PROVE BatchBounded'
  <2>1. /\ running' = running /\ batch' = batch \cup {r}
        /\ Cardinality(batch) < Limit
    BY <1>2 DEF PopAdmissible, Admissible
  <2>2. Cardinality(running) + Cardinality(batch) < MaxBatch
    <3>1. CASE Static /\ running # {}
      BY <1>0, <2>1, <3>1, FiniteParts DEF Limit
    <3>2. CASE Static /\ running = {}
      BY <1>0, <2>1, <3>2, FiniteParts, FS_EmptySet DEF Limit
    <3>3. CASE ~Static
      BY <1>0, <2>1, <3>3, FiniteParts DEF Limit
    <3> QED BY <3>1, <3>2, <3>3
  <2>3. /\ IsFiniteSet(batch \cup {r})
        /\ Cardinality(batch \cup {r}) <= Cardinality(batch) + 1
        /\ Cardinality(batch \cup {r}) \in Nat
    <3>1. IsFiniteSet(batch) /\ Cardinality(batch) \in Nat
      BY <1>0, FiniteParts
    <3>2. /\ IsFiniteSet(batch \cup {r})
          /\ Cardinality(batch \cup {r}) = IF r \in batch THEN Cardinality(batch)
                                           ELSE Cardinality(batch) + 1
      BY <3>1, FS_AddElement
    <3> QED BY <3>1, <3>2
  <2>4. /\ Cardinality(running \cup (batch \cup {r})) <= Cardinality(running) + Cardinality(batch \cup {r})
        /\ Cardinality(running \cup (batch \cup {r})) \in Nat
    <3>1. IsFiniteSet(running \cup (batch \cup {r}))
      BY <1>0, <2>3, FiniteParts, FS_Union
    <3>2. /\ Cardinality(running \cup (batch \cup {r})) =
               Cardinality(running) + Cardinality(batch \cup {r})
                 - Cardinality(running \cap (batch \cup {r}))
          /\ Cardinality(running \cap (batch \cup {r})) \in Nat
      BY <1>0, <2>3, FiniteParts, FS_Union, FS_Intersection, FS_CardinalityType
    <3> QED BY <1>0, <2>3, <3>1, <3>2, FiniteParts, FS_CardinalityType
  <2> QED BY <1>0, <2>1, <2>2, <2>3, <2>4, FiniteParts DEF BatchBounded
<1>3. CASE \/ \E r \in Req : Submit(r) \/ ClientLeaves(r) \/ SetCancelled(r)
           \/ BeginStep \/ RetireDone \/ AdmitDone \/ BeginDecode \/ CapacityDone
           \/ \E r \in Req : RetireOne(r) \/ AllocateFails(r) \/ TakeBlock(r) \/ RowSecured(r)
                              \/ RaiseOutOfBlocks(r)
           \/ \E r, v \in Req : Preempt(r, v)
           \/ \E eos \in SUBSET Rows : Decode(eos)
           \/ UNCHANGED vars
  <2>1. running' \cup batch' \subseteq running \cup batch
    BY <1>3 DEF Submit, ClientLeaves, SetCancelled, BeginStep, RetireDone, AdmitDone, BeginDecode,
                CapacityDone, RetireOne, AllocateFails, TakeBlock, RowSecured, RaiseOutOfBlocks,
                Preempt, Decode, vars
  <2> QED BY <1>1, <2>1
<1>4. ASSUME NEW S \in SUBSET batch, NEW eos \in SUBSET batch, Prefill(S, eos)
      PROVE BatchBounded'
  BY <1>1, <1>4 DEF Prefill
<1> QED
  BY <1>2, <1>3, <1>4 DEF Next, EngineStep

(* Scheduler._admit: no more than cfg.max_batch requests are ever admitted,  *)
(* batched for prefill or decoding, in both batching modes.                  *)
THEOREM BatchNeverExceeded == Spec => []BatchBounded
PROOF
<1>1. Init => BatchBounded
  BY SchedulerAssumption, FS_EmptySet DEF Init, BatchBounded, SchedulerAssumption
<1>2. IInv /\ BatchBounded /\ [Next]_vars => BatchBounded'
  BY BlockManagerAssumption, SchedulerAssumption, BatchStep
<1> QED
  BY <1>1, <1>2, IInvHolds, PTL DEF Spec

-----------------------------------------------------------------------------
(* The served requests. *)
ServedSet == {r \in Req : state[r] = "FINISHED" /\ finish_reason[r] \in {"length", "stop"}}

LEMMA ServedStep ==
    ASSUME BlockManagerAssumption, IInv, ServedOnce, [Next]_vars
    PROVE  ServedOnce'
PROOF
<1> USE DEF request, client, row, kv
<1>0. /\ Places /\ TypeOK /\ completed \in Nat
      /\ state \in [Req -> {"NEW", "WAITING", "RUNNING", "FINISHED"}]
      /\ finish_reason \in [Req -> {"none", "length", "stop", "cancelled"}]
  BY DEF IInv, TypeOK
<1>1. completed = Cardinality(ServedSet)
  BY DEF ServedOnce, ServedSet
<1>2. ASSUME ServedSet' = ServedSet, completed' = completed PROVE ServedOnce'
  BY <1>1, <1>2 DEF ServedOnce, ServedSet
<1>3. ASSUME NEW r \in Req, RetireOne(r) PROVE ServedOnce'
  <2>1. /\ state[r] = "RUNNING" /\ finish_reason[r] # "none"
        /\ state' = [state EXCEPT ![r] = "FINISHED"]
        /\ finish_reason' = finish_reason
        /\ completed' = IF Served(r) THEN completed + 1 ELSE completed
    BY <1>0, <1>3 DEF RetireOne, Done, Finished, Places
  <2>2. CASE Served(r)
    <3>1. ServedSet' = ServedSet \cup {r} /\ r \notin ServedSet
      BY <1>0, <2>1, <2>2 DEF ServedSet, Served
    <3>2. IsFiniteSet(ServedSet)
      BY FS_Subset DEF ServedSet, BlockManagerAssumption
    <3>3. Cardinality(ServedSet') = Cardinality(ServedSet) + 1
      BY <3>1, <3>2, FS_AddElement
    <3> QED BY <1>1, <2>1, <2>2, <3>3 DEF ServedOnce, ServedSet
  <2>3. CASE ~Served(r)
    <3>1. ServedSet' = ServedSet
      BY <1>0, <2>1, <2>3 DEF ServedSet, Served
    <3> QED BY <1>2, <2>1, <2>3, <3>1
  <2> QED BY <2>2, <2>3
<1>4. CASE BeginStep
  <2>1. /\ state' = state /\ completed' = completed
        /\ \A r \in Req : state[r] = "FINISHED" => finish_reason'[r] = finish_reason[r]
    BY <1>0, <1>4 DEF BeginStep, Places
  <2> QED BY <1>2, <2>1 DEF ServedSet
<1>5. ASSUME NEW S \in SUBSET batch, NEW eos \in SUBSET batch, Prefill(S, eos)
      PROVE ServedOnce'
  <2>1. /\ \A r \in S : state[r] # "FINISHED"
        /\ completed' = completed
        /\ \A r \in Req : state'[r] = IF r \in S THEN "RUNNING" ELSE state[r]
        /\ \A r \in Req \ S : finish_reason'[r] = finish_reason[r]
    BY <1>0, <1>5 DEF Prefill, Emit, Places
  <2> QED BY <1>2, <2>1 DEF ServedSet
<1>6. ASSUME NEW eos \in SUBSET Rows, Decode(eos) PROVE ServedOnce'
  <2>1. /\ \A r \in Rows : r \in Req /\ state[r] # "FINISHED"
        /\ completed' = completed /\ state' = state
        /\ \A r \in Req \ Rows : finish_reason'[r] = finish_reason[r]
    BY <1>0, <1>6 DEF Decode, Emit, Places, TypeOK
  <2> QED BY <1>2, <2>1 DEF ServedSet
<1>7. ASSUME NEW r \in Req, Submit(r) PROVE ServedOnce'
  <2>1. state' = [state EXCEPT ![r] = "WAITING"] /\ state[r] = "NEW"
        /\ finish_reason' = finish_reason /\ completed' = completed
    BY <1>7 DEF Submit
  <2> QED BY <1>0, <1>2, <2>1 DEF ServedSet
<1>8. ASSUME NEW r \in Req, NEW v \in Req, Preempt(r, v) PROVE ServedOnce'
  <2>1. /\ state' = [state EXCEPT ![v] = "WAITING"] /\ state[v] = "RUNNING"
        /\ finish_reason' = finish_reason /\ completed' = completed
    BY <1>0, <1>8 DEF Preempt, IsVictim, Places
  <2> QED BY <1>0, <1>2, <2>1 DEF ServedSet
<1>9. CASE \/ \E r \in Req : ClientLeaves(r) \/ SetCancelled(r)
           \/ RetireDone \/ AdmitDone \/ BeginDecode \/ CapacityDone
           \/ \E r \in Req : PopAdmissible(r) \/ AllocateFails(r) \/ TakeBlock(r)
                              \/ RowSecured(r) \/ RaiseOutOfBlocks(r)
           \/ UNCHANGED vars
  <2>1. UNCHANGED <<state, finish_reason, completed>>
    BY <1>9 DEF ClientLeaves, SetCancelled, RetireDone, AdmitDone, BeginDecode, CapacityDone,
                PopAdmissible, AllocateFails, TakeBlock, RowSecured, RaiseOutOfBlocks, vars
  <2> QED BY <1>2, <2>1 DEF ServedSet
<1> QED
  BY <1>3, <1>4, <1>5, <1>6, <1>7, <1>8, <1>9 DEF Next, EngineStep

(* _retire: the metrics count every request that reached its end once, and   *)
(* nothing that was abandoned.                                               *)
THEOREM ServedExactlyOnce == Spec => []ServedOnce
PROOF
<1>1. Init => ServedOnce
  <2> SUFFICES ASSUME Init PROVE ServedOnce
    OBVIOUS
  <2>1. {r \in Req : state[r] = "FINISHED" /\ finish_reason[r] \in {"length", "stop"}} = {}
    BY DEF Init
  <2> QED BY <2>1, FS_EmptySet DEF Init, ServedOnce
<1>2. IInv /\ ServedOnce /\ [Next]_vars => ServedOnce'
  BY BlockManagerAssumption, ServedStep
<1> QED
  BY <1>1, <1>2, IInvHolds, PTL DEF Spec
-----------------------------------------------------------------------------
(* Over-commitment.  When blocks are reserved for the worst case, what keeps *)
(* the pool from running out is a count: no more blocks are promised than    *)
(* there are, and every block in use is one of those promised to its owner.  *)
(* The owner is known by its request id, and its worst case by the number of *)
(* tokens it asked for: the count is right as long as nobody misled it.      *)
Blameless == \A r \in Req : ~Misreserved(r)

Admitted == running \cup batch

(* An unfinished request has room for another token. *)
Room == \A r \in Req : Finished(r) \/ out[r] = 0 \/ out[r] < MaxNew(r)

Reserved ==
    /\ DOMAIN committed = {Id[r] : r \in Admitted}
    /\ \A r \in Admitted : /\ committed[Id[r]] = BlocksNeeded(Worst(r))
                           /\ Len(block_table[r]) <= committed[Id[r]]
    /\ IsFiniteSet(Promised)
    /\ Cardinality(Promised) <= NumBlocks

Commitments == Paged /\ ReserveMaxNew /\ Blameless => Reserved

(* Who has been submitted stays so, and so does who misled the count.       *)
LEMMA SubmittedStays ==
    ASSUME IInv, [Next]_vars
    PROVE  /\ \A r \in Req : state[r] # "NEW" => state'[r] # "NEW"
           /\ Blameless' => Blameless
PROOF
<1> USE DEF request, client, row, kv
<1>0. state \in [Req -> {"NEW", "WAITING", "RUNNING", "FINISHED"}]
  BY DEF IInv, TypeOK
<1> DEFINE Stays == \A r \in Req : state[r] # "NEW" => state'[r] # "NEW"
<1>1. Stays
  <2>1. ASSUME NEW r \in Req, Submit(r) \/ RetireOne(r) PROVE Stays
    BY <1>0, <2>1 DEF Submit, RetireOne
  <2>2. ASSUME NEW r \in Req, NEW v \in Req, Preempt(r, v) PROVE Stays
    BY <1>0, <2>2 DEF Preempt
  <2>3. ASSUME NEW S \in SUBSET batch, NEW eos \in SUBSET batch, Prefill(S, eos) PROVE Stays
    BY <1>0, <2>3 DEF Prefill
  <2>4. CASE \/ \E r \in Req : ClientLeaves(r) \/ SetCancelled(r)
             \/ BeginStep \/ RetireDone \/ AdmitDone \/ BeginDecode \/ CapacityDone
             \/ \E r \in Req : PopAdmissible(r) \/ AllocateFails(r) \/ TakeBlock(r)
                                \/ RowSecured(r) \/ RaiseOutOfBlocks(r)
             \/ \E eos \in SUBSET Rows : Decode(eos)
             \/ UNCHANGED vars
    <3>1. state' = state
      BY <2>4 DEF ClientLeaves, SetCancelled, BeginStep, RetireDone, AdmitDone, BeginDecode,
                  CapacityDone, PopAdmissible, AllocateFails, TakeBlock, RowSecured,
                  RaiseOutOfBlocks, Decode, vars
    <3> QED BY <3>1
  <2> QED BY <2>1, <2>2, <2>3, <2>4 DEF Next, EngineStep
<1> QED
  BY <1>1 DEF Blameless, Misreserved

LEMMA PairsEqual ==
    ASSUME NEW a, NEW b, NEW c, NEW d, <<a, b>> = <<c, d>>
    PROVE  a = c /\ b = d
PROOF
  OBVIOUS

(* Every block is in the free list or in a place somebody was promised. *)
LEMMA EveryBlockCounted ==
    ASSUME BlockManagerAssumption, KVTypeOK, NoneLost,
           \A q, r \in Req : /\ Id[q] = Id[r]
                              /\ block_table[q] # <<>> /\ block_table[r] # <<>>
                              => q = r,
           NEW P, IsFiniteSet(P),
           \A r \in Req : \A j \in 1 .. Len(block_table[r]) : <<Id[r], j>> \in P
    PROVE  NumBlocks <= Len(free_blocks) + Cardinality(P)
PROOF
<1> DEFINE L == Len(free_blocks)
           A == {0} \X (1 .. L)
           B == {1} \X P
           IsFree(b) == \E i \in 1 .. L : free_blocks[i] = b
           Owned(b, x) == \E r \in Req : \E j \in 1 .. Len(block_table[r]) :
                            x = <<Id[r], j>> /\ block_table[r][j] = b
           f == [b \in Block |->
                   IF IsFree(b) THEN <<0, CHOOSE i \in 1 .. L : free_blocks[i] = b>>
                   ELSE <<1, CHOOSE x \in P : Owned(b, x)>>]
<1>1. NumBlocks \in Nat /\ L \in Nat /\ Cardinality(P) \in Nat
  BY LenProperties, FS_CardinalityType DEF BlockManagerAssumption, KVTypeOK
<1>2. IsFiniteSet(Block) /\ Cardinality(Block) = NumBlocks
  <2>1. NumBlocks - 1 \in Int /\ 0 \in Int
    BY <1>1
  <2>2. IsFiniteSet(0 .. NumBlocks - 1)
        /\ Cardinality(0 .. NumBlocks - 1) = IF 0 > NumBlocks - 1 THEN 0 ELSE NumBlocks - 1 - 0 + 1
    BY <2>1, FS_Interval
  <2> QED BY <1>1, <2>2 DEF Block
<1>3. IsFiniteSet(A) /\ Cardinality(A) = L
  <2>1. /\ IsFiniteSet(1 .. L)
        /\ Cardinality(1 .. L) = IF 1 > L THEN 0 ELSE L - 1 + 1
    <3>1. 1 \in Int /\ L \in Int
      BY <1>1
    <3> HIDE DEF L
    <3> QED BY <3>1, FS_Interval
  <2>2. IsFiniteSet({0}) /\ Cardinality({0}) = 1
    BY FS_Singleton
  <2>3. Cardinality(1 .. L) = L
    BY <1>1, <2>1
  <2>4. IsFiniteSet(A) /\ Cardinality(A) = 1 * L
    <3> HIDE DEF L
    <3>1. IsFiniteSet(A) /\ Cardinality(A) = Cardinality({0}) * Cardinality(1 .. L)
      BY <2>1, <2>2, FS_Product
    <3> QED BY <2>2, <2>3, <3>1
  <2> QED BY <1>1, <2>4
<1>4. IsFiniteSet(B) /\ Cardinality(B) = Cardinality(P)
  <2>1. IsFiniteSet({1}) /\ Cardinality({1}) = 1
    BY FS_Singleton
  <2>2. IsFiniteSet(B) /\ Cardinality(B) = 1 * Cardinality(P)
    BY <2>1, FS_Product
  <2> QED BY <1>1, <2>2
<1>5. IsFiniteSet(A \cup B) /\ Cardinality(A \cup B) <= L + Cardinality(P)
  <2> HIDE DEF A, B, L
  <2>1. /\ IsFiniteSet(A \cup B)
        /\ Cardinality(A \cup B) = Cardinality(A) + Cardinality(B) - Cardinality(A \cap B)
    BY <1>3, <1>4, FS_Union
  <2>2. Cardinality(A \cap B) \in Nat
    BY <1>3, FS_Intersection, FS_CardinalityType
  <2> QED BY <1>1, <1>3, <1>4, <2>1, <2>2
(* f is well defined ... *)
<1>6. ASSUME NEW b \in Block, IsFree(b)
      PROVE  \E i \in 1 .. L : f[b] = <<0, i>> /\ free_blocks[i] = b
  BY <1>6
<1>7. ASSUME NEW b \in Block, ~IsFree(b)
      PROVE  \E x \in P : f[b] = <<1, x>> /\ Owned(b, x)
  <2>1. PICK r \in Req : \E j \in 1 .. Len(block_table[r]) : block_table[r][j] = b
    BY <1>7 DEF NoneLost
  <2>2. PICK j \in 1 .. Len(block_table[r]) : block_table[r][j] = b
    BY <2>1
  <2>3. <<Id[r], j>> \in P /\ Owned(b, <<Id[r], j>>)
    BY <2>2
  <2>4. f[b] = <<1, CHOOSE x \in P : Owned(b, x)>>
    BY <1>7
  <2> HIDE DEF Owned, f
  <2> QED BY <2>3, <2>4
<1>8. f \in [Block -> A \cup B]
  <2>1. \A b \in Block : f[b] \in A \cup B
    <3> TAKE b \in Block
    <3> HIDE DEF f, Owned, IsFree
    <3>1. CASE IsFree(b)
      <4>1. PICK i \in 1 .. L : f[b] = <<0, i>>
        BY <1>6, <3>1
      <4> QED BY <4>1
    <3>2. CASE ~IsFree(b)
      <4>1. PICK x \in P : f[b] = <<1, x>>
        BY <1>7, <3>2
      <4> QED BY <4>1
    <3> QED BY <3>1, <3>2
  <2>2. f \in [Block -> {f[b] : b \in Block}]
    OBVIOUS
  <2> HIDE DEF f, A, B
  <2> QED BY <2>1, <2>2
(* ... and injective. *)
<1>9. ASSUME NEW b \in Block, NEW c \in Block, f[b] = f[c] PROVE b = c
  <2> HIDE DEF f
  <2>1. CASE IsFree(b) /\ IsFree(c)
    BY <1>6, <1>9, <2>1
  <2>2. CASE ~IsFree(b) /\ ~IsFree(c)
    <3>1. PICK x \in P : f[b] = <<1, x>> /\ Owned(b, x)
      BY <1>7, <2>2
    <3>2. PICK y \in P : f[c] = <<1, y>> /\ Owned(c, y)
      BY <1>7, <2>2
    <3>3. x = y
      <4>1. <<1, x>> = <<1, y>>
        BY <1>9, <3>1, <3>2
      <4> QED BY <4>1, PairsEqual
    <3>4. PICK r \in Req : \E j \in 1 .. Len(block_table[r]) : x = <<Id[r], j>> /\ block_table[r][j] = b
      BY <3>1
    <3>5. PICK j \in 1 .. Len(block_table[r]) : x = <<Id[r], j>> /\ block_table[r][j] = b
      BY <3>4
    <3>6. PICK q \in Req : \E k \in 1 .. Len(block_table[q]) : y = <<Id[q], k>> /\ block_table[q][k] = c
      BY <3>2
    <3>7. PICK k \in 1 .. Len(block_table[q]) : y = <<Id[q], k>> /\ block_table[q][k] = c
      BY <3>6
    <3>8. Id[r] = Id[q] /\ j = k
      <4>1. <<Id[r], j>> = <<Id[q], k>>
        BY <3>3, <3>5, <3>7
      <4> QED BY <4>1, PairsEqual
    <3>9. r = q
      <4>1. block_table[r] # <<>> /\ block_table[q] # <<>>
        BY <3>5, <3>7, EmptySeq
      <4> QED BY <3>8, <4>1
    <3> QED BY <3>5, <3>7, <3>8, <3>9
  <2>3. CASE IsFree(b) /\ ~IsFree(c)
    <3>1. f[b][1] = 0
      BY <1>6, <2>3
    <3>2. f[c][1] = 1
      <4> HIDE DEF Owned
      <4> QED BY <1>7, <2>3
    <3> QED BY <1>9, <3>1, <3>2
  <2>4. CASE ~IsFree(b) /\ IsFree(c)
    <3>1. f[c][1] = 0
      BY <1>6, <2>4
    <3>2. f[b][1] = 1
      <4> HIDE DEF Owned
      <4> QED BY <1>7, <2>4
    <3> QED BY <1>9, <3>1, <3>2
  <2> QED BY <2>1, <2>2, <2>3, <2>4
<1>10. ~(Cardinality(A \cup B) < Cardinality(Block))
  <2> HIDE DEF A, B, f
  <2> QED BY <1>2, <1>5, <1>8, <1>9, FS_PigeonHole
<1>11. Cardinality(A \cup B) \in Nat
  BY <1>5, FS_CardinalityType
<1> HIDE DEF A, B, L
<1>12. NumBlocks <= L + Cardinality(P)
  BY <1>1, <1>2, <1>5, <1>10, <1>11
<1> QED
  BY <1>12 DEF L

LEMMA RoomStep ==
    ASSUME BlockManagerAssumption, SchedulerAssumption, IInv, Room, [Next]_vars
    PROVE  Room'
PROOF
<1> USE DEF request, client, row, kv, Finished
<1>0. /\ out \in [Req -> Nat] /\ Rows \subseteq Req /\ batch \subseteq Req
      /\ \A r \in Req : MaxNew(r)' = MaxNew(r)
  BY RowsTyped DEF IInv, TypeOK, MaxNew
<1>1. ASSUME NEW S \in SUBSET Req, NEW eos, Emit(S, eos) PROVE Room'
  <2> SUFFICES ASSUME NEW r \in Req
               PROVE  \/ finish_reason'[r] # "none" \/ out'[r] = 0 \/ out'[r] < MaxNew(r)
    BY <1>0 DEF Room
  <2>1. out[r] \in Nat /\ MaxNew(r) \in Int
    BY <1>0, RequestNumbers DEF IInv
  <2>2. /\ out'[r] = IF r \in S THEN out[r] + 1 ELSE out[r]
        /\ finish_reason'[r] = IF r \in S /\ out[r] + 1 >= MaxNew(r) THEN "length"
                               ELSE IF r \in S \cap eos THEN "stop" ELSE finish_reason[r]
    BY <1>1 DEF Emit
  <2>3. CASE r \in S /\ out[r] + 1 >= MaxNew(r)
    BY <2>2, <2>3
  <2>4. CASE r \in S /\ ~(out[r] + 1 >= MaxNew(r))
    BY <2>1, <2>2, <2>4
  <2>5. CASE r \notin S
    BY <2>2, <2>5 DEF Room
  <2> QED BY <2>3, <2>4, <2>5
<1>2. ASSUME NEW S \in SUBSET batch, NEW eos \in SUBSET batch, Prefill(S, eos) PROVE Room'
  BY <1>0, <1>1, <1>2 DEF Prefill
<1>3. ASSUME NEW eos \in SUBSET Rows, Decode(eos) PROVE Room'
  BY <1>0, <1>1, <1>3 DEF Decode
<1>4. CASE BeginStep
  BY <1>0, <1>4 DEF BeginStep, Room
<1>5. CASE UNCHANGED <<out, finish_reason>>
  BY <1>0, <1>5 DEF Room
<1>6. CASE \/ \E r \in Req : Submit(r) \/ ClientLeaves(r) \/ SetCancelled(r)
           \/ RetireDone \/ AdmitDone \/ BeginDecode \/ CapacityDone
           \/ \E r \in Req : RetireOne(r) \/ PopAdmissible(r) \/ AllocateFails(r)
                              \/ TakeBlock(r) \/ RowSecured(r) \/ RaiseOutOfBlocks(r)
           \/ \E r, v \in Req : Preempt(r, v)
           \/ UNCHANGED vars
  BY <1>5, <1>6 DEF Submit, ClientLeaves, SetCancelled, RetireDone, AdmitDone, BeginDecode,
       CapacityDone, RetireOne, PopAdmissible, AllocateFails, TakeBlock, RowSecured,
       RaiseOutOfBlocks, Preempt, vars
<1> QED
  BY <1>2, <1>3, <1>4, <1>6 DEF Next, EngineStep

(* A sequence that can still grow fits in its worst case, if it has begun   *)
(* or asked for a number of tokens that is not negative.                    *)
LEMMA RoomFits ==
    ASSUME BlockManagerAssumption, SchedulerAssumption, TypeOK, Room, NEW r \in Req, ~Finished(r),
           MaxNewTokens[r] >= 0 \/ out[r] > 0
    PROVE  /\ BlocksNeeded(Worst(r)) \in Nat
           /\ BlocksNeeded(SeqLen(r)) <= BlocksNeeded(Worst(r))
PROOF
<1>1. SeqLen(r) \in Nat /\ Worst(r) \in Int
  BY RequestNumbers
<1>2. SeqLen(r) <= Worst(r)
  <2>1. /\ out[r] \in Nat /\ MaxNew(r) \in Int /\ Prompt[r] \in Nat
        /\ MaxNewTokens[r] >= 0 => MaxNew(r) \in Nat
    BY RequestNumbers DEF TypeOK, SchedulerAssumption
  <2> QED BY <2>1 DEF Room, SeqLen, Worst
<1>3. Worst(r) \in Nat
  BY <1>1, <1>2
<1> HIDE DEF SeqLen, Worst, BlocksNeeded
<1> QED
  BY <1>1, <1>2, <1>3, BlocksNeededFacts

LEMMA PromisedWithout ==
    ASSUME IsFiniteSet(Promised), NEW k, committed' = Without(committed, k)
    PROVE  IsFiniteSet(Promised') /\ Cardinality(Promised') <= Cardinality(Promised)
PROOF
<1>1. Promised' \subseteq Promised
  BY DEF Promised, Without
<1> HIDE DEF Promised
<1> QED BY <1>1, FS_Subset

LEMMA PromisedPut ==
    ASSUME IsFiniteSet(Promised), NEW k, k \notin DOMAIN committed, NEW n \in Nat,
           committed' = Put(committed, k, n)
    PROVE  IsFiniteSet(Promised') /\ Cardinality(Promised') <= Cardinality(Promised) + n
PROOF
<1> DEFINE N == {k} \X (1 .. n)
<1>1. Promised' = Promised \cup N
  <2>1. DOMAIN committed' = DOMAIN committed \cup {k}
    BY DEF Put
  <2>2. committed'[k] = n /\ \A x \in DOMAIN committed : committed'[x] = committed[x]
    BY DEF Put
  <2> QED BY <2>1, <2>2 DEF Promised
<1>2. IsFiniteSet(N) /\ Cardinality(N) = n
  <2>1. IsFiniteSet(1 .. n) /\ Cardinality(1 .. n) = n
    <3>1. IsFiniteSet(1 .. n) /\ Cardinality(1 .. n) = IF 1 > n THEN 0 ELSE n - 1 + 1
      BY FS_Interval
    <3> QED BY <3>1
  <2>2. IsFiniteSet({k}) /\ Cardinality({k}) = 1
    BY FS_Singleton
  <2>3. IsFiniteSet(N) /\ Cardinality(N) = Cardinality({k}) * Cardinality(1 .. n)
    BY <2>1, <2>2, FS_Product
  <2> QED BY <2>1, <2>2, <2>3
<1> HIDE DEF N, Promised
<1>3. /\ IsFiniteSet(Promised \cup N)
      /\ Cardinality(Promised \cup N) = Cardinality(Promised) + n - Cardinality(Promised \cap N)
  BY <1>2, FS_Union
<1>4. Cardinality(Promised \cap N) \in Nat /\ Cardinality(Promised) \in Nat
  BY FS_Intersection, FS_CardinalityType
<1> QED
  BY <1>1, <1>3, <1>4

(* Nothing is taken away from the sum when every promise is a number of     *)
(* blocks.                                                                  *)
LEMMA NothingOverdrawn ==
    ASSUME IsFiniteSet(Promised), \A k \in DOMAIN committed : committed[k] \in Nat
    PROVE  Committed = Cardinality(Promised) /\ Cardinality(Promised) \in Nat
PROOF
<1>1. \A k \in DOMAIN committed : 1 .. -committed[k] = {}
  OBVIOUS
<1>2. Overdrawn = {}
  BY <1>1 DEF Overdrawn
<1>3. Cardinality(Promised) \in Nat /\ Cardinality(Overdrawn) = 0
  BY <1>2, FS_CardinalityType, FS_EmptySet
<1> HIDE DEF Promised, Overdrawn
<1> QED BY <1>3 DEF Committed

Within == Room /\ Commitments /\ DiesOnlyOfBadReservation

(* What a count that nobody misled rests on. *)
LEMMA BlamelessFacts ==
    ASSUME BlockManagerAssumption, SchedulerAssumption, IInv, Within, Paged, ReserveMaxNew, Blameless
    PROVE  /\ Reserved /\ Admitted \subseteq Req
           /\ \A r \in Req : state[r] # "NEW" => MaxNewTokens[r] >= 0
           /\ \A q, r \in Req : state[q] # "NEW" /\ state[r] # "NEW" /\ Id[q] = Id[r] => q = r
           /\ \A r \in Admitted : state[r] # "NEW"
           /\ \A q, r \in Req : /\ Id[q] = Id[r]
                                /\ block_table[q] # <<>> /\ block_table[r] # <<>>
                                => q = r
           /\ \A k \in DOMAIN committed : committed[k] \in Nat
           /\ Committed = Cardinality(Promised) /\ Cardinality(Promised) \in Nat
PROOF
<1>1. Reserved /\ Admitted \subseteq Req
  BY DEF Within, Commitments, IInv, TypeOK, Admitted
<1>2. \A r \in Req : state[r] # "NEW" => MaxNewTokens[r] >= 0
  BY DEF Blameless, Misreserved, SchedulerAssumption
<1>3. \A q, r \in Req : state[q] # "NEW" /\ state[r] # "NEW" /\ Id[q] = Id[r] => q = r
  BY DEF Blameless, Misreserved
<1>4. \A r \in Admitted : state[r] # "NEW"
  BY <1>1 DEF Admitted, IInv, Places
<1>5. \A r \in Req : block_table[r] # <<>> => r \in Admitted
  BY DEF Admitted, IInv, OnlyAdmittedHoldKV
<1>6. \A k \in DOMAIN committed : committed[k] \in Nat
  <2>1. \A r \in Req : Worst(r) \in Int /\ (MaxNewTokens[r] >= 0 => Worst(r) \in Nat)
    BY RequestNumbers DEF IInv
  <2>2. \A r \in Admitted : BlocksNeeded(Worst(r)) \in Nat
    BY <1>1, <1>2, <1>4, <2>1, BlocksNeededFacts
  <2> QED BY <1>1, <2>2 DEF Reserved
<1>7. Committed = Cardinality(Promised) /\ Cardinality(Promised) \in Nat
  BY <1>1, <1>6, NothingOverdrawn DEF Reserved
<1> QED
  BY <1>1, <1>2, <1>3, <1>4, <1>5, <1>6, <1>7

LEMMA CommitmentsStep ==
    ASSUME BlockManagerAssumption, SchedulerAssumption, IInv, Within, [Next]_vars
    PROVE  Commitments'
PROOF
<1> DEFINE Goal == /\ DOMAIN committed' = {Id[r] : r \in Admitted'}
                   /\ \A r \in Admitted' : /\ committed'[Id[r]] = BlocksNeeded(Worst(r))
                                          /\ Len(block_table'[r]) <= committed'[Id[r]]
                   /\ IsFiniteSet(Promised') /\ Cardinality(Promised') <= NumBlocks
<1> SUFFICES ASSUME Paged, ReserveMaxNew, Blameless'
             PROVE  Goal
  BY DEF Commitments, Reserved, BlocksNeeded, Worst, MaxNew
<1> USE DEF request, client, row, kv
<1>0. /\ TypeOK /\ KVTypeOK /\ Places /\ Room /\ Blameless
      /\ LinedUp /\ active \in Seq(Req) /\ idx \in Nat
      /\ Admitted \subseteq Req /\ NumBlocks \in Nat
      /\ DOMAIN committed = {Id[r] : r \in Admitted}
      /\ \A r \in Admitted : /\ committed[Id[r]] = BlocksNeeded(Worst(r))
                            /\ Len(block_table[r]) <= committed[Id[r]]
      /\ IsFiniteSet(Promised) /\ Cardinality(Promised) <= NumBlocks
      /\ Cardinality(Promised) \in Nat /\ Committed = Cardinality(Promised)
      /\ \A r \in Admitted : state[r] # "NEW"
      /\ \A r \in Req : state[r] # "NEW" => MaxNewTokens[r] >= 0
      /\ \A q, r \in Req : state[q] # "NEW" /\ state[r] # "NEW" /\ Id[q] = Id[r] => q = r
  <2>1. Blameless
    BY SubmittedStays
  <2>2. TypeOK /\ KVTypeOK /\ Places /\ Room /\ LinedUp /\ active \in Seq(Req) /\ idx \in Nat
    BY DEF IInv, TypeOK, Within
  <2>3. NumBlocks \in Nat
    BY DEF BlockManagerAssumption
  <2> QED BY <2>1, <2>2, <2>3, BlamelessFacts DEF Reserved
<1>1. ASSUME UNCHANGED <<committed, block_table>>, Admitted' = Admitted PROVE Goal
  BY <1>0, <1>1 DEF Promised
(* free() withdraws the promise of the request it frees. *)
<1>2. ASSUME NEW r \in Req, Free(r), Admitted' = Admitted \ {r}, r \in Admitted PROVE Goal
  <2>1. committed' = Without(committed, Id[r]) /\ \A q \in Req \ {r} : block_table'[q] = block_table[q]
    BY <1>0, <1>2 DEF Free, KVTypeOK
  <2>2. IsFiniteSet(Promised') /\ Cardinality(Promised') <= Cardinality(Promised)
    BY <1>0, <2>1, PromisedWithout
  <2>3. Cardinality(Promised') <= NumBlocks
    BY <1>0, <2>2, FS_CardinalityType
  <2>4. DOMAIN committed' = {Id[q] : q \in Admitted'}
    BY <1>0, <1>2, <2>1 DEF Without
  <2>5. \A q \in Admitted' : committed'[Id[q]] = committed[Id[q]]
    BY <1>0, <1>2, <2>1 DEF Without
  <2>6. \A q \in Admitted' : block_table'[q] = block_table[q] /\ q \in Admitted
    BY <1>0, <1>2, <2>1
  <2> HIDE DEF Promised
  <2> QED BY <1>0, <2>2, <2>3, <2>4, <2>5, <2>6
<1>3. ASSUME NEW r \in Req, RetireOne(r) PROVE Goal
  <2>1. Free(r) /\ Admitted' = Admitted \ {r} /\ r \in Admitted
    BY <1>3, WaitingHoldNothing DEF RetireOne, Done, Admitted
  <2> QED BY <1>2, <2>1
<1>4. ASSUME NEW r \in Req, NEW v \in Req, Preempt(r, v) PROVE Goal
  BY <1>4 DEF Preempt, SchedulerAssumption
<1>5. ASSUME NEW r \in Req, PopAdmissible(r) PROVE Goal
  <2> DEFINE w == BlocksNeeded(Worst(r))
             n == BlocksNeeded(SeqLen(r))
  <2>1. /\ r \in waiting /\ state[r] = "WAITING" /\ ~Finished(r)
        /\ Committed + w <= NumBlocks
        /\ committed' = Put(committed, Id[r], w)
        /\ AllocateAsserts(SeqLen(r))
        /\ Admitted' = Admitted \cup {r}
    BY <1>0, <1>5 DEF PopAdmissible, Admissible, CanAllocate, Allocate, Places, Admitted
  <2>2. w \in Nat /\ n \in Nat /\ n <= w
    <3>1. MaxNewTokens[r] >= 0
      BY <1>0, <2>1
    <3> QED BY <1>0, <2>1, <3>1, RequestNumbers, RoomFits
  <2>3. r \notin Admitted /\ Id[r] \notin DOMAIN committed
    <3>1. r \notin Admitted /\ state[r] # "NEW"
      BY <2>1, WaitingHoldNothing, <1>0 DEF Admitted, Places
    <3> QED BY <1>0, <3>1
  <2>4. Pops(r, n) /\ block_table[r] = <<>> /\ n \in 0 .. Len(free_blocks)
    <3>1. block_table[r] = <<>>
      BY <2>1, WaitingHoldNothing
    <3>2. Pops(r, n)
      BY <1>0, <1>5, <3>1, RequestNumbers, AllocateSafe DEF PopAdmissible
    <3>3. n <= Len(free_blocks) /\ Len(free_blocks) \in Nat
      BY <1>0, <2>1, LenProperties DEF AllocateAsserts, KVTypeOK
    <3> HIDE DEF n
    <3> QED BY <2>2, <3>1, <3>2, <3>3
  <2> HIDE DEF w, n
  <2>5. /\ Len(block_table'[r]) = Len(block_table[r]) + n
        /\ \A q \in Req \ {r} : block_table'[q] = block_table[q]
    BY <1>0, <2>4, PopsFacts DEF KVTypeOK
  <2>6. IsFiniteSet(Promised') /\ Cardinality(Promised') <= Cardinality(Promised) + w
    BY <1>0, <2>1, <2>2, <2>3, PromisedPut
  <2>7. Cardinality(Promised') <= NumBlocks
    BY <1>0, <2>1, <2>2, <2>6, FS_CardinalityType
  <2>8. /\ DOMAIN committed' = {Id[q] : q \in Admitted'}
        /\ committed'[Id[r]] = w
        /\ \A q \in Admitted : committed'[Id[q]] = committed[Id[q]]
    BY <1>0, <2>1, <2>3 DEF Put
  <2>9. Len(block_table'[r]) = n
    <3>1. Len(block_table[r]) = 0
      BY <2>4, EmptySeq
    <3> QED BY <2>2, <2>5, <3>1
  <2>10. \A q \in Admitted : q \in Req \ {r}
    BY <1>0, <2>3
  <2>11. ASSUME NEW q \in Admitted'
         PROVE  committed'[Id[q]] = BlocksNeeded(Worst(q)) /\ Len(block_table'[q]) <= committed'[Id[q]]
    <3>1. CASE q = r
      BY <2>2, <2>8, <2>9, <3>1 DEF w
    <3>2. CASE q # r
      <4>1. q \in Admitted
        BY <2>1, <3>2
      <4> QED BY <1>0, <2>5, <2>8, <2>10, <4>1
    <3> QED BY <3>1, <3>2
  <2> HIDE DEF Promised
  <2> QED BY <2>6, <2>7, <2>8, <2>11
(* append_slot stays within the promise: the sequence has not outgrown it. *)
<1>6. ASSUME NEW r \in Req, TakeBlock(r) PROVE Goal
  <2>1. /\ r \in Admitted /\ ~Finished(r) /\ free_blocks # <<>> /\ AppendSlot(r)
        /\ ~(Len(block_table[r]) >= BlocksNeeded(SeqLen(r)))
        /\ committed' = committed /\ Admitted' = Admitted
    <3>1. r \in Rows
      BY <1>0, <1>6, CurrentRow DEF TakeBlock
    <3> QED BY <1>0, <1>6, <3>1 DEF TakeBlock, Places, Admitted, LongEnough, AppendSlot
  <2>2. BlocksNeeded(SeqLen(r)) <= BlocksNeeded(Worst(r)) /\ BlocksNeeded(Worst(r)) \in Nat
    BY <1>0, <2>1, RoomFits
  <2>3. BlocksNeeded(SeqLen(r)) \in Nat
    BY <1>0, RequestNumbers
  <2>4. Len(block_table[r]) \in Nat /\ 1 \in 0 .. Len(free_blocks)
    BY <1>0, <2>1, EmptySeq, LenProperties DEF KVTypeOK
  <2>5. /\ Len(block_table'[r]) = Len(block_table[r]) + 1
        /\ \A q \in Req \ {r} : block_table'[q] = block_table[q]
    BY <1>0, <2>1, <2>4, AppendSlotSafe, PopsFacts DEF KVTypeOK
  <2>6. Len(block_table'[r]) <= committed[Id[r]]
    <3>1. committed[Id[r]] = BlocksNeeded(Worst(r)) /\ Len(block_table'[r]) = Len(block_table[r]) + 1
      BY <1>0, <2>1, <2>5
    <3>2. ~(Len(block_table[r]) >= BlocksNeeded(SeqLen(r)))
      BY <2>1
    <3> HIDE DEF BlocksNeeded, SeqLen, Worst
    <3> QED BY <2>2, <2>3, <2>4, <3>1, <3>2
  <2>7. Promised' = Promised
    BY <2>1 DEF Promised
  <2>8. \A q \in Admitted : Len(block_table'[q]) <= committed[Id[q]]
    BY <1>0, <2>5, <2>6
  <2> HIDE DEF Promised
  <2> QED BY <1>0, <2>1, <2>7, <2>8
<1>7. CASE \/ \E r \in Req : Submit(r) \/ ClientLeaves(r) \/ SetCancelled(r)
           \/ BeginStep \/ RetireDone \/ AdmitDone \/ BeginDecode \/ CapacityDone
           \/ \E r \in Req : AllocateFails(r) \/ RowSecured(r) \/ RaiseOutOfBlocks(r)
           \/ \E eos \in SUBSET Rows : Decode(eos)
           \/ UNCHANGED vars
  <2>1. UNCHANGED <<committed, block_table, running, batch>>
    BY <1>7 DEF Submit, ClientLeaves, SetCancelled, BeginStep, RetireDone, AdmitDone, BeginDecode,
                CapacityDone, AllocateFails, RowSecured, RaiseOutOfBlocks, Decode, vars
  <2> QED BY <1>1, <2>1 DEF Admitted
<1>8. ASSUME NEW S \in SUBSET batch, NEW eos \in SUBSET batch, Prefill(S, eos) PROVE Goal
  <2>1. UNCHANGED <<committed, block_table>> /\ Admitted' = Admitted
    BY <1>8 DEF Prefill, Admitted
  <2> QED BY <1>1, <2>1
<1> QED
  BY <1>3, <1>4, <1>5, <1>6, <1>7, <1>8 DEF Next, EngineStep

(* Every block in use is a promised one. *)
LEMMA OwnedArePromised ==
    ASSUME BlockManagerAssumption, SchedulerAssumption, IInv, Within,
           Paged, ReserveMaxNew, Blameless,
           NEW r \in Req, NEW j \in 1 .. Len(block_table[r])
    PROVE  <<Id[r], j>> \in Promised /\ r \in Admitted
PROOF
<1>1. Len(block_table[r]) \in Nat
  BY LenProperties DEF IInv, TypeOK, KVTypeOK
<1>2. block_table[r] # <<>>
  BY <1>1, EmptySeq
<1>3. r \in Admitted
  BY <1>2 DEF IInv, OnlyAdmittedHoldKV, Admitted
<1>4. Id[r] \in DOMAIN committed /\ Len(block_table[r]) <= committed[Id[r]]
      /\ committed[Id[r]] \in Nat
  BY <1>3, BlamelessFacts DEF Reserved
<1>5. j \in 1 .. committed[Id[r]]
  BY <1>1, <1>4
<1> QED
  BY <1>3, <1>4, <1>5 DEF Promised

LEMMA AllocateNeverFails ==
    ASSUME BlockManagerAssumption, SchedulerAssumption, IInv, Within,
           Paged /\ ReserveMaxNew => Blameless,
           NEW r \in Req, pc = "admit", Admissible(r)
    PROVE  AllocateAsserts(SeqLen(r))
PROOF
<1> DEFINE w == BlocksNeeded(Worst(r))
           n == BlocksNeeded(SeqLen(r))
           L == Len(free_blocks)
           h == Cardinality(running) + Cardinality(batch)
<1>1. /\ TypeOK /\ KVTypeOK /\ BlocksPartitioned /\ Room /\ Commitments
      /\ CanAllocate(SeqLen(r), Worst(r), h)
      /\ ~Finished(r)
  BY DEF IInv, TypeOK, Places, Within, Admissible
<1>2. n \in Nat /\ w \in Int /\ L \in Nat /\ h \in Nat
  <2>1. n \in Nat /\ w \in Int
    BY <1>1, RequestNumbers
  <2>2. L \in Nat
    BY <1>1, LenProperties DEF KVTypeOK
  <2>3. Cardinality(running) \in Nat /\ Cardinality(batch) \in Nat
    BY <1>1, FiniteParts
  <2> QED BY <2>1, <2>2, <2>3
<1>3. CASE ~Paged
  <2>1. n = 1
    BY <1>3 DEF BlocksNeeded
  <2> QED BY <1>1, <1>2, <1>3, <2>1 DEF CanAllocate, AllocateAsserts
<1>4. CASE Paged /\ ~ReserveMaxNew
  <2>1. L >= n + h
    BY <1>1, <1>4 DEF CanAllocate
  <2> HIDE DEF n, L, h
  <2>2. L >= n
    BY <1>2, <2>1
  <2> QED BY <2>2 DEF AllocateAsserts, L, n
<1>5. CASE Paged /\ ReserveMaxNew
  <2>0. /\ Reserved /\ Cardinality(Promised) \in Nat /\ Committed = Cardinality(Promised)
        /\ state[r] # "NEW" /\ MaxNewTokens[r] >= 0
        /\ \A p, q \in Req : /\ Id[p] = Id[q]
                             /\ block_table[p] # <<>> /\ block_table[q] # <<>>
                             => p = q
    <3>1. state[r] # "NEW"
      BY DEF Admissible, IInv, Places
    <3> QED BY <1>5, <3>1, BlamelessFacts
  <2>1. Cardinality(Promised) + w <= NumBlocks
    BY <1>1, <1>5, <2>0 DEF CanAllocate
  <2>2. IsFiniteSet(Promised)
    BY <2>0 DEF Reserved
  <2>3. \A q \in Req : \A j \in 1 .. Len(block_table[q]) : <<Id[q], j>> \in Promised
    BY <1>1, <1>5, OwnedArePromised
  <2>4. NumBlocks <= L + Cardinality(Promised)
    <3> HIDE DEF Promised
    <3> QED BY <1>1, <2>0, <2>2, <2>3, EveryBlockCounted DEF BlocksPartitioned
  <2>5. n <= w
    BY <1>1, <2>0, RoomFits
  <2>6. Cardinality(Promised) \in Nat /\ NumBlocks \in Nat
    BY <2>0 DEF BlockManagerAssumption
  <2> HIDE DEF n, L, w
  <2>7. L >= n
    BY <1>2, <2>1, <2>4, <2>5, <2>6
  <2> QED BY <2>7 DEF AllocateAsserts, L, n
<1> QED
  BY <1>3, <1>4, <1>5 DEF BlockManagerAssumption

LEMMA NeverOutOfBlocks ==
    ASSUME BlockManagerAssumption, SchedulerAssumption, IInv, Within,
           Paged /\ ReserveMaxNew => Blameless,
           NEW r \in Req, OutOfBlocks(r)
    PROVE  Preemption
PROOF
<1> SUFFICES ASSUME ~Preemption PROVE FALSE
  OBVIOUS
<1> DEFINE w == BlocksNeeded(Worst(r))
           n == BlocksNeeded(SeqLen(r))
           T == Len(block_table[r])
<1>1. /\ TypeOK /\ KVTypeOK /\ BlocksPartitioned /\ Room /\ Commitments
      /\ r \in running /\ r \in Admitted /\ ~Finished(r)
      /\ ~(T >= n) /\ free_blocks = <<>> /\ ReserveMaxNew
  <2>1. r \in Rows
    BY CurrentRow DEF IInv, TypeOK, OutOfBlocks
  <2> QED BY <2>1 DEF IInv, TypeOK, Places, Within, OutOfBlocks, LongEnough, Admitted,
                      SchedulerAssumption
<1>2. n \in Nat /\ T \in Nat
  BY <1>1, RequestNumbers, LenProperties DEF KVTypeOK
<1>3. CASE ~Paged
  <2>1. n = 1
    BY <1>3 DEF BlocksNeeded
  <2>2. T > 0
    <3>1. block_table[r] # <<>>
      BY <1>1 DEF IInv, OnlyAdmittedHoldKV
    <3> QED BY <1>1, <1>2, <3>1, EmptySeq DEF KVTypeOK
  <2> QED BY <1>1, <1>2, <2>1, <2>2
<1>4. CASE Paged
  <2> DEFINE x == <<Id[r], T + 1>>
             P == Promised \ {x}
  <2>0. /\ MaxNewTokens[r] >= 0
        /\ \A p, q \in Req : /\ Id[p] = Id[q]
                             /\ block_table[p] # <<>> /\ block_table[q] # <<>>
                             => p = q
    BY <1>1, <1>4, BlamelessFacts
  <2>1. /\ IsFiniteSet(Promised) /\ Cardinality(Promised) <= NumBlocks
        /\ committed[Id[r]] = w /\ Id[r] \in DOMAIN committed
        /\ w \in Nat /\ n <= w
    BY <1>1, <1>4, <2>0, BlamelessFacts, RoomFits DEF Reserved
  <2>2. x \in Promised
    <3>1. T + 1 \in 1 .. w
      <4> HIDE DEF T, n, w
      <4> QED BY <1>1, <1>2, <2>1
    <3>2. T + 1 \in 1 .. committed[Id[r]]
      BY <2>1, <3>1
    <3> HIDE DEF T
    <3> QED BY <2>1, <3>2 DEF Promised
  <2>3. ASSUME NEW q \in Req, NEW j \in 1 .. Len(block_table[q]) PROVE <<Id[q], j>> \in P
    <3>1. <<Id[q], j>> \in Promised
      BY <1>1, <1>4, OwnedArePromised
    <3>2. <<Id[q], j>> # x
      <4>1. SUFFICES ASSUME <<Id[q], j>> = <<Id[r], T + 1>> PROVE FALSE
        OBVIOUS
      <4>2. Id[q] = Id[r] /\ j = T + 1
        <5> HIDE DEF T
        <5> QED BY <4>1, PairsEqual
      <4>3. q = r
        <5>1. block_table[q] # <<>>
          BY EmptySeq
        <5>2. block_table[r] # <<>>
          BY <1>1 DEF IInv, OnlyAdmittedHoldKV
        <5> QED BY <2>0, <4>2, <5>1, <5>2
      <4> QED BY <1>2, <4>2, <4>3
    <3> QED BY <3>1, <3>2
  <2> HIDE DEF x, Promised
  <2>4. /\ IsFiniteSet(P) /\ Cardinality(P) = Cardinality(Promised) - 1
        /\ Cardinality(P) \in Nat /\ Cardinality(Promised) \in Nat
    BY <2>1, <2>2, FS_RemoveElement, FS_CardinalityType
  <2> HIDE DEF P
  <2>5. NumBlocks <= Len(free_blocks) + Cardinality(P)
    BY <1>1, <2>0, <2>3, <2>4, EveryBlockCounted DEF BlocksPartitioned
  <2>6. Len(free_blocks) = 0 /\ NumBlocks \in Nat
    BY <1>1, EmptySeq DEF BlockManagerAssumption
  <2> QED BY <2>1, <2>4, <2>5, <2>6
<1> QED
  BY <1>3, <1>4

LEMMA DeathStep ==
    ASSUME BlockManagerAssumption, SchedulerAssumption, IInv, Within, [Next]_vars
    PROVE  DiesOnlyOfBadReservation'
PROOF
<1> DEFINE Misled == Paged /\ ReserveMaxNew /\ \E r \in Req : Misreserved(r)
<1> USE DEF request, client, row, kv
<1>1. Misled => DiesOnlyOfBadReservation'
  BY SubmittedStays DEF DiesOnlyOfBadReservation, Misreserved, Blameless
<1> SUFFICES ASSUME ~Misled PROVE pc' # "dead"
  BY <1>1 DEF DiesOnlyOfBadReservation
<1>2. pc # "dead" /\ (Paged /\ ReserveMaxNew => Blameless)
  BY DEF Within, DiesOnlyOfBadReservation, Blameless
<1>3. ASSUME NEW r \in Req, AllocateFails(r) PROVE FALSE
  BY <1>2, <1>3, AllocateNeverFails DEF AllocateFails
<1>4. ASSUME NEW r \in Req, RaiseOutOfBlocks(r) PROVE FALSE
  BY <1>2, <1>4, NeverOutOfBlocks DEF RaiseOutOfBlocks
<1>5. CASE \/ \E r \in Req : Submit(r) \/ ClientLeaves(r) \/ SetCancelled(r)
           \/ BeginStep \/ RetireDone \/ AdmitDone \/ BeginDecode \/ CapacityDone
           \/ \E r \in Req : RetireOne(r) \/ PopAdmissible(r) \/ TakeBlock(r) \/ RowSecured(r)
           \/ \E r, v \in Req : Preempt(r, v)
           \/ \E S, eos \in SUBSET batch : Prefill(S, eos)
           \/ \E eos \in SUBSET Rows : Decode(eos)
           \/ UNCHANGED vars
  BY <1>2, <1>5 DEF Submit, ClientLeaves, SetCancelled, BeginStep, RetireDone,
       AdmitDone, BeginDecode, CapacityDone, RetireOne, PopAdmissible, TakeBlock, RowSecured,
       Preempt, Prefill, Decode, vars
<1> QED
  BY <1>3, <1>4, <1>5 DEF Next, EngineStep

(* "It must never over-commit": the assertion of allocate() fails, or a       *)
(* decode row finds the pool empty, only where reservations are made and      *)
(* among the submitted requests one asked for a negative number of tokens or  *)
(* two have the same request_id.                                              *)
THEOREM DiesOnlyWhenMisled == Spec => []DiesOnlyOfBadReservation
PROOF
<1>1. Init => Within
  <2> SUFFICES ASSUME Init PROVE Within
    OBVIOUS
  <2>1. Room /\ DiesOnlyOfBadReservation
    BY DEF Init, Room, DiesOnlyOfBadReservation
  <2>2. Promised = {} /\ Admitted = {} /\ DOMAIN committed = {}
    BY DEF Init, KVInit, Promised, Admitted
  <2>3. NumBlocks \in Nat
    BY BlockManagerAssumption DEF BlockManagerAssumption
  <2> HIDE DEF Promised, Admitted
  <2>4. Commitments
    BY <2>2, <2>3, FS_EmptySet DEF Commitments, Reserved
  <2> QED BY <2>1, <2>4 DEF Within
<1>2. IInv /\ Within /\ [Next]_vars => Within'
  BY BlockManagerAssumption, SchedulerAssumption, RoomStep, CommitmentsStep, DeathStep
     DEF Within
<1>3. Within => DiesOnlyOfBadReservation
  BY DEF Within
<1> QED
  BY <1>1, <1>2, <1>3, IInvHolds, PTL DEF Spec

-----------------------------------------------------------------------------
(***************************************************************************)
(* That a pass of the engine loop which finds work does something, for     *)
(* every value of the constants: the scheduler cannot spin.  With an empty *)
(* batch the pool is empty too, and the first of the waiting requests is   *)
(* admitted because it fits in it alone; with a batch some row decodes,    *)
(* because the last row left would have to be evicted while it owns every  *)
(* block there is, and it was promised to fit in those.                    *)
(***************************************************************************)

(* SlotManager.slots_for_budget: "At least one slot even if the budget is   *)
(* smaller than a slot, otherwise nothing runs."                            *)
SomeSlot == ~Paged => NumBlocks > 0

-----------------------------------------------------------------------------
(* A pool of which at most one request holds blocks.  *)
LEMMA AloneInThePool ==
    ASSUME BlockManagerAssumption, KVTypeOK, NoneLost, NEW r \in Req,
           \A q \in Req \ {r} : block_table[q] = <<>>
    PROVE  NumBlocks <= Len(free_blocks) + Len(block_table[r])
PROOF
<1> DEFINE L == Len(free_blocks)
           T == Len(block_table[r])
           f == [i \in 1 .. (L + T) |->
                   IF i <= L THEN free_blocks[i] ELSE block_table[r][i - L]]
<1>1. NumBlocks \in Nat /\ L \in Nat /\ T \in Nat
  BY LenProperties DEF BlockManagerAssumption, KVTypeOK
<1>2. /\ \A i \in 1 .. L : free_blocks[i] \in Block
      /\ \A j \in 1 .. T : block_table[r][j] \in Block
  BY ElementOfSeq DEF KVTypeOK
<1>3. ASSUME NEW b \in Block PROVE \E i \in 1 .. (L + T) : f[i] = b
  <2>1. CASE \E i \in 1 .. L : free_blocks[i] = b
    <3>1. PICK i \in 1 .. L : free_blocks[i] = b
      BY <2>1
    <3> HIDE DEF L, T
    <3>2. i \in 1 .. (L + T) /\ i <= L
      BY <1>1
    <3> QED BY <3>1, <3>2
  <2>2. CASE ~\E i \in 1 .. L : free_blocks[i] = b
    <3>1. PICK q \in Req : \E j \in 1 .. Len(block_table[q]) : block_table[q][j] = b
      BY <2>2 DEF NoneLost
    <3>2. PICK j \in 1 .. Len(block_table[q]) : block_table[q][j] = b
      BY <3>1
    <3>3. q = r
      BY <3>2, EmptySeq
    <3>4. j \in 1 .. T /\ block_table[r][j] = b
      BY <3>2, <3>3
    <3> HIDE DEF L, T
    <3>5. L + j \in 1 .. (L + T) /\ ~(L + j <= L) /\ (L + j) - L = j
      BY <1>1, <3>4
    <3> QED BY <3>4, <3>5
  <2> QED BY <2>1, <2>2
<1> HIDE DEF L, T
<1>4. f \in [1 .. (L + T) -> Block]
  <2>1. ASSUME NEW i \in 1 .. (L + T), ~(i <= L) PROVE i - L \in 1 .. T
    BY <1>1, <2>1
  <2>2. \A i \in 1 .. (L + T) : i <= L => i \in 1 .. L
    BY <1>1
  <2> QED BY <1>2, <2>1, <2>2
<1> HIDE DEF f
<1>5. f \in Surjection(1 .. (L + T), Block)
  BY <1>3, <1>4 DEF Surjection
<1>6. Cardinality(Block) <= L + T
  BY <1>1, <1>5, FS_SurjCardinalityBound DEF ExistsSurjection
<1>7. Cardinality(Block) = NumBlocks
  <2>1. NumBlocks - 1 \in Int /\ 0 \in Int
    BY <1>1
  <2>2. Cardinality(0 .. NumBlocks - 1) = IF 0 > NumBlocks - 1 THEN 0 ELSE NumBlocks - 1 - 0 + 1
    BY <2>1, FS_Interval
  <2> QED BY <1>1, <2>2 DEF Block
<1> QED
  BY <1>6, <1>7 DEF L, T

-----------------------------------------------------------------------------
(* The sort of _pop_admissible has a first element, because no two requests *)
(* arrive at the same time.                                                 *)
DistinctArrivals ==
    \A q, r \in Submitted : arrival[q] = arrival[r] => q = r

LEMMA DistinctArrivalsStep ==
    ASSUME BlockManagerAssumption, IInv, Queue, DistinctArrivals, [Next]_vars
    PROVE  DistinctArrivals'
PROOF
<1> USE DEF request, client, row, kv
<1>0. /\ Places
      /\ arrival \in [Req -> Nat]
      /\ state \in [Req -> {"NEW", "WAITING", "RUNNING", "FINISHED"}]
      /\ Rows \subseteq Req /\ batch \subseteq Req
  BY RowsTyped DEF IInv, TypeOK
<1>1. ASSUME Submitted' \subseteq Submitted, arrival' = arrival PROVE DistinctArrivals'
  BY <1>1 DEF DistinctArrivals
<1>2. ASSUME NEW r \in Req, Submit(r) PROVE DistinctArrivals'
  <2>1. /\ Submitted' = Submitted \cup {r}
        /\ r \notin Submitted
        /\ arrival' = [arrival EXCEPT ![r] = Cardinality(Submitted)]
    BY <1>0, <1>2 DEF Submit, Submitted
  <2>2. Cardinality(Submitted) \in Nat /\ Submitted \subseteq Req
    BY FS_Subset, FS_CardinalityType DEF BlockManagerAssumption, Submitted
  <2>3. \A q \in Submitted : arrival[q] \in Nat /\ arrival[q] # Cardinality(Submitted)
    BY <1>0, <2>2 DEF Queue
  <2> HIDE DEF Submitted
  <2> QED BY <1>0, <2>1, <2>2, <2>3 DEF DistinctArrivals
<1>3. ASSUME NEW r \in Req, RetireOne(r) PROVE DistinctArrivals'
  BY <1>0, <1>1, <1>3 DEF RetireOne, Done, Places, Submitted
<1>4. ASSUME NEW S \in SUBSET batch, NEW eos \in SUBSET batch, Prefill(S, eos)
      PROVE DistinctArrivals'
  <2>1. Submitted' \subseteq Submitted
    BY <1>0, <1>4 DEF Prefill, Places, Submitted
  <2> QED BY <1>1, <1>4, <2>1 DEF Prefill
<1>5. ASSUME NEW r \in Req, NEW v \in Req, Preempt(r, v) PROVE DistinctArrivals'
  <2>1. state[v] = "RUNNING"
    BY <1>0, <1>5 DEF Preempt, IsVictim, Places
  <2> QED BY <1>0, <1>1, <1>5, <2>1 DEF Preempt, Submitted
<1>6. CASE \/ \E r \in Req : ClientLeaves(r) \/ SetCancelled(r)
           \/ BeginStep \/ RetireDone \/ AdmitDone \/ BeginDecode \/ CapacityDone
           \/ \E r \in Req : PopAdmissible(r) \/ AllocateFails(r) \/ TakeBlock(r)
                              \/ RowSecured(r) \/ RaiseOutOfBlocks(r)
           \/ \E eos \in SUBSET Rows : Decode(eos)
           \/ UNCHANGED vars
  <2>1. UNCHANGED <<state, arrival>>
    BY <1>6 DEF ClientLeaves, SetCancelled, BeginStep, RetireDone, AdmitDone, BeginDecode,
                CapacityDone, PopAdmissible, AllocateFails, TakeBlock, RowSecured,
                RaiseOutOfBlocks, Decode, vars
  <2> QED BY <1>1, <2>1 DEF Submitted
<1> QED
  BY <1>2, <1>3, <1>4, <1>5, <1>6 DEF Next, EngineStep

LEMMA FirstInLine ==
    ASSUME BlockManagerAssumption, IInv, DistinctArrivals, waiting # {}
    PROVE  \E r \in waiting : \A q \in waiting \ {r} : Before(r, q)
PROOF
<1> DEFINE ahead(r) == {q \in waiting : Before(q, r)}
           A == {ahead(r) : r \in waiting}
           R == StrictSubsetOrdering(waiting)
<1>1. /\ waiting \subseteq Req /\ IsFiniteSet(waiting)
      /\ \A r \in waiting : arrival[r] \in Nat /\ preempt_count[r] \in Nat /\ r \in Submitted
  <2>1. waiting \subseteq Req /\ \A r \in waiting : state[r] = "WAITING"
    BY DEF IInv, TypeOK, Places
  <2> QED BY <2>1, FS_Subset DEF IInv, TypeOK, Submitted, BlockManagerAssumption
<1>2. /\ \A p, q, r \in waiting : Before(p, q) /\ Before(q, r) => Before(p, r)
      /\ \A r \in waiting : ~Before(r, r)
  BY <1>1 DEF Before
<1>3. \A q, r \in waiting : q # r => Before(q, r) \/ Before(r, q)
  BY <1>1 DEF Before, DistinctArrivals
<1>4. A \subseteq FiniteSubsetsOf(waiting) /\ A # {}
  <2>1. \A r \in waiting : ahead(r) \in SUBSET waiting
    OBVIOUS
  <2>2. \A r \in waiting : ahead(r) \in FiniteSubsetsOf(waiting)
    BY <1>1, <2>1, FS_FiniteSubsetsOfFinite
  <2> QED BY <2>2
<1>5. IsWellFoundedOn(R, FiniteSubsetsOf(waiting))
  BY FS_StrictSubsetOrderingWellFounded
<1> HIDE DEF A, R
<1>6. PICK m \in A : \A y \in A : <<y, m>> \notin R
  BY <1>4, <1>5, WFMin, Zenon
<1>7. PICK r \in waiting : m = ahead(r)
  BY <1>6 DEF A
<1>8. ASSUME NEW q \in waiting \ {r} PROVE Before(r, q)
  <2> SUFFICES ASSUME Before(q, r) PROVE FALSE
    BY <1>3
  <2>1. ahead(q) \subseteq ahead(r) /\ q \in ahead(r) /\ q \notin ahead(q)
    BY <1>2
  <2>2. ahead(q) \in A /\ <<ahead(q), m>> \in R
    BY <1>7, <2>1 DEF A, R, StrictSubsetOrdering
  <2> QED BY <1>6, <2>2
<1> QED
  BY <1>8

-----------------------------------------------------------------------------
(* What was accepted fits in an empty pool, and what is not admitted has    *)
(* nothing promised to it, shared ids or not.                               *)
Accepted == \A r \in Req : state[r] # "NEW" => FitsEver(Worst(r))

Promises == Paged => DOMAIN committed \subseteq {Id[r] : r \in Admitted}

LEMMA AcceptedStep ==
    ASSUME IInv, Accepted, [Next]_vars
    PROVE  Accepted'
PROOF
<1> USE DEF request, client, row, kv
<1>0. /\ Places
      /\ state \in [Req -> {"NEW", "WAITING", "RUNNING", "FINISHED"}]
      /\ Rows \subseteq Req /\ batch \subseteq Req
  BY RowsTyped DEF IInv, TypeOK
<1>1. ASSUME \A r \in Req : state'[r] # "NEW" => state[r] # "NEW" \/ FitsEver(Worst(r))
      PROVE  Accepted'
  BY <1>1 DEF Accepted, FitsEver, Worst, MaxNew, BlocksNeeded
<1>2. ASSUME NEW r \in Req, Submit(r) PROVE Accepted'
  BY <1>0, <1>1, <1>2 DEF Submit
<1>3. ASSUME NEW r \in Req, RetireOne(r) PROVE Accepted'
  BY <1>0, <1>1, <1>3 DEF RetireOne, Done, Places
<1>4. ASSUME NEW S \in SUBSET batch, NEW eos \in SUBSET batch, Prefill(S, eos) PROVE Accepted'
  BY <1>0, <1>1, <1>4 DEF Prefill, Places
<1>5. ASSUME NEW r \in Req, NEW v \in Req, Preempt(r, v) PROVE Accepted'
  BY <1>0, <1>1, <1>5 DEF Preempt, IsVictim, Places
<1>6. CASE \/ \E r \in Req : ClientLeaves(r) \/ SetCancelled(r)
           \/ BeginStep \/ RetireDone \/ AdmitDone \/ BeginDecode \/ CapacityDone
           \/ \E r \in Req : PopAdmissible(r) \/ AllocateFails(r) \/ TakeBlock(r)
                              \/ RowSecured(r) \/ RaiseOutOfBlocks(r)
           \/ \E eos \in SUBSET Rows : Decode(eos)
           \/ UNCHANGED vars
  <2>1. state' = state
    BY <1>6 DEF ClientLeaves, SetCancelled, BeginStep, RetireDone, AdmitDone, BeginDecode,
                CapacityDone, PopAdmissible, AllocateFails, TakeBlock, RowSecured,
                RaiseOutOfBlocks, Decode, vars
  <2> QED BY <1>1, <2>1
<1> QED
  BY <1>2, <1>3, <1>4, <1>5, <1>6 DEF Next, EngineStep

LEMMA PromisesStep ==
    ASSUME IInv, Promises, [Next]_vars
    PROVE  Promises'
PROOF
<1> USE DEF request, client, row, kv
<1>0. Places
  BY DEF IInv
<1>1. ASSUME committed' = committed, Admitted \subseteq Admitted' PROVE Promises'
  BY <1>1 DEF Promises
<1>2. ASSUME NEW r \in Req, Free(r), Admitted \ {r} \subseteq Admitted' PROVE Promises'
  <2>1. DOMAIN committed' = DOMAIN committed \ {Id[r]}
    BY <1>2 DEF Free, Without
  <2> QED BY <1>2, <2>1 DEF Promises
<1>3. ASSUME NEW r \in Req, RetireOne(r) PROVE Promises'
  BY <1>2, <1>3 DEF RetireOne, Admitted
<1>4. ASSUME NEW r \in Req, PopAdmissible(r) PROVE Promises'
  <2>1. Paged => DOMAIN committed' = DOMAIN committed \cup {Id[r]}
    BY <1>4 DEF PopAdmissible, Allocate, Put
  <2>2. Admitted' = Admitted \cup {r}
    BY <1>4 DEF PopAdmissible, Admitted
  <2> QED BY <2>1, <2>2 DEF Promises
<1>5. ASSUME NEW S \in SUBSET batch, NEW eos \in SUBSET batch, Prefill(S, eos) PROVE Promises'
  BY <1>1, <1>5 DEF Prefill, Admitted
<1>6. ASSUME NEW r \in Req, NEW v \in Req, Preempt(r, v) PROVE Promises'
  BY <1>2, <1>6 DEF Preempt, Admitted
<1>7. ASSUME NEW r \in Req, TakeBlock(r) PROVE Promises'
  BY <1>1, <1>7 DEF TakeBlock, AppendSlot, Admitted
<1>8. CASE \/ \E r \in Req : Submit(r) \/ ClientLeaves(r) \/ SetCancelled(r)
           \/ BeginStep \/ RetireDone \/ AdmitDone \/ BeginDecode \/ CapacityDone
           \/ \E r \in Req : AllocateFails(r) \/ RowSecured(r) \/ RaiseOutOfBlocks(r)
           \/ \E eos \in SUBSET Rows : Decode(eos)
           \/ UNCHANGED vars
  <2>1. UNCHANGED <<committed, running, batch>>
    BY <1>8 DEF Submit, ClientLeaves, SetCancelled, BeginStep, RetireDone, AdmitDone, BeginDecode,
                CapacityDone, AllocateFails, RowSecured, RaiseOutOfBlocks, Decode, vars
  <2> QED BY <1>1, <2>1 DEF Admitted
<1> QED
  BY <1>3, <1>4, <1>5, <1>6, <1>7, <1>8 DEF Next, EngineStep

-----------------------------------------------------------------------------
(* With nothing admitted the first of the waiting requests is admissible.   *)
Sound == IInv /\ Queue /\ DistinctArrivals /\ Room /\ Paid /\ Accepted /\ Promises

(* A prompt larger than the pool waits, with a negative max_new_tokens.     *)
Blocked == \E r \in waiting : NeverFits(r)

LEMMA SomebodyIsAdmissible ==
    ASSUME BlockManagerAssumption, SchedulerAssumption, SomeSlot, Sound,
           waiting # {}, running = {}, batch = {}, ~Blocked
    PROVE  \E r \in waiting : Admissible(r)
PROOF
<1>1. PICK r \in waiting : \A q \in waiting \ {r} : Before(r, q)
  BY FirstInLine DEF Sound
<1>2. /\ TypeOK /\ KVTypeOK /\ NoneLost /\ Room
      /\ r \in Req /\ state[r] = "WAITING" /\ ~Finished(r) /\ FitsEver(Worst(r))
  <2>1. TypeOK /\ Places /\ KVTypeOK /\ NoneLost
    BY DEF Sound, IInv, TypeOK, BlocksPartitioned
  <2>2. r \in Req /\ state[r] = "WAITING"
    BY <2>1 DEF TypeOK, Places
  <2> QED BY <2>1, <2>2 DEF Sound, Places, Accepted
<1>3. \A q \in Req : block_table[q] = <<>>
  BY DEF Sound, IInv, OnlyAdmittedHoldKV
<1>4. NumBlocks <= Len(free_blocks)
  <2>1. Len(block_table[r]) = 0 /\ Len(free_blocks) \in Nat
    BY <1>2, <1>3, LenProperties, EmptySeq DEF KVTypeOK
  <2>2. NumBlocks <= Len(free_blocks) + Len(block_table[r])
    BY <1>2, <1>3, AloneInThePool
  <2> QED BY <2>1, <2>2
<1>5. /\ BlocksNeeded(SeqLen(r)) \in Nat /\ BlocksNeeded(Worst(r)) \in Int
      /\ Paged => BlocksNeeded(SeqLen(r)) <= NumBlocks
      /\ Len(free_blocks) \in Nat /\ NumBlocks \in Nat
  <2>1. Len(free_blocks) \in Nat /\ NumBlocks \in Nat
    BY <1>2, LenProperties DEF KVTypeOK, BlockManagerAssumption
  <2>2. BlocksNeeded(SeqLen(r)) \in Nat /\ BlocksNeeded(Worst(r)) \in Int
    BY <1>2, RequestNumbers
  <2>3. Paged => BlocksNeeded(Worst(r)) <= NumBlocks
    BY <1>2 DEF FitsEver
  <2>4. CASE MaxNewTokens[r] >= 0
    <3>1. BlocksNeeded(SeqLen(r)) <= BlocksNeeded(Worst(r))
      BY <1>2, <2>4, RoomFits
    <3> HIDE DEF BlocksNeeded, SeqLen, Worst
    <3> QED BY <2>1, <2>2, <2>3, <3>1
  <2>5. CASE MaxNewTokens[r] < 0
    <3>1. out[r] = 0
      <4>1. out[r] \in Nat /\ MaxNewTokens[r] \in Int /\ MaxNew(r) < 0 /\ MaxNew(r) \in Int
        BY <1>2, <2>5 DEF TypeOK, SchedulerAssumption, BlockManagerAssumption, MaxNew
      <4> QED BY <1>2, <4>1 DEF Room
    <3>2. SeqLen(r) = Prompt[r]
      BY <1>2, <3>1 DEF SeqLen, SchedulerAssumption
    <3>3. ~(BlocksNeeded(Prompt[r]) > NumBlocks)
      BY <2>5 DEF Blocked, NeverFits
    <3>4. ~(BlocksNeeded(SeqLen(r)) > NumBlocks)
      <4> HIDE DEF BlocksNeeded, SeqLen
      <4> QED BY <3>2, <3>3
    <3> HIDE DEF BlocksNeeded, SeqLen, Worst
    <3> QED BY <2>1, <2>2, <3>4
  <2>6. MaxNewTokens[r] \in Int
    BY <1>2 DEF SchedulerAssumption
  <2> QED BY <2>1, <2>2, <2>4, <2>5, <2>6
<1>6. Cardinality(running) = 0 /\ Cardinality(batch) = 0
  BY FS_EmptySet
<1>7. Cardinality(batch) < Limit
  BY <1>6 DEF Limit, SchedulerAssumption
<1>8. CanAllocate(SeqLen(r), Worst(r), Cardinality(running) + Cardinality(batch))
  <2>1. Cardinality(running) + Cardinality(batch) = 0
    BY <1>6
  <2>2. CASE ~Paged
    BY <1>4, <1>5, <2>2 DEF CanAllocate, SomeSlot
  <2>3. CASE Paged
    <3>1. BlocksNeeded(Worst(r)) <= NumBlocks
      BY <1>2, <2>3 DEF FitsEver
    <3>2. Promised = {} /\ \A k \in DOMAIN committed : committed[k] \in Nat
      BY <2>3 DEF Sound, Promises, Admitted, Promised
    <3>3. Committed = 0
      BY <3>2, FS_EmptySet, NothingOverdrawn
    <3> HIDE DEF BlocksNeeded, SeqLen, Worst, Committed
    <3>4. /\ Committed + BlocksNeeded(Worst(r)) <= NumBlocks
          /\ Len(free_blocks) >= BlocksNeeded(SeqLen(r)) + 0
      BY <1>4, <1>5, <2>3, <3>1, <3>3
    <3> QED BY <2>1, <2>3, <3>4 DEF CanAllocate
  <2> QED BY <2>2, <2>3
<1> QED
  BY <1>1, <1>7, <1>8 DEF Admissible

(* The last row left is not evicted: it owns the whole pool, and fits in it. *)
LEMMA TheLastRowStays ==
    ASSUME BlockManagerAssumption, SchedulerAssumption, Sound, NEW r \in Req,
           OutOfBlocks(r), running = {r}, batch = {}
    PROVE  FALSE
PROOF
<1>1. /\ TypeOK /\ KVTypeOK /\ NoneLost /\ Room
      /\ r \in Rows /\ ~Finished(r) /\ FitsEver(Worst(r))
      /\ ~(Len(block_table[r]) >= BlocksNeeded(SeqLen(r))) /\ free_blocks = <<>>
      /\ out[r] > 0
  <2>1. TypeOK /\ Places /\ KVTypeOK /\ NoneLost /\ Room /\ Paid /\ r \in Rows
    BY CurrentRow DEF Sound, IInv, TypeOK, BlocksPartitioned, OutOfBlocks
  <2>2. out[r] > 0
    <3>1. state[r] = "RUNNING" /\ preempt_count[r] \in Nat /\ out[r] \in Nat
      BY <2>1 DEF Places, TypeOK
    <3> QED BY <2>1, <3>1 DEF Paid
  <2> QED BY <2>2, <2>1 DEF Sound, Places, Accepted, OutOfBlocks, LongEnough
<1>2. block_table[r] # <<>> /\ \A q \in Req \ {r} : block_table[q] = <<>>
  BY DEF Sound, IInv, OnlyAdmittedHoldKV
<1>3. Len(block_table[r]) \in Nat /\ Len(block_table[r]) > 0 /\ Len(free_blocks) = 0
  BY <1>1, <1>2, LenProperties, EmptySeq DEF KVTypeOK
<1>4. NumBlocks \in Nat /\ NumBlocks <= Len(block_table[r])
  <2>1. NumBlocks <= Len(free_blocks) + Len(block_table[r])
    BY <1>1, <1>2, AloneInThePool
  <2> QED BY <1>3, <2>1 DEF BlockManagerAssumption
<1>5. /\ BlocksNeeded(SeqLen(r)) \in Nat /\ BlocksNeeded(Worst(r)) \in Nat
      /\ BlocksNeeded(SeqLen(r)) <= BlocksNeeded(Worst(r))
  BY <1>1, RequestNumbers, RoomFits
<1>6. CASE Paged
  <2>1. BlocksNeeded(Worst(r)) <= NumBlocks
    BY <1>1, <1>6 DEF FitsEver
  <2> HIDE DEF BlocksNeeded, SeqLen, Worst
  <2> QED BY <1>1, <1>3, <1>4, <1>5, <2>1
<1>7. CASE ~Paged
  BY <1>1, <1>3, <1>7 DEF BlocksNeeded
<1> QED
  BY <1>6, <1>7

-----------------------------------------------------------------------------
(* While nothing was emitted, retired or dropped, somebody is left who will *)
(* be: each phase hands one to the next.                                    *)
SomebodyLeft ==
    ~progressed =>
        /\ pc = "retire" => waiting \cup running # {}
        /\ pc = "admit" => waiting \cup batch \cup running # {} /\ Done = {}
        /\ pc = "prefill" => (batch \cup running # {} \/ Blocked) /\ Done = {}
        /\ pc = "capacity" => Rows # {} /\ running = Rows

LEMMA SomebodyLeftStep ==
    ASSUME BlockManagerAssumption, SchedulerAssumption, SomeSlot, Sound, SomebodyLeft,
           [Next]_vars
    PROVE  SomebodyLeft' /\ (pc # "top" /\ pc' = "top" => progressed' \/ Blocked)
PROOF
<1> DEFINE Goal == SomebodyLeft' /\ (pc # "top" /\ pc' = "top" => progressed' \/ Blocked)
<1> USE DEF request, client, row, kv, Done, Finished
<1>0. /\ Places /\ TypeOK /\ LinedUp /\ Numbered
      /\ active \in Seq(Req) /\ idx \in Nat /\ running \subseteq Req
      /\ admit_seq \in [Req -> Nat \cup {-1}]
  BY DEF Sound, IInv, TypeOK
<1>1. ASSUME progressed' = TRUE PROVE Goal
  BY <1>1 DEF SomebodyLeft
(* Steps of the other threads, and those that stay in their loop. *)
<1>2. ASSUME UNCHANGED <<pc, progressed, running, finish_reason, Rows>>,
             waiting' \cup batch' = waiting \cup batch,
             pc # "admit" => UNCHANGED <<waiting, batch>>
      PROVE  Goal
  BY <1>2 DEF SomebodyLeft, Blocked, NeverFits, BlocksNeeded
<1>3. ASSUME NEW r \in Req, Submit(r) PROVE Goal
  BY <1>3 DEF Submit, SomebodyLeft
<1>4. ASSUME NEW r \in Req, ClientLeaves(r) PROVE Goal
  BY <1>2, <1>4, SameRow DEF ClientLeaves
<1>5. ASSUME NEW r \in Req, SetCancelled(r) PROVE Goal
  BY <1>2, <1>5, SameRow DEF SetCancelled
<1>6. CASE BeginStep
  BY <1>6 DEF BeginStep, SomebodyLeft
<1>7. ASSUME NEW r \in Req, RetireOne(r) PROVE Goal
  BY <1>1, <1>7 DEF RetireOne
<1>8. CASE RetireDone
  BY <1>8 DEF RetireDone, SomebodyLeft
<1>9. ASSUME NEW r \in Req, PopAdmissible(r) PROVE Goal
  <2>1. waiting' \cup batch' = waiting \cup batch
    BY <1>9 DEF PopAdmissible, Admissible
  <2> QED BY <1>2, <1>9, <2>1, SameRow DEF PopAdmissible
<1>10. ASSUME NEW r \in Req, AllocateFails(r) \/ RaiseOutOfBlocks(r) PROVE Goal
  BY <1>10 DEF AllocateFails, RaiseOutOfBlocks, SomebodyLeft
<1>11. CASE AdmitDone
  <2>1. ASSUME ~progressed PROVE (batch \cup running # {} \/ Blocked) /\ Done = {}
    <3>1. waiting # {} /\ running = {} /\ batch = {} => Blocked
      BY <1>11, SomebodyIsAdmissible DEF AdmitDone
    <3> QED BY <1>11, <2>1, <3>1 DEF AdmitDone, SomebodyLeft
  <2>2. Blocked' <=> Blocked
    BY <1>11 DEF AdmitDone, Blocked, NeverFits, BlocksNeeded
  <2> QED BY <1>11, <2>1, <2>2 DEF AdmitDone, SomebodyLeft
<1>12. ASSUME NEW S \in SUBSET batch, NEW eos \in SUBSET batch, Prefill(S, eos) PROVE Goal
  BY <1>1, <1>12 DEF Prefill, Emit
<1>13. CASE BeginDecode
  <2>1. Rows' = DecodeRows
    BY <1>0, <1>13, BeginRow
  <2> QED BY <1>13, <2>1 DEF BeginDecode, DecodeRows, SomebodyLeft
<1>14. ASSUME NEW r \in Req, TakeBlock(r) PROVE Goal
  BY <1>2, <1>14, SameRow DEF TakeBlock
<1>15. ASSUME NEW r \in Req, RowSecured(r) PROVE Goal
  BY <1>0, <1>2, <1>15, SecuredRow DEF RowSecured
<1>16. ASSUME NEW r \in Req, NEW v \in Req, Preempt(r, v) PROVE Goal
  <2>1. /\ pc = "capacity" /\ pc' = pc /\ progressed' = progressed
        /\ r \in Rows /\ v \in Rows /\ OutOfBlocks(r) /\ batch = {}
        /\ Rows' = Rows \ {v} /\ running' = running \ {v}
    BY <1>0, <1>16, CurrentRow, StruckRow DEF Preempt, OutOfBlocks, IsVictim, Places
  <2>2. ~progressed => Rows # {v}
    <3> SUFFICES ASSUME ~progressed, Rows = {v} PROVE FALSE
      OBVIOUS
    <3>1. r = v /\ running = {r}
      BY <2>1 DEF SomebodyLeft
    <3> QED BY <2>1, <3>1, TheLastRowStays
  <2> QED BY <2>1, <2>2 DEF SomebodyLeft
<1>17. CASE CapacityDone
  <2>1. Rows' = Rows /\ (active = <<>> => Rows = {})
    BY <1>0, <1>17, SameRow, AllSecured DEF CapacityDone
  <2> QED BY <1>17, <2>1 DEF CapacityDone, SomebodyLeft
<1>18. ASSUME NEW eos \in SUBSET Rows, Decode(eos) PROVE Goal
  BY <1>1, <1>18 DEF Decode, Emit
<1>19. CASE UNCHANGED vars
  BY <1>2, <1>19, SameRow DEF vars
<1> QED
  BY <1>3, <1>4, <1>5, <1>6, <1>7, <1>8, <1>9, <1>10, <1>11, <1>12, <1>13, <1>14, <1>15, <1>16,
     <1>17, <1>18, <1>19 DEF Next, EngineStep

(* Scheduler.step never returns from work without having emitted a token,     *)
(* retired or dropped a request, whatever is preempted and whichever ids the  *)
(* clients choose, unless a prompt larger than the pool waits that a negative *)
(* max_new_tokens brought past fits_ever: otherwise it cannot spin on         *)
(* requests it never admits.                                                  *)
THEOREM EveryPassProgresses == SomeSlot => (Spec => EveryStepProgresses)
PROOF
<1> SUFFICES ASSUME SomeSlot PROVE Spec => EveryStepProgresses
  OBVIOUS
<1> DEFINE Inv == Queue /\ FirstAdmissionsInOrder /\ DistinctArrivals /\ Room /\ Paid
                  /\ Accepted /\ Promises /\ SomebodyLeft
           Progress == pc # "top" /\ pc' = "top" => progressed' \/ \E r \in waiting : NeverFits(r)
<1>1. Init => Inv
  BY DEF Init, KVInit, Queue, Submitted, FirstAdmissionsInOrder, DistinctArrivals, Room, Paid,
         Accepted, Promises, SomebodyLeft
<1>2. IInv /\ Inv /\ [Next]_vars => Inv'
  BY BlockManagerAssumption, SchedulerAssumption, QueueStep, DistinctArrivalsStep, RoomStep,
     PaidStep, AcceptedStep, PromisesStep, SomebodyLeftStep DEF Sound
<1>3. IInv /\ Inv /\ [Next]_vars => [Progress]_vars
  BY BlockManagerAssumption, SchedulerAssumption, SomebodyLeftStep DEF Sound, Blocked
<1> QED
  BY <1>1, <1>2, <1>3, IInvHolds, PTL DEF Spec, EveryStepProgresses

-----------------------------------------------------------------------------
(***************************************************************************)
(* That Scheduler implements RequestLifecycle, and that a static batch     *)
(* which is never preempted moves in lockstep, for every value of the      *)
(* constants.  Both rest on IInv of SchedulerProofs.                       *)
(***************************************************************************)

-----------------------------------------------------------------------------
(* Lockstep.  Without preemption nobody comes back to wait, so the rows of  *)
(* a batch start together, and the batch is only filled when nobody runs.   *)
Lockstep ==
    /\ \A r \in Req : state[r] \in {"NEW", "WAITING"} => out[r] = 0
    /\ batch # {} => running = {}
    /\ pc \in {"capacity", "decode"} => Rows = DecodeRows
    /\ \A q, r \in DecodeRows : out[q] = out[r]

LEMMA LockstepStep ==
    ASSUME BlockManagerAssumption, SchedulerAssumption, IInv,
           Static, ~Preemption, Lockstep, [Next]_vars
    PROVE  Lockstep'
PROOF
<1> USE DEF request, client, row, kv, DecodeRows, Done, Finished
<1>0. /\ Places
      /\ out \in [Req -> Nat]
      /\ state \in [Req -> {"NEW", "WAITING", "RUNNING", "FINISHED"}]
      /\ waiting \subseteq Req /\ running \subseteq Req
      /\ Rows \subseteq Req /\ batch \subseteq Req
      /\ IsFiniteSet(Req)
  BY RowsTyped DEF IInv, TypeOK, BlockManagerAssumption
(* A step that gives no token and starts nobody. *)
<1>1. ASSUME UNCHANGED <<state, out, finish_reason, running>>,
             batch' \in {batch, {}},
             pc' \in {"capacity", "decode"} => Rows' = DecodeRows
      PROVE  Lockstep'
  BY <1>1 DEF Lockstep
<1>2. ASSUME NEW r \in Req, Submit(r) PROVE Lockstep'
  BY <1>0, <1>2 DEF Lockstep, Submit
<1>3. CASE BeginStep
  BY <1>0, <1>3 DEF Lockstep, BeginStep, Places
<1>4. ASSUME NEW r \in Req, RetireOne(r) PROVE Lockstep'
  BY <1>0, <1>4 DEF Lockstep, RetireOne, Places
<1>5. ASSUME NEW r \in Req, PopAdmissible(r) PROVE Lockstep'
  <2>1. Cardinality(batch) \in Nat
    BY <1>0, FS_Subset, FS_CardinalityType
  <2>2. running = {}
    BY <1>5, <2>1 DEF PopAdmissible, Admissible, Limit
  <2> QED BY <1>5, <2>2 DEF Lockstep, PopAdmissible
<1>6. ASSUME NEW S \in SUBSET batch, NEW eos \in SUBSET batch, Prefill(S, eos) PROVE Lockstep'
  <2>1. /\ S = batch /\ running = {} /\ running' = batch /\ batch' = {} /\ pc' = "prefill"
        /\ out' = [r \in Req |-> IF r \in S THEN out[r] + 1 ELSE out[r]]
        /\ state' = [r \in Req |-> IF r \in S THEN "RUNNING" ELSE state[r]]
    BY <1>6 DEF Prefill, Emit, Lockstep
  <2>2. \A r \in batch : out'[r] = 1
    BY <1>0, <2>1 DEF Lockstep, Places
  <2>3. \A r \in Req : state'[r] \in {"NEW", "WAITING"} => out'[r] = 0
    BY <1>0, <2>1 DEF Lockstep
  <2>4. DecodeRows' \subseteq batch
    BY <2>1
  <2>5. \A q, r \in DecodeRows' : out'[q] = out'[r]
    BY <2>2, <2>4
  <2> QED BY <2>1, <2>3, <2>5 DEF Lockstep
<1>7. CASE BeginDecode
  <2>1. Rows' = DecodeRows
    BY <1>7, BeginRow DEF IInv, TypeOK
  <2> QED BY <1>1, <1>7, <2>1 DEF BeginDecode
<1>8. ASSUME NEW eos \in SUBSET Rows, Decode(eos) PROVE Lockstep'
  <2>1. /\ Rows = running \ {r \in running : finish_reason[r] # "none"}
        /\ UNCHANGED <<running, state, batch>> /\ pc' = "top"
        /\ out' = [r \in Req |-> IF r \in Rows THEN out[r] + 1 ELSE out[r]]
        /\ \A r \in Req \ Rows : finish_reason'[r] = finish_reason[r]
    BY <1>8 DEF Decode, Emit, Lockstep
  <2>2. \A r \in Req : state[r] \in {"NEW", "WAITING"} => r \notin Rows
    BY <1>0, <2>1 DEF Places
  <2>3. running' \ {r \in running' : finish_reason'[r] # "none"} \subseteq Rows
    BY <1>0, <2>1
  <2>4. \A q, r \in Rows : out'[q] = out'[r]
    BY <1>0, <2>1 DEF Lockstep
  <2>5. \A r \in Req : state'[r] \in {"NEW", "WAITING"} => out'[r] = 0
    BY <2>1, <2>2 DEF Lockstep
  <2> QED BY <2>1, <2>3, <2>4, <2>5 DEF Lockstep
<1>9. CASE \/ \E r \in Req : ClientLeaves(r) \/ SetCancelled(r) \/ TakeBlock(r) \/ RowSecured(r)
                              \/ AllocateFails(r) \/ RaiseOutOfBlocks(r)
           \/ RetireDone \/ AdmitDone \/ CapacityDone
           \/ UNCHANGED vars
  <2>1. /\ UNCHANGED <<state, out, finish_reason, running, batch, Rows>>
        /\ pc' \in {"capacity", "decode"} => pc \in {"capacity", "decode"}
    BY <1>9, SameRow, SecuredRow DEF IInv, TypeOK, ClientLeaves, SetCancelled, TakeBlock, RowSecured,
                AllocateFails, RaiseOutOfBlocks, RetireDone, AdmitDone, CapacityDone, Current, vars
  <2> QED BY <1>1, <2>1 DEF Lockstep
<1>10. ASSUME NEW r \in Req, NEW v \in Req, Preempt(r, v) PROVE Lockstep'
  BY <1>10 DEF Preempt
<1> QED
  BY <1>2, <1>3, <1>4, <1>5, <1>6, <1>7, <1>8, <1>9, <1>10 DEF Next, EngineStep

(* A static batch that is never preempted moves in lockstep: whenever step()  *)
(* returns, its unfinished rows have the same number of tokens (_admit).      *)
THEOREM StaticBatchesMoveInLockstep == Spec => []StaticLockstep
PROOF
<1> DEFINE Inv == Static /\ ~Preemption => Lockstep
<1>1. Init => Inv
  BY DEF Init, Lockstep, DecodeRows
<1>2. IInv /\ Inv /\ [Next]_vars => Inv'
  BY BlockManagerAssumption, SchedulerAssumption, LockstepStep
<1>3. Inv => StaticLockstep
  BY DEF Lockstep, StaticLockstep
<1> QED
  BY <1>1, <1>2, <1>3, IInvHolds, PTL DEF Spec

-----------------------------------------------------------------------------
(* The refinement.  What it needs beyond IInv: a retired request has a reason *)
(* and only a submitted one has a client that can leave.                      *)
Clients ==
    /\ \A r \in Req : state[r] = "FINISHED" => Finished(r)
    /\ \A r \in leaving : state[r] # "NEW"

LEMMA ClientsStep ==
    ASSUME IInv, Clients, [Next]_vars
    PROVE  Clients'
PROOF
<1> USE DEF request, client, row, kv, Finished
<1>0. /\ Places
      /\ state \in [Req -> {"NEW", "WAITING", "RUNNING", "FINISHED"}]
      /\ leaving \subseteq Req /\ batch \subseteq Req /\ Rows \subseteq Req
  BY RowsTyped DEF IInv, TypeOK
<1>1. ASSUME NEW r \in Req, Submit(r) PROVE Clients'
  BY <1>0, <1>1 DEF Clients, Submit
<1>2. ASSUME NEW r \in Req, ClientLeaves(r) PROVE Clients'
  BY <1>0, <1>2 DEF Clients, ClientLeaves
<1>3. ASSUME NEW r \in Req, SetCancelled(r) PROVE Clients'
  BY <1>0, <1>3 DEF Clients, SetCancelled
<1>4. CASE BeginStep
  BY <1>0, <1>4 DEF Clients, BeginStep
<1>5. ASSUME NEW r \in Req, RetireOne(r) PROVE Clients'
  BY <1>0, <1>5 DEF Clients, RetireOne, Done
<1>6. ASSUME NEW S \in SUBSET batch, NEW eos \in SUBSET batch, Prefill(S, eos) PROVE Clients'
  BY <1>0, <1>6 DEF Clients, Prefill, Emit
<1>7. ASSUME NEW r \in Req, NEW v \in Req, Preempt(r, v) PROVE Clients'
  BY <1>0, <1>7 DEF Clients, Preempt
<1>8. ASSUME NEW eos \in SUBSET Rows, Decode(eos) PROVE Clients'
  BY <1>0, <1>8 DEF Clients, Decode, Emit
<1>9. CASE \/ RetireDone \/ AdmitDone \/ BeginDecode \/ CapacityDone
           \/ \E r \in Req : PopAdmissible(r) \/ AllocateFails(r) \/ TakeBlock(r) \/ RowSecured(r)
                              \/ RaiseOutOfBlocks(r)
           \/ UNCHANGED vars
  <2>1. UNCHANGED <<state, finish_reason, leaving>>
    BY <1>9 DEF RetireDone, AdmitDone, BeginDecode, CapacityDone, PopAdmissible, AllocateFails,
                TakeBlock, RowSecured, RaiseOutOfBlocks, vars
  <2> QED BY <2>1 DEF Clients
<1> QED
  BY <1>1, <1>2, <1>3, <1>4, <1>5, <1>6, <1>7, <1>8, <1>9 DEF Next, EngineStep

(* The phases, by the places of the engine thread. *)
LEMMA Phases ==
    ASSUME IInv, Clients, NEW r \in Req
    PROVE  /\ Phase(r) = "new" <=> state[r] = "NEW"
           /\ Phase(r) = "waiting" <=> r \in waiting \cup batch
           /\ Phase(r) = "running" <=> r \in running /\ ~Finished(r)
           /\ state[r] = "NEW" => r \notin waiting \cup batch \cup running
PROOF
<1>1. /\ Places
      /\ state[r] \in {"NEW", "WAITING", "RUNNING", "FINISHED"}
      /\ finish_reason[r] \in {"none", "length", "stop", "cancelled"}
  BY DEF IInv, TypeOK
<1> QED
  BY <1>1 DEF Phase, Dropped, Finished, Places, Clients

(* Who did not move has the phase it had. *)
LEMMA SamePhase ==
    ASSUME NEW r \in Req,
           UNCHANGED <<state[r], finish_reason[r]>>,
           r \in waiting' \cup batch' <=> r \in waiting \cup batch
    PROVE  Phase(r)' = Phase(r)
PROOF
  BY DEF Phase, Dropped

LEMMA LifecycleStep ==
    ASSUME IInv, Clients, [Next]_vars
    PROVE  [Lifecycle!Next]_(Lifecycle!vars)
PROOF
<1> DEFINE phase == [r \in Req |-> Phase(r)]
           Step == [Lifecycle!Next]_(Lifecycle!vars)
<1> USE DEF request, client, row, kv
<1>0. /\ Places
      /\ state \in [Req -> {"NEW", "WAITING", "RUNNING", "FINISHED"}]
      /\ finish_reason \in [Req -> {"none", "length", "stop", "cancelled"}]
      /\ out \in [Req -> Nat]
      /\ leaving \subseteq Req /\ batch \subseteq Req /\ Rows \subseteq Req
      /\ waiting \subseteq Req /\ running \subseteq Req
  BY RowsTyped DEF IInv, TypeOK
(* The steps nobody outside can tell. *)
<1>1. ASSUME UNCHANGED <<out, cancelled>>, \A r \in Req : Phase(r)' = Phase(r)
      PROVE  Step
  BY <1>1 DEF Lifecycle!vars
<1>2. ASSUME NEW r \in Req, Submit(r) PROVE Step
  <2>1. /\ Phase(r) = "new" /\ Phase(r)' = "waiting"
        /\ \A q \in Req \ {r} : Phase(q)' = Phase(q)
    BY <1>0, <1>2, Phases DEF Submit, Phase, Dropped, Places, Finished
  <2>2. Lifecycle!Arrive(r)
    BY <1>2, <2>1 DEF Submit, Lifecycle!Arrive, Lifecycle!Move
  <2> QED BY <2>2 DEF Lifecycle!Next
<1>3. ASSUME NEW r \in Req, SetCancelled(r) PROVE Step
  <2>1. Phase(r) # "new" /\ \A q \in Req : Phase(q)' = Phase(q)
    BY <1>0, <1>3, Phases DEF SetCancelled, Clients, Phase, Dropped
  <2>2. Lifecycle!Leave(r)
    BY <1>3, <2>1 DEF SetCancelled, Lifecycle!Leave
  <2> QED BY <2>2 DEF Lifecycle!Next
<1>4. CASE BeginStep
  <2>1. batch = {} /\ batch' = {} /\ waiting' = waiting \ cancelled
    BY <1>0, <1>4 DEF BeginStep, Places
  <2>2. ASSUME NEW r \in Req
        PROVE  Phase(r)' = IF r \in cancelled /\ Phase(r) \in {"waiting", "running"}
                           THEN "dropped" ELSE Phase(r)
    <3>1. CASE r \in waiting \cap cancelled
      BY <1>0, <1>4, <2>1, <3>1, Phases DEF BeginStep, Phase, Dropped, Places, Finished
    <3>2. CASE r \in running \cap cancelled /\ ~Finished(r)
      BY <1>0, <1>4, <2>1, <3>2, Phases DEF BeginStep, Phase, Finished
    <3>3. CASE ~(r \in waiting \cap cancelled) /\ ~(r \in running \cap cancelled /\ ~Finished(r))
      <4>1. state'[r] = state[r] /\ finish_reason'[r] = finish_reason[r]
        BY <1>4, <3>3 DEF BeginStep
      <4>2. Phase(r)' = Phase(r)
        BY <2>1, <3>3, <4>1, SamePhase
      <4> QED BY <2>1, <3>3, <4>2, Phases
    <3> QED BY <3>1, <3>2, <3>3
  <2>3. Lifecycle!Drop
    BY <1>4, <2>2 DEF BeginStep, Lifecycle!Drop, Lifecycle!Move, Lifecycle!In
  <2> QED BY <2>3 DEF Lifecycle!Next
<1>5. ASSUME NEW r \in Req, RetireOne(r) PROVE Step
  <2>1. \A q \in Req : Phase(q)' = Phase(q)
    BY <1>0, <1>5 DEF RetireOne, Done, Phase, Dropped, Places, Finished
  <2> QED BY <1>1, <1>5, <2>1 DEF RetireOne
<1>6. ASSUME NEW r \in Req, PopAdmissible(r) PROVE Step
  <2>1. \A q \in Req : Phase(q)' = Phase(q)
    BY <1>6 DEF PopAdmissible, Admissible, Phase, Dropped
  <2> QED BY <1>1, <1>6, <2>1 DEF PopAdmissible
(* The tokens of one forward pass. *)
<1>7. ASSUME NEW S \in SUBSET Req, NEW eos, Emit(S, eos), S # {}, cancelled' = cancelled,
             \A r \in S : finish_reason[r] = "none" /\ state'[r] = "RUNNING",
             \A r \in Req \ S : Phase(r)' = Phase(r),
             \/ \A r \in S : Phase(r) = "waiting"
             \/ \A r \in S : Phase(r) = "running"
      PROVE  Step
  <2> DEFINE F == {r \in S : finish_reason'[r] # "none"}
  <2>1. /\ \A r \in S : finish_reason'[r] \in {"none", "length", "stop"}
        /\ \A r \in S : out[r] + 1 >= MaxNew(r) => r \in F
    BY <1>7 DEF Emit
  <2>2. \A r \in S : Phase(r)' = IF r \in F THEN "done" ELSE "running"
    BY <1>7, <2>1 DEF Phase, Dropped
  <2>3. phase' = [r \in Req |-> IF r \in F THEN "done" ELSE IF r \in S THEN "running" ELSE phase[r]]
    BY <1>7, <2>2
  <2>4. S \subseteq Lifecycle!In("waiting") \/ S \subseteq Lifecycle!In("running")
    BY <1>7 DEF Lifecycle!In
  <2>5. Lifecycle!Serve(S, F)
    BY <1>7, <2>1, <2>3, <2>4 DEF Lifecycle!Serve, Emit
  <2> QED BY <2>5 DEF Lifecycle!Next
<1>8. ASSUME NEW S \in SUBSET batch, NEW eos \in SUBSET batch, Prefill(S, eos) PROVE Step
  <2>1. Emit(S, eos) /\ cancelled' = cancelled /\ S \in SUBSET Req
    BY <1>0, <1>8 DEF Prefill
  <2>2. S # {}
    BY <1>8 DEF Prefill
  <2>3. \A r \in S : finish_reason[r] = "none" /\ state'[r] = "RUNNING" /\ Phase(r) = "waiting"
    BY <1>0, <1>8, Phases DEF Prefill, Places, Finished
  <2>4. ASSUME NEW r \in Req \ S PROVE Phase(r)' = Phase(r)
    BY <1>8, SamePhase DEF Prefill, Emit
  <2> QED BY <1>7, <2>1, <2>2, <2>3, <2>4
<1>9. ASSUME NEW eos \in SUBSET Rows, Decode(eos) PROVE Step
  <2>1. /\ Emit(Rows, eos) /\ cancelled' = cancelled
        /\ UNCHANGED <<state, waiting, batch>>
    BY <1>9 DEF Decode
  <2>2. \A r \in Rows : /\ finish_reason[r] = "none" /\ state'[r] = "RUNNING"
                          /\ Phase(r) = "running"
    BY <1>0, <2>1, Phases DEF Places, Finished
  <2>3. ASSUME NEW r \in Req \ Rows PROVE Phase(r)' = Phase(r)
    BY <2>1, SamePhase DEF Emit
  <2>4. CASE Rows = {}
    <3>1. out' = out
      BY <1>0, <2>1, <2>4 DEF Emit
    <3> QED BY <1>1, <2>1, <2>3, <2>4, <3>1
  <2>5. CASE Rows # {}
    BY <1>0, <1>7, <2>1, <2>2, <2>3, <2>5
  <2> QED BY <2>4, <2>5
<1>10. ASSUME NEW r \in Req, NEW v \in Req, Preempt(r, v) PROVE Step
  <2>1. /\ v \in Rows /\ Phase(v) = "running"
        /\ waiting' = waiting \cup {v} /\ batch' = batch
        /\ state' = [state EXCEPT ![v] = "WAITING"]
        /\ UNCHANGED <<finish_reason, out, cancelled>>
    BY <1>0, <1>10, Phases DEF Preempt, IsVictim, Places
  <2>2. finish_reason[v] = "none"
    BY <1>0, <2>1 DEF Places, Finished
  <2>3. Phase(v)' = "waiting"
    BY <1>0, <2>1, <2>2 DEF Phase, Dropped
  <2>4. ASSUME NEW q \in Req \ {v} PROVE Phase(q)' = Phase(q)
    BY <1>0, <2>1, SamePhase
  <2>5. Lifecycle!Evict(v)
    BY <2>1, <2>3, <2>4 DEF Lifecycle!Evict, Lifecycle!Move
  <2> QED BY <2>5 DEF Lifecycle!Next
<1>11. CASE \/ \E r \in Req : ClientLeaves(r) \/ AllocateFails(r) \/ TakeBlock(r) \/ RowSecured(r)
                               \/ RaiseOutOfBlocks(r)
            \/ RetireDone \/ AdmitDone \/ BeginDecode \/ CapacityDone
            \/ UNCHANGED vars
  <2>1. UNCHANGED <<state, finish_reason, out, cancelled, waiting, batch>>
    BY <1>11 DEF ClientLeaves, AllocateFails, TakeBlock, RowSecured, RaiseOutOfBlocks,
                 RetireDone, AdmitDone, BeginDecode, CapacityDone, vars
  <2>2. \A r \in Req : Phase(r)' = Phase(r)
    BY <2>1 DEF Phase, Dropped
  <2> QED BY <1>1, <2>1, <2>2
<1> QED
  BY <1>2, <1>3, <1>4, <1>5, <1>6, <1>8, <1>9, <1>10, <1>11 DEF Next, EngineStep

(* Scheduler implements RequestLifecycle: whatever the batching, the allocator *)
(* and preemption do, a request waits, is served one token at a time, keeps    *)
(* its tokens when it is sent back, and ends once.                             *)
THEOREM SchedulerImplementsLifecycle == Spec => ImplementsLifecycle
PROOF
<1>1. Init => Lifecycle!Init
  BY DEF Init, Lifecycle!Init, Phase, Dropped
<1>2. Init => Clients
  BY DEF Init, Clients
<1>3. IInv /\ Clients /\ [Next]_vars => Clients'
  BY ClientsStep
<1>4. IInv /\ Clients /\ [Next]_vars => [Lifecycle!Next]_(Lifecycle!vars)
  BY LifecycleStep
<1> QED
  BY <1>1, <1>2, <1>3, <1>4, IInvHolds, PTL DEF Spec, ImplementsLifecycle, Lifecycle!Spec
=============================================================================
