-------------------------- MODULE SchedulerProofs --------------------------
(***************************************************************************)
(* What holds of BlockManager and Scheduler for every set of requests,     *)
(* every pool, block size and batch size, with and without preemption,     *)
(* static and continuous, paged and contiguous. The lemmas about the       *)
(* allocator's operations come first; what follows them need not look at   *)
(* sequences again.                                                        *)
(***************************************************************************)
EXTENDS Scheduler, DataLemmas

(* The operations of BlockManager, for every pool, block size and request. *)

(* blocks_needed is a whole number, whatever is asked for ...               *)
LEMMA BlocksNeededInt ==
    ASSUME BlockManagerAssumption, NEW n \in Int
    PROVE  BlocksNeeded(n) \in Int
PROOF
<1>1. BlockSize \in Nat \ {0}
  BY DEF BlockManagerAssumption
<1>2. (-n) \div BlockSize \in Int
  BY <1>1, SMTT(30)
<1> QED
  BY <1>2 DEF BlocksNeeded

(* ... and for a length it grows by at most one block per token, is         *)
(* positive for a non-empty sequence and covers its tokens.                 *)
LEMMA BlocksNeededFacts ==
    ASSUME BlockManagerAssumption, NEW n \in Nat
    PROVE  /\ BlocksNeeded(n) \in Nat
           /\ n > 0 => BlocksNeeded(n) > 0
           /\ Paged => n <= BlockSize * BlocksNeeded(n)
           /\ BlocksNeeded(n + 1) <= BlocksNeeded(n) + 1
           /\ \A m \in Nat : m <= n => BlocksNeeded(m) <= BlocksNeeded(n)
PROOF
<1> DEFINE c(k) == -((-k) \div BlockSize)
<1>0. BlockSize \in Nat \ {0} /\ Paged \in BOOLEAN
  BY DEF BlockManagerAssumption
<1>1. c(n) \in Nat
  BY <1>0, SMTT(30)
<1>2. n > 0 => c(n) > 0
  BY <1>0, SMTT(30)
<1>3. n <= BlockSize * c(n)
  BY <1>0, SMTT(30)
<1>4. c(n + 1) <= c(n) + 1
  BY <1>0, SMTT(30)
<1>5. \A m \in Nat : m <= n => c(m) <= c(n)
  BY <1>0, SMTT(30)
<1> QED
  BY <1>0, <1>1, <1>2, <1>3, <1>4, <1>5 DEF BlocksNeeded

(* What pop()ing n times returns, and what it leaves. *)
LEMMA PopFacts ==
    ASSUME free_blocks \in Seq(Block), NEW n \in 0 .. Len(free_blocks)
    PROVE  /\ Popped(n) \in Seq(Block)
           /\ Len(Popped(n)) = n
           /\ \A i \in 1 .. n : Popped(n)[i] = free_blocks[Len(free_blocks) + 1 - i]
           /\ AfterPop(n) \in Seq(Block)
           /\ Len(AfterPop(n)) = Len(free_blocks) - n
           /\ \A i \in 1 .. Len(free_blocks) - n : AfterPop(n)[i] = free_blocks[i]
PROOF
<1>1. Len(free_blocks) \in Nat /\ n \in Nat
  BY LenProperties
<1>2. \A i \in 1 .. n : free_blocks[Len(free_blocks) + 1 - i] \in Block
  BY <1>1, ElementOfSeq
<1>3. /\ Popped(n) \in [1 .. n -> Block]
      /\ \A i \in 1 .. n : Popped(n)[i] = free_blocks[Len(free_blocks) + 1 - i]
  BY <1>2 DEF Popped
<1>4. Popped(n) \in Seq(Block) /\ Len(Popped(n)) = n
  BY <1>1, <1>3
<1>5. \A i \in 1 .. Len(free_blocks) - n : free_blocks[i] \in Block
  BY <1>1, ElementOfSeq
<1>6. /\ AfterPop(n) \in Seq(Block)
      /\ Len(AfterPop(n)) = Len(free_blocks) - n
      /\ \A i \in 1 .. Len(free_blocks) - n : AfterPop(n)[i] = free_blocks[i]
  <2>1. /\ SubSeq(free_blocks, 1, Len(free_blocks) - n) \in Seq(Block)
        /\ Len(SubSeq(free_blocks, 1, Len(free_blocks) - n)) =
             IF 1 <= Len(free_blocks) - n THEN Len(free_blocks) - n - 1 + 1 ELSE 0
        /\ \A i \in 1 .. Len(free_blocks) - n - 1 + 1 :
             SubSeq(free_blocks, 1, Len(free_blocks) - n)[i] = free_blocks[1 + i - 1]
    <3> HIDE DEF Block
    <3> QED BY <1>1, <1>5, SubSeqProperties
  <2> QED
    BY <1>1, <2>1 DEF AfterPop
<1> QED
  BY <1>3, <1>4, <1>6

LEMMA ReversedFacts ==
    ASSUME NEW s \in Seq(Block)
    PROVE  /\ Reversed(s) \in Seq(Block)
           /\ Len(Reversed(s)) = Len(s)
           /\ \A i \in 1 .. Len(s) : Reversed(s)[i] = s[Len(s) + 1 - i]
PROOF
<1>1. Len(s) \in Nat
  BY LenProperties
<1>2. \A i \in 1 .. Len(s) : s[Len(s) + 1 - i] \in Block
  BY <1>1, ElementOfSeq
<1>3. /\ Reversed(s) \in [1 .. Len(s) -> Block]
      /\ \A i \in 1 .. Len(s) : Reversed(s)[i] = s[Len(s) + 1 - i]
  BY <1>2 DEF Reversed
<1> QED
  BY <1>1, <1>3
-----------------------------------------------------------------------------
(* Moving blocks from the free list to the end of one block table: what     *)
(* allocate (whose request has an empty table) and append_slot do.          *)
Pops(r, m) ==
    /\ free_blocks' = AfterPop(m)
    /\ block_table' = [block_table EXCEPT ![r] = @ \o Popped(m)]

LEMMA PopsFacts ==
    ASSUME free_blocks \in Seq(Block), block_table \in [Req -> Seq(Block)],
           NEW r \in Req, NEW m \in 0 .. Len(free_blocks), Pops(r, m)
    PROVE  /\ free_blocks' \in Seq(Block)
           /\ block_table' \in [Req -> Seq(Block)]
           /\ Len(free_blocks') = Len(free_blocks) - m
           /\ \A i \in 1 .. Len(free_blocks) - m : free_blocks'[i] = free_blocks[i]
           /\ Len(block_table'[r]) = Len(block_table[r]) + m
           /\ \A i \in 1 .. Len(block_table[r]) : block_table'[r][i] = block_table[r][i]
           /\ \A i \in 1 .. m :
                block_table'[r][Len(block_table[r]) + i] = free_blocks[Len(free_blocks) + 1 - i]
           /\ \A q \in Req \ {r} : block_table'[q] = block_table[q]
PROOF
<1> DEFINE t == block_table[r]
<1>1. t \in Seq(Block) /\ Len(t) \in Nat /\ m \in Nat
  BY LenProperties
<1>2. /\ t \o Popped(m) \in Seq(Block)
      /\ Len(t \o Popped(m)) = Len(t) + m
      /\ \A i \in 1 .. Len(t) + m :
           (t \o Popped(m))[i] = IF i <= Len(t) THEN t[i] ELSE Popped(m)[i - Len(t)]
  <2>1. Popped(m) \in Seq(Block) /\ Len(Popped(m)) = m
    BY PopFacts
  <2> HIDE DEF t
  <2> QED BY <1>1, <2>1, ConcatProperties
<1>3. /\ block_table' \in [Req -> Seq(Block)]
      /\ block_table'[r] = t \o Popped(m)
      /\ \A q \in Req \ {r} : block_table'[q] = block_table[q]
  BY <1>2 DEF Pops
<1>4. \A i \in 1 .. Len(t) : (t \o Popped(m))[i] = t[i]
  <2> HIDE DEF t
  <2> QED BY <1>1, <1>2
<1>5. \A i \in 1 .. m : (t \o Popped(m))[Len(t) + i] = free_blocks[Len(free_blocks) + 1 - i]
  <2> TAKE i \in 1 .. m
  <2>1. Len(t) + i \in 1 .. Len(t) + m /\ ~(Len(t) + i <= Len(t)) /\ Len(t) + i - Len(t) = i
    <3> HIDE DEF t
    <3> QED BY <1>1
  <2>2. (t \o Popped(m))[Len(t) + i] = Popped(m)[i]
    BY <1>2, <2>1
  <2> QED BY <2>2, PopFacts
<1> QED
  BY <1>2, <1>3, <1>4, <1>5, PopFacts DEF Pops

LEMMA PopsKeepsPartition ==
    ASSUME free_blocks \in Seq(Block), block_table \in [Req -> Seq(Block)],
           BlocksPartitioned,
           NEW r \in Req, NEW m \in 0 .. Len(free_blocks), Pops(r, m)
    PROVE  BlocksPartitioned'
PROOF
<1> DEFINE L == Len(free_blocks)
           T == Len(block_table[r])
<1>1. L \in Nat /\ T \in Nat /\ m \in 0 .. L
  BY LenProperties
<1>2. \A q \in Req : Len(block_table[q]) \in Nat
  BY LenProperties
<1> HIDE DEF L, T
<1>3. /\ Len(free_blocks') = L - m
      /\ \A i \in 1 .. L - m : free_blocks'[i] = free_blocks[i]
      /\ Len(block_table'[r]) = T + m
      /\ \A i \in 1 .. T : block_table'[r][i] = block_table[r][i]
      /\ \A i \in 1 .. m : block_table'[r][T + i] = free_blocks[L + 1 - i]
      /\ \A q \in Req \ {r} : block_table'[q] = block_table[q]
  BY PopsFacts DEF L, T
(* Where each place of the new tables comes from. *)
<1>4. ASSUME NEW i \in 1 .. T + m
      PROVE  \/ i \in 1 .. T /\ block_table'[r][i] = block_table[r][i]
             \/ /\ i - T \in 1 .. m
                /\ L + 1 - (i - T) \in L - m + 1 .. L
                /\ block_table'[r][i] = free_blocks[L + 1 - (i - T)]
  <2>1. CASE i <= T
    BY <1>1, <1>3, <2>1, SMTT(30)
  <2>2. CASE i > T
    <3>1. i - T \in 1 .. m /\ T + (i - T) = i /\ L + 1 - (i - T) \in L - m + 1 .. L
      BY <1>1, <2>2
    <3> QED BY <1>3, <3>1
  <2> QED BY <1>1, <2>1, <2>2
<1>5. FreeOnce'
  <2> SUFFICES ASSUME NEW i \in 1 .. L - m, NEW j \in 1 .. L - m, free_blocks'[i] = free_blocks'[j]
               PROVE  i = j
    BY <1>3 DEF FreeOnce
  <2>1. i \in 1 .. L /\ j \in 1 .. L
    BY <1>1
  <2>2. free_blocks[i] = free_blocks[j]
    BY <1>3
  <2> QED BY <2>1, <2>2 DEF BlocksPartitioned, FreeOnce, L
<1>6. FreeOrOwned'
  <2> SUFFICES ASSUME NEW i \in 1 .. L - m, NEW q \in Req, NEW j \in 1 .. Len(block_table'[q])
               PROVE  free_blocks'[i] # block_table'[q][j]
    BY <1>3 DEF FreeOrOwned
  <2>1. i \in 1 .. L /\ free_blocks'[i] = free_blocks[i]
    BY <1>1, <1>3
  <2>2. CASE q # r
    BY <1>3, <2>1, <2>2 DEF BlocksPartitioned, FreeOrOwned, L
  <2>3. CASE q = r
    <3>1. j \in 1 .. T + m
      BY <1>3, <2>3
    <3>2. CASE j \in 1 .. T /\ block_table'[r][j] = block_table[r][j]
      BY <2>1, <2>3, <3>2 DEF BlocksPartitioned, FreeOrOwned, L, T
    <3>3. CASE /\ L + 1 - (j - T) \in L - m + 1 .. L
               /\ block_table'[r][j] = free_blocks[L + 1 - (j - T)]
      <4>1. L + 1 - (j - T) \in 1 .. L /\ i # L + 1 - (j - T)
        BY <1>1, <3>1, <3>3
      <4> QED BY <2>1, <2>3, <3>3, <4>1 DEF BlocksPartitioned, FreeOnce, L
    <3> QED BY <1>4, <3>1, <3>2, <3>3
  <2> QED BY <2>2, <2>3
<1>7. OwnedOnce'
  <2> SUFFICES ASSUME NEW p \in Req, NEW q \in Req,
                      NEW i \in 1 .. Len(block_table'[p]), NEW j \in 1 .. Len(block_table'[q]),
                      block_table'[p][i] = block_table'[q][j]
               PROVE  p = q /\ i = j
    BY DEF OwnedOnce
  <2>1. CASE p # r /\ q # r
    BY <1>3, <2>1 DEF BlocksPartitioned, OwnedOnce
  (* A block of r is one it had, or one that was free. *)
  <2>2. ASSUME NEW k \in 1 .. T + m, NEW x \in Req \ {r}, NEW l \in 1 .. Len(block_table[x])
        PROVE  block_table'[r][k] # block_table[x][l]
    <3>1. CASE k \in 1 .. T /\ block_table'[r][k] = block_table[r][k]
      BY <3>1 DEF BlocksPartitioned, OwnedOnce, T
    <3>2. CASE /\ L + 1 - (k - T) \in L - m + 1 .. L
               /\ block_table'[r][k] = free_blocks[L + 1 - (k - T)]
      <4>1. L + 1 - (k - T) \in 1 .. L
        BY <1>1, <3>2, SMTT(30)
      <4> QED BY <3>2, <4>1 DEF BlocksPartitioned, FreeOrOwned, L
    <3> QED BY <1>4, <3>1, <3>2
  <2>3. CASE p = r /\ q # r
    <3>1. q \in Req \ {r} /\ block_table'[q] = block_table[q] /\ i \in 1 .. T + m
      BY <1>3, <2>3
    <3>2. j \in 1 .. Len(block_table[q])
      BY <3>1
    <3>3. block_table'[r][i] # block_table[q][j]
      BY <2>2, <3>1, <3>2
    <3> QED BY <2>3, <3>1, <3>3
  <2>4. CASE p # r /\ q = r
    BY <1>3, <2>2, <2>4
  <2>5. CASE p = r /\ q = r
    <3>1. i \in 1 .. T + m /\ j \in 1 .. T + m /\ block_table'[r][i] = block_table'[r][j]
      BY <1>3, <2>5
    <3>2. CASE i <= T /\ j <= T
      <4>1. i \in 1 .. T /\ j \in 1 .. T /\ block_table[r][i] = block_table[r][j]
        BY <1>1, <1>3, <3>1, <3>2
      <4> QED BY <2>5, <4>1 DEF BlocksPartitioned, OwnedOnce, T
    <3>3. CASE i > T /\ j > T
      <4>1. /\ i - T \in 1 .. m /\ j - T \in 1 .. m
            /\ T + (i - T) = i /\ T + (j - T) = j
            /\ L + 1 - (i - T) \in 1 .. L /\ L + 1 - (j - T) \in 1 .. L
        BY <1>1, <3>1, <3>3
      <4>2. free_blocks[L + 1 - (i - T)] = free_blocks[L + 1 - (j - T)]
        BY <1>3, <3>1, <4>1
      <4>3. L + 1 - (i - T) = L + 1 - (j - T)
        BY <4>1, <4>2 DEF BlocksPartitioned, FreeOnce, L
      <4> QED BY <1>1, <2>5, <3>1, <4>3
    <3>4. ASSUME NEW k \in 1 .. T + m, NEW l \in 1 .. T + m, k <= T, l > T
          PROVE  block_table'[r][k] # block_table'[r][l]
      <4>0. k \in 1 .. T /\ l - T \in 1 .. m
        BY <1>1, <3>4
      <4>1. /\ k \in 1 .. T /\ l - T \in 1 .. m /\ T + (l - T) = l
            /\ L + 1 - (l - T) \in 1 .. L
        BY <1>1, <4>0
      <4>2. /\ block_table'[r][k] = block_table[r][k]
            /\ block_table'[r][l] = free_blocks[L + 1 - (l - T)]
        BY <1>3, <4>1
      <4> QED BY <4>1, <4>2 DEF BlocksPartitioned, FreeOrOwned, L, T
    <3> QED BY <1>1, <3>1, <3>2, <3>3, <3>4
  <2> QED BY <2>1, <2>3, <2>4, <2>5
<1>8. NoneLost'
  <2> SUFFICES ASSUME NEW b \in Block
               PROVE  \/ \E i \in 1 .. Len(free_blocks') : free_blocks'[i] = b
                      \/ \E q \in Req : \E j \in 1 .. Len(block_table'[q]) : block_table'[q][j] = b
    BY DEF NoneLost, Block
  <2>1. CASE \E i \in 1 .. L : free_blocks[i] = b
    <3>1. PICK i \in 1 .. L : free_blocks[i] = b
      BY <2>1
    <3>2. CASE i <= L - m
      <4>1. i \in 1 .. L - m /\ i \in 1 .. Len(free_blocks')
        BY <1>1, <1>3, <3>2
      <4>2. free_blocks'[i] = b
        BY <1>3, <3>1, <4>1
      <4> QED BY <4>1, <4>2
    <3>3. CASE i > L - m
      <4>1. /\ L + 1 - i \in 1 .. m /\ L + 1 - (L + 1 - i) = i
            /\ T + (L + 1 - i) \in 1 .. T + m
        BY <1>1, <3>3
      <4>2. block_table'[r][T + (L + 1 - i)] = b
        BY <1>3, <3>1, <4>1
      <4> QED BY <1>3, <4>1, <4>2
    <3> QED BY <1>1, <3>2, <3>3
  <2>2. CASE \E q \in Req : \E j \in 1 .. Len(block_table[q]) : block_table[q][j] = b
    <3>1. PICK q \in Req : \E j \in 1 .. Len(block_table[q]) : block_table[q][j] = b
      BY <2>2
    <3>2. PICK j \in 1 .. Len(block_table[q]) : block_table[q][j] = b
      BY <3>1
    <3>3. CASE q # r
      BY <1>3, <3>2, <3>3
    <3>4. CASE q = r
      <4>1. j \in 1 .. T /\ j \in 1 .. T + m
        BY <1>1, <3>4 DEF T
      <4> QED BY <1>3, <3>2, <3>4, <4>1
    <3> QED BY <3>3, <3>4
  <2> QED BY <2>1, <2>2 DEF BlocksPartitioned, NoneLost, L
<1> QED
  BY <1>5, <1>6, <1>7, <1>8 DEF BlocksPartitioned
-----------------------------------------------------------------------------
(* Returning a whole block table to the free list: what free() does. *)
Returns(r) ==
    /\ free_blocks' = free_blocks \o Reversed(block_table[r])
    /\ block_table' = [block_table EXCEPT ![r] = <<>>]

LEMMA ReturnsFacts ==
    ASSUME free_blocks \in Seq(Block), block_table \in [Req -> Seq(Block)],
           NEW r \in Req, Returns(r)
    PROVE  /\ free_blocks' \in Seq(Block)
           /\ block_table' \in [Req -> Seq(Block)]
           /\ Len(free_blocks') = Len(free_blocks) + Len(block_table[r])
           /\ \A i \in 1 .. Len(free_blocks) : free_blocks'[i] = free_blocks[i]
           /\ \A i \in 1 .. Len(block_table[r]) :
                free_blocks'[Len(free_blocks) + i] = block_table[r][Len(block_table[r]) + 1 - i]
           /\ block_table'[r] = <<>>
           /\ \A q \in Req \ {r} : block_table'[q] = block_table[q]
PROOF
<1> DEFINE t == block_table[r]
<1>1. t \in Seq(Block) /\ Len(t) \in Nat /\ Len(free_blocks) \in Nat
  BY LenProperties
<1>2. /\ Reversed(t) \in Seq(Block)
      /\ Len(Reversed(t)) = Len(t)
      /\ \A i \in 1 .. Len(t) : Reversed(t)[i] = t[Len(t) + 1 - i]
  BY <1>1, ReversedFacts
<1>3. /\ block_table' \in [Req -> Seq(Block)]
      /\ block_table'[r] = <<>>
      /\ \A q \in Req \ {r} : block_table'[q] = block_table[q]
  BY DEF Returns
<1>4. free_blocks' = free_blocks \o Reversed(t)
  BY DEF Returns
<1> HIDE DEF t
<1>5. /\ free_blocks' \in Seq(Block)
      /\ Len(free_blocks') = Len(free_blocks) + Len(t)
      /\ \A i \in 1 .. Len(free_blocks) + Len(t) :
           free_blocks'[i] = IF i <= Len(free_blocks) THEN free_blocks[i]
                             ELSE Reversed(t)[i - Len(free_blocks)]
  <2> DEFINE u == Reversed(t)
  <2>1. u \in Seq(Block) /\ Len(u) = Len(t) /\ free_blocks' = free_blocks \o u
    BY <1>2, <1>4
  <2> HIDE DEF u
  <2>2. /\ free_blocks \o u \in Seq(Block)
        /\ Len(free_blocks \o u) = Len(free_blocks) + Len(u)
        /\ \A i \in 1 .. Len(free_blocks) + Len(u) :
             (free_blocks \o u)[i] = IF i <= Len(free_blocks) THEN free_blocks[i]
                                     ELSE u[i - Len(free_blocks)]
    BY <2>1, ConcatProperties
  <2> QED BY <2>1, <2>2 DEF u
<1>6. \A i \in 1 .. Len(free_blocks) : free_blocks'[i] = free_blocks[i]
  BY <1>1, <1>5
<1>7. \A i \in 1 .. Len(t) : free_blocks'[Len(free_blocks) + i] = t[Len(t) + 1 - i]
  <2> TAKE i \in 1 .. Len(t)
  <2>1. /\ Len(free_blocks) + i \in 1 .. Len(free_blocks) + Len(t)
        /\ ~(Len(free_blocks) + i <= Len(free_blocks))
        /\ Len(free_blocks) + i - Len(free_blocks) = i
    BY <1>1
  <2> QED BY <1>2, <1>5, <2>1
<1> QED
  BY <1>3, <1>5, <1>6, <1>7 DEF t

LEMMA ReturnsKeepsPartition ==
    ASSUME free_blocks \in Seq(Block), block_table \in [Req -> Seq(Block)],
           BlocksPartitioned,
           NEW r \in Req, Returns(r)
    PROVE  BlocksPartitioned'
PROOF
<1> DEFINE L == Len(free_blocks)
           T == Len(block_table[r])
<1>1. L \in Nat /\ T \in Nat
  BY LenProperties
<1> HIDE DEF L, T
<1>2. /\ Len(free_blocks') = L + T
      /\ \A i \in 1 .. L : free_blocks'[i] = free_blocks[i]
      /\ \A i \in 1 .. T : free_blocks'[L + i] = block_table[r][T + 1 - i]
      /\ block_table'[r] = <<>> /\ Len(block_table'[r]) = 0
      /\ \A q \in Req \ {r} : block_table'[q] = block_table[q]
  BY ReturnsFacts, EmptySeq DEF L, T
(* Where each place of the new free list comes from. *)
<1>3. ASSUME NEW i \in 1 .. L + T
      PROVE  \/ i \in 1 .. L /\ free_blocks'[i] = free_blocks[i]
             \/ /\ i - L \in 1 .. T
                /\ T + 1 - (i - L) \in 1 .. T
                /\ free_blocks'[i] = block_table[r][T + 1 - (i - L)]
  <2>1. CASE i <= L
    BY <1>1, <1>2, <2>1
  <2>2. CASE i > L
    <3>1. i - L \in 1 .. T /\ L + (i - L) = i /\ T + 1 - (i - L) \in 1 .. T
      BY <1>1, <2>2
    <3> QED BY <1>2, <3>1
  <2> QED BY <1>1, <2>1, <2>2
<1>4. OwnedOnce'
  <2> SUFFICES ASSUME NEW p \in Req, NEW q \in Req,
                      NEW i \in 1 .. Len(block_table'[p]), NEW j \in 1 .. Len(block_table'[q]),
                      block_table'[p][i] = block_table'[q][j]
               PROVE  p = q /\ i = j
    BY DEF OwnedOnce
  <2>1. p # r /\ q # r
    BY <1>2
  <2>2. block_table'[p] = block_table[p] /\ block_table'[q] = block_table[q]
    BY <1>2, <2>1
  <2>3. i \in 1 .. Len(block_table[p]) /\ j \in 1 .. Len(block_table[q])
        /\ block_table[p][i] = block_table[q][j]
    BY <2>2
  <2>4. OwnedOnce
    BY DEF BlocksPartitioned
  <2> QED BY <2>3, <2>4 DEF OwnedOnce
<1>5. FreeOrOwned'
  <2> SUFFICES ASSUME NEW i \in 1 .. L + T, NEW q \in Req, NEW j \in 1 .. Len(block_table'[q])
               PROVE  free_blocks'[i] # block_table'[q][j]
    BY <1>2 DEF FreeOrOwned
  <2>1. q # r /\ j \in 1 .. Len(block_table[q]) /\ block_table'[q][j] = block_table[q][j]
    BY <1>2
  <2>2. CASE i \in 1 .. L /\ free_blocks'[i] = free_blocks[i]
    BY <2>1, <2>2 DEF BlocksPartitioned, FreeOrOwned, L
  <2>3. CASE /\ T + 1 - (i - L) \in 1 .. T
             /\ free_blocks'[i] = block_table[r][T + 1 - (i - L)]
    BY <2>1, <2>3 DEF BlocksPartitioned, OwnedOnce, T
  <2> QED BY <1>3, <2>2, <2>3
<1>6. FreeOnce'
  <2> SUFFICES ASSUME NEW i \in 1 .. L + T, NEW j \in 1 .. L + T, free_blocks'[i] = free_blocks'[j]
               PROVE  i = j
    BY <1>2 DEF FreeOnce
  <2> DEFINE Old(k) == k \in 1 .. L /\ free_blocks'[k] = free_blocks[k]
             New(k) == /\ k - L \in 1 .. T
                       /\ T + 1 - (k - L) \in 1 .. T
                       /\ free_blocks'[k] = block_table[r][T + 1 - (k - L)]
  <2>1. (Old(i) \/ New(i)) /\ (Old(j) \/ New(j))
    BY <1>3
  <2>2. CASE Old(i) /\ Old(j)
    BY <2>2 DEF BlocksPartitioned, FreeOnce, L
  <2>3. CASE Old(i) /\ New(j)
    BY <2>3 DEF BlocksPartitioned, FreeOrOwned, L, T
  <2>4. CASE New(i) /\ Old(j)
    BY <2>4 DEF BlocksPartitioned, FreeOrOwned, L, T
  <2>5. CASE New(i) /\ New(j)
    <3>0. /\ T + 1 - (i - L) \in 1 .. T /\ T + 1 - (j - L) \in 1 .. T
          /\ block_table[r][T + 1 - (i - L)] = block_table[r][T + 1 - (j - L)]
      BY <2>5
    <3>1. T + 1 - (i - L) = T + 1 - (j - L)
      BY <3>0 DEF BlocksPartitioned, OwnedOnce, T
    <3> QED BY <1>1, <3>1
  <2> QED BY <2>1, <2>2, <2>3, <2>4, <2>5
<1>7. NoneLost'
  <2> SUFFICES ASSUME NEW b \in Block
               PROVE  \/ \E i \in 1 .. Len(free_blocks') : free_blocks'[i] = b
                      \/ \E q \in Req : \E j \in 1 .. Len(block_table'[q]) : block_table'[q][j] = b
    BY DEF NoneLost, Block
  <2>1. CASE \E i \in 1 .. L : free_blocks[i] = b
    <3>1. PICK i \in 1 .. L : free_blocks[i] = b
      BY <2>1
    <3>2. i \in 1 .. Len(free_blocks')
      BY <1>1, <1>2
    <3> QED BY <1>2, <3>1, <3>2
  <2>2. CASE \E q \in Req : \E j \in 1 .. Len(block_table[q]) : block_table[q][j] = b
    <3>1. PICK q \in Req : \E j \in 1 .. Len(block_table[q]) : block_table[q][j] = b
      BY <2>2
    <3>2. PICK j \in 1 .. Len(block_table[q]) : block_table[q][j] = b
      BY <3>1
    <3>3. CASE q # r
      BY <1>2, <3>2, <3>3
    <3>4. CASE q = r
      <4>1. j \in 1 .. T
        BY <3>4 DEF T
      <4>2. /\ T + 1 - j \in 1 .. T /\ T + 1 - (T + 1 - j) = j
            /\ L + (T + 1 - j) \in 1 .. Len(free_blocks')
        BY <1>1, <1>2, <4>1
      <4>3. free_blocks'[L + (T + 1 - j)] = b
        BY <1>2, <3>2, <3>4, <4>2
      <4> QED BY <4>2, <4>3
    <3> QED BY <3>3, <3>4
  <2> QED BY <2>1, <2>2 DEF BlocksPartitioned, NoneLost, L
<1> QED
  BY <1>4, <1>5, <1>6, <1>7 DEF BlocksPartitioned

-----------------------------------------------------------------------------
(* The three operations keep the types and the partition. *)
LEMMA WithoutType ==
    ASSUME NEW S, NEW K, NEW d, DOMAIN d \subseteq K, d \in [DOMAIN d -> S], NEW k
    PROVE  /\ DOMAIN Without(d, k) = DOMAIN d \ {k}
           /\ DOMAIN Without(d, k) \subseteq K
           /\ Without(d, k) \in [DOMAIN Without(d, k) -> S]
PROOF
  BY DEF Without

LEMMA AllocateSafe ==
    ASSUME BlockManagerAssumption, KVTypeOK, NEW r \in Req, NEW n \in Nat, NEW w \in Int,
           block_table[r] = <<>>, AllocateAsserts(n), Allocate(r, n, w)
    PROVE  /\ KVTypeOK'
           /\ Pops(r, BlocksNeeded(n))
           /\ BlocksPartitioned => BlocksPartitioned'
PROOF
<1> DEFINE m == BlocksNeeded(n)
<1>1. m \in Nat /\ m \in 0 .. Len(free_blocks) /\ BlocksNeeded(w) \in Int
  <2>1. Len(free_blocks) \in Nat
    BY LenProperties DEF KVTypeOK
  <2>2. m \in Nat /\ m <= Len(free_blocks)
    BY BlocksNeededFacts DEF AllocateAsserts
  <2>3. BlocksNeeded(w) \in Int
    BY BlocksNeededInt
  <2> HIDE DEF m
  <2> QED BY <2>1, <2>2, <2>3
<1>2. <<>> \o Popped(m) = Popped(m)
  BY <1>1, PopFacts, ConcatEmptySeq DEF KVTypeOK
<1>3. Pops(r, m)
  BY <1>2 DEF Pops, Allocate
<1> HIDE DEF m
<1>4. /\ free_blocks' \in Seq(Block) /\ block_table' \in [Req -> Seq(Block)]
      /\ BlocksPartitioned => BlocksPartitioned'
  BY <1>1, <1>3, PopsFacts, PopsKeepsPartition DEF KVTypeOK
<1>5. Id[r] \in RequestId /\ live' = Put(live, Id[r], r)
      /\ (committed' = Put(committed, Id[r], BlocksNeeded(w)) \/ committed' = committed)
  BY DEF BlockManagerAssumption, Allocate
<1>6. DOMAIN live' \subseteq RequestId /\ live' \in [DOMAIN live' -> Req]
  <2> DEFINE p == Put(live, Id[r], r)
  <2>1. DOMAIN live \subseteq RequestId /\ live \in [DOMAIN live -> Req]
    BY DEF KVTypeOK
  <2>2. DOMAIN p \subseteq RequestId /\ p \in [DOMAIN p -> Req]
    BY <1>5, <2>1 DEF Put
  <2> QED BY <1>5, <2>2
<1>7. DOMAIN committed' \subseteq RequestId /\ committed' \in [DOMAIN committed' -> Int]
  <2> DEFINE p == Put(committed, Id[r], BlocksNeeded(w))
  <2>1. DOMAIN committed \subseteq RequestId /\ committed \in [DOMAIN committed -> Int]
    BY DEF KVTypeOK
  <2>2. DOMAIN p \subseteq RequestId /\ p \in [DOMAIN p -> Int]
    BY <1>1, <1>5, <2>1 DEF Put
  <2> QED BY <1>5, <2>1, <2>2
<1>8. KVTypeOK'
  BY <1>4, <1>6, <1>7 DEF KVTypeOK, Block
<1> QED
  BY <1>3, <1>4, <1>8 DEF m

LEMMA AppendSlotSafe ==
    ASSUME KVTypeOK, NEW r \in Req, free_blocks # <<>>, AppendSlot(r)
    PROVE  /\ KVTypeOK'
           /\ Pops(r, 1)
           /\ BlocksPartitioned => BlocksPartitioned'
PROOF
<1>1. 1 \in 0 .. Len(free_blocks)
  BY EmptySeq DEF KVTypeOK
<1>2. Pops(r, 1)
  BY DEF Pops, AppendSlot
<1>3. /\ free_blocks' \in Seq(Block) /\ block_table' \in [Req -> Seq(Block)]
      /\ BlocksPartitioned => BlocksPartitioned'
  BY <1>1, <1>2, PopsFacts, PopsKeepsPartition DEF KVTypeOK
<1> QED
  BY <1>2, <1>3 DEF KVTypeOK, AppendSlot, Block

LEMMA FreeSafe ==
    ASSUME KVTypeOK, NEW r \in Req, Free(r)
    PROVE  /\ KVTypeOK'
           /\ Returns(r)
           /\ BlocksPartitioned => BlocksPartitioned'
PROOF
<1>1. Returns(r)
  BY DEF Returns, Free
<1>2. /\ free_blocks' \in Seq(Block) /\ block_table' \in [Req -> Seq(Block)]
      /\ BlocksPartitioned => BlocksPartitioned'
  BY <1>1, ReturnsFacts, ReturnsKeepsPartition DEF KVTypeOK
<1>3. live' = Without(live, Id[r]) /\ committed' = Without(committed, Id[r])
  BY DEF Free
<1>4. DOMAIN live' \subseteq RequestId /\ live' \in [DOMAIN live' -> Req]
  BY <1>3, WithoutType DEF KVTypeOK
<1>5. DOMAIN committed' \subseteq RequestId /\ committed' \in [DOMAIN committed' -> Int]
  BY <1>3, WithoutType DEF KVTypeOK
<1> QED
  BY <1>1, <1>2, <1>4, <1>5 DEF KVTypeOK, Block

LEMMA KVInitSafe ==
    ASSUME BlockManagerAssumption, KVInit
    PROVE  KVTypeOK /\ BlocksPartitioned
PROOF
<1>1. NumBlocks \in Nat
  BY DEF BlockManagerAssumption
<1>2. /\ free_blocks \in [1 .. NumBlocks -> Block]
      /\ \A i \in 1 .. NumBlocks : free_blocks[i] = NumBlocks - i
  BY <1>1 DEF KVInit, Block
<1>3. free_blocks \in Seq(Block) /\ Len(free_blocks) = NumBlocks
  BY <1>1, <1>2
<1>4. KVTypeOK
  BY <1>3 DEF KVInit, KVTypeOK
<1>5. FreeOnce
  BY <1>1, <1>2, <1>3 DEF FreeOnce
<1>6. \A r \in Req : block_table[r] = <<>> /\ Len(block_table[r]) = 0
  BY DEF KVInit
<1>7. OwnedOnce /\ FreeOrOwned
  BY <1>6 DEF OwnedOnce, FreeOrOwned
<1>8. NoneLost
  <2> SUFFICES ASSUME NEW b \in Block
               PROVE  \E i \in 1 .. Len(free_blocks) : free_blocks[i] = b
    BY DEF NoneLost
  <2>1. NumBlocks - b \in 1 .. NumBlocks /\ NumBlocks - (NumBlocks - b) = b
    BY <1>1 DEF Block
  <2>2. free_blocks[NumBlocks - b] = b
    BY <1>2, <2>1
  <2> QED BY <1>3, <2>1, <2>2
<1> QED
  BY <1>4, <1>5, <1>7, <1>8 DEF BlocksPartitioned

-----------------------------------------------------------------------------
(* The numbers of a request. *)
LEMMA RequestNumbers ==
    ASSUME BlockManagerAssumption, SchedulerAssumption, TypeOK, NEW r \in Req
    PROVE  /\ SeqLen(r) \in Nat \ {0}
           /\ MaxNew(r) \in Int
           /\ Worst(r) \in Int
           /\ BlocksNeeded(SeqLen(r)) \in Nat \ {0}
           /\ BlocksNeeded(Worst(r)) \in Int
           /\ MaxNewTokens[r] >= 0 => MaxNew(r) \in Nat /\ Worst(r) \in Nat
PROOF
<1>1. /\ Prompt[r] \in Nat \ {0} /\ out[r] \in Nat /\ MaxNewTokens[r] \in Int
      /\ Prompt[r] < MaxContext /\ MaxContext \in Nat
  BY DEF BlockManagerAssumption, SchedulerAssumption, TypeOK
<1>2. /\ SeqLen(r) \in Nat \ {0} /\ MaxNew(r) \in Int
      /\ MaxNewTokens[r] >= 0 => MaxNew(r) \in Nat
  BY <1>1 DEF SeqLen, MaxNew
<1>3. Worst(r) \in Int /\ (MaxNew(r) \in Nat => Worst(r) \in Nat)
  BY <1>1, <1>2 DEF Worst
<1>4. /\ \A n \in Nat : BlocksNeeded(n) \in Nat /\ (n > 0 => BlocksNeeded(n) > 0)
      /\ \A n \in Int : BlocksNeeded(n) \in Int
  BY BlocksNeededFacts, BlocksNeededInt
<1> HIDE DEF SeqLen, Worst, BlocksNeeded
<1> QED
  BY <1>2, <1>3, <1>4

-----------------------------------------------------------------------------
(* The rows of a decode step: _ensure_capacity walks through the list       *)
(* `active` with the index i and takes victims out of it on either side.    *)
LinedUp ==
    /\ idx <= Len(active)
    /\ \A i, k \in DOMAIN active : active[i] = active[k] => i = k

LEMMA RowsTyped ==
    ASSUME active \in Seq(Req)
    PROVE  Rows \subseteq Req
PROOF
<1>1. active \in [1 .. Len(active) -> Req]
  BY LenProperties
<1> QED
  BY <1>1 DEF Rows, ToSet

LEMMA SameRow ==
    ASSUME UNCHANGED row
    PROVE  Rows' = Rows /\ Secured' = Secured /\ (LinedUp => LinedUp')
PROOF
  BY DEF row, Rows, Secured, ToSet, LinedUp

LEMMA EmptyRow ==
    ASSUME active = <<>>, idx = 0
    PROVE  Rows = {} /\ Secured = {} /\ LinedUp
PROOF
  BY DEF Rows, Secured, ToSet, LinedUp

(* active[i], while it is looked at, has not got its block yet.             *)
LEMMA CurrentRow ==
    ASSUME active \in Seq(Req), idx \in Nat, LinedUp, NEW r, Current(r)
    PROVE  r \in Rows /\ r \notin Secured /\ pc = "capacity"
PROOF
<1>1. Len(active) \in Nat /\ DOMAIN active = 1 .. Len(active)
  BY LenProperties
<1>2. idx + 1 \in DOMAIN active /\ r = active[idx + 1] /\ pc = "capacity"
  BY <1>1 DEF Current
<1>3. \A k \in DOMAIN active : k <= idx => active[k] # r
  BY <1>1, <1>2 DEF LinedUp
<1> QED
  BY <1>2, <1>3 DEF Rows, Secured, ToSet

LEMMA SecuredRow ==
    ASSUME active \in Seq(Req), idx \in Nat, LinedUp, NEW r, RowSecured(r)
    PROVE  Rows' = Rows /\ Secured' = Secured \cup {r} /\ r \in Rows /\ LinedUp'
PROOF
<1>1. Len(active) \in Nat /\ DOMAIN active = 1 .. Len(active)
  BY LenProperties
<1>2. active' = active /\ idx' = idx + 1 /\ idx + 1 \in DOMAIN active /\ r = active[idx + 1]
  BY <1>1 DEF RowSecured, Current
<1>3. \A k \in DOMAIN active : k <= idx + 1 <=> k <= idx \/ k = idx + 1
  BY <1>1
<1>4. Secured' = Secured \cup {r}
  BY <1>2, <1>3 DEF Secured
<1>5. LinedUp'
  BY <1>1, <1>2 DEF LinedUp
<1> QED
  BY <1>2, <1>4, <1>5 DEF Rows, ToSet

(* The last row has its block: all have.                                    *)
LEMMA AllSecured ==
    ASSUME active \in Seq(Req), idx \in Nat, LinedUp, idx >= Len(active)
    PROVE  Rows = Secured /\ (active = <<>> => Rows = {})
PROOF
<1>1. Len(active) \in Nat /\ DOMAIN active = 1 .. Len(active)
  BY LenProperties
<1>2. \A k \in DOMAIN active : k <= idx
  BY <1>1
<1> QED
  BY <1>1, <1>2 DEF Rows, Secured, ToSet

(* Taking the victim out of the list takes it out of the rows, and nobody   *)
(* else: active.pop(vi), and i -= 1 when vi < i.                            *)
LEMMA StruckRow ==
    ASSUME active \in Seq(Req), idx \in Nat, LinedUp, NEW vi \in DOMAIN active, Struck(vi)
    PROVE  /\ active' \in Seq(Req) /\ idx' \in Nat /\ LinedUp'
           /\ Rows' = Rows \ {active[vi]} /\ Secured' = Secured \ {active[vi]}
PROOF
<1> DEFINE n == Len(active)
<1>0. PICK old : old = [k \in 1 .. (n - 1) |-> IF k < vi THEN k ELSE k + 1]
  OBVIOUS
<1>1. n \in Nat /\ DOMAIN active = 1 .. n /\ vi \in 1 .. n
  BY LenProperties
<1>2. /\ active' \in Seq(Req) /\ DOMAIN active' = 1 .. (n - 1) /\ Len(active') = n - 1
      /\ \A k \in 1 .. (n - 1) : active'[k] = active[old[k]]
  BY <1>0, <1>1, RemoveAtFacts DEF Struck
<1>3. idx' = IF vi <= idx THEN idx - 1 ELSE idx
  BY DEF Struck
<1> HIDE DEF n
<1>4. \A k \in 1 .. (n - 1) : /\ old[k] \in 1 .. n /\ old[k] # vi
                              /\ old[k] <= idx <=> k <= idx'
  BY <1>0, <1>1, <1>3
<1>5. \A k \in 1 .. n : k # vi => \E j \in 1 .. (n - 1) : old[j] = k
  <2> SUFFICES ASSUME NEW k \in 1 .. n, k # vi PROVE \E j \in 1 .. (n - 1) : old[j] = k
    OBVIOUS
  <2>1. CASE k < vi
    <3>1. k \in 1 .. (n - 1) /\ old[k] = k
      BY <1>0, <1>1, <2>1
    <3> QED BY <3>1
  <2>2. CASE k > vi
    <3>1. k - 1 \in 1 .. (n - 1) /\ old[k - 1] = k
      BY <1>0, <1>1, <2>2
    <3> QED BY <3>1
  <2> QED BY <1>1, <2>1, <2>2
<1>6. \A i, k \in 1 .. (n - 1) : old[i] = old[k] => i = k
  BY <1>0, <1>1
<1>7. \A k \in 1 .. n : active[k] = active[vi] => k = vi
  BY <1>1 DEF LinedUp
<1>8. /\ Rows = {active[k] : k \in 1 .. n} /\ Rows' = {active'[k] : k \in 1 .. (n - 1)}
      /\ Secured = {active[k] : k \in {k \in 1 .. n : k <= idx}}
      /\ Secured' = {active'[k] : k \in {k \in 1 .. (n - 1) : k <= idx'}}
  BY <1>1, <1>2 DEF Rows, Secured, ToSet
<1>9. Rows' = Rows \ {active[vi]}
  <2>1. ASSUME NEW k \in 1 .. (n - 1) PROVE active'[k] \in Rows \ {active[vi]}
    <3>1. old[k] \in 1 .. n /\ old[k] # vi /\ active'[k] = active[old[k]]
      BY <1>2, <1>4
    <3>2. active[old[k]] # active[vi] /\ active[old[k]] \in Rows
      BY <1>7, <1>8, <3>1
    <3> QED BY <3>1, <3>2
  <2>2. ASSUME NEW k \in 1 .. n, active[k] # active[vi] PROVE active[k] \in Rows'
    <3>1. PICK j \in 1 .. (n - 1) : old[j] = k
      BY <1>5, <2>2
    <3> QED BY <1>2, <1>8, <3>1
  <2> QED BY <1>8, <2>1, <2>2
<1>10. Secured' = Secured \ {active[vi]}
  <2>1. ASSUME NEW k \in 1 .. (n - 1), k <= idx' PROVE active'[k] \in Secured \ {active[vi]}
    BY <1>2, <1>4, <1>7, <1>8, <2>1
  <2>2. ASSUME NEW k \in 1 .. n, k <= idx, active[k] # active[vi] PROVE active[k] \in Secured'
    <3>1. PICK j \in 1 .. (n - 1) : old[j] = k
      BY <1>5, <2>2
    <3>2. j <= idx'
      BY <1>4, <2>2, <3>1
    <3> QED BY <1>2, <1>8, <3>1, <3>2
  <2> QED BY <1>8, <2>1, <2>2
<1>11. idx' \in Nat /\ idx' <= n - 1
  BY <1>1, <1>3 DEF LinedUp, n
<1>12. LinedUp'
  <2>1. ASSUME NEW i \in 1 .. (n - 1), NEW k \in 1 .. (n - 1), active'[i] = active'[k]
        PROVE  i = k
    <3>1. active[old[i]] = active[old[k]]
      BY <1>2, <2>1
    <3>2. old[i] = old[k]
      <4>1. old[i] \in DOMAIN active /\ old[k] \in DOMAIN active
        BY <1>1, <1>4
      <4> QED BY <3>1, <4>1, Zenon DEF LinedUp
    <3> QED BY <1>6, <3>2
  <2> QED BY <1>2, <1>11, <2>1 DEF LinedUp
<1> QED
  BY <1>2, <1>9, <1>10, <1>11, <1>12

(* Admission numbers tell the admitted requests apart, so sorting by them   *)
(* loses none.                                                              *)
Numbered ==
    /\ \A r \in Req : admit_seq[r] < admit_counter
    /\ \A q, r \in running \cup batch : admit_seq[q] = admit_seq[r] => q = r

LEMMA BeginRow ==
    ASSUME BlockManagerAssumption, running \subseteq Req, admit_seq \in [Req -> Nat \cup {-1}],
           Numbered, BeginDecode
    PROVE  /\ active' \in Seq(Req) /\ idx' \in Nat /\ LinedUp'
           /\ Rows' = DecodeRows /\ Secured' = {}
PROOF
<1> DEFINE S == DecodeRows
           n == Cardinality(S)
<1>1. S \subseteq Req /\ S \subseteq running /\ IsFiniteSet(S)
  BY FS_Subset DEF DecodeRows, BlockManagerAssumption
<1>2. Ordered(S, Older)
  <2>1. \A x, y \in Req : <<x, y>> \in Older <=> admit_seq[x] < admit_seq[y]
    BY DEF Older
  <2>2. \A x \in Req : admit_seq[x] \in Int
    OBVIOUS
  <2>3. \A x, y \in S : x # y => admit_seq[x] # admit_seq[y]
    BY <1>1 DEF Numbered
  <2> HIDE DEF S
  <2> QED BY <1>1, <2>1, <2>2, <2>3 DEF Ordered
<1> HIDE DEF S
<1>3. Enumerates(active', S) /\ idx' = 0
  BY <1>1, <1>2, InOrderFacts DEF BeginDecode, S
<1>4. n \in Nat
  BY <1>1, FS_CardinalityType
<1>5. active' \in [1 .. n -> S] /\ DOMAIN active' = 1 .. n
  BY <1>3 DEF Enumerates
<1>6. active' \in [1 .. n -> Req]
  BY <1>1, <1>5
<1> HIDE DEF n
<1>7. active' \in Seq(Req) /\ Len(active') = n
  BY <1>4, <1>6
<1>8. Rows' = S
  BY <1>3, <1>5 DEF Rows, ToSet, Enumerates, n
<1>9. Secured' = {}
  BY <1>3, <1>4, <1>5 DEF Secured
<1>10. LinedUp'
  BY <1>3, <1>4, <1>5, <1>7 DEF LinedUp, Enumerates, n
<1> QED
  BY <1>3, <1>7, <1>8, <1>9, <1>10 DEF S

-----------------------------------------------------------------------------
(* Type correctness. *)
LEMMA EmitType ==
    ASSUME TypeOK, NEW S \in SUBSET Req, NEW eos, Emit(S, eos)
    PROVE  /\ out' \in [Req -> Nat]
           /\ finish_reason' \in [Req -> {"none", "length", "stop", "cancelled"}]
           /\ progressed' \in BOOLEAN
PROOF
  BY DEF TypeOK, Emit

LEMMA TypeOKStep ==
    ASSUME BlockManagerAssumption, SchedulerAssumption, TypeOK,
           \A r \in waiting : block_table[r] = <<>>, LinedUp, Numbered,
           [Next]_vars
    PROVE  TypeOK'
PROOF
<1> USE DEF request, client, row, kv
<1>1. ASSUME NEW r \in Req, Submit(r) PROVE TypeOK'
  <2>1. Cardinality({q \in Req : state[q] # "NEW"}) \in Nat
    BY FS_CardinalityType, FS_Subset DEF BlockManagerAssumption
  <2> QED BY <1>1, <2>1 DEF TypeOK, Submit, KVTypeOK, Block
<1>2. ASSUME NEW r \in Req, ClientLeaves(r) PROVE TypeOK'
  BY <1>2 DEF TypeOK, ClientLeaves, KVTypeOK, Block
<1>3. ASSUME NEW r \in Req, SetCancelled(r) PROVE TypeOK'
  BY <1>3 DEF TypeOK, SetCancelled, KVTypeOK, Block
<1>4. CASE BeginStep
  BY <1>4 DEF TypeOK, BeginStep, KVTypeOK, Block
<1>5. ASSUME NEW r \in Req, RetireOne(r) PROVE TypeOK'
  <2>1. KVTypeOK'
    BY <1>5, FreeSafe DEF TypeOK, RetireOne
  <2>2. completed' \in Nat
    BY <1>5 DEF TypeOK, RetireOne
  <2> QED BY <1>5, <2>1, <2>2 DEF TypeOK, RetireOne
<1>6. CASE RetireDone
  BY <1>6 DEF TypeOK, RetireDone, KVTypeOK, Block
<1>7. ASSUME NEW r \in Req, PopAdmissible(r) PROVE TypeOK'
  <2>1. KVTypeOK'
    BY <1>7, RequestNumbers, AllocateSafe DEF TypeOK, PopAdmissible, Admissible
  <2> QED BY <1>7, <2>1 DEF TypeOK, PopAdmissible
<1>8. ASSUME NEW r \in Req, AllocateFails(r) PROVE TypeOK'
  BY <1>8 DEF TypeOK, AllocateFails, KVTypeOK, Block
<1>9. CASE AdmitDone
  BY <1>9 DEF TypeOK, AdmitDone, KVTypeOK, Block
<1>10. ASSUME NEW S \in SUBSET batch, NEW eos \in SUBSET batch, Prefill(S, eos) PROVE TypeOK'
  <2>1. S \in SUBSET Req
    BY DEF TypeOK
  <2>2. Emit(S, eos)
    BY <1>10 DEF Prefill
  <2> QED BY <1>10, <2>1, <2>2, EmitType DEF TypeOK, Prefill, KVTypeOK, Block
<1>11. CASE BeginDecode
  <2>1. active' \in Seq(Req) /\ idx' \in Nat
    BY <1>11, BeginRow DEF TypeOK
  <2> QED BY <1>11, <2>1 DEF TypeOK, BeginDecode, KVTypeOK, Block
<1>12. ASSUME NEW r \in Req, TakeBlock(r) PROVE TypeOK'
  <2>1. KVTypeOK'
    BY <1>12, AppendSlotSafe DEF TypeOK, TakeBlock
  <2> QED BY <1>12, <2>1 DEF TypeOK, TakeBlock
<1>13. ASSUME NEW r \in Req, RowSecured(r) PROVE TypeOK'
  <2>1. active' = active /\ idx' \in Nat
    BY <1>13 DEF TypeOK, RowSecured
  <2> QED BY <1>13, <2>1 DEF TypeOK, RowSecured, KVTypeOK, Block
<1>14. ASSUME NEW r \in Req, RaiseOutOfBlocks(r) PROVE TypeOK'
  BY <1>14 DEF TypeOK, RaiseOutOfBlocks, KVTypeOK, Block
<1>15. ASSUME NEW r \in Req, NEW v \in Req, Preempt(r, v) PROVE TypeOK'
  <2>1. KVTypeOK'
    BY <1>15, FreeSafe DEF TypeOK, Preempt
  <2>2. active' \in Seq(Req) /\ idx' \in Nat
    BY <1>15, StruckRow DEF TypeOK, Preempt
  <2>3. /\ waiting' \subseteq Req /\ running' \subseteq Req
        /\ state' \in [Req -> {"NEW", "WAITING", "RUNNING", "FINISHED"}]
    BY <1>15 DEF TypeOK, Preempt
  <2>4. preempt_count' \in [Req -> Nat]
    <3>1. preempt_count \in [Req -> Nat] /\ preempt_count[v] + 1 \in Nat
      BY DEF TypeOK
    <3>2. preempt_count' = [preempt_count EXCEPT ![v] = preempt_count[v] + 1]
      BY <1>15 DEF Preempt
    <3> QED BY <3>1, <3>2
  <2> QED BY <1>15, <2>1, <2>2, <2>3, <2>4 DEF TypeOK, Preempt
<1>16. CASE CapacityDone
  BY <1>16 DEF TypeOK, CapacityDone, KVTypeOK, Block
<1>17. ASSUME NEW eos \in SUBSET Rows, Decode(eos) PROVE TypeOK'
  <2>1. Rows \in SUBSET Req /\ Emit(Rows, eos)
    BY <1>17, RowsTyped DEF TypeOK, Decode
  <2>2. active' = <<>> /\ active' \in Seq(Req) /\ idx' = 0
    BY <1>17 DEF Decode
  <2>3. /\ out' \in [Req -> Nat] /\ progressed' \in BOOLEAN
        /\ finish_reason' \in [Req -> {"none", "length", "stop", "cancelled"}]
    BY <2>1, EmitType
  <2>4. KVTypeOK'
    BY <1>17 DEF Decode, TypeOK, KVTypeOK, Block
  <2> QED BY <1>17, <2>2, <2>3, <2>4 DEF TypeOK, Decode
<1>18. CASE UNCHANGED vars
  BY <1>18 DEF TypeOK, vars, KVTypeOK, Block
<1> QED
  BY <1>1, <1>2, <1>3, <1>4, <1>5, <1>6, <1>7, <1>8, <1>9, <1>10, <1>11, <1>12, <1>13,
     <1>14, <1>15, <1>16, <1>17, <1>18 DEF Next, EngineStep
-----------------------------------------------------------------------------
(* Where a request can be.  The lists of the engine thread agree with the   *)
(* request's own state, in the middle of a step too.                        *)
Places ==
    /\ waiting \cap batch = {}
    /\ \A r \in waiting \cup batch : state[r] = "WAITING"
    /\ \A r \in Req : r \in running <=> state[r] = "RUNNING"
    /\ \A r \in Req : Finished(r) => state[r] \in {"RUNNING", "FINISHED"}
    /\ Secured \subseteq Rows /\ Rows \subseteq running
    /\ \A r \in Rows : ~Finished(r)
    /\ pc \notin {"capacity", "decode", "dead"} => Rows = {} /\ Secured = {}
    /\ pc \notin {"admit", "prefill", "dead"} => batch = {}
    /\ pc = "decode" => Rows = Secured

(* The inductive invariant every result below rests on. *)
IInv == TypeOK /\ LinedUp /\ Numbered /\ Places /\ OnlyAdmittedHoldKV /\ BlocksPartitioned

(* A row that got its block keeps a table that covers its next token. *)
SecuredRows == \A r \in Secured : LongEnough(r, SeqLen(r))

(* An admitted request has emitted more tokens than it was evicted. *)
Paid ==
    \A r \in Req :
        /\ preempt_count[r] <= out[r]
        /\ state[r] \in {"RUNNING", "FINISHED"} => preempt_count[r] < out[r]

(* What the order of first admissions rests on: arrival numbers are given   *)
(* in the order of submit(), and a request that was never admitted and not  *)
(* abandoned is still waiting, behind every request that was evicted.       *)
Submitted == {r \in Req : state[r] # "NEW"}
Queue ==
    /\ \A r \in Submitted : arrival[r] < Cardinality(Submitted)
    /\ \A r \in Req : admit_seq[r] = -1 => preempt_count[r] = 0
    /\ \A r \in Req : state[r] = "NEW" => admit_seq[r] = -1
    /\ \A r \in Submitted : admit_seq[r] = -1 => r \in waiting \cup cancelled
    /\ \A r \in running \cup batch : admit_seq[r] # -1
-----------------------------------------------------------------------------
LEMMA WaitingHoldNothing ==
    ASSUME IInv
    PROVE  /\ \A r \in waiting : block_table[r] = <<>>
           /\ waiting \cap running = {} /\ batch \cap running = {}
PROOF
<1>1. \A r \in Req : r \in waiting \cup batch => r \notin running
  BY DEF IInv, Places
<1>2. waiting \subseteq Req /\ batch \subseteq Req /\ waiting \cap batch = {}
  BY DEF IInv, TypeOK, Places
<1> QED
  BY <1>1, <1>2 DEF IInv, OnlyAdmittedHoldKV

LEMMA PlacesInit == Init => Places
PROOF
<1> SUFFICES ASSUME Init PROVE Places
  OBVIOUS
<1>1. Rows = {} /\ Secured = {}
  BY EmptyRow DEF Init
<1> QED
  BY <1>1 DEF Init, Places, Finished

LEMMA PlacesStep ==
    ASSUME BlockManagerAssumption, SchedulerAssumption, IInv, [Next]_vars
    PROVE  Places'
PROOF
<1> USE DEF request, client, row, kv, Finished
<1>0. Places /\ TypeOK /\ LinedUp /\ Numbered /\ active \in Seq(Req) /\ idx \in Nat
  BY DEF IInv, TypeOK
<1>1. ASSUME NEW r \in Req, Submit(r) PROVE Places'
  BY <1>0, <1>1, SameRow DEF TypeOK, Places, Submit
<1>2. ASSUME NEW r \in Req, ClientLeaves(r) PROVE Places'
  BY <1>0, <1>2, SameRow DEF Places, ClientLeaves
<1>3. ASSUME NEW r \in Req, SetCancelled(r) PROVE Places'
  BY <1>0, <1>3, SameRow DEF Places, SetCancelled
<1>4. CASE BeginStep
  BY <1>0, <1>4, SameRow DEF Places, BeginStep
<1>5. ASSUME NEW r \in Req, RetireOne(r) PROVE Places'
  BY <1>0, <1>5, SameRow DEF TypeOK, Places, RetireOne, Done
<1>6. CASE RetireDone
  BY <1>0, <1>6, SameRow DEF Places, RetireDone
<1>7. ASSUME NEW r \in Req, PopAdmissible(r) PROVE Places'
  BY <1>0, <1>7, SameRow DEF Places, PopAdmissible, Admissible
<1>8. ASSUME NEW r \in Req, AllocateFails(r) PROVE Places'
  BY <1>0, <1>8, SameRow DEF Places, AllocateFails
<1>9. CASE AdmitDone
  BY <1>0, <1>9, SameRow DEF Places, AdmitDone
<1>10. ASSUME NEW S \in SUBSET batch, NEW eos \in SUBSET batch, Prefill(S, eos) PROVE Places'
  BY <1>0, <1>10, SameRow DEF TypeOK, Places, Prefill, Emit
<1>11. CASE BeginDecode
  <2>1. Rows' = DecodeRows /\ Secured' = {}
    BY <1>0, <1>11, BeginRow DEF TypeOK
  <2> QED BY <1>0, <1>11, <2>1 DEF Places, BeginDecode, DecodeRows, Done
<1>12. ASSUME NEW r \in Req, TakeBlock(r) PROVE Places'
  BY <1>0, <1>12, SameRow DEF Places, TakeBlock
<1>13. ASSUME NEW r \in Req, RowSecured(r) PROVE Places'
  <2>1. Rows' = Rows /\ Secured' = Secured \cup {r} /\ r \in Rows
    BY <1>0, <1>13, SecuredRow
  <2> QED BY <1>0, <1>13, <2>1 DEF Places, RowSecured, Current
<1>14. ASSUME NEW r \in Req, RaiseOutOfBlocks(r) PROVE Places'
  BY <1>0, <1>14, SameRow DEF Places, RaiseOutOfBlocks
<1>15. ASSUME NEW r \in Req, NEW v \in Req, Preempt(r, v) PROVE Places'
  <2>1. /\ pc = "capacity" /\ v \in Rows /\ v \in running /\ ~Finished(v) /\ batch = {}
    BY <1>0, <1>15 DEF Places, Preempt, OutOfBlocks, Current, IsVictim
  <2>2. /\ UNCHANGED <<pc, finish_reason, batch>>
        /\ Rows' = Rows \ {v} /\ Secured' = Secured \ {v} /\ running' = running \ {v}
        /\ waiting' = waiting \cup {v}
        /\ state' = [state EXCEPT ![v] = "WAITING"]
    BY <1>0, <1>15, StruckRow DEF Preempt
  <2>3. state \in [Req -> {"NEW", "WAITING", "RUNNING", "FINISHED"}]
    BY <1>0 DEF TypeOK
  <2> QED BY <1>0, <2>1, <2>2, <2>3 DEF Places
<1>16. CASE CapacityDone
  <2>1. Rows' = Rows /\ Secured' = Secured /\ Rows = Secured /\ (active = <<>> => Rows = {})
    BY <1>0, <1>16, SameRow, AllSecured DEF CapacityDone
  <2> QED BY <1>0, <1>16, <2>1 DEF Places, CapacityDone
<1>17. ASSUME NEW eos \in SUBSET Rows, Decode(eos) PROVE Places'
  <2>1. Rows' = {} /\ Secured' = {} /\ Rows \subseteq Req
    BY <1>0, <1>17, RowsTyped DEF Decode, Rows, Secured, ToSet
  <2> QED BY <1>0, <1>17, <2>1 DEF TypeOK, Places, Decode, Emit
<1>18. CASE UNCHANGED vars
  BY <1>0, <1>18, SameRow DEF Places, vars
<1> QED
  BY <1>1, <1>2, <1>3, <1>4, <1>5, <1>6, <1>7, <1>8, <1>9, <1>10, <1>11, <1>12, <1>13,
     <1>14, <1>15, <1>16, <1>17, <1>18 DEF Next, EngineStep


(* The list of rows and the numbers it is sorted by. *)
LEMMA LineStep ==
    ASSUME BlockManagerAssumption, IInv, [Next]_vars
    PROVE  LinedUp' /\ Numbered'
PROOF
<1> USE DEF request, client, row, kv
<1>0. /\ LinedUp /\ Numbered /\ active \in Seq(Req) /\ idx \in Nat
      /\ running \subseteq Req /\ batch \subseteq Req
      /\ admit_seq \in [Req -> Nat \cup {-1}] /\ admit_counter \in Nat
  BY DEF IInv, TypeOK
<1>1. ASSUME running' \cup batch' \subseteq running \cup batch,
             UNCHANGED <<admit_seq, admit_counter>>
      PROVE  Numbered'
  BY <1>0, <1>1 DEF Numbered
<1>2. ASSUME NEW r \in Req, PopAdmissible(r) PROVE LinedUp' /\ Numbered'
  <2>1. /\ admit_seq' = [admit_seq EXCEPT ![r] = admit_counter]
        /\ admit_counter' = admit_counter + 1
        /\ running' = running /\ batch' = batch \cup {r}
    BY <1>2 DEF PopAdmissible
  <2>2. /\ admit_seq'[r] = admit_counter
        /\ \A q \in Req \ {r} : admit_seq'[q] = admit_seq[q] /\ admit_seq[q] < admit_counter
    BY <1>0, <2>1 DEF Numbered
  <2>3. \A q \in Req : admit_seq'[q] < admit_counter'
    <3>1. \A q \in Req : admit_seq[q] \in Int
      BY <1>0
    <3> QED BY <1>0, <2>1, <2>2, <3>1
  <2>4. \A p, q \in running' \cup batch' : admit_seq'[p] = admit_seq'[q] => p = q
    <3>1. \A q \in Req : admit_seq[q] \in Int
      BY <1>0
    <3> QED BY <1>0, <2>1, <2>2, <3>1 DEF Numbered
  <2>5. LinedUp'
    BY <1>0, <1>2, SameRow DEF PopAdmissible
  <2> QED BY <2>3, <2>4, <2>5 DEF Numbered
<1>3. CASE BeginDecode
  BY <1>0, <1>1, <1>3, BeginRow DEF BeginDecode
<1>4. ASSUME NEW r \in Req, RowSecured(r) PROVE LinedUp' /\ Numbered'
  BY <1>0, <1>1, <1>4, SecuredRow DEF RowSecured
<1>5. ASSUME NEW r \in Req, NEW v \in Req, Preempt(r, v) PROVE LinedUp' /\ Numbered'
  BY <1>0, <1>1, <1>5, StruckRow DEF Preempt
<1>6. ASSUME NEW eos \in SUBSET Rows, Decode(eos) PROVE LinedUp' /\ Numbered'
  BY <1>0, <1>1, <1>6 DEF Decode, LinedUp
<1>7. ASSUME NEW S \in SUBSET batch, NEW eos \in SUBSET batch, Prefill(S, eos)
      PROVE  LinedUp' /\ Numbered'
  BY <1>0, <1>1, <1>7, SameRow DEF Prefill
<1>8. CASE \/ \E r \in Req : Submit(r) \/ ClientLeaves(r) \/ SetCancelled(r)
           \/ BeginStep \/ RetireDone \/ AdmitDone \/ CapacityDone
           \/ \E r \in Req : RetireOne(r) \/ AllocateFails(r) \/ TakeBlock(r) \/ RaiseOutOfBlocks(r)
           \/ UNCHANGED vars
  <2>1. UNCHANGED row /\ UNCHANGED <<admit_seq, admit_counter>>
        /\ running' \cup batch' \subseteq running \cup batch
    BY <1>8 DEF Submit, ClientLeaves, SetCancelled, BeginStep, RetireDone, AdmitDone, CapacityDone,
                RetireOne, AllocateFails, TakeBlock, RaiseOutOfBlocks, vars
  <2> QED BY <1>0, <1>1, <2>1, SameRow
<1> QED
  BY <1>2, <1>3, <1>4, <1>5, <1>6, <1>7, <1>8 DEF Next, EngineStep

-----------------------------------------------------------------------------
(* The KV memory.  Only four actions touch it; the others move requests     *)
(* between places without changing who is admitted.                         *)
KVSafe == OnlyAdmittedHoldKV /\ BlocksPartitioned

LEMMA SameMemory ==
    ASSUME KVSafe, UNCHANGED <<free_blocks, block_table>>,
           running' \cup batch' = running \cup batch
    PROVE  KVSafe'
PROOF
  BY DEF KVSafe, OnlyAdmittedHoldKV, BlocksPartitioned, FreeOnce, OwnedOnce, FreeOrOwned,
         NoneLost, Block

LEMMA FreedMemory ==
    ASSUME TypeOK, KVSafe, NEW r \in Req, Free(r),
           running' \cup batch' = (running \cup batch) \ {r}
    PROVE  KVSafe'
PROOF
<1>1. Returns(r) /\ BlocksPartitioned'
  BY FreeSafe DEF TypeOK, KVSafe
<1>2. block_table'[r] = <<>> /\ \A q \in Req \ {r} : block_table'[q] = block_table[q]
  BY <1>1, ReturnsFacts DEF TypeOK, KVTypeOK
<1> QED
  BY <1>1, <1>2 DEF KVSafe, OnlyAdmittedHoldKV

LEMMA TakenMemory ==
    ASSUME TypeOK, KVSafe, NEW r \in Req, NEW m \in 1 .. Len(free_blocks), Pops(r, m),
           running' \cup batch' = running \cup batch \cup {r}
    PROVE  KVSafe'
PROOF
<1>1. m \in 0 .. Len(free_blocks) /\ m \in Nat \ {0}
  BY LenProperties DEF TypeOK, KVTypeOK
<1>2. /\ BlocksPartitioned'
      /\ Len(block_table'[r]) = Len(block_table[r]) + m
      /\ \A q \in Req \ {r} : block_table'[q] = block_table[q]
  BY <1>1, PopsFacts, PopsKeepsPartition DEF TypeOK, KVTypeOK, KVSafe
<1>3. Len(block_table[r]) \in Nat
  BY LenProperties DEF TypeOK, KVTypeOK
<1>4. block_table'[r] # <<>>
  BY <1>1, <1>2, <1>3, EmptySeq
<1> QED
  BY <1>2, <1>4 DEF KVSafe, OnlyAdmittedHoldKV

LEMMA KVSafeStep ==
    ASSUME BlockManagerAssumption, SchedulerAssumption, IInv, [Next]_vars
    PROVE  KVSafe'
PROOF
<1> USE DEF request, client, row, kv
<1>0. Places /\ TypeOK /\ KVSafe
  BY DEF IInv, KVSafe
<1>1. ASSUME NEW r \in Req, RetireOne(r) PROVE KVSafe'
  <2>1. Free(r) /\ running' \cup batch' = (running \cup batch) \ {r}
    BY <1>1, WaitingHoldNothing DEF RetireOne, Done
  <2> QED BY <1>0, <2>1, FreedMemory
<1>2. ASSUME NEW r \in Req, NEW v \in Req, Preempt(r, v) PROVE KVSafe'
  <2>1. v \in running
    BY <1>0, <1>2 DEF Preempt, IsVictim, Places
  <2>2. Free(v) /\ running' \cup batch' = (running \cup batch) \ {v}
    BY <1>2, <2>1, WaitingHoldNothing DEF Preempt
  <2> QED BY <1>0, <2>2, FreedMemory
<1>3. ASSUME NEW r \in Req, TakeBlock(r) PROVE KVSafe'
  <2>1. 1 \in 1 .. Len(free_blocks)
    BY <1>0, <1>3, EmptySeq DEF TypeOK, KVTypeOK, TakeBlock
  <2>2. Pops(r, 1)
    BY <1>0, <1>3, AppendSlotSafe DEF TypeOK, TakeBlock
  <2>3. running' \cup batch' = running \cup batch \cup {r}
    <3>1. r \in Rows
      BY <1>3, CurrentRow DEF IInv, TypeOK, TakeBlock
    <3> QED BY <1>0, <1>3, <3>1 DEF TakeBlock, Places
  <2> QED BY <1>0, <2>1, <2>2, <2>3, TakenMemory
<1>4. ASSUME NEW r \in Req, PopAdmissible(r) PROVE KVSafe'
  <2> DEFINE m == BlocksNeeded(SeqLen(r))
  <2>1. block_table[r] = <<>>
    BY <1>4, WaitingHoldNothing DEF PopAdmissible, Admissible
  <2>2. Pops(r, m)
    BY <1>0, <1>4, <2>1, RequestNumbers, AllocateSafe DEF TypeOK, PopAdmissible
  <2>3. m \in 1 .. Len(free_blocks)
    <3>1. m \in Nat \ {0} /\ Len(free_blocks) \in Nat
      BY <1>0, RequestNumbers, LenProperties DEF TypeOK, KVTypeOK
    <3>2. m <= Len(free_blocks)
      BY <1>4 DEF PopAdmissible, AllocateAsserts
    <3> HIDE DEF m
    <3> QED BY <3>1, <3>2
  <2>4. running' \cup batch' = running \cup batch \cup {r}
    BY <1>4 DEF PopAdmissible
  <2> HIDE DEF m
  <2> QED BY <1>0, <2>2, <2>3, <2>4, TakenMemory
<1>5. ASSUME NEW S \in SUBSET batch, NEW eos \in SUBSET batch, Prefill(S, eos) PROVE KVSafe'
  <2>1. UNCHANGED <<free_blocks, block_table>> /\ running' \cup batch' = running \cup batch
    BY <1>5 DEF Prefill
  <2> QED BY <1>0, <2>1, SameMemory
<1>6. CASE \/ \E r \in Req : Submit(r) \/ ClientLeaves(r) \/ SetCancelled(r)
           \/ BeginStep \/ RetireDone \/ AdmitDone \/ BeginDecode \/ CapacityDone
           \/ \E r \in Req : AllocateFails(r) \/ RowSecured(r) \/ RaiseOutOfBlocks(r)
           \/ \E eos \in SUBSET Rows : Decode(eos)
           \/ UNCHANGED vars
  <2>1. UNCHANGED <<free_blocks, block_table, running, batch>>
    BY <1>6 DEF Submit, ClientLeaves, SetCancelled, BeginStep, RetireDone, AdmitDone, BeginDecode,
                CapacityDone, AllocateFails, RowSecured, RaiseOutOfBlocks, Decode, vars
  <2> QED BY <1>0, <2>1, SameMemory
<1> QED
  BY <1>1, <1>2, <1>3, <1>4, <1>5, <1>6 DEF Next, EngineStep

-----------------------------------------------------------------------------
LEMMA IInvInit == BlockManagerAssumption => (Init => IInv)
PROOF
<1> SUFFICES ASSUME BlockManagerAssumption, Init PROVE IInv
  OBVIOUS
<1>1. KVTypeOK /\ BlocksPartitioned
  BY KVInitSafe DEF Init
<1>2. TypeOK
  <2>1. active \in Seq(Req)
    BY DEF Init
  <2> QED BY <1>1, <2>1 DEF Init, TypeOK
<1>3. OnlyAdmittedHoldKV
  BY DEF Init, KVInit, OnlyAdmittedHoldKV
<1>4. LinedUp /\ Numbered
  BY DEF Init, LinedUp, Numbered
<1> QED
  BY <1>1, <1>2, <1>3, <1>4, PlacesInit DEF IInv

(* The invariant is inductive: it holds in every reachable state. *)
THEOREM IInvHolds == Spec => []IInv
PROOF
<1>1. Init => IInv
  BY IInvInit, BlockManagerAssumption
<1>2. IInv /\ [Next]_vars => IInv'
  <2> SUFFICES ASSUME IInv, [Next]_vars PROVE IInv'
    OBVIOUS
  <2>1. TypeOK'
    BY BlockManagerAssumption, SchedulerAssumption, WaitingHoldNothing, TypeOKStep DEF IInv
  <2>2. Places'
    BY BlockManagerAssumption, SchedulerAssumption, PlacesStep
  <2>3. KVSafe'
    BY BlockManagerAssumption, SchedulerAssumption, KVSafeStep
  <2>4. LinedUp' /\ Numbered'
    BY BlockManagerAssumption, LineStep
  <2> QED BY <2>1, <2>2, <2>3, <2>4 DEF IInv, KVSafe
<1> QED
  BY <1>1, <1>2, PTL DEF Spec

(* Every variable keeps its type: the pool's indices stay within the pool,   *)
(* and no pop() is ever asked of an empty free list.                         *)
THEOREM TypeCorrect == Spec => []TypeOK
PROOF
<1>1. IInv => TypeOK
  BY DEF IInv
<1> QED
  BY <1>1, IInvHolds, PTL

(* Memory safety of the KV pool (block_manager.py): no block serves two      *)
(* sequences, none is lost, whatever is admitted, preempted or abandoned.    *)
THEOREM PoolPartitioned == Spec => []BlocksPartitioned
PROOF
<1>1. IInv => BlocksPartitioned
  BY DEF IInv
<1> QED
  BY <1>1, IInvHolds, PTL

(* A request holds KV memory exactly while it is admitted: _retire and       *)
(* _preempt give everything back, and nobody who waits holds a block.        *)
THEOREM AdmittedOnly == Spec => []OnlyAdmittedHoldKV
PROOF
<1>1. IInv => OnlyAdmittedHoldKV
  BY DEF IInv
<1> QED
  BY <1>1, IInvHolds, PTL
-----------------------------------------------------------------------------
(* The rows of a decode step.  A row that was secured stays secured: later   *)
(* rows only take free blocks, and a row that is evicted leaves the step.    *)
LEMMA SecuredRowsStep ==
    ASSUME BlockManagerAssumption, IInv, SecuredRows, [Next]_vars
    PROVE  SecuredRows'
PROOF
<1> USE DEF request, client, row, kv
<1>0. /\ Places /\ TypeOK /\ KVTypeOK /\ LinedUp /\ Numbered
      /\ active \in Seq(Req) /\ idx \in Nat /\ Rows \subseteq Req /\ Secured \subseteq Req
  BY RowsTyped DEF IInv, TypeOK, Places
<1>1. CASE Secured' = Secured /\ UNCHANGED <<block_table, out>>
  BY <1>1 DEF SecuredRows, LongEnough, SeqLen
<1>2. CASE Secured' = {}
  BY <1>2 DEF SecuredRows
<1>3. ASSUME NEW r \in Req, RetireOne(r) PROVE SecuredRows'
  BY <1>0, <1>2, <1>3, SameRow DEF RetireOne, Places
<1>4. ASSUME NEW r \in Req, PopAdmissible(r) PROVE SecuredRows'
  BY <1>0, <1>2, <1>4, SameRow DEF PopAdmissible, Places
<1>5. ASSUME NEW S \in SUBSET batch, NEW eos \in SUBSET batch, Prefill(S, eos)
      PROVE SecuredRows'
  BY <1>0, <1>2, <1>5, SameRow DEF Prefill, Places
<1>6. ASSUME NEW r \in Req, RowSecured(r) PROVE SecuredRows'
  <2>1. Secured' = Secured \cup {r}
    BY <1>0, <1>6, SecuredRow
  <2>2. LongEnough(r, SeqLen(r)) /\ UNCHANGED <<block_table, out>>
    BY <1>6 DEF RowSecured
  <2> QED BY <2>1, <2>2 DEF SecuredRows, LongEnough, SeqLen
<1>7. ASSUME NEW r \in Req, TakeBlock(r) PROVE SecuredRows'
  <2>1. r \notin Secured /\ Secured' = Secured /\ out' = out
    BY <1>0, <1>7, SameRow, CurrentRow DEF TakeBlock
  <2>2. \A q \in Req \ {r} : block_table'[q] = block_table[q]
    BY <1>0, <1>7 DEF TakeBlock, AppendSlot, KVTypeOK
  <2> QED BY <1>0, <2>1, <2>2 DEF SecuredRows, LongEnough, SeqLen, TypeOK
<1>8. ASSUME NEW r \in Req, NEW v \in Req, Preempt(r, v) PROVE SecuredRows'
  <2>1. Secured' = Secured \ {v} /\ out' = out
    BY <1>0, <1>8, StruckRow DEF Preempt
  <2>2. \A q \in Req \ {v} : block_table'[q] = block_table[q]
    BY <1>0, <1>8 DEF Preempt, Free, KVTypeOK
  <2> QED BY <1>0, <2>1, <2>2 DEF SecuredRows, LongEnough, SeqLen, TypeOK
<1>9. ASSUME NEW eos \in SUBSET Rows, Decode(eos) PROVE SecuredRows'
  BY <1>2, <1>9 DEF Decode, Secured
<1>10. CASE BeginDecode
  BY <1>0, <1>2, <1>10, BeginRow DEF TypeOK
<1>11. CASE \/ \E r \in Req : Submit(r) \/ ClientLeaves(r) \/ SetCancelled(r)
            \/ BeginStep \/ RetireDone \/ AdmitDone \/ CapacityDone
            \/ \E r \in Req : AllocateFails(r) \/ RaiseOutOfBlocks(r)
            \/ UNCHANGED vars
  <2>1. UNCHANGED <<Secured, block_table, out>>
    BY <1>11, SameRow DEF Submit, ClientLeaves, SetCancelled, BeginStep, RetireDone, AdmitDone,
                 CapacityDone, AllocateFails, RaiseOutOfBlocks, vars
  <2> QED BY <1>1, <2>1
<1> QED
  BY <1>3, <1>4, <1>5, <1>6, <1>7, <1>8, <1>9, <1>10, <1>11 DEF Next, EngineStep

(* A token is never written outside of its row's own blocks: when decode     *)
(* runs, every row's table covers position seq_len - 1 (_ensure_capacity).   *)
THEOREM RowsAlwaysCovered == Spec => []RowsCovered
PROOF
<1>1. Init => SecuredRows
  BY EmptyRow DEF Init, SecuredRows
<1>2. IInv /\ SecuredRows /\ [Next]_vars => SecuredRows'
  BY BlockManagerAssumption, SecuredRowsStep
<1>3. IInv /\ SecuredRows => RowsCovered
  <2> SUFFICES ASSUME IInv, SecuredRows, pc = "decode", NEW r \in Rows
               PROVE  /\ r \in running /\ ~Finished(r)
                      /\ Paged => SeqLen(r) - 1 < BlockSize * Len(block_table[r])
    BY DEF RowsCovered
  <2>1. r \in running /\ r \in Secured /\ r \in Req /\ ~Finished(r) /\ TypeOK
    BY DEF IInv, Places, TypeOK
  <2>2. SeqLen(r) \in Nat
    BY <2>1, RequestNumbers, BlockManagerAssumption, SchedulerAssumption
  <2> DEFINE n == SeqLen(r)
             L == Len(block_table[r])
  <2>3. L \in Nat
    BY <2>1, LenProperties DEF TypeOK, KVTypeOK
  <2>4. L >= BlocksNeeded(n)
    BY <2>1 DEF SecuredRows, LongEnough
  <2>5. /\ BlocksNeeded(n) \in Nat
        /\ Paged => n <= BlockSize * BlocksNeeded(n)
    BY <2>2, BlocksNeededFacts, BlockManagerAssumption
  <2>6. BlockSize \in Nat
    BY BlockManagerAssumption DEF BlockManagerAssumption
  <2>7. \A a, b, c \in Nat : a <= b => c * a <= c * b
    BY SMTT(30)
  <2> HIDE DEF n, L
  <2>8. BlockSize * BlocksNeeded(n) <= BlockSize * L
    BY <2>3, <2>4, <2>5, <2>6, <2>7
  <2>9. /\ n \in Nat
        /\ BlockSize * BlocksNeeded(n) \in Nat
        /\ BlockSize * L \in Nat
    BY <2>2, <2>3, <2>5, <2>6 DEF n
  <2>10. Paged => n - 1 < BlockSize * L
    BY <2>5, <2>8, <2>9
  <2> QED BY <2>1, <2>10 DEF n, L
<1> QED
  BY <1>1, <1>2, <1>3, IInvHolds, PTL DEF Spec

-----------------------------------------------------------------------------
(* Preemptions and tokens. *)
LEMMA PaidStep ==
    ASSUME IInv, Paid, [Next]_vars
    PROVE  Paid'
PROOF
<1> USE DEF request, client, row, kv
<1>0. /\ Places
      /\ preempt_count \in [Req -> Nat] /\ out \in [Req -> Nat]
      /\ state \in [Req -> {"NEW", "WAITING", "RUNNING", "FINISHED"}]
      /\ running \subseteq Req /\ Rows \subseteq Req /\ batch \subseteq Req
  BY RowsTyped DEF IInv, TypeOK
<1>1. ASSUME NEW r \in Req, Submit(r) PROVE Paid'
  BY <1>0, <1>1 DEF Paid, Submit
<1>2. ASSUME NEW r \in Req, RetireOne(r) PROVE Paid'
  <2>1. state[r] = "RUNNING"
    BY <1>0, <1>2 DEF RetireOne, Done, Places
  <2> QED BY <1>0, <1>2, <2>1 DEF Paid, RetireOne
<1>3. ASSUME NEW S \in SUBSET batch, NEW eos \in SUBSET batch, Prefill(S, eos) PROVE Paid'
  BY <1>0, <1>3 DEF Paid, Prefill, Emit
<1>4. ASSUME NEW r \in Req, NEW v \in Req, Preempt(r, v) PROVE Paid'
  <2>1. state[v] = "RUNNING"
    BY <1>0, <1>4 DEF Preempt, IsVictim, Places
  <2> QED BY <1>0, <1>4, <2>1 DEF Paid, Preempt
<1>5. ASSUME NEW eos \in SUBSET Rows, Decode(eos) PROVE Paid'
  BY <1>0, <1>5 DEF Paid, Decode, Emit
<1>6. CASE \/ \E r \in Req : ClientLeaves(r) \/ SetCancelled(r)
           \/ BeginStep \/ RetireDone \/ AdmitDone \/ BeginDecode \/ CapacityDone
           \/ \E r \in Req : PopAdmissible(r) \/ AllocateFails(r) \/ TakeBlock(r)
                              \/ RowSecured(r) \/ RaiseOutOfBlocks(r)
           \/ UNCHANGED vars
  <2>1. UNCHANGED <<preempt_count, out, state>>
    BY <1>6 DEF ClientLeaves, SetCancelled, BeginStep, RetireDone, AdmitDone, BeginDecode,
                CapacityDone, PopAdmissible, AllocateFails, TakeBlock, RowSecured,
                RaiseOutOfBlocks, vars
  <2> QED BY <2>1 DEF Paid
<1> QED
  BY <1>1, <1>2, <1>3, <1>4, <1>5, <1>6 DEF Next, EngineStep

(* Preemption cannot livelock: a request is evicted at most as often as it   *)
(* has emitted a token, and strictly less often once it has finished.        *)
THEOREM PreemptionsArePaid == Spec => []PreemptionPaid
PROOF
<1>1. Init => Paid
  BY DEF Init, Paid
<1>2. IInv /\ Paid /\ [Next]_vars => Paid'
  BY PaidStep
<1>3. IInv /\ Paid => PreemptionPaid
  BY DEF IInv, Places, Paid, PreemptionPaid
<1> QED
  BY <1>1, <1>2, <1>3, IInvHolds, PTL DEF Spec
-----------------------------------------------------------------------------
(* The order of first admissions. *)
LEMMA QueueStep ==
    ASSUME BlockManagerAssumption, IInv, Queue, FirstAdmissionsInOrder, [Next]_vars
    PROVE  Queue' /\ FirstAdmissionsInOrder'
PROOF
<1> DEFINE Goal == Queue' /\ FirstAdmissionsInOrder'
<1> USE DEF request, client, row, kv
<1>0. /\ Places
      /\ preempt_count \in [Req -> Nat] /\ arrival \in [Req -> Nat]
      /\ admit_seq \in [Req -> Nat \cup {-1}] /\ admit_counter \in Nat
      /\ state \in [Req -> {"NEW", "WAITING", "RUNNING", "FINISHED"}]
      /\ waiting \subseteq Req /\ running \subseteq Req /\ batch \subseteq Req
      /\ IsFiniteSet(Req)
  BY DEF IInv, TypeOK, BlockManagerAssumption
<1>1. IsFiniteSet(Submitted) /\ Cardinality(Submitted) \in Nat
  BY <1>0, FS_Subset, FS_CardinalityType DEF Submitted
(* A step that submits nobody, admits nobody and removes nobody from the list *)
(* but those who left.                                                        *)
<1>2. ASSUME Submitted' = Submitted, UNCHANGED <<arrival, admit_seq>>,
             waiting \cup cancelled \subseteq waiting' \cup cancelled',
             running' \cup batch' \subseteq running \cup batch,
             cancelled \subseteq cancelled',
             \A r \in Req : state'[r] = "NEW" => state[r] = "NEW",
             \A r \in Req : admit_seq[r] = -1 => preempt_count'[r] = preempt_count[r]
      PROVE  Goal
  <2>1. Queue'
    BY <1>0, <1>2 DEF Queue
  <2>2. \A r \in Req : state'[r] # "NEW" <=> state[r] # "NEW"
    BY <1>2 DEF Submitted
  <2>3. FirstAdmissionsInOrder'
    BY <1>2, <2>2 DEF FirstAdmissionsInOrder
  <2> QED BY <2>1, <2>3
<1>3. ASSUME NEW r \in Req, Submit(r) PROVE Goal
  <2>1. /\ r \notin Submitted /\ Submitted' = Submitted \cup {r}
        /\ running' = running /\ batch' = batch
        /\ state[r] = "NEW" /\ admit_seq' = admit_seq /\ admit_seq[r] = -1
        /\ preempt_count' = preempt_count /\ cancelled' = cancelled
        /\ waiting' = waiting \cup {r}
        /\ state' = [state EXCEPT ![r] = "WAITING"]
        /\ arrival' = [arrival EXCEPT ![r] = Cardinality(Submitted)]
    BY <1>0, <1>3 DEF Submit, Submitted, Queue
  <2>2. Cardinality(Submitted') = Cardinality(Submitted) + 1
    BY <1>1, <2>1, FS_AddElement
  <2>3. /\ arrival'[r] = Cardinality(Submitted)
        /\ \A q \in Req \ {r} : arrival'[q] = arrival[q]
    BY <1>0, <2>1
  <2>4. \A q \in Submitted : q \in Req \ {r} /\ arrival[q] < Cardinality(Submitted)
    BY <2>1 DEF Submitted, Queue
  <2>5. Queue'
    <3>1. \A q \in Submitted' : arrival'[q] < Cardinality(Submitted')
      BY <1>0, <1>1, <2>1, <2>2, <2>3, <2>4
    <3>2. \A q \in Req : state'[q] = "NEW" => state[q] = "NEW"
      BY <1>0, <2>1
    <3>3. \A q \in Submitted' : admit_seq'[q] = -1 => q \in waiting' \cup cancelled'
      BY <2>1 DEF Queue
    <3> QED BY <2>1, <3>1, <3>2, <3>3 DEF Queue
  <2>6. FirstAdmissionsInOrder'
    <3> SUFFICES ASSUME NEW p \in Req, NEW q \in Req,
                        state'[p] # "NEW", state'[q] # "NEW",
                        arrival'[p] < arrival'[q], admit_seq'[q] >= 0
                 PROVE  admit_seq'[p] >= 0 \/ p \in cancelled'
      BY DEF FirstAdmissionsInOrder
    <3>1. q # r
      BY <2>1
    <3>2. q \in Submitted
      BY <1>0, <2>1, <3>1 DEF Submitted
    <3>3. p # r
      BY <1>0, <1>1, <2>3, <2>4, <3>1, <3>2
    <3> QED BY <1>0, <2>1, <2>3, <3>1, <3>3 DEF FirstAdmissionsInOrder
  <2> QED BY <2>5, <2>6
<1>4. ASSUME NEW r \in Req, PopAdmissible(r) PROVE Goal
  <2>1. /\ r \in waiting /\ state[r] = "WAITING" /\ r \in Submitted
        /\ \A q \in waiting \ {r} : Before(r, q)
        /\ UNCHANGED <<state, arrival, preempt_count, cancelled>>
        /\ admit_seq' = [admit_seq EXCEPT ![r] = admit_counter]
        /\ waiting' = waiting \ {r} /\ running' = running /\ batch' = batch \cup {r}
    BY <1>0, <1>4 DEF PopAdmissible, Admissible, Places, Submitted
  <2>2. Submitted' = Submitted
    BY <2>1 DEF Submitted
  <2>3. /\ admit_seq'[r] \in Nat /\ admit_seq'[r] >= 0 /\ admit_seq'[r] # -1
        /\ \A q \in Req \ {r} : admit_seq'[q] = admit_seq[q]
    BY <1>0, <2>1
  <2>4. Queue'
    <3>1. \A q \in Submitted : q \in Req
      BY DEF Submitted
    <3> QED BY <2>1, <2>2, <2>3, <3>1 DEF Queue, Submitted
  <2>5. FirstAdmissionsInOrder'
    <3> SUFFICES ASSUME NEW p \in Req, NEW q \in Req,
                        state[p] # "NEW", state[q] # "NEW",
                        arrival[p] < arrival[q], admit_seq'[q] >= 0,
                        p \notin cancelled, admit_seq'[p] = -1
                 PROVE  FALSE
      <4>1. admit_seq' \in [Req -> Nat \cup {-1}]
        BY <1>0, <2>1
      <4> QED BY <2>1, <4>1 DEF FirstAdmissionsInOrder
    <3>1. p # r /\ admit_seq[p] = -1
      BY <2>3
    <3>2. p \in waiting \ {r} /\ preempt_count[p] = 0
      BY <3>1 DEF Queue, Submitted
    <3>3. q = r
      BY <2>3, <3>1 DEF FirstAdmissionsInOrder
    <3>4. preempt_count[r] > 0
      BY <1>0, <2>1, <3>2, <3>3 DEF Before
    <3>5. admit_seq[r] # -1
      BY <1>0, <3>4 DEF Queue
    <3> QED BY <1>0, <3>1, <3>3, <3>5 DEF FirstAdmissionsInOrder
  <2> QED BY <2>4, <2>5
<1>5. ASSUME NEW r \in Req, NEW v \in Req, Preempt(r, v) PROVE Goal
  <2>1. state[v] = "RUNNING" /\ v \in Submitted /\ v \notin waiting
    BY <1>0, <1>5 DEF Preempt, IsVictim, Places, Submitted
  <2>2. /\ UNCHANGED <<arrival, admit_seq, cancelled>>
        /\ waiting' = waiting \cup {v}
        /\ state' = [state EXCEPT ![v] = "WAITING"]
        /\ preempt_count' = [preempt_count EXCEPT ![v] = @ + 1]
    BY <1>5 DEF Preempt
  <2>3. /\ Submitted' = Submitted
        /\ \A q \in Req : state'[q] = "NEW" <=> state[q] = "NEW"
        /\ \A q \in Req : state'[q] # "NEW" <=> state[q] # "NEW"
    BY <1>0, <2>1, <2>2 DEF Submitted
  <2>4. v \in running /\ admit_seq[v] # -1 /\ running' \subseteq running /\ batch' = batch
    BY <1>0, <1>5, <2>1 DEF Preempt, Places, Queue
  <2>7. Queue'
    BY <1>0, <2>2, <2>3, <2>4 DEF Queue
  <2>8. FirstAdmissionsInOrder'
    BY <2>2, <2>3 DEF FirstAdmissionsInOrder
  <2> QED BY <2>7, <2>8
<1>6. ASSUME NEW r \in Req, RetireOne(r) PROVE Goal
  <2>1. state[r] = "RUNNING" /\ state' = [state EXCEPT ![r] = "FINISHED"]
    BY <1>0, <1>6 DEF RetireOne, Done, Places
  <2>2. /\ Submitted' = Submitted
        /\ \A q \in Req : state'[q] = "NEW" => state[q] = "NEW"
    BY <1>0, <2>1 DEF Submitted
  <2>3. /\ UNCHANGED <<arrival, admit_seq, waiting, cancelled, batch, preempt_count>>
        /\ running' \subseteq running
    BY <1>6 DEF RetireOne
  <2> QED BY <1>2, <2>2, <2>3
<1>7. CASE BeginStep
  BY <1>2, <1>7 DEF BeginStep, Submitted
<1>8. ASSUME NEW r \in Req, SetCancelled(r) PROVE Goal
  BY <1>2, <1>8 DEF SetCancelled, Submitted
<1>9. ASSUME NEW S \in SUBSET batch, NEW eos \in SUBSET batch, Prefill(S, eos) PROVE Goal
  <2>1. \A r \in S : state[r] # "NEW"
    BY <1>0 DEF Places
  <2>2. /\ UNCHANGED <<arrival, admit_seq, waiting, cancelled, preempt_count>>
        /\ running' \cup batch' = running \cup batch
        /\ state' = [r \in Req |-> IF r \in S THEN "RUNNING" ELSE state[r]]
    BY <1>9 DEF Prefill
  <2>3. \A r \in Req : state'[r] = "NEW" <=> state[r] = "NEW"
    BY <2>1, <2>2
  <2>4. Submitted' = Submitted
    BY <2>3 DEF Submitted
  <2> QED BY <1>2, <2>2, <2>3, <2>4
<1>10. CASE \/ \E r \in Req : ClientLeaves(r)
            \/ RetireDone \/ AdmitDone \/ BeginDecode \/ CapacityDone
            \/ \E r \in Req : AllocateFails(r) \/ TakeBlock(r) \/ RowSecured(r)
                               \/ RaiseOutOfBlocks(r)
            \/ \E eos \in SUBSET Rows : Decode(eos)
            \/ UNCHANGED vars
  <2>1. UNCHANGED <<state, arrival, admit_seq, preempt_count, waiting, running, batch, cancelled>>
    BY <1>10 DEF ClientLeaves, RetireDone, AdmitDone, BeginDecode, CapacityDone, AllocateFails,
                 TakeBlock, RowSecured, RaiseOutOfBlocks, Decode, vars
  <2> QED BY <1>2, <2>1 DEF Submitted
<1> QED
  BY <1>3, <1>4, <1>5, <1>6, <1>7, <1>8, <1>9, <1>10 DEF Next, EngineStep

(* Nobody overtakes at the door: whatever fits, a request is never admitted  *)
(* for the first time before one that arrived earlier and is still wanted.   *)
THEOREM NobodyOvertakes == Spec => []FirstAdmissionsInOrder
PROOF
<1>1. Init => Queue /\ FirstAdmissionsInOrder
  BY DEF Init, Queue, Submitted, FirstAdmissionsInOrder
<1>2. IInv /\ Queue /\ FirstAdmissionsInOrder /\ [Next]_vars
        => Queue' /\ FirstAdmissionsInOrder'
  BY BlockManagerAssumption, QueueStep
<1> QED
  BY <1>1, <1>2, IInvHolds, PTL DEF Spec
=============================================================================
