---------------------------- MODULE MCScheduler ----------------------------
(***************************************************************************)
(* Values of Scheduler's constants for TLC.  The requests have different   *)
(* prompts and output lengths; the pools are small enough that admission   *)
(* waits, blocks run out and rows are evicted, more than once.             *)
(***************************************************************************)
EXTENDS Scheduler, TLC

CONSTANTS r1, r2, r3, r4, r5, id1, id2, id3, id4, id5

AllReqs   == {r1, r2, r3, r4, r5}
ThreeReqs == {r1, r2, r3}
AllIds    == {id1, id2, id3, id4, id5}

(* uuid4().hex, or clients that choose distinct X-Request-IDs ... *)
UniqueIds5 == r1 :> id1 @@ r2 :> id2 @@ r3 :> id3 @@ r4 :> id4 @@ r5 :> id5
UniqueIds4 == r1 :> id1 @@ r2 :> id2 @@ r3 :> id3 @@ r4 :> id4
(* ... and two clients that send the same one. *)
SharedIds3 == r1 :> id1 @@ r2 :> id1 @@ r3 :> id2

(* r5 asks for more than the pool of 7 blocks of 2 tokens can ever hold;   *)
(* three of the others grow beyond it together, and the limit of 3 rows    *)
(* stops a fourth before the pool does.                                    *)
LongPrompts == r1 :> 1 @@ r2 :> 2 @@ r3 :> 1 @@ r4 :> 2 @@ r5 :> 7
LongLengths == r1 :> 9 @@ r2 :> 8 @@ r3 :> 7 @@ r4 :> 1 @@ r5 :> 9

(* Worst cases of 5, 3, 4, 4 and 1 blocks of 2 tokens, in a pool of 8.  r1  *)
(* and r2 have one id: when r2 has overwritten r1's entry, r3 or r4 seems   *)
(* to fit beside them.                                                      *)
SharedIds5 == r1 :> id1 @@ r2 :> id1 @@ r3 :> id2 @@ r4 :> id3 @@ r5 :> id4
StaticPrompts == r1 :> 6 @@ r2 :> 4 @@ r3 :> 4 @@ r4 :> 7 @@ r5 :> 1
StaticLengths == r1 :> 4 @@ r2 :> 2 @@ r3 :> 4 @@ r4 :> 1 @@ r5 :> 1

(* r3 is admitted on the strength of a commitment that r2 overwrote. *)
LatePrompts == r1 :> 2 @@ r2 :> 2 @@ r3 :> 5
LateLengths == r1 :> 5 @@ r2 :> 5 @@ r3 :> 2

(* r4 asks for more than 3 blocks of 2 tokens. *)
FourReqs == ThreeReqs \cup {r4}
ShortPrompts == r1 :> 2 @@ r2 :> 1 @@ r3 :> 1 @@ r4 :> 3
ShortLengths == r1 :> 3 @@ r2 :> 4 @@ r3 :> 4 @@ r4 :> 5

(* With 3 blocks of 2, a prompt of 7 tokens for -5 more seems to need one.  *)
TwoReqs == {r1, r2}
HugePrompts == r1 :> 7 @@ r2 :> 1
HugeLengths == r1 :> -5 @@ r2 :> 2
UniqueIds2 == r1 :> id1 @@ r2 :> id2

Nobody == {}
OneLeaves == {r2}
KeepsEos == {r1, r3}
OnlyR3Stops == {r1, r2, r4, r5}
=============================================================================
