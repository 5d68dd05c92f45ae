---------------------------- MODULE MCEngineLoop ----------------------------
(***************************************************************************)
(* Values of EngineLoop's constants for TLC: three requests, of which one  *)
(* streams, may leave and may end on EOS, and r3 asks for no tokens.       *)
(***************************************************************************)
EXTENDS EngineLoop, TLC

CONSTANTS r1, r2, r3

ThreeReqs == {r1, r2, r3}
Lengths == r1 :> 3 @@ r2 :> 1 @@ r3 :> 0
OnlyR1 == {r1}
Both == {"naive", "batched"}
Naive == {"naive"}
=============================================================================
