-------------------------- MODULE RequestLifecycle --------------------------
(***************************************************************************)
(* What the scheduler promises about a request, whatever its batching,     *)
(* allocator and preemption do (the state machine of engine/request.py and *)
(* docs/01-architecture.md): it waits, it is served one token at a time,   *)
(* it may be sent back to wait but keeps its tokens, and it ends once,     *)
(* with the token that completes it or because its client left.            *)
(***************************************************************************)
EXTENDS Integers

CONSTANTS Req, MaxOutput

VARIABLES
    phase,      \* where each request is
    tokens,     \* how many tokens it has been given
    left        \* the requests whose client is known to have left

vars == <<phase, tokens, left>>

Init ==
    /\ phase = [r \in Req |-> "new"]
    /\ tokens = [r \in Req |-> 0]
    /\ left = {}

In(p) == {r \in Req : phase[r] = p}

Move(S, p) == phase' = [r \in Req |-> IF r \in S THEN p ELSE phase[r]]

Arrive(r) ==
    /\ phase[r] = "new"
    /\ Move({r}, "waiting")
    /\ UNCHANGED <<tokens, left>>

(* One forward pass gives one token to each request of S; those of F end    *)
(* with it, and a request ends at the latest with its last allowed token.   *)
Serve(S, F) ==
    /\ S # {}
    /\ S \subseteq In("waiting") \/ S \subseteq In("running")
    /\ F \subseteq S
    /\ tokens' = [r \in Req |-> IF r \in S THEN tokens[r] + 1 ELSE tokens[r]]
    /\ \A r \in S : tokens[r] + 1 >= MaxOutput[r] => r \in F
    /\ phase' = [r \in Req |-> IF r \in F THEN "done"
                               ELSE IF r \in S THEN "running" ELSE phase[r]]
    /\ UNCHANGED left

Evict(r) ==
    /\ phase[r] = "running"
    /\ Move({r}, "waiting")
    /\ UNCHANGED <<tokens, left>>

Leave(r) ==
    /\ phase[r] # "new"
    /\ left' = left \cup {r}
    /\ UNCHANGED <<phase, tokens>>

(* All the requests of departed clients are dropped together. *)
Drop ==
    /\ Move(left \cap (In("waiting") \cup In("running")), "dropped")
    /\ UNCHANGED <<tokens, left>>

Next ==
    \/ \E r \in Req : Arrive(r) \/ Evict(r) \/ Leave(r)
    \/ \E S \in SUBSET Req : \E F \in SUBSET S : Serve(S, F)
    \/ Drop

Spec == Init /\ [][Next]_vars
=============================================================================
