------------------------------- MODULE Orders -------------------------------
(***************************************************************************)
(* Finite sets in an order, and the elements of a sequence at some of its  *)
(* places.  The order of InOrder is a set of pairs and a filter is a set   *)
(* of places, so that lemmas can be stated about them: those of the        *)
(* libraries take an operator.                                             *)
(***************************************************************************)
EXTENDS Integers, FiniteSets

(* How many numbers of S are below x.                                       *)
Rank(S, x) == Cardinality({z \in S : z < x})

(* A set of numbers from the least to the greatest.                         *)
Ascending(S) == [k \in 1..Cardinality(S) |-> CHOOSE x \in S : Rank(S, x) = k - 1]

(* A set in the order R.                                                    *)
InOrder(S, R) ==
    [k \in 1..Cardinality(S) |-> CHOOSE x \in S : Cardinality({z \in S : <<z, x>> \in R}) = k - 1]

(* The elements of q at the places in P.                                    *)
AtPlaces(q, P) == [k \in 1..Cardinality(P) |-> q[Ascending(P)[k]]]
=============================================================================
