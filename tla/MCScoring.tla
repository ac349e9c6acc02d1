------------------------------ MODULE MCScoring ------------------------------
(* Instances of Scoring for TLC. *)
EXTENDS Scoring, TLC

\* Checks that repeat are due every second round, the others in every round.
SomeThrottled == [k \in Checks |-> IF k \in Repeating THEN 2 ELSE 0]

Symmetry == Permutations(Runs) \cup Permutations(Requests)
=============================================================================
