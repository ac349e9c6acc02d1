------------------------------ MODULE MCGames ------------------------------
(* Instances of Games for TLC. *)
EXTENDS Games, TLC

Symmetry == Permutations(Requests)
=============================================================================
