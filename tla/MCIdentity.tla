----------------------------- MODULE MCIdentity -----------------------------
(* Instances of Identity for TLC. *)
EXTENDS Identity, TLC

Symmetry == Permutations(Codes) \cup Permutations(Requests)
              \cup Permutations(Users \ {Admin})
=============================================================================
