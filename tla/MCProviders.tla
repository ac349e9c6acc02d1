----------------------------- MODULE MCProviders -----------------------------
(* Instances of Providers for TLC. *)
EXTENDS Providers, TLC

Symmetry == Permutations(Accounts) \cup Permutations(Clients) \cup Permutations(Handlers)
=============================================================================
