------------------------------ MODULE MCPlugins ------------------------------
(* Instances of Plugins for TLC. *)
EXTENDS Plugins, TLC

Symmetry == Permutations(Binaries) \cup Permutations(Requests) \cup Permutations(Runs)
=============================================================================
