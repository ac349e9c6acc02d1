---------------------------- MODULE MCAccountPool ----------------------------
(* Instances of AccountPool for TLC. *)
EXTENDS AccountPool, TLC

Symmetry == Permutations(Accounts) \cup Permutations(Procs)

\* All but restarted, on which no step and no safety property depends.
View == <<now, acct, valid, slots, fixed, contested, raw>>
=============================================================================
