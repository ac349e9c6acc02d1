---------------------------- MODULE MCAuthorizer ----------------------------
(* Instances of Authorizer for TLC. *)
EXTENDS Authorizer, TLC

Symmetry == Permutations(Roles) \cup Permutations(Requests)
=============================================================================
