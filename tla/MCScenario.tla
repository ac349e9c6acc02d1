---------------------------- MODULE MCScenario ----------------------------
(* Scenario with everything that may fail. *)
EXTENDS Scenario

MCFaults == {"oltp", "provider", "panic"}

=============================================================================
