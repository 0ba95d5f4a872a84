-------------------------- MODULE MCAutomationRuns --------------------------
(* Deliveries of two slots: more of them than slots, so some are repeats.   *)
EXTENDS AutomationRuns, TLC

Symmetry == Permutations(Invocations) \cup Permutations(Slots)
=============================================================================
