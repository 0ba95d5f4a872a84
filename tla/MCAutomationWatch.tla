------------------------- MODULE MCAutomationWatch --------------------------
(* Three deliveries of two slots, one tick to a period and, as in the code, *)
(* a threshold of three periods. The clock outruns the last slot by more,  *)
(* as if the scheduler had stopped.                                        *)
EXTENDS AutomationWatch, TLC

MCSlots == 0..1
Symmetry == Permutations(Invocations)
=============================================================================
