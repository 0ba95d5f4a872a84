----------------------- MODULE MCOpportunityLifecycle -----------------------
(* Two writers whose transactions overlap and make as many updates as the  *)
(* path has steps, one reader, and a clock that shows three times.         *)
EXTENDS OpportunityLifecycle, TLC

Symmetry == Permutations(Writers)
=============================================================================
