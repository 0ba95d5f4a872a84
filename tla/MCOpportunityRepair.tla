------------------------ MODULE MCOpportunityRepair ------------------------
(* Three events, two of them about one signal; a run scans two and reads   *)
(* them one at a time.                                                     *)
EXTENDS OpportunityRepair

CONSTANTS s1, s2

MCSignalOf == [e \in Events |-> IF e = 3 THEN s2 ELSE s1]
============================================================================
