------------------------ MODULE MCOpportunityPaging ------------------------
(* Two milliseconds of two ticks each, so that rows share an instant, share *)
(* a millisecond only, or share neither.                                    *)
EXTENDS OpportunityPaging

MCInstants == 0..3
=============================================================================
