-------------------------- MODULE MCQueueConsumer --------------------------
(* The race instance: two workers, two messages about two events with one  *)
(* signal, either of which may be delivered twice at a time.  The twins    *)
(* instance: two messages about one event, as a client's replay sends      *)
(* them.  The kinds instance: one message of each kind, through one worker *)
(* and under fairness.                                                     *)
EXTENDS QueueConsumer, TLC

CONSTANTS e1, e2, e3, m1, m2, m3, m4, s1

RaceAbout == (m1 :> e1) @@ (m2 :> e2)
TwinAbout == (m1 :> e1) @@ (m2 :> e1)
RaceSignalOf == (e1 :> s1) @@ (e2 :> s1)

KindsAbout == (m1 :> e1) @@ (m2 :> e2) @@ (m3 :> e3) @@ (m4 :> Malformed)
KindsSignalOf == (e1 :> s1) @@ (e2 :> Skipped) @@ (e3 :> Invalid)

Symmetry == Permutations(Workers) \cup Permutations(Instruments)
=============================================================================
