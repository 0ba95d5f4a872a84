------------------------- MODULE MCSnapshotCapture -------------------------
(* Two opportunities triggered at hours 0 and 1; the clock is read at the  *)
(* hours at which something falls due.                                     *)
EXTENDS SnapshotCapture

CONSTANTS o1, o2

MCTriggered == [o \in Opportunities |-> IF o = o1 THEN 0 ELSE 1]
=============================================================================
