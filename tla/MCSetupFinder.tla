---------------------------- MODULE MCSetupFinder ----------------------------
(* Two opportunities, every list of them in order, one choice of each      *)
(* filter, and a user who does three things.                               *)
EXTENDS SetupFinder

CONSTANTS o1, o2

MCLists == {<<>>, <<o1>>, <<o2>>, <<o1, o2>>}
==============================================================================
