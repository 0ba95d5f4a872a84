----------------------------- MODULE RunLedger -----------------------------
(***************************************************************************)
(* What the tables of the scheduled job promise their readers: each slot   *)
(* has at most one run, the run at most one heartbeat, a run that          *)
(* succeeded has one, and an outcome is never changed.  A slot that is     *)
(* delivered twice, or whose writes are lost, promises no less.            *)
(***************************************************************************)
EXTENDS Naturals

CONSTANTS
  Slots,  \* scheduled times
  NoRun

VARIABLES
  runs,       \* automation_runs: the status of each slot's run
  heartbeats  \* automation_heartbeats: how many each slot's run has

Init ==
  /\ runs = [s \in Slots |-> NoRun]
  /\ heartbeats = [s \in Slots |-> 0]

Open(s) ==
  /\ runs[s] = NoRun
  /\ runs' = [runs EXCEPT ![s] = "running"]
  /\ UNCHANGED heartbeats

Beat(s) ==
  /\ runs[s] = "running" /\ heartbeats[s] = 0
  /\ heartbeats' = [heartbeats EXCEPT ![s] = 1]
  /\ UNCHANGED runs

Succeed(s) ==
  /\ runs[s] = "running" /\ heartbeats[s] = 1
  /\ runs' = [runs EXCEPT ![s] = "succeeded"]
  /\ UNCHANGED heartbeats

Fail(s) ==
  /\ runs[s] = "running"
  /\ runs' = [runs EXCEPT ![s] = "failed"]
  /\ UNCHANGED heartbeats

Next == \E s \in Slots : Open(s) \/ Beat(s) \/ Succeed(s) \/ Fail(s)

Spec == Init /\ [][Next]_<<runs, heartbeats>>
=============================================================================
