-------------------------- MODULE AutomationTables --------------------------
(***************************************************************************)
(* The two tables of the scheduled job, which its invocations write and    *)
(* the health report reads, and what the first promise the second.         *)
(***************************************************************************)
CONSTANTS
  Slots,  \* scheduled times
  NoRun   \* no run yet, or none read

VARIABLES
  runs,       \* automation_runs: the status of each slot's run
  heartbeats  \* automation_heartbeats: how many each slot's run has

Ledger == INSTANCE RunLedger
=============================================================================
