--------------------------- MODULE AutomationRuns ---------------------------
(***************************************************************************)
(* The scheduled job: every delivery of a cron slot is an invocation that  *)
(* looks for the slot's run, inserts it when there is none, executes the   *)
(* adapter, stores a heartbeat and closes the run.  Deliveries of one slot *)
(* may come more than once and overlap; the unique key of automation_runs  *)
(* decides which of them executes.                                         *)
(*                                                                         *)
(* A slot stands for (environment, job_key, scheduled_for).  A cron        *)
(* expression the registry does not know ends before any call and is left  *)
(* out.  faults counts lost, refused or failed calls, adapters that throw  *)
(* and dead invocations; MaxFaults bounds them.  An adapter may answer a   *)
(* failure, be too slow or answer too much without limit.                  *)
(***************************************************************************)
EXTENDS AutomationTables, Naturals, FiniteSets

CONSTANTS
  Invocations,  \* deliveries of the cron trigger
  MaxFaults,
  NoSlot

Statuses == {"running", "succeeded", "failed"}
Ended == {"succeeded", "failed"}

ASSUME ParameterAssumption ==
  /\ MaxFaults \in Nat
  /\ NoRun \notin Statuses
  /\ NoSlot \notin Slots

VARIABLES
  pc,          \* the await each invocation is at, or how it ended
  slot,        \* the slot it was delivered for
  owns,        \* invocations whose insert was confirmed
  faults

vars == <<runs, heartbeats, pc, slot, owns, faults>>

Executing == {"health", "execute", "heartbeat", "succeed", "fail"}
Steps == {"lookup", "insert", "again"} \cup Executing
Results == {"done", "duplicate", "unavailable", "dead"}

Outcomes == {"confirmed", "lost", "failed"}
Applied(outcome) == outcome \in {"confirmed", "lost"}

Charge(outcome) ==
  IF outcome = "confirmed"
  THEN UNCHANGED faults
  ELSE faults < MaxFaults /\ faults' = faults + 1

Goto(i, label) == pc' = [pc EXCEPT ![i] = label]
RunOf(i) == runs[slot[i]]

Init ==
  /\ runs = [s \in Slots |-> NoRun]
  /\ heartbeats = [s \in Slots |-> 0]
  /\ pc = [i \in Invocations |-> "idle"]
  /\ slot = [i \in Invocations |-> NoSlot]
  /\ owns = {}
  /\ faults = 0

-----------------------------------------------------------------------------
Deliver(i, s) ==
  /\ pc[i] = "idle"
  /\ slot' = [slot EXCEPT ![i] = s]
  /\ Goto(i, "lookup")
  /\ UNCHANGED <<runs, heartbeats, owns, faults>>

(* beginAutomationRun                                                      *)

\* findExisting, before the insert and again after it was refused.
FoundNone(i) ==
  /\ pc[i] = "lookup"
  /\ RunOf(i) = NoRun
  /\ Goto(i, "insert")
  /\ UNCHANGED <<runs, heartbeats, slot, owns, faults>>

\* Mutant: a run that is still running is taken over.
TakesOverRunning(i) ==
  /\ pc[i] \in {"lookup", "again"}
  /\ RunOf(i) # NoRun
  /\ IF RunOf(i) = "running"
     THEN Goto(i, "health") /\ owns' = owns \cup {i}
     ELSE Goto(i, "duplicate") /\ UNCHANGED owns
  /\ UNCHANGED <<runs, heartbeats, slot, faults>>

FoundExisting(i) ==
  /\ pc[i] \in {"lookup", "again"}
  /\ RunOf(i) # NoRun
  /\ Goto(i, "duplicate")
  /\ UNCHANGED <<runs, heartbeats, slot, owns, faults>>

LookupFails(i) ==
  /\ pc[i] \in {"lookup", "again"}
  /\ Charge("failed")
  /\ Goto(i, "unavailable")
  /\ UNCHANGED <<runs, heartbeats, slot, owns>>

\* The insert of a running row; without its confirmation nothing is executed.
Insert(i, outcome) ==
  /\ pc[i] = "insert"
  /\ RunOf(i) = NoRun
  /\ Charge(outcome)
  /\ runs' = IF Applied(outcome) THEN [runs EXCEPT ![slot[i]] = "running"] ELSE runs
  /\ owns' = IF outcome = "confirmed" THEN owns \cup {i} ELSE owns
  /\ Goto(i, IF outcome = "confirmed" THEN "health" ELSE "unavailable")
  /\ UNCHANGED <<heartbeats, slot>>

\* Another delivery inserted first: 409, and a second look.
InsertRefused(i) ==
  /\ pc[i] = "insert"
  /\ RunOf(i) # NoRun
  /\ Goto(i, "again")
  /\ UNCHANGED <<runs, heartbeats, slot, owns, faults>>

(* handleScheduledEvent                                                    *)

Healthy(i) ==
  /\ pc[i] = "health"
  /\ Goto(i, "execute")
  /\ UNCHANGED <<runs, heartbeats, slot, owns, faults>>

Executed(i) ==
  /\ pc[i] = "execute"
  /\ Goto(i, "heartbeat")
  /\ UNCHANGED <<runs, heartbeats, slot, owns, faults>>

\* Mutant: a timeout or a failure of the adapter returns without closing
\* the run.
AdapterFailureUnmarked(i) ==
  /\ pc[i] \in {"health", "execute"}
  /\ Goto(i, "done")
  /\ UNCHANGED <<runs, heartbeats, slot, owns, faults>>

\* The adapter is not healthy, answers a failure, answers more than its
\* bound, or has not answered at the timeout; what it answers later is lost.
AdapterFails(i) ==
  /\ pc[i] \in {"health", "execute"}
  /\ Goto(i, "fail")
  /\ UNCHANGED <<runs, heartbeats, slot, owns, faults>>

\* persistAutomationHeartbeat; an answer that is lost counts as a failure.
StoreHeartbeat(i, outcome) ==
  /\ pc[i] = "heartbeat"
  /\ Charge(outcome)
  /\ heartbeats' = IF Applied(outcome) THEN [heartbeats EXCEPT ![slot[i]] = @ + 1]
                   ELSE heartbeats
  /\ Goto(i, IF outcome = "confirmed" THEN "succeed" ELSE "fail")
  /\ UNCHANGED <<runs, slot, owns>>

\* Mutant: a success that is not confirmed is reported as a failure.
SucceedOrFail(i, outcome) ==
  /\ pc[i] = "succeed"
  /\ Charge(outcome)
  /\ runs' = IF Applied(outcome) THEN [runs EXCEPT ![slot[i]] = "succeeded"] ELSE runs
  /\ Goto(i, IF outcome = "confirmed" THEN "done" ELSE "fail")
  /\ UNCHANGED <<heartbeats, slot, owns>>

\* markAutomationRunSucceeded: an unconditional update of the run.
MarkSucceeded(i, outcome) ==
  /\ pc[i] = "succeed"
  /\ Charge(outcome)
  /\ runs' = IF Applied(outcome) THEN [runs EXCEPT ![slot[i]] = "succeeded"] ELSE runs
  /\ Goto(i, IF outcome = "confirmed" THEN "done" ELSE "unavailable")
  /\ UNCHANGED <<heartbeats, slot, owns>>

\* Mutant: the failure code is stored as the status.
MarkFailedSwapped(i, outcome) ==
  /\ pc[i] = "fail"
  /\ Charge(outcome)
  /\ runs' = IF Applied(outcome) THEN [runs EXCEPT ![slot[i]] = "adapter_timeout"] ELSE runs
  /\ Goto(i, "done")
  /\ UNCHANGED <<heartbeats, slot, owns>>

\* markAutomationRunFailed: unconditional too, and its answer is ignored.
MarkFailed(i, outcome) ==
  /\ pc[i] = "fail"
  /\ Charge(outcome)
  /\ runs' = IF Applied(outcome) THEN [runs EXCEPT ![slot[i]] = "failed"] ELSE runs
  /\ Goto(i, "done")
  /\ UNCHANGED <<heartbeats, slot, owns>>

\* The invocation dies, or the adapter throws: nobody closes the run.
Crash(i) ==
  /\ pc[i] \in Steps
  /\ Charge("failed")
  /\ Goto(i, "dead")
  /\ UNCHANGED <<runs, heartbeats, slot, owns>>

Begin(i) ==
  FoundNone(i) \/ FoundExisting(i) \/ LookupFails(i) \/ InsertRefused(i)
  \/ \E outcome \in Outcomes : Insert(i, outcome)

Execute(i) ==
  \/ Healthy(i) \/ Executed(i) \/ AdapterFails(i)
  \/ \E outcome \in Outcomes :
       StoreHeartbeat(i, outcome) \/ MarkSucceeded(i, outcome) \/ MarkFailed(i, outcome)

Step(i) == Begin(i) \/ Execute(i) \/ Crash(i)

Next == \E i \in Invocations : Step(i) \/ \E s \in Slots : Deliver(i, s)

\* An invocation that was started goes on until it ends or dies.
Fairness == \A i \in Invocations : WF_vars(Step(i))

Spec == Init /\ [][Next]_vars
FairSpec == Spec /\ Fairness

-----------------------------------------------------------------------------
TypeOK ==
  /\ runs \in [Slots -> Statuses \cup {NoRun}]
  /\ heartbeats \in [Slots -> Nat]
  /\ pc \in [Invocations -> {"idle"} \cup Steps \cup Results]
  /\ slot \in [Invocations -> Slots \cup {NoSlot}]
  /\ owns \subseteq Invocations
  /\ faults \in Nat

\* Duplicate deliveries are deduplicated: of all the deliveries of a slot at
\* most one executes the job, now or ever, and only with the slot's run.
ExecutedAtMostOnce ==
  \A i, j \in Invocations :
    i \in owns /\ j \in owns /\ slot[i] = slot[j] => i = j /\ RunOf(i) # NoRun

\* A run leaves at most one heartbeat, and one that succeeded left it.
HeartbeatsMatchRuns ==
  \A s \in Slots :
    /\ heartbeats[s] <= 1
    /\ heartbeats[s] = 1 => runs[s] # NoRun
    /\ runs[s] = "succeeded" => heartbeats[s] = 1

\* How a run ended does not change: the unconditional updates never meet a
\* run that has ended.
OutcomeIsFinal ==
  [][\A s \in Slots : runs[s] \in Ended => runs'[s] = runs[s]]_vars

\* A slot that was delivered has no outcome yet, and nobody will give it
\* one: its run is not executed, or it has none and nobody is to insert it.
\* Nothing retries a delivery or closes another's run.
Unresolved == {s \in Slots : runs[s] \notin Ended /\ \E i \in Invocations : slot[i] = s}
Pursues(i, s) ==
  /\ slot[i] = s
  /\ pc[i] \in Executing \/ (pc[i] \in {"lookup", "insert"} /\ runs[s] = NoRun)
GivenUp == {s \in Unresolved : \A i \in Invocations : ~Pursues(i, s)}

\* A slot is given up only by a fault, and each fault costs at most one
\* slot: a delivery that finds a run leaves it to the one that executes it.
LossNeedsFault == Cardinality(GivenUp) <= faults

\* In the end no slot is without an outcome but those.
LostSlotsNeedFaults == <>[](Cardinality(Unresolved) <= faults)

\* What the readers of the two tables rely on, whatever is delivered twice
\* or lost on the way.
ImplementsLedger == Ledger!Spec
=============================================================================
