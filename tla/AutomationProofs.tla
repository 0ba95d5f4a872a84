-------------------------- MODULE AutomationProofs --------------------------
(***************************************************************************)
(* Proofs about AutomationRuns, for any number of deliveries, slots and    *)
(* faults, about AutomationHealth, for any slots, periods and delays, and  *)
(* about AutomationWatch, which puts the two together.                     *)
(***************************************************************************)
EXTENDS AutomationWatch, FiniteSetTheorems, WellFoundedInduction, TLAPS

\* Where an invocation stands: what it was delivered for, that it executes
\* only a run of its own that is running, and which heartbeat it has stored.
Local(i) ==
  /\ pc[i] # "idle" => slot[i] \in Slots
  /\ pc[i] \in {"idle", "lookup", "insert", "again"} => i \notin owns
  /\ i \in owns => slot[i] \in Slots /\ RunOf(i) # NoRun
  /\ pc[i] \in Executing => i \in owns /\ RunOf(i) = "running"
  /\ pc[i] \in {"health", "execute", "heartbeat"} => heartbeats[slot[i]] = 0
  /\ pc[i] = "succeed" => heartbeats[slot[i]] = 1

IndInv ==
  /\ TypeOK
  /\ \A i \in Invocations : Local(i)
  /\ ExecutedAtMostOnce
  /\ HeartbeatsMatchRuns

\* Everything a step of invocation i leaves alone.
Frame(i) ==
  /\ \A j \in Invocations \ {i} : pc'[j] = pc[j] /\ (j \in owns' <=> j \in owns)
  /\ slot' = slot
  /\ \A s \in Slots \ {slot[i]} : runs'[s] = runs[s] /\ heartbeats'[s] = heartbeats[s]

LEMMA ChargeTypes ==
  ASSUME TypeOK, NEW outcome, Charge(outcome)
  PROVE  faults' \in Nat
BY DEF Charge, TypeOK

LEMMA GotoFrame ==
  ASSUME TypeOK, NEW i \in Invocations, NEW label \in {"idle"} \cup Steps \cup Results,
         Goto(i, label)
  PROVE  /\ \A j \in Invocations \ {i} : pc'[j] = pc[j]
         /\ pc'[i] = label
         /\ pc' \in [Invocations -> {"idle"} \cup Steps \cup Results]
BY DEF Goto, TypeOK

\* Another invocation's place survives when the step's slot was nobody's or
\* was the stepping invocation's own.
LEMMA OthersLocal ==
  ASSUME IndInv, NEW i \in Invocations, Frame(i),
         slot[i] \in Slots,
         runs[slot[i]] # NoRun => runs'[slot[i]] # NoRun,
         i \in owns \/ runs[slot[i]] = NoRun
           \/ (runs'[slot[i]] = runs[slot[i]] /\ heartbeats'[slot[i]] = heartbeats[slot[i]])
  PROVE  \A j \in Invocations \ {i} : Local(j)'
<1> SUFFICES ASSUME NEW j \in Invocations \ {i} PROVE Local(j)'
  OBVIOUS
<1>1. Local(j) /\ pc'[j] = pc[j] /\ slot'[j] = slot[j] /\ (j \in owns' <=> j \in owns)
  BY DEF IndInv, Frame
<1>2. CASE slot[j] # slot[i]
  <2>1. slot[j] \in Slots => /\ runs'[slot[j]] = runs[slot[j]]
                             /\ heartbeats'[slot[j]] = heartbeats[slot[j]]
    BY <1>2 DEF Frame
  <2> QED BY <1>1, <2>1 DEF Local, RunOf, Executing
<1>3. CASE slot[j] = slot[i] /\ runs'[slot[i]] = runs[slot[i]]
           /\ heartbeats'[slot[i]] = heartbeats[slot[i]]
  BY <1>1, <1>3 DEF Local, RunOf
<1>4. CASE slot[j] = slot[i] /\ (i \in owns \/ runs[slot[i]] = NoRun)
  <2>1. j \notin owns
    BY <1>1, <1>4 DEF IndInv, ExecutedAtMostOnce, Local, RunOf
  <2>2. pc[j] \notin Executing
    BY <1>1, <2>1 DEF Local
  <2> QED BY <1>1, <2>1, <2>2 DEF Local, Executing
<1> QED BY <1>2, <1>3, <1>4

\* A step that writes no row and gives nobody a run.
LEMMA QuietStep ==
  ASSUME IndInv, TypeOK', UNCHANGED <<runs, heartbeats, owns>>,
         \A i \in owns : slot'[i] = slot[i]
  PROVE  ExecutedAtMostOnce' /\ HeartbeatsMatchRuns'
BY DEF IndInv, ExecutedAtMostOnce, HeartbeatsMatchRuns, RunOf

LEMMA DeliverInv ==
  ASSUME IndInv, NEW i \in Invocations, NEW s \in Slots, Deliver(i, s)
  PROVE  IndInv'
<1>1. TypeOK /\ i \notin owns
  BY DEF IndInv, Local, Deliver
<1>2. /\ \A j \in Invocations \ {i} : pc'[j] = pc[j] /\ slot'[j] = slot[j]
      /\ pc'[i] = "lookup" /\ slot'[i] = s
      /\ pc' \in [Invocations -> {"idle"} \cup Steps \cup Results]
      /\ slot' \in [Invocations -> Slots \cup {NoSlot}]
  BY <1>1, GotoFrame DEF Deliver, Steps, TypeOK
<1>3. TypeOK'
  BY <1>1, <1>2 DEF TypeOK, Deliver
<1>4. ASSUME NEW j \in Invocations PROVE Local(j)'
  <2>1. CASE j = i
    BY <1>1, <1>2, <2>1 DEF Local, Deliver, Executing
  <2>2. CASE j # i
    BY <1>2, <2>2 DEF IndInv, Local, Deliver, RunOf
  <2> QED BY <2>1, <2>2
<1>5. \A j \in owns : slot'[j] = slot[j]
  BY <1>1, <1>2 DEF TypeOK
<1> QED BY <1>3, <1>4, <1>5, QuietStep DEF IndInv, Deliver

\* A step that only moves the invocation on.
LEMMA MoveInv ==
  ASSUME IndInv, NEW i \in Invocations, pc[i] # "idle", NEW label \in Steps \cup Results,
         Goto(i, label), faults' \in Nat,
         label \in {"insert", "again"} => i \notin owns,
         label \in Executing => pc[i] \in Executing,
         label \in {"health", "execute", "heartbeat"} => pc[i] \in {"health", "execute", "heartbeat"},
         label \notin {"lookup", "succeed"},
         UNCHANGED <<runs, heartbeats, slot, owns>>
  PROVE  IndInv'
<1>1. TypeOK /\ slot[i] \in Slots
  BY DEF IndInv, Local
<1>2. /\ \A j \in Invocations \ {i} : pc'[j] = pc[j]
      /\ pc'[i] = label
      /\ pc' \in [Invocations -> {"idle"} \cup Steps \cup Results]
  BY <1>1, GotoFrame
<1>3. TypeOK'
  BY <1>1, <1>2 DEF TypeOK
<1>4. Local(i)'
  <2>1. label # "idle"
    BY DEF Steps, Results, Executing
  <2> QED BY <1>1, <1>2, <2>1 DEF IndInv, Local, RunOf, Executing
<1>5. \A j \in Invocations \ {i} : Local(j)'
  BY <1>1, <1>2, OthersLocal DEF Frame
<1> QED BY <1>3, <1>4, <1>5, QuietStep DEF IndInv

\* The insert that is applied finds no run, so nobody owns the slot.
LEMMA InsertInv ==
  ASSUME IndInv, NEW i \in Invocations, NEW outcome \in Outcomes, Insert(i, outcome)
  PROVE  IndInv'
<1>1. TypeOK /\ slot[i] \in Slots /\ i \notin owns /\ RunOf(i) = NoRun /\ faults' \in Nat
  BY ChargeTypes DEF IndInv, Local, Insert
<1>2. /\ \A j \in Invocations \ {i} : pc'[j] = pc[j]
      /\ pc'[i] = IF outcome = "confirmed" THEN "health" ELSE "unavailable"
      /\ pc' \in [Invocations -> {"idle"} \cup Steps \cup Results]
  BY <1>1, GotoFrame DEF Insert, Steps, Executing, Results
<1>3. /\ runs' \in [Slots -> Statuses \cup {NoRun}]
      /\ \A s \in Slots \ {slot[i]} : runs'[s] = runs[s]
      /\ outcome = "confirmed" => runs'[slot[i]] = "running"
      /\ runs'[slot[i]] \in {"running", NoRun}
  BY <1>1 DEF Insert, TypeOK, Statuses, Applied, RunOf
<1>4. /\ owns' \subseteq Invocations
      /\ \A j \in Invocations \ {i} : j \in owns' <=> j \in owns
      /\ i \in owns' <=> outcome = "confirmed"
  BY <1>1 DEF Insert, TypeOK
<1>5. TypeOK'
  BY <1>1, <1>2, <1>3, <1>4 DEF TypeOK, Insert
<1>6. heartbeats[slot[i]] = 0
  BY <1>1 DEF IndInv, HeartbeatsMatchRuns, RunOf, TypeOK
<1>7. Local(i)'
  BY <1>1, <1>2, <1>3, <1>4, <1>6, ParameterAssumption
  DEF Local, Insert, RunOf, Executing, Statuses
<1>8. \A j \in Invocations \ {i} : Local(j)'
  BY <1>1, <1>2, <1>3, <1>4, OthersLocal DEF Frame, Insert, RunOf
<1>9. ExecutedAtMostOnce'
  <2>1. \A j \in owns : slot[j] # slot[i]
    BY <1>1 DEF IndInv, Local, RunOf, TypeOK
  <2>2. ASSUME NEW j \in Invocations, j \in owns'
        PROVE  RunOf(j)' # NoRun
    BY <1>5, <1>7, <1>8, <2>2 DEF Local
  <2> QED BY <1>1, <1>4, <2>1, <2>2 DEF IndInv, ExecutedAtMostOnce, Insert, RunOf
<1>10. HeartbeatsMatchRuns'
  BY <1>1, <1>3, <1>6, ParameterAssumption
  DEF IndInv, HeartbeatsMatchRuns, Insert, Statuses
<1> QED BY <1>5, <1>7, <1>8, <1>9, <1>10 DEF IndInv

\* The heartbeat is the first of a run that nobody else executes.
LEMMA StoreHeartbeatInv ==
  ASSUME IndInv, NEW i \in Invocations, NEW outcome \in Outcomes, StoreHeartbeat(i, outcome)
  PROVE  IndInv'
<1>1. /\ TypeOK /\ slot[i] \in Slots /\ i \in owns /\ faults' \in Nat
      /\ RunOf(i) = "running" /\ heartbeats[slot[i]] = 0
  BY ChargeTypes DEF IndInv, Local, StoreHeartbeat, Executing
<1>2. /\ \A j \in Invocations \ {i} : pc'[j] = pc[j]
      /\ pc'[i] = IF outcome = "confirmed" THEN "succeed" ELSE "fail"
      /\ pc' \in [Invocations -> {"idle"} \cup Steps \cup Results]
  BY <1>1, GotoFrame DEF StoreHeartbeat, Steps, Executing, Results
<1>3. /\ heartbeats' \in [Slots -> Nat]
      /\ \A s \in Slots \ {slot[i]} : heartbeats'[s] = heartbeats[s]
      /\ outcome = "confirmed" => heartbeats'[slot[i]] = 1
      /\ heartbeats'[slot[i]] \in {0, 1}
  BY <1>1 DEF StoreHeartbeat, TypeOK, Applied
<1>4. TypeOK'
  BY <1>1, <1>2, <1>3 DEF TypeOK, StoreHeartbeat
<1>5. Local(i)'
  BY <1>1, <1>2, <1>3, ParameterAssumption
  DEF Local, StoreHeartbeat, RunOf, Executing, Statuses
<1>6. \A j \in Invocations \ {i} : Local(j)'
  BY <1>1, <1>2, <1>3, OthersLocal DEF Frame, StoreHeartbeat
<1>7. ExecutedAtMostOnce'
  BY DEF IndInv, ExecutedAtMostOnce, StoreHeartbeat, RunOf
<1>8. HeartbeatsMatchRuns'
  BY <1>1, <1>3, ParameterAssumption
  DEF IndInv, HeartbeatsMatchRuns, StoreHeartbeat, RunOf, Statuses
<1> QED BY <1>4, <1>5, <1>6, <1>7, <1>8 DEF IndInv

\* A run is closed by its owner, and as succeeded only with its heartbeat.
LEMMA CloseInv ==
  ASSUME IndInv, NEW i \in Invocations, pc[i] \in {"succeed", "fail"},
         NEW label \in Results, Goto(i, label), faults' \in Nat,
         NEW status \in Ended, status = "succeeded" => pc[i] = "succeed",
         runs' = runs \/ runs' = [runs EXCEPT ![slot[i]] = status],
         UNCHANGED <<heartbeats, slot, owns>>
  PROVE  IndInv'
<1>1. /\ TypeOK /\ slot[i] \in Slots /\ i \in owns /\ RunOf(i) = "running"
      /\ pc[i] = "succeed" => heartbeats[slot[i]] = 1
  BY DEF IndInv, Local, Executing
<1>2. /\ \A j \in Invocations \ {i} : pc'[j] = pc[j]
      /\ pc'[i] = label
      /\ pc' \in [Invocations -> {"idle"} \cup Steps \cup Results]
  BY <1>1, GotoFrame
<1>3. /\ runs' \in [Slots -> Statuses \cup {NoRun}]
      /\ \A s \in Slots \ {slot[i]} : runs'[s] = runs[s]
      /\ runs'[slot[i]] \in {"running", status}
  BY <1>1 DEF TypeOK, Statuses, Ended, RunOf
<1>4. TypeOK'
  BY <1>1, <1>2, <1>3 DEF TypeOK
<1>5. runs'[slot[i]] # NoRun
  BY <1>3, ParameterAssumption DEF Statuses, Ended
<1>6. Local(i)'
  BY <1>1, <1>2, <1>5 DEF Local, RunOf, Executing, Results
<1>7. \A j \in Invocations \ {i} : Local(j)'
  BY <1>1, <1>2, <1>3, <1>5, OthersLocal DEF Frame
<1>8. ExecutedAtMostOnce'
  BY <1>3, <1>5 DEF IndInv, ExecutedAtMostOnce, RunOf, Local
<1>9. HeartbeatsMatchRuns'
  BY <1>1, <1>3, <1>5 DEF IndInv, HeartbeatsMatchRuns, RunOf
<1> QED BY <1>4, <1>6, <1>7, <1>8, <1>9 DEF IndInv

LEMMA StepInv == IndInv /\ [Next]_vars => IndInv'
<1> SUFFICES ASSUME IndInv, [Next]_vars PROVE IndInv'
  OBVIOUS
<1> USE DEF Steps, Executing, Results, Ended
<1>1. ASSUME NEW i \in Invocations, NEW s \in Slots, Deliver(i, s) PROVE IndInv'
  BY <1>1, DeliverInv
<1>2. ASSUME NEW i \in Invocations, FoundNone(i) \/ InsertRefused(i) PROVE IndInv'
  BY <1>2, MoveInv DEF FoundNone, InsertRefused, IndInv, Local, TypeOK
<1>3. ASSUME NEW i \in Invocations, FoundExisting(i) PROVE IndInv'
  BY <1>3, MoveInv DEF FoundExisting, IndInv, TypeOK
<1>4. ASSUME NEW i \in Invocations, LookupFails(i) PROVE IndInv'
  BY <1>4, MoveInv, ChargeTypes DEF LookupFails, IndInv
<1>5. ASSUME NEW i \in Invocations, NEW outcome \in Outcomes, Insert(i, outcome) PROVE IndInv'
  BY <1>5, InsertInv
<1>6. ASSUME NEW i \in Invocations, Healthy(i) \/ Executed(i) PROVE IndInv'
  BY <1>6, MoveInv DEF Healthy, Executed, IndInv, TypeOK
<1>7. ASSUME NEW i \in Invocations, AdapterFails(i) PROVE IndInv'
  BY <1>7, MoveInv DEF AdapterFails, IndInv, TypeOK
<1>8. ASSUME NEW i \in Invocations, NEW outcome \in Outcomes, StoreHeartbeat(i, outcome)
      PROVE  IndInv'
  BY <1>8, StoreHeartbeatInv
<1>9. ASSUME NEW i \in Invocations, NEW outcome \in Outcomes, MarkSucceeded(i, outcome)
      PROVE  IndInv'
  <2>1. faults' \in Nat
    BY <1>9, ChargeTypes DEF MarkSucceeded, IndInv
  <2>2. runs' = runs \/ runs' = [runs EXCEPT ![slot[i]] = "succeeded"]
    BY <1>9 DEF MarkSucceeded
  <2> QED BY <1>9, <2>1, <2>2, CloseInv DEF MarkSucceeded
<1>10. ASSUME NEW i \in Invocations, NEW outcome \in Outcomes, MarkFailed(i, outcome)
       PROVE  IndInv'
  <2>1. faults' \in Nat
    BY <1>10, ChargeTypes DEF MarkFailed, IndInv
  <2>2. runs' = runs \/ runs' = [runs EXCEPT ![slot[i]] = "failed"]
    BY <1>10 DEF MarkFailed
  <2> QED BY <1>10, <2>1, <2>2, CloseInv DEF MarkFailed
<1>11. ASSUME NEW i \in Invocations, Crash(i) PROVE IndInv'
  BY <1>11, MoveInv, ChargeTypes DEF Crash, IndInv
<1>12. CASE UNCHANGED vars
  <2>1. TypeOK'
    BY <1>12 DEF vars, IndInv, TypeOK
  <2>2. \A i \in Invocations : Local(i)'
    BY <1>12 DEF vars, IndInv, Local, RunOf
  <2> QED BY <1>12, <2>1, <2>2, QuietStep DEF vars, IndInv
<1> QED
  BY <1>1, <1>2, <1>3, <1>4, <1>5, <1>6, <1>7, <1>8, <1>9, <1>10, <1>11, <1>12
  DEF Next, Step, Begin, Execute

LEMMA InitInv == Init => IndInv
<1> SUFFICES ASSUME Init PROVE IndInv
  OBVIOUS
<1>1. TypeOK
  BY DEF Init, TypeOK
<1>2. \A i \in Invocations : Local(i)
  BY DEF Init, Local, Executing
<1>3. ExecutedAtMostOnce /\ HeartbeatsMatchRuns
  BY ParameterAssumption DEF Init, ExecutedAtMostOnce, HeartbeatsMatchRuns, Statuses
<1> QED BY <1>1, <1>2, <1>3 DEF IndInv

-----------------------------------------------------------------------------
\* The invariant holds throughout.
THEOREM Invariance == Spec => []IndInv
BY InitInv, StepInv, PTL DEF Spec

\* Every variable keeps its type: a run only ever has the statuses that
\* automation-store.ts writes.
THEOREM TypeCorrect == Spec => []TypeOK
<1>1. IndInv => TypeOK
  BY DEF IndInv
<1> QED BY <1>1, Invariance, PTL

\* A slot is executed by at most one delivery, now or ever
\* (beginAutomationRun and the unique key).
THEOREM SlotsExecuteOnce == Spec => []ExecutedAtMostOnce
<1>1. IndInv => ExecutedAtMostOnce
  BY DEF IndInv
<1> QED BY <1>1, Invariance, PTL

\* One heartbeat for a run at most, and one for every run that succeeded
\* (handleScheduledEvent, persistAutomationHeartbeat).
THEOREM HeartbeatsAgree == Spec => []HeartbeatsMatchRuns
<1>1. IndInv => HeartbeatsMatchRuns
  BY DEF IndInv
<1> QED BY <1>1, Invariance, PTL

\* Only the owner of a running run writes it (updateRun has no condition).
LEMMA EndedKept ==
  ASSUME IndInv, [Next]_vars, NEW s \in Slots, runs[s] \in Ended
  PROVE  runs'[s] = runs[s]
<1>1. CASE UNCHANGED runs
  BY <1>1
<1>2. ASSUME NEW i \in Invocations, NEW outcome \in Outcomes, Insert(i, outcome)
      PROVE  runs'[s] = runs[s]
  BY <1>2, ParameterAssumption DEF Insert, RunOf, IndInv, TypeOK, Ended, Statuses
<1>3. ASSUME NEW i \in Invocations, NEW outcome \in Outcomes,
             MarkSucceeded(i, outcome) \/ MarkFailed(i, outcome)
      PROVE  runs'[s] = runs[s]
  <2>1. pc[i] \in Executing
    BY <1>3 DEF MarkSucceeded, MarkFailed, Executing
  <2>2. s # slot[i]
    BY <2>1 DEF IndInv, Local, RunOf, Ended
  <2> QED BY <1>3, <2>2 DEF MarkSucceeded, MarkFailed, IndInv, TypeOK
<1> QED
  BY <1>1, <1>2, <1>3
  DEF Next, vars, Deliver, Step, Begin, Execute, FoundNone, FoundExisting, LookupFails,
      InsertRefused, Healthy, Executed, AdapterFails, StoreHeartbeat, Crash

\* How a run ended never changes.
THEOREM OutcomesAreFinal == Spec => OutcomeIsFinal
<1>1. IndInv /\ [Next]_vars =>
        [\A s \in Slots : runs[s] \in Ended => runs'[s] = runs[s]]_vars
  BY EndedKept
<1> QED BY <1>1, Invariance, PTL DEF Spec, OutcomeIsFinal

\* What a step writes, as the ledger sees it: a run is inserted where there
\* is none, and only its owner stores its heartbeat or closes it.
LEMMA InsertIsOpen ==
  ASSUME IndInv, NEW i \in Invocations, NEW outcome \in Outcomes, Insert(i, outcome)
  PROVE  Ledger!Open(slot[i]) \/ UNCHANGED <<runs, heartbeats>>
BY DEF Insert, Ledger!Open, RunOf

LEMMA StoreIsBeat ==
  ASSUME IndInv, NEW i \in Invocations, NEW outcome \in Outcomes, StoreHeartbeat(i, outcome)
  PROVE  Ledger!Beat(slot[i]) \/ UNCHANGED <<runs, heartbeats>>
<1>1. RunOf(i) = "running" /\ heartbeats[slot[i]] = 0
  BY DEF IndInv, Local, StoreHeartbeat, Executing
<1>2. [heartbeats EXCEPT ![slot[i]] = @ + 1] = [heartbeats EXCEPT ![slot[i]] = 1]
  BY <1>1
<1> QED
  BY <1>1, <1>2 DEF StoreHeartbeat, Ledger!Beat, RunOf

LEMMA MarkIsClose ==
  ASSUME IndInv, NEW i \in Invocations, NEW outcome \in Outcomes,
         MarkSucceeded(i, outcome) \/ MarkFailed(i, outcome)
  PROVE  Ledger!Succeed(slot[i]) \/ Ledger!Fail(slot[i]) \/ UNCHANGED <<runs, heartbeats>>
<1>1. RunOf(i) = "running" /\ (pc[i] = "succeed" => heartbeats[slot[i]] = 1)
  BY DEF IndInv, Local, MarkSucceeded, MarkFailed, Executing
<1> QED
  BY <1>1 DEF MarkSucceeded, MarkFailed, Ledger!Succeed, Ledger!Fail, RunOf

LEMMA LedgerStep ==
  ASSUME IndInv, [Next]_vars
  PROVE  [Ledger!Next]_<<runs, heartbeats>>
<1>1. CASE UNCHANGED <<runs, heartbeats>>
  BY <1>1
<1>2. ASSUME NEW i \in Invocations, NEW outcome \in Outcomes,
             Insert(i, outcome) \/ StoreHeartbeat(i, outcome)
             \/ MarkSucceeded(i, outcome) \/ MarkFailed(i, outcome)
      PROVE  [Ledger!Next]_<<runs, heartbeats>>
  <2>1. slot[i] \in Slots
    BY <1>2 DEF IndInv, Local, Insert, StoreHeartbeat, MarkSucceeded, MarkFailed
  <2> QED
    BY <1>2, <2>1, InsertIsOpen, StoreIsBeat, MarkIsClose DEF Ledger!Next
<1> QED
  BY <1>1, <1>2
  DEF Next, vars, Deliver, Step, Begin, Execute, FoundNone, FoundExisting, LookupFails,
      InsertRefused, Healthy, Executed, AdapterFails, Crash

\* Duplicate deliveries, lost writes and dead invocations keep the promise of
\* the two tables (handleScheduledEvent over automation-store.ts).
THEOREM LedgerIsImplemented == Spec => ImplementsLedger
<1>1. Init => Ledger!Init
  BY DEF Init, Ledger!Init
<1>2. IndInv /\ [Next]_vars => [Ledger!Next]_<<runs, heartbeats>>
  BY LedgerStep
<1> QED BY <1>1, <1>2, Invariance, PTL DEF Spec, ImplementsLedger, Ledger!Spec

-----------------------------------------------------------------------------
\* Slots that are given up.  Runs are of slots that were delivered, and a
\* delivery is what gives an invocation its slot.
RunsAreDelivered ==
  /\ \A s \in Slots : runs[s] # NoRun => \E i \in Invocations : slot[i] = s
  /\ \A i \in Invocations : pc[i] = "idle" => slot[i] = NoSlot

LEMMA DeliveredStep ==
  ASSUME IndInv, RunsAreDelivered, [Next]_vars
  PROVE  RunsAreDelivered'
<1> USE DEF IndInv, TypeOK
<1>1. CASE UNCHANGED vars
  BY <1>1 DEF RunsAreDelivered, vars
<1>2. ASSUME NEW i \in Invocations, NEW t \in Slots, Deliver(i, t)
      PROVE  RunsAreDelivered'
  <2>1. /\ runs' = runs /\ pc[i] = "idle" /\ pc'[i] = "lookup"
        /\ \A j \in Invocations \ {i} : pc'[j] = pc[j] /\ slot'[j] = slot[j]
    BY <1>2 DEF Deliver, Goto
  <2>2. \A s \in Slots : slot[i] # s
    BY <2>1, ParameterAssumption DEF RunsAreDelivered
  <2> QED BY <2>1, <2>2 DEF RunsAreDelivered
<1>3. ASSUME NEW i \in Invocations, Step(i)
      PROVE  RunsAreDelivered'
  <2>1. /\ slot' = slot /\ slot[i] # NoSlot
        /\ \A s \in Slots \ {slot[i]} : runs'[s] = runs[s]
    BY <1>3, ParameterAssumption
    DEF Step, Begin, Execute, FoundNone, FoundExisting, LookupFails, InsertRefused, Insert,
        Healthy, Executed, AdapterFails, StoreHeartbeat, MarkSucceeded, MarkFailed, Crash,
        Local, Steps, Executing
  <2>2. pc'[i] # "idle" /\ \A j \in Invocations \ {i} : pc'[j] = pc[j]
    BY <1>3
    DEF Step, Begin, Execute, FoundNone, FoundExisting, LookupFails, InsertRefused, Insert,
        Healthy, Executed, AdapterFails, StoreHeartbeat, MarkSucceeded, MarkFailed, Crash, Goto
  <2> QED BY <2>1, <2>2 DEF RunsAreDelivered
<1> QED BY <1>1, <1>2, <1>3 DEF Next

\* A step can give up no slot but the invocation's own ...
LEMMA GivesUpItsOwn ==
  ASSUME IndInv, NEW i \in Invocations, Step(i), NEW s \in Slots, s # slot[i], s \in GivenUp'
  PROVE  s \in GivenUp
<1> USE DEF IndInv, TypeOK
<1>1. slot' = slot /\ runs'[s] = runs[s] /\ \A j \in Invocations \ {i} : pc'[j] = pc[j]
  BY DEF Step, Begin, Execute, FoundNone, FoundExisting, LookupFails, InsertRefused, Insert,
     Healthy, Executed, AdapterFails, StoreHeartbeat, MarkSucceeded, MarkFailed, Crash, Goto
<1>2. \A j \in Invocations : Pursues(j, s) => Pursues(j, s)'
  BY <1>1 DEF Pursues
<1> QED BY <1>1, <1>2 DEF GivenUp, Unresolved

\* ... and that one only by a fault.
LEMMA GivesUpAtACost ==
  ASSUME IndInv, NEW i \in Invocations, Step(i), slot[i] \in Slots, slot[i] \in GivenUp'
  PROVE  slot[i] \in GivenUp \/ faults' = faults + 1
<1> USE DEF IndInv, TypeOK
<1> SUFFICES ASSUME faults' # faults + 1 PROVE slot[i] \in GivenUp
  OBVIOUS
<1>1. CASE FoundExisting(i) \/ InsertRefused(i)
  <2>1. /\ runs' = runs /\ slot' = slot /\ runs[slot[i]] # NoRun
        /\ pc[i] \notin Executing
        /\ \A j \in Invocations \ {i} : pc'[j] = pc[j]
    BY <1>1 DEF FoundExisting, InsertRefused, RunOf, Goto, Executing
  <2>2. \A j \in Invocations : Pursues(j, slot[i]) => Pursues(j, slot[i])'
    BY <2>1 DEF Pursues
  <2> QED BY <2>1, <2>2 DEF GivenUp, Unresolved
<1>2. CASE FoundNone(i) \/ Healthy(i) \/ Executed(i) \/ AdapterFails(i)
  <2>1. /\ runs' = runs /\ slot' = slot
        /\ pc'[i] \in Executing \/ (pc'[i] = "insert" /\ runs[slot[i]] = NoRun)
    BY <1>2 DEF FoundNone, Healthy, Executed, AdapterFails, RunOf, Goto, Executing
  <2>2. Pursues(i, slot[i])'
    BY <2>1 DEF Pursues
  <2> QED BY <2>1, <2>2 DEF GivenUp
<1>3. CASE LookupFails(i) \/ Crash(i)
  BY <1>3 DEF LookupFails, Crash, Charge
<1>4. ASSUME NEW outcome \in Outcomes, Insert(i, outcome) \/ StoreHeartbeat(i, outcome)
      PROVE  slot[i] \in GivenUp
  <2>1. outcome = "confirmed"
    BY <1>4 DEF Insert, StoreHeartbeat, Charge
  <2>2. slot' = slot /\ pc'[i] \in Executing
    BY <1>4, <2>1 DEF Insert, StoreHeartbeat, Goto, Executing
  <2> QED BY <2>2 DEF GivenUp, Pursues
<1>5. ASSUME NEW outcome \in Outcomes, MarkSucceeded(i, outcome) \/ MarkFailed(i, outcome)
      PROVE  slot[i] \in GivenUp
  <2>1. outcome = "confirmed"
    BY <1>5 DEF MarkSucceeded, MarkFailed, Charge
  <2>2. runs'[slot[i]] \in Ended /\ slot' = slot
    BY <1>5, <2>1 DEF MarkSucceeded, MarkFailed, Applied, Ended
  <2> QED BY <2>2 DEF GivenUp, Unresolved
<1> QED BY <1>1, <1>2, <1>3, <1>4, <1>5 DEF Step, Begin, Execute

\* A delivery gives up nothing: it finds the slot without a run, or with one
\* that was delivered before.
LEMMA DeliverGivesUpNone ==
  ASSUME IndInv, RunsAreDelivered, NEW i \in Invocations, NEW s \in Slots, Deliver(i, s)
  PROVE  GivenUp' \subseteq GivenUp
<1> USE DEF IndInv, TypeOK
<1> SUFFICES ASSUME NEW t \in Slots, t \in GivenUp' PROVE t \in GivenUp
  BY DEF GivenUp, Unresolved
<1>1. /\ pc[i] = "idle" /\ pc'[i] = "lookup" /\ slot'[i] = s /\ runs' = runs
      /\ \A j \in Invocations \ {i} : pc'[j] = pc[j] /\ slot'[j] = slot[j]
  BY DEF Deliver, Goto
<1>2. \A j \in Invocations : Pursues(j, t) => Pursues(j, t)'
  BY <1>1 DEF Pursues, Executing
<1>3. t \in Unresolved
  <2>1. CASE t = s
    <3>1. runs[t] # NoRun
      BY <1>1, <2>1 DEF GivenUp, Pursues
    <3> QED BY <1>1, <3>1 DEF RunsAreDelivered, GivenUp, Unresolved
  <2>2. CASE t # s
    BY <1>1, <2>2 DEF GivenUp, Unresolved
  <2> QED BY <2>1, <2>2
<1> QED BY <1>2, <1>3 DEF GivenUp

LEMMA GivenUpGrow ==
  ASSUME IndInv, RunsAreDelivered, [Next]_vars
  PROVE  \/ GivenUp' \subseteq GivenUp /\ faults' >= faults
         \/ \E s \in Slots : GivenUp' \subseteq GivenUp \cup {s} /\ faults' = faults + 1
<1> USE DEF IndInv, TypeOK
<1>1. ASSUME NEW i \in Invocations, Step(i)
      PROVE  \/ GivenUp' \subseteq GivenUp /\ faults' >= faults
             \/ \E s \in Slots : GivenUp' \subseteq GivenUp \cup {s} /\ faults' = faults + 1
  <2>1. faults' = faults \/ faults' = faults + 1
    BY <1>1
    DEF Step, Begin, Execute, FoundNone, FoundExisting, LookupFails, InsertRefused, Insert,
        Healthy, Executed, AdapterFails, StoreHeartbeat, MarkSucceeded, MarkFailed, Crash,
        Charge
  <2>2. \A s \in Slots : s # slot[i] /\ s \in GivenUp' => s \in GivenUp
    BY <1>1, GivesUpItsOwn
  <2>3. slot[i] \in Slots /\ slot[i] \in GivenUp' => slot[i] \in GivenUp \/ faults' = faults + 1
    BY <1>1, GivesUpAtACost
  <2>4. GivenUp' \subseteq Slots
    BY DEF GivenUp, Unresolved
  <2>5. CASE slot[i] \in GivenUp' /\ slot[i] \notin GivenUp
    BY <2>2, <2>3, <2>4, <2>5
  <2>6. CASE ~(slot[i] \in GivenUp' /\ slot[i] \notin GivenUp)
    BY <2>1, <2>2, <2>4, <2>6
  <2> QED BY <2>5, <2>6
<1>2. ASSUME NEW i \in Invocations, NEW s \in Slots, Deliver(i, s)
      PROVE  GivenUp' \subseteq GivenUp /\ faults' >= faults
  <2>1. GivenUp' \subseteq GivenUp
    BY <1>2, DeliverGivesUpNone
  <2> QED BY <1>2, <2>1 DEF Deliver
<1>3. CASE UNCHANGED vars
  BY <1>3 DEF vars, GivenUp, Unresolved, Pursues
<1> QED BY <1>1, <1>2, <1>3 DEF Next

\* Only faults leave a slot without an outcome, one each, however often it
\* is delivered (handleScheduledEvent never comes back to a slot).
THEOREM LossHasACause == Spec => []LossNeedsFault
<1> DEFINE Inv == RunsAreDelivered /\ IsFiniteSet(GivenUp) /\ LossNeedsFault
<1>1. Init => Inv
  <2> SUFFICES ASSUME Init PROVE Inv
    OBVIOUS
  <2>1. GivenUp = {}
    BY ParameterAssumption DEF Init, GivenUp, Unresolved
  <2> QED BY <2>1, FS_EmptySet DEF Init, LossNeedsFault, RunsAreDelivered
<1>2. IndInv /\ IndInv' /\ Inv /\ [Next]_vars => Inv'
  <2> SUFFICES ASSUME IndInv, IndInv', Inv, [Next]_vars PROVE Inv'
    OBVIOUS
  <2>1. faults \in Nat /\ faults' \in Nat /\ Cardinality(GivenUp) \in Nat /\ RunsAreDelivered'
    BY FS_CardinalityType, DeliveredStep DEF IndInv, TypeOK
  <2>2. CASE GivenUp' \subseteq GivenUp /\ faults' >= faults
    <3>1. /\ IsFiniteSet(GivenUp')
          /\ Cardinality(GivenUp') <= Cardinality(GivenUp)
          /\ Cardinality(GivenUp') \in Nat
      BY <2>2, FS_Subset, FS_CardinalityType
    <3> QED BY <2>1, <2>2, <3>1 DEF LossNeedsFault
  <2>3. ASSUME NEW s \in Slots, GivenUp' \subseteq GivenUp \cup {s}, faults' = faults + 1
        PROVE  Inv'
    <3> DEFINE A == GivenUp
    <3> HIDE DEF A
    <3>1. IsFiniteSet(A) /\ Cardinality(A) \in Nat
      BY <2>1 DEF A
    <3>2. /\ IsFiniteSet(A \cup {s})
          /\ Cardinality(A \cup {s}) = IF s \in A THEN Cardinality(A) ELSE Cardinality(A) + 1
      BY <3>1, FS_AddElement
    <3>3. /\ IsFiniteSet(GivenUp')
          /\ Cardinality(GivenUp') <= Cardinality(A \cup {s})
          /\ Cardinality(GivenUp') \in Nat
      BY <2>3, <3>2, FS_Subset, FS_CardinalityType DEF A
    <3> QED BY <2>1, <2>3, <3>1, <3>2, <3>3 DEF A, LossNeedsFault
  <2> QED BY <2>2, <2>3, GivenUpGrow
<1> QED BY <1>1, <1>2, Invariance, PTL DEF Spec

-----------------------------------------------------------------------------
(* The health report                                                       *)

Less == {p \in Nat \X Nat : p[1] < p[2]}

LEMMA NatMin ==
  ASSUME NEW T \in SUBSET Nat, T # {}
  PROVE  \E m \in T : \A n \in T : m <= n
<1>1. IsWellFoundedOn(Less, Nat)
  BY NatLessThanWellFounded DEF OpToRel, Less
<1>2. PICK m \in T : \A n \in T : ~ (<<n, m>> \in Less)
  BY <1>1, WFMin
<1>3. ASSUME NEW n \in T, n < m PROVE FALSE
  <2>1. <<n, m>> \in Less
    BY <1>3 DEF Less
  <2> QED BY <1>2, <2>1
<1> QED BY <1>2, <1>3

LEMMA BoundedMax ==
  ASSUME NEW bound \in Nat, NEW T \in SUBSET (0..bound), T # {}
  PROVE  \E m \in T : \A n \in T : n <= m
<1> DEFINE Below == {k \in Nat : \E n \in T : k = bound - n}
<1>1. PICK n \in T : TRUE
  OBVIOUS
<1>2. bound - n \in Below
  BY <1>1
<1>3. PICK k \in Below : \A other \in Below : k <= other
  BY <1>2, NatMin
<1>4. PICK m \in T : k = bound - m
  BY <1>3
<1>5. ASSUME NEW other \in T PROVE other <= m
  <2>1. bound - other \in Below
    OBVIOUS
  <2>2. k <= bound - other
    BY <1>3, <2>1
  <2> QED BY <1>4, <2>2
<1> QED BY <1>5

\* Slots fall due one period apart.
LEMMA DueGrows ==
  ASSUME NEW s \in Nat, NEW t \in Nat
  PROVE  /\ Due(s) \in Nat /\ s <= Due(s)
         /\ Due(s) <= Due(t) => s <= t
BY TimeAssumption DEF Due

LEMMA WindowFits ==
  ASSUME NEW s \in Nat, NEW t \in Nat, NEW from \in Int,
         from <= Due(s), Due(t) <= from + Window + MaxRead
  PROVE  t < s + Limit
<1>1. t * Period < (s + Limit) * Period
  <2>1. Due(s) \in Nat /\ Due(t) \in Nat /\ Limit * Period \in Int
    BY DueGrows, TimeAssumption
  <2>2. t * Period < s * Period + Limit * Period
    BY <2>1, TimeAssumption, LimitAssumption DEF Due
  <2>3. (s + Limit) * Period = s * Period + Limit * Period
    BY TimeAssumption
  <2> QED BY <2>2, <2>3
<1> QED BY <1>1, TimeAssumption

-----------------------------------------------------------------------------
\* The tables: nothing is written for a slot that is not due, a heartbeat is
\* at most as late as its slot, and what was stored promptly was stored.
TablesInv ==
  /\ \A s \in Slots : runs[s] # NoRun => Due(s) <= clock
  /\ \A s \in Slots : heartbeats[s] = 1 =>
       observed[s] \in Times /\ Due(s) <= observed[s] /\ observed[s] <= Due(s) + MaxLate
  /\ \A s \in prompt : heartbeats[s] = 1

\* The reader: nothing is read before the report is asked for, which was not
\* long ago, and what had failed by then stays failed.
ReaderInv ==
  /\ asked = None => beat = Unread /\ rows = Unread /\ report = None
  /\ asked # None => asked <= clock
  /\ Reading => clock <= asked + MaxRead
  /\ failedBy \subseteq Failed

\* The first answer stands for the slots it speaks of: it is no older than
\* any slot that stored its heartbeat promptly before the asking, and it is
\* the heartbeat of some slot.
PromptBefore == {s \in prompt : Due(s) + Period <= asked}
BeatStands ==
  asked # None /\ beat # Unread =>
    /\ \A s \in PromptBefore : beat # None /\ Due(s) <= beat
    /\ beat # None => \E s \in Slots : heartbeats[s] = 1 /\ beat <= Due(s) + MaxLate

\* The second answer counts no less than had failed before the asking and no
\* more than has failed since.
Counted(failures) ==
  /\ Cardinality(InWindow(failedBy)) <= failures
  /\ failures <= Cardinality(InWindow(Failed))
RowsStand == asked # None /\ rows # Unread => Counted(rows.failures)

HealthInv ==
  /\ HealthTypeOK
  /\ TablesInv
  /\ ReaderInv
  /\ BeatStands
  /\ RowsStand
  /\ StatusIsTrue
  /\ FailuresAreCounted

\* Only finitely many slots fall due by any time.
LEMMA DueByIsFinite ==
  ASSUME NEW time \in Nat, NEW S \in SUBSET Slots, \A s \in S : Due(s) <= time
  PROVE  IsFiniteSet(S)
<1>1. S \subseteq 0..time
  BY DueGrows, TimeAssumption
<1>2. IsFiniteSet(0..time)
  BY FS_Interval
<1> QED BY <1>1, <1>2, FS_Subset

\* All the limit ever cuts off is nothing.
LEMMA LimitCutsNothing ==
  ASSUME HealthInv, Reading
  PROVE  Latest = Recent
<1> SUFFICES ASSUME NEW s \in Recent
             PROVE  Cardinality({t \in Recent : t > s}) < Limit
  BY DEF Latest
<1> DEFINE Later == {t \in Recent : t > s}
<1>1. /\ s \in Nat /\ asked \in Nat /\ clock \in Nat /\ clock <= asked + MaxRead
      /\ asked - Window <= Due(s)
  BY TimeAssumption, NullAssumption
  DEF HealthInv, ReaderInv, Reading, Recent, HealthTypeOK, Times
<1>2. Limit \in Nat /\ Limit > 0
  BY TimeAssumption, LimitAssumption
<1>3. ASSUME NEW t \in Later PROVE t \in (s + 1)..(s + Limit - 1)
  <2>1. t \in Nat /\ t > s /\ Due(t) <= clock
    BY TimeAssumption DEF Recent, HealthInv, TablesInv
  <2>2. Due(t) <= (asked - Window) + Window + MaxRead
    BY <1>1, <2>1, DueGrows, TimeAssumption
  <2>3. t < s + Limit
    BY <1>1, <2>1, <2>2, WindowFits, TimeAssumption
  <2> QED BY <1>1, <1>2, <2>1, <2>3
<1>4. /\ IsFiniteSet((s + 1)..(s + Limit - 1))
      /\ Cardinality((s + 1)..(s + Limit - 1)) = Limit - 1
  BY <1>1, <1>2, FS_Interval
<1>5. Cardinality(Later) <= Limit - 1 /\ Cardinality(Later) \in Nat
  <2>1. Later \subseteq (s + 1)..(s + Limit - 1)
    BY <1>3
  <2> QED BY <1>4, <2>1, FS_Subset, FS_CardinalityType
<1> QED BY <1>2, <1>5

\* The failed slots are finitely many, before a step and after it.
LEMMA FailedIsFinite ==
  ASSUME HealthTypeOK, TablesInv
  PROVE  IsFiniteSet(InWindow(Failed)) /\ IsFiniteSet(Recent) /\ IsFiniteSet(Failed)
<1>1. \A s \in InWindow(Failed) \cup Recent \cup Failed : Due(s) <= clock
  BY NullAssumption DEF TablesInv, InWindow, Failed, Recent
<1> QED BY <1>1, DueByIsFinite DEF HealthTypeOK, Times, InWindow, Failed, Recent

LEMMA FailedIsFiniteNext ==
  ASSUME HealthTypeOK', TablesInv'
  PROVE  IsFiniteSet(InWindow(Failed)')
<1>1. \A s \in InWindow(Failed)' : Due(s) <= clock'
  BY NullAssumption DEF TablesInv, InWindow, Failed
<1> QED BY <1>1, DueByIsFinite DEF HealthTypeOK, Times, InWindow, Failed

\* A step of the tables or of the clock leaves the reader's facts alone.
LEMMA ReaderKept ==
  ASSUME HealthInv, HealthTypeOK', TablesInv', UNCHANGED reader,
         clock <= clock', Reading => clock' <= asked + MaxRead,
         Failed \subseteq Failed',
         \A s \in Slots : heartbeats[s] = 1 => heartbeats'[s] = 1,
         \A s \in prompt' \ prompt : clock < Due(s) + Period
  PROVE  HealthInv'
<1> USE DEF reader
<1>1. ReaderInv'
  <2>1. clock \in Int /\ clock' \in Int /\ (asked # None => asked \in Int)
    BY DEF HealthInv, HealthTypeOK, Times
  <2> QED BY <2>1 DEF HealthInv, ReaderInv, Reading
<1>2. asked # None => \A s \in Slots : Due(s) + Period <= asked => s \notin prompt' \ prompt
  <2>1. clock \in Int /\ (asked # None => asked \in Int /\ asked <= clock)
    BY DEF HealthInv, HealthTypeOK, ReaderInv, Times
  <2>2. \A s \in Slots : Due(s) + Period \in Int
    BY DueGrows, TimeAssumption
  <2> QED BY <2>1, <2>2
<1>3. BeatStands'
  <2>1. PromptBefore' \subseteq PromptBefore \/ asked = None
    BY <1>2 DEF PromptBefore, HealthTypeOK
  <2> QED BY <2>1 DEF HealthInv, BeatStands
<1>4. asked # None => /\ InWindow(Failed) \subseteq InWindow(Failed)'
                      /\ InWindow(failedBy)' = InWindow(failedBy)
  BY DEF InWindow
<1>5. asked # None => /\ Cardinality(InWindow(Failed)) <= Cardinality(InWindow(Failed)')
                      /\ Cardinality(InWindow(Failed)) \in Nat
                      /\ Cardinality(InWindow(Failed)') \in Nat
  <2>1. IsFiniteSet(InWindow(Failed)) /\ IsFiniteSet(InWindow(Failed)')
    BY FailedIsFinite, FailedIsFiniteNext DEF HealthInv
  <2> QED BY <1>4, <2>1, FS_Subset, FS_CardinalityType
<1>6. ASSUME NEW failures \in Nat, asked # None, Counted(failures)
      PROVE  Counted(failures)'
  <2>1. IsFiniteSet(InWindow(failedBy))
    <3>1. InWindow(failedBy) \subseteq InWindow(Failed)
      BY DEF HealthInv, ReaderInv, InWindow
    <3> QED BY <3>1, FailedIsFinite, FS_Subset DEF HealthInv
  <2>2. Cardinality(InWindow(failedBy)) \in Nat
    BY <2>1, FS_CardinalityType
  <2> QED BY <1>4, <1>5, <1>6, <2>2 DEF Counted
<1>7. RowsStand'
  <2>1. rows # Unread => rows.failures \in Nat
    BY DEF HealthInv, HealthTypeOK, Rows
  <2> QED BY <1>6, <2>1 DEF HealthInv, RowsStand
<1>8. FailuresAreCounted'
  <2>1. report # None => report.failures \in Nat /\ asked # None
    BY DEF HealthInv, HealthTypeOK, Report, ReaderInv
  <2> QED BY <1>6, <2>1 DEF HealthInv, FailuresAreCounted, Counted, Unavailable
<1>9. StatusIsTrue'
  <2>1. report # None => asked # None
    BY DEF HealthInv, ReaderInv
  <2> QED BY <1>2, <2>1 DEF HealthInv, StatusIsTrue, HealthTypeOK
<1> QED BY <1>1, <1>3, <1>7, <1>8, <1>9 DEF HealthInv

\* What a step of the job does to the tables (RunLedger, in time).
LEMMA JobWrites ==
  ASSUME HealthInv, NEW s \in Slots, Job(s)
  PROVE  /\ HealthTypeOK' /\ TablesInv'
         /\ Failed \subseteq Failed'
         /\ \A t \in Slots : heartbeats[t] = 1 => heartbeats'[t] = 1
         /\ \A t \in prompt' \ prompt : clock < Due(t) + Period
<1> USE DEF reader
<1>1. /\ HealthTypeOK /\ TablesInv
      /\ clock \in Nat /\ s \in Nat /\ Due(s) \in Nat /\ Due(s) <= clock /\ clock <= Due(s) + MaxLate
  BY DueGrows, TimeAssumption DEF HealthInv, HealthTypeOK, Times, Job, InTime
<1>2. CASE \E at \in Due(s)..clock : StoreBeat(s, at)
  <2>1. PICK at \in Due(s)..clock : StoreBeat(s, at)
    BY <1>2
  <2>2. at \in Times
    BY <1>1, <2>1, TimeAssumption DEF HealthTypeOK, Times
  <2>3. /\ runs' = runs /\ runs[s] = "running"
        /\ heartbeats' = [heartbeats EXCEPT ![s] = 1] /\ heartbeats[s] = 0
        /\ observed' = [observed EXCEPT ![s] = at]
        /\ prompt' = IF clock < Due(s) + Period THEN prompt \cup {s} ELSE prompt
    BY <2>1 DEF StoreBeat, Ledger!Beat
  <2>4. HealthTypeOK'
    BY <1>1, <2>2, <2>3 DEF HealthTypeOK, Job
  <2>5. TablesInv'
    <3>1. \A t \in Slots : runs'[t] # NoRun => Due(t) <= clock'
      BY <1>1, <2>3 DEF TablesInv, Job
    <3>2. ASSUME NEW t \in Slots, heartbeats'[t] = 1
          PROVE  /\ observed'[t] \in Times /\ Due(t) <= observed'[t]
                 /\ observed'[t] <= Due(t) + MaxLate
      <4>1. CASE t = s
        BY <1>1, <2>1, <2>2, <2>3, <4>1, TimeAssumption DEF HealthTypeOK
      <4>2. CASE t # s
        BY <1>1, <2>3, <3>2, <4>2 DEF HealthTypeOK, TablesInv
      <4> QED BY <4>1, <4>2
    <3>3. \A t \in prompt' : heartbeats'[t] = 1
      BY <1>1, <2>3 DEF HealthTypeOK, TablesInv
    <3> QED BY <3>1, <3>2, <3>3 DEF TablesInv
  <2> QED BY <1>1, <2>3, <2>4, <2>5 DEF Failed, HealthTypeOK
<1>3. CASE (Ledger!Open(s) \/ Ledger!Succeed(s) \/ Ledger!Fail(s)) /\ UNCHANGED <<observed, prompt>>
  <2>1. /\ runs' \in [Slots -> RunStatuses] /\ heartbeats' = heartbeats
        /\ \A t \in Slots \ {s} : runs'[t] = runs[t]
        /\ runs[s] # "failed"
    BY <1>1, <1>3, NullAssumption
    DEF HealthTypeOK, RunStatuses, Ledger!Open, Ledger!Succeed, Ledger!Fail
  <2>2. HealthTypeOK' /\ TablesInv'
    BY <1>1, <1>3, <2>1 DEF HealthTypeOK, TablesInv, Job
  <2> QED BY <1>3, <2>1, <2>2 DEF Failed
<1> QED BY <1>2, <1>3 DEF Job

LEMMA JobInv ==
  ASSUME HealthInv, NEW s \in Slots, Job(s)
  PROVE  HealthInv'
<1>1. UNCHANGED <<clock, reader>>
  BY DEF Job
<1>2. clock <= clock' /\ (Reading => clock' <= asked + MaxRead)
  BY <1>1 DEF HealthInv, ReaderInv, HealthTypeOK, Times
<1> QED BY <1>1, <1>2, JobWrites, ReaderKept DEF reader

LEMMA TickInv ==
  ASSUME HealthInv, Tick
  PROVE  HealthInv'
<1>1. HealthTypeOK /\ TablesInv /\ clock \in Nat /\ clock' = clock + 1 /\ clock' \in Times
  BY TimeAssumption DEF HealthInv, HealthTypeOK, Times, Tick
<1>2. /\ UNCHANGED <<runs, heartbeats, observed, prompt, reader>>
      /\ Reading => clock' <= asked + MaxRead
  <2>1. asked # None => asked \in Int
    BY <1>1 DEF HealthTypeOK, Times
  <2> QED BY <1>1, <2>1, TimeAssumption DEF Tick, Reading
<1>3. HealthTypeOK'
  BY <1>1, <1>2 DEF HealthTypeOK, reader
<1>4. TablesInv'
  BY <1>1, <1>2, DueGrows, TimeAssumption DEF TablesInv
<1>5. Failed' = Failed
  BY <1>2 DEF Failed
<1> QED BY <1>1, <1>2, <1>3, <1>4, <1>5, ReaderKept

\* A step of the reader leaves the tables alone.
Tables == <<clock, runs, heartbeats, observed, prompt>>
LEMMA TablesKept ==
  ASSUME HealthInv, UNCHANGED Tables
  PROVE  TablesInv' /\ Failed' = Failed
BY DEF Tables, HealthInv, TablesInv, Failed

LEMMA AskInv ==
  ASSUME HealthInv, Ask
  PROVE  HealthInv'
<1>1. TablesInv' /\ Failed' = Failed /\ asked' = clock /\ failedBy' = Failed
  BY TablesKept DEF Ask, Tables
<1>2. beat' = Unread /\ rows' = Unread /\ report' = None /\ asked' # None /\ clock' = clock
  BY NullAssumption DEF Ask, HealthInv, ReaderInv, HealthTypeOK, Times
<1>3. HealthTypeOK'
  BY <1>1, <1>2 DEF Ask, HealthInv, HealthTypeOK, Failed
<1>4. ReaderInv'
  BY <1>1, <1>2, TimeAssumption DEF HealthInv, HealthTypeOK, Times, ReaderInv, Reading
<1> QED
  BY <1>1, <1>2, <1>3, <1>4
  DEF HealthInv, BeatStands, RowsStand, StatusIsTrue, FailuresAreCounted

\* The newest heartbeat is as new as each prompt one, and is one.
LEMMA ReadBeatInv ==
  ASSUME HealthInv, ReadBeat
  PROVE  HealthInv'
<1>1. /\ TablesInv' /\ Failed' = Failed
      /\ UNCHANGED <<asked, failedBy, rows, report, clock, heartbeats, prompt>>
  BY TablesKept DEF ReadBeat, Tables
<1>2. Beats \subseteq 0..MaxTime
  BY DEF Beats, HealthInv, HealthTypeOK, TablesInv, Times
<1>3. CASE Beats = {}
  <2>1. beat' = None
    BY <1>3 DEF ReadBeat
  <2>2. prompt = {}
    <3> SUFFICES ASSUME NEW s \in prompt PROVE FALSE
      OBVIOUS
    <3>1. s \in Slots /\ heartbeats[s] > 0
      BY DEF HealthInv, TablesInv, HealthTypeOK
    <3> QED BY <1>3, <3>1 DEF Beats
  <2>3. HealthTypeOK'
    BY <2>1 DEF ReadBeat, HealthInv, HealthTypeOK
  <2>4. BeatStands'
    BY <1>1, <2>1, <2>2 DEF BeatStands, PromptBefore
  <2> QED
    BY <1>1, <2>3, <2>4
    DEF ReadBeat, Reading, HealthInv, ReaderInv, RowsStand, Counted, InWindow, Failed,
        StatusIsTrue, FailuresAreCounted
<1>4. CASE Beats # {}
  <2>1. \E at \in Beats : \A other \in Beats : other <= at
    BY <1>2, <1>4, BoundedMax, TimeAssumption
  <2>2. beat' \in Beats /\ \A other \in Beats : other <= beat'
    BY <1>4, <2>1 DEF ReadBeat
  <2>3. PICK s \in Slots : heartbeats[s] = 1 /\ beat' = observed[s]
    BY <2>2 DEF Beats, HealthInv, HealthTypeOK
  <2>4. beat' \in Times /\ beat' # None /\ beat' <= Due(s) + MaxLate
    BY <1>2, <2>2, <2>3, NullAssumption DEF HealthInv, TablesInv, Times
  <2>5. ASSUME NEW t \in prompt PROVE Due(t) <= beat'
    <3>1. t \in Slots /\ heartbeats[t] = 1 /\ Due(t) <= observed[t]
      BY DEF HealthInv, TablesInv, HealthTypeOK
    <3>2. observed[t] \in Beats
      BY <3>1 DEF Beats
    <3>3. Due(t) \in Int /\ observed[t] \in Int /\ beat' \in Int
      <4>1. t \in Nat
        BY <3>1, TimeAssumption
      <4>2. Due(t) \in Nat
        BY <4>1, DueGrows
      <4>3. observed[t] \in 0..MaxTime /\ beat' \in 0..MaxTime
        BY <1>2, <2>2, <3>2
      <4> QED BY <4>2, <4>3
    <3> QED BY <2>2, <3>1, <3>2, <3>3
  <2>6. HealthTypeOK'
    BY <2>4 DEF ReadBeat, HealthInv, HealthTypeOK
  <2>7. BeatStands'
    BY <1>1, <2>3, <2>4, <2>5 DEF BeatStands, PromptBefore
  <2> QED
    BY <1>1, <2>6, <2>7
    DEF ReadBeat, Reading, HealthInv, ReaderInv, RowsStand, Counted, InWindow, Failed,
        StatusIsTrue, FailuresAreCounted
<1> QED BY <1>3, <1>4

\* What the second answer counts is what has failed within the window.
LEMMA ReadRunsInv ==
  ASSUME HealthInv, ReadRuns
  PROVE  HealthInv'
<1>1. /\ TablesInv' /\ Failed' = Failed
      /\ UNCHANGED <<asked, failedBy, beat, report, clock, heartbeats, prompt>>
  BY TablesKept DEF ReadRuns, Tables
<1>2. Latest \cap Failed = InWindow(Failed)
  <2>1. Latest = Recent
    BY LimitCutsNothing DEF ReadRuns
  <2> QED BY <2>1, NullAssumption DEF Recent, Failed, InWindow
<1>3. IsFiniteSet(InWindow(Failed)) /\ InWindow(failedBy) \subseteq InWindow(Failed)
  BY FailedIsFinite DEF HealthInv, ReaderInv, InWindow
<1>4. /\ Cardinality(InWindow(Failed)) \in Nat
      /\ Cardinality(InWindow(failedBy)) <= Cardinality(InWindow(Failed))
  BY <1>3, FS_Subset, FS_CardinalityType
<1>5. rows'.failures = Cardinality(InWindow(Failed))
  BY <1>2 DEF ReadRuns
<1>6. HealthTypeOK'
  <2>1. Latest # {} => (CHOOSE s \in Latest : \A t \in Latest : t <= s) \in Slots
    <3>1. CASE Latest = {}
      BY <3>1
    <3>2. CASE Latest # {}
      <4>1. clock \in Nat /\ Latest \subseteq 0..clock
        <5>1. clock \in Nat /\ \A s \in Latest : s \in Nat /\ Due(s) <= clock
          <6>1. clock \in Nat
            BY DEF HealthInv, HealthTypeOK, Times
          <6>2. Latest \subseteq Slots /\ \A s \in Latest : runs[s] # NoRun
            BY DEF Latest, Recent
          <6> QED BY <6>1, <6>2, TimeAssumption DEF HealthInv, TablesInv
        <5>2. \A s \in Latest : s <= Due(s) /\ Due(s) \in Nat
          BY <5>1, DueGrows
        <5> QED BY <5>1, <5>2
      <4>2. \E s \in Latest : \A t \in Latest : t <= s
        BY <3>2, <4>1, BoundedMax
      <4> QED BY <4>2 DEF Latest, Recent
    <3> QED BY <3>1, <3>2
  <2>2. rows' \in Rows
    BY <1>2, <1>4, <2>1 DEF ReadRuns, Rows, RunStatuses, HealthInv, HealthTypeOK
  <2> QED BY <2>2 DEF ReadRuns, HealthInv, HealthTypeOK
<1>7. RowsStand'
  BY <1>1, <1>4, <1>5 DEF RowsStand, Counted, InWindow
<1> QED
  BY <1>1, <1>6, <1>7
  DEF ReadRuns, Reading, HealthInv, ReaderInv, BeatStands, PromptBefore, StatusIsTrue,
      FailuresAreCounted

LEMMA ReadFailsInv ==
  ASSUME HealthInv, ReadFails
  PROVE  HealthInv'
<1>1. TablesInv' /\ Failed' = Failed /\ report' = Unavailable
  BY TablesKept DEF ReadFails, Tables
<1>2. UNCHANGED <<asked, failedBy, beat, rows, clock, heartbeats, prompt>> /\ report = None
  BY DEF ReadFails, Reading
<1>3. HealthTypeOK'
  BY <1>1 DEF ReadFails, HealthInv, HealthTypeOK, Report, Unavailable, RunStatuses,
              SchedulerStatuses
<1>4. StatusIsTrue'
  BY <1>1 DEF StatusIsTrue, Unavailable
<1>5. FailuresAreCounted'
  BY <1>1 DEF FailuresAreCounted, Unavailable
<1>6. ReaderInv'
  BY <1>1, <1>2 DEF ReadFails, Reading, HealthInv, ReaderInv
<1> QED
  BY <1>1, <1>2, <1>3, <1>4, <1>5, <1>6
  DEF HealthInv, BeatStands, PromptBefore, RowsStand, Counted, InWindow

\* What is reported follows from the two answers.
LEMMA ReportsInv ==
  ASSUME HealthInv, Reports
  PROVE  HealthInv'
<1>1. TablesInv' /\ Failed' = Failed
  BY TablesKept DEF Reports, Tables
<1>2. /\ UNCHANGED <<asked, failedBy, beat, rows, clock, heartbeats, prompt>>
      /\ asked # None /\ report = None /\ beat # Unread /\ rows # Unread
      /\ report'.status = Health /\ report'.failures = rows.failures
  BY DEF Reports, Reading
<1>3. /\ asked \in Int /\ rows \in Rows /\ Threshold \in Int /\ Period \in Int /\ MaxLate \in Int
      /\ beat # None => beat \in Int
      /\ \A s \in Slots : Due(s) \in Int
  <2>1. \A s \in Slots : Due(s) \in Nat
    BY DueGrows, TimeAssumption
  <2> QED BY <1>2, <2>1, TimeAssumption DEF HealthInv, HealthTypeOK, Times
<1>4. HealthTypeOK'
  BY <1>3 DEF Reports, HealthInv, HealthTypeOK, Report, Rows, Health, SchedulerStatuses
<1>5. StatusIsTrue'
  <2>1. CASE Health = "stale"
    <3>1. beat # None /\ beat < asked - Threshold
      BY <1>3, <2>1 DEF Health
    <3>2. ASSUME NEW s \in Slots, asked - Threshold <= Due(s), Due(s) + Period <= asked
          PROVE  s \notin prompt
      <4>1. s \in prompt => Due(s) <= beat
        BY <1>2, <3>2 DEF HealthInv, BeatStands, PromptBefore
      <4> QED BY <1>3, <3>1, <3>2, <4>1
    <3> QED BY <1>2, <2>1, <3>2 DEF StatusIsTrue
  <2>2. CASE Health = "healthy"
    <3>1. beat # None /\ asked - beat <= Threshold
      BY <2>2 DEF Health
    <3>2. PICK s \in Slots : heartbeats[s] = 1 /\ beat <= Due(s) + MaxLate
      BY <1>2, <3>1 DEF HealthInv, BeatStands
    <3>3. Due(s) + MaxLate >= asked - Threshold
      BY <1>3, <3>1, <3>2
    <3> QED BY <1>2, <2>2, <3>2, <3>3 DEF StatusIsTrue
  <2>3. CASE Health = "unavailable"
    BY <1>2, <2>3 DEF StatusIsTrue
  <2> QED BY <2>1, <2>2, <2>3 DEF Health
<1>6. FailuresAreCounted'
  BY <1>1, <1>2 DEF HealthInv, RowsStand, Counted, FailuresAreCounted, InWindow
<1>7. ReaderInv'
  BY <1>1, <1>2 DEF Reports, Reading, HealthInv, ReaderInv
<1> QED
  BY <1>1, <1>2, <1>4, <1>5, <1>6, <1>7
  DEF HealthInv, BeatStands, PromptBefore, RowsStand, Counted, InWindow

LEMMA HealthStep == HealthInv /\ [HealthNext]_healthVars => HealthInv'
<1> SUFFICES ASSUME HealthInv, [HealthNext]_healthVars PROVE HealthInv'
  OBVIOUS
<1>1. CASE UNCHANGED healthVars
  BY <1>1
  DEF healthVars, reader, HealthInv, HealthTypeOK, TablesInv, ReaderInv, Reading, BeatStands,
      PromptBefore, RowsStand, Counted, InWindow, Failed, StatusIsTrue, FailuresAreCounted
<1> QED
  BY <1>1, TickInv, AskInv, ReadBeatInv, ReadRunsInv, ReadFailsInv, ReportsInv, JobInv
  DEF HealthNext

LEMMA HealthStart == HealthInit => HealthInv
<1> SUFFICES ASSUME HealthInit PROVE HealthInv
  OBVIOUS
<1>1. HealthTypeOK
  BY TimeAssumption DEF HealthInit, Ledger!Init, HealthTypeOK, RunStatuses, Times
<1>2. TablesInv /\ ReaderInv
  BY DEF HealthInit, Ledger!Init, TablesInv, ReaderInv, Reading
<1> QED
  BY <1>1, <1>2
  DEF HealthInit, HealthInv, BeatStands, RowsStand, StatusIsTrue, FailuresAreCounted

THEOREM HealthInvariance == HealthSpec => []HealthInv
BY HealthStart, HealthStep, PTL DEF HealthSpec

\* The tables and the report hold values of their kinds.
THEOREM HealthTypes == HealthSpec => []HealthTypeOK
<1>1. HealthInv => HealthTypeOK
  BY DEF HealthInv
<1> QED BY <1>1, HealthInvariance, PTL

\* Stale and healthy are said with reason: neither for one slot that is lost
\* or late, nor of a scheduler that has stopped (readAutomationHealth).
THEOREM StatusHasReason == HealthSpec => []StatusIsTrue
<1>1. HealthInv => StatusIsTrue
  BY DEF HealthInv
<1> QED BY <1>1, HealthInvariance, PTL

\* Every failure of the last day that had happened when the report was asked
\* for is counted, and only failures are: the limit of the query never
\* hides one (readAutomationHealth).
THEOREM FailuresCount == HealthSpec => []FailuresAreCounted
<1>1. HealthInv => FailuresAreCounted
  BY DEF HealthInv
<1> QED BY <1>1, HealthInvariance, PTL
-----------------------------------------------------------------------------
(* The job and the report on it                                            *)

\* Each step of the two together is one of the job or leaves it alone.
THEOREM JobGoesOn == WatchSpec => Spec
<1>1. WatchInit => Init
  BY DEF WatchInit
<1>2. [WatchNext]_watchVars => [Next]_vars
  <2> SUFFICES ASSUME [WatchNext]_watchVars PROVE [Next]_vars
    OBVIOUS
  <2>1. CASE Watches
    BY <2>1 DEF Watches, job, vars, Tick, Ask, ReadBeat, ReadRuns, ReadFails, Reports
  <2>2. CASE UNCHANGED watchVars
    BY <2>2 DEF watchVars, healthVars, job, vars
  <2>3. ASSUME NEW i \in Invocations,
               \/ Observes(i) \/ Works(i) \/ Dies(i)
               \/ \E s \in Slots : Starts(i, s)
               \/ \E outcome \in Outcomes : BeatsAt(i, outcome)
        PROVE  Next
    BY <2>3 DEF Observes, Works, Dies, Starts, BeatsAt, Next, Step, Execute
  <2> QED BY <2>1, <2>2, <2>3 DEF WatchNext
<1> QED BY <1>1, <1>2, PTL DEF WatchSpec, Spec

\* The adapter answers between the slot's time and the storing of the
\* heartbeat.
AnswersInTime ==
  /\ clock \in Nat
  /\ answered \in [Invocations -> Nat \cup {None}]
  /\ \A i \in Invocations : pc[i] = "heartbeat" => answered[i] \in Due(slot[i])..clock

\* Except for Observes, no step brings an invocation to its heartbeat.
LEMMA OthersReachNoHeartbeat ==
  ASSUME IndInv, NEW i \in Invocations,
         \/ Works(i) \/ Dies(i) \/ \E s \in Slots : Starts(i, s)
         \/ \E outcome \in Outcomes : BeatsAt(i, outcome)
  PROVE  /\ \A j \in Invocations : pc'[j] = "heartbeat" => pc[j] = "heartbeat" /\ slot'[j] = slot[j]
         /\ UNCHANGED <<clock, answered>>
<1> USE DEF IndInv, TypeOK
<1>1. CASE Works(i)
  BY <1>1 DEF Works, Begin, FoundNone, FoundExisting, LookupFails, InsertRefused, Insert,
              Healthy, AdapterFails, MarkSucceeded, MarkFailed, Goto
<1>2. CASE Dies(i)
  BY <1>2 DEF Dies, Crash, Goto
<1>3. CASE \E s \in Slots : Starts(i, s)
  BY <1>3 DEF Starts, Deliver, Goto
<1>4. CASE \E outcome \in Outcomes : BeatsAt(i, outcome)
  BY <1>4 DEF BeatsAt, StoreHeartbeat, Goto
<1> QED BY <1>1, <1>2, <1>3, <1>4

LEMMA AnswersStep ==
  ASSUME IndInv, AnswersInTime, [WatchNext]_watchVars
  PROVE  AnswersInTime'
<1>1. CASE Watches
  <2>1. clock' \in Nat /\ clock <= clock'
    BY <1>1 DEF Watches, Tick, Ask, ReadBeat, ReadRuns, ReadFails, Reports, AnswersInTime
  <2>2. pc' = pc /\ slot' = slot /\ answered' = answered
    BY <1>1 DEF Watches, job
  <2>3. \A i \in Invocations : Due(slot[i])' = Due(slot[i])
    BY <2>2 DEF Due
  <2>4. ASSUME NEW i \in Invocations, pc[i] = "heartbeat" PROVE answered[i] \in Due(slot[i])..clock'
    <3>1. Due(slot[i]) \in Nat
      BY <2>4, DueGrows, TimeAssumption DEF IndInv, Local
    <3> QED BY <2>1, <2>4, <3>1 DEF AnswersInTime
  <2> QED BY <2>1, <2>2, <2>3, <2>4 DEF AnswersInTime
<1>2. ASSUME NEW i \in Invocations, Observes(i) PROVE AnswersInTime'
  <2>1. /\ slot[i] \in Slots /\ Due(slot[i]) \in Nat
    BY <1>2, DueGrows, TimeAssumption DEF Observes, Executed, IndInv, Local
  <2>2. clock \in Due(slot[i])..clock
    BY <1>2, <2>1 DEF Observes, InTime, AnswersInTime
  <2>3. /\ slot' = slot /\ clock' = clock
        /\ answered' = [answered EXCEPT ![i] = clock]
        /\ \A j \in Invocations \ {i} : pc'[j] = pc[j]
    BY <1>2 DEF Observes, Executed, Goto, IndInv, TypeOK
  <2>4. \A j \in Invocations : Due(slot[j])' = Due(slot[j])
    BY <2>3 DEF Due
  <2> QED BY <2>2, <2>3, <2>4 DEF AnswersInTime
<1>3. ASSUME NEW i \in Invocations,
             \/ Works(i) \/ Dies(i) \/ \E s \in Slots : Starts(i, s)
             \/ \E outcome \in Outcomes : BeatsAt(i, outcome)
      PROVE  AnswersInTime'
  BY <1>3, OthersReachNoHeartbeat DEF AnswersInTime, Due
<1>4. CASE UNCHANGED watchVars
  BY <1>4 DEF watchVars, healthVars, job, AnswersInTime, Due
<1> QED BY <1>1, <1>2, <1>3, <1>4 DEF WatchNext

LEMMA AnswersInvariance == WatchSpec => [](IndInv /\ AnswersInTime)
<1>1. WatchInit => AnswersInTime
  BY TimeAssumption DEF WatchInit, Init, HealthInit, AnswersInTime
<1> QED BY <1>1, AnswersStep, JobGoesOn, Invariance, PTL DEF WatchSpec

\* Storing a heartbeat is what the report takes it to be ...
LEMMA BeatsAreWatched ==
  ASSUME IndInv, AnswersInTime, NEW i \in Invocations, NEW outcome \in Outcomes,
         BeatsAt(i, outcome)
  PROVE  Job(slot[i]) \/ UNCHANGED healthVars
<1>1. /\ pc[i] = "heartbeat" /\ InTime(slot[i])
      /\ RunOf(i) = "running" /\ heartbeats[slot[i]] = 0
  BY DEF BeatsAt, StoreHeartbeat, IndInv, Local, Executing
<1>2. answered[i] \in Due(slot[i])..clock
  BY <1>1 DEF AnswersInTime
<1>3. CASE Applied(outcome)
  <2>1. heartbeats' = [heartbeats EXCEPT ![slot[i]] = 1] /\ runs' = runs
    <3>1. [heartbeats EXCEPT ![slot[i]] = @ + 1] = [heartbeats EXCEPT ![slot[i]] = 1]
      BY <1>1
    <3> QED BY <1>3, <3>1 DEF BeatsAt, StoreHeartbeat
  <2>2. Ledger!Beat(slot[i])
    BY <1>1, <2>1 DEF Ledger!Beat, RunOf
  <2>3. StoreBeat(slot[i], answered[i])
    BY <1>3, <2>2 DEF BeatsAt, StoreBeat
  <2> QED BY <1>1, <1>2, <2>3 DEF BeatsAt, Job
<1>4. CASE ~Applied(outcome)
  BY <1>4 DEF BeatsAt, StoreHeartbeat, healthVars
<1> QED BY <1>3, <1>4

\* ... and so are the other steps of an invocation.
LEMMA WorksAreWatched ==
  ASSUME IndInv, NEW i \in Invocations, Works(i)
  PROVE  Job(slot[i]) \/ UNCHANGED healthVars
<1>1. InTime(slot[i]) /\ UNCHANGED <<clock, observed, prompt, reader>>
  BY DEF Works
<1>2. \/ UNCHANGED <<runs, heartbeats>>
      \/ Ledger!Open(slot[i]) \/ Ledger!Succeed(slot[i]) \/ Ledger!Fail(slot[i])
  <2>1. ASSUME NEW outcome \in Outcomes, Insert(i, outcome)
        PROVE  Ledger!Open(slot[i]) \/ UNCHANGED <<runs, heartbeats>>
    BY <2>1, InsertIsOpen
  <2>2. ASSUME NEW outcome \in Outcomes, MarkSucceeded(i, outcome) \/ MarkFailed(i, outcome)
        PROVE  Ledger!Succeed(slot[i]) \/ Ledger!Fail(slot[i]) \/ UNCHANGED <<runs, heartbeats>>
    BY <2>2, MarkIsClose
  <2> QED
    BY <2>1, <2>2
    DEF Works, Begin, FoundNone, FoundExisting, LookupFails, InsertRefused, Healthy, AdapterFails
<1> QED BY <1>1, <1>2 DEF Job, healthVars

LEMMA StepsAreWatched ==
  ASSUME IndInv, AnswersInTime, [WatchNext]_watchVars
  PROVE  [HealthNext]_healthVars
<1>1. CASE Watches
  BY <1>1 DEF Watches, HealthNext
<1>2. ASSUME NEW i \in Invocations, NEW outcome \in Outcomes, BeatsAt(i, outcome)
      PROVE  [HealthNext]_healthVars
  <2>1. slot[i] \in Slots
    BY <1>2 DEF BeatsAt, StoreHeartbeat, IndInv, Local
  <2> QED BY <1>2, <2>1, BeatsAreWatched DEF HealthNext
<1>3. ASSUME NEW i \in Invocations, Works(i)
      PROVE  [HealthNext]_healthVars
  <2>1. slot[i] \in Slots
    BY <1>3
    DEF Works, Begin, FoundNone, FoundExisting, LookupFails, InsertRefused, Insert, Healthy,
        AdapterFails, MarkSucceeded, MarkFailed, IndInv, Local
  <2> QED BY <1>3, <2>1, WorksAreWatched DEF HealthNext
<1>4. ASSUME NEW i \in Invocations, Observes(i) \/ Dies(i) \/ \E s \in Slots : Starts(i, s)
      PROVE  UNCHANGED healthVars
  BY <1>4 DEF Observes, Executed, Dies, Crash, Starts, Deliver, healthVars
<1>5. CASE UNCHANGED watchVars
  BY <1>5 DEF watchVars
<1> QED BY <1>1, <1>2, <1>3, <1>4, <1>5 DEF WatchNext

\* The job is what the report takes it for, whatever is delivered twice,
\* lost or killed (handleScheduledEvent under readAutomationHealth).
THEOREM TheJobIsWatchable == WatchSpec => JobIsWatchable
<1>1. WatchInit => HealthInit
  BY DEF WatchInit
<1> QED
  BY <1>1, StepsAreWatched, AnswersInvariance, PTL DEF WatchSpec, HealthSpec, JobIsWatchable

\* So what is said of the report and of the job holds of the two together.
THEOREM TheJobIsReportedTruly ==
  WatchSpec => [](StatusIsTrue /\ FailuresAreCounted /\ ExecutedAtMostOnce /\ LossNeedsFault)
BY JobGoesOn, TheJobIsWatchable, StatusHasReason, FailuresCount, SlotsExecuteOnce, LossHasACause,
   PTL DEF JobIsWatchable

-----------------------------------------------------------------------------
\* Whose heartbeats and failures a report tells.
Owned ==
  /\ owns \subseteq Invocations
  /\ \A s \in Slots : heartbeats[s] = 1 \/ runs[s] = "failed" => Executes(s)

\* The heartbeat that was read is one that is stored.
IsStored(at) == \E s \in Slots : heartbeats[s] = 1 /\ observed[s] = at

Attributed ==
  /\ Owned
  /\ beat \notin {Unread, None} => IsStored(beat)
  /\ report # None /\ report.status = "healthy" => IsStored(report.beat)

LEMMA OwnedStep ==
  ASSUME IndInv, Owned, [Next]_vars
  PROVE  Owned'
<1> USE DEF IndInv, TypeOK
<1>1. ASSUME NEW i \in Invocations, NEW s \in Slots, Deliver(i, s)
      PROVE  Owned'
  <2>1. i \notin owns
    BY <1>1 DEF Deliver, Local
  <2>2. \A j \in owns : slot'[j] = slot[j]
    BY <1>1, <2>1 DEF Deliver
  <2> QED BY <1>1, <2>2 DEF Deliver, Owned, Executes
<1>2. ASSUME NEW i \in Invocations, Step(i)
      PROVE  Owned'
  <2>1. slot' = slot /\ owns \subseteq owns' /\ owns' \subseteq Invocations
    BY <1>2
    DEF Step, Begin, Execute, FoundNone, FoundExisting, LookupFails, InsertRefused, Insert,
        Healthy, Executed, AdapterFails, StoreHeartbeat, MarkSucceeded, MarkFailed, Crash
  <2>2. \A s \in Slots : Executes(s) => Executes(s)'
    BY <2>1 DEF Executes
  <2>3. ASSUME NEW s \in Slots, heartbeats'[s] = 1 \/ runs'[s] = "failed",
               ~(heartbeats[s] = 1 \/ runs[s] = "failed")
        PROVE  Executes(s)
    <3>1. pc[i] \in Executing /\ s = slot[i]
      BY <1>2, <2>3
      DEF Step, Begin, Execute, FoundNone, FoundExisting, LookupFails, InsertRefused, Insert,
          Healthy, Executed, AdapterFails, StoreHeartbeat, MarkSucceeded, MarkFailed, Crash,
          Executing
    <3>2. i \in owns
      BY <3>1 DEF Local
    <3> QED BY <3>1, <3>2 DEF Executes
  <2> QED BY <2>1, <2>2, <2>3 DEF Owned
<1>3. CASE UNCHANGED vars
  BY <1>3 DEF vars, Owned, Executes
<1> QED BY <1>1, <1>2, <1>3 DEF Next

\* A heartbeat that is stored stays as it is.
LEMMA StoredStays ==
  ASSUME HealthInv, [HealthNext]_healthVars, NEW s \in Slots, heartbeats[s] = 1
  PROVE  heartbeats'[s] = 1 /\ observed'[s] = observed[s]
<1>1. ASSUME NEW t \in Slots, Job(t) PROVE heartbeats'[s] = 1 /\ observed'[s] = observed[s]
  <2>1. CASE \E time \in Due(t)..clock : StoreBeat(t, time)
    BY <1>1, <2>1 DEF StoreBeat, Ledger!Beat, HealthInv, HealthTypeOK
  <2>2. CASE (Ledger!Open(t) \/ Ledger!Succeed(t) \/ Ledger!Fail(t)) /\ UNCHANGED <<observed, prompt>>
    BY <2>2 DEF Ledger!Open, Ledger!Succeed, Ledger!Fail
  <2> QED BY <1>1, <2>1, <2>2 DEF Job
<1> QED
  BY <1>1 DEF HealthNext, healthVars, Tick, Ask, ReadBeat, ReadRuns, ReadFails, Reports

LEMMA AttributedStep ==
  ASSUME IndInv, HealthInv, HealthInv', Attributed, [Next]_vars, [HealthNext]_healthVars
  PROVE  Attributed'
<1>1. Owned'
  BY OwnedStep DEF Attributed
<1>2. \A s \in Slots : heartbeats[s] = 1 => heartbeats'[s] = 1 /\ observed'[s] = observed[s]
  BY StoredStays
<1>3. beat' \notin {Unread, None} => IsStored(beat)'
  <2>1. CASE beat' = beat
    BY <1>2, <2>1 DEF Attributed, IsStored
  <2>2. CASE ReadBeat
    <3>1. Beats \subseteq 0..MaxTime
      BY DEF Beats, HealthInv, HealthTypeOK, TablesInv, Times
    <3>2. beat' \in Beats \/ beat' = None
      <4>1. Beats # {} => \E at \in Beats : \A other \in Beats : other <= at
        BY <3>1, BoundedMax, TimeAssumption
      <4> QED BY <2>2, <4>1 DEF ReadBeat
    <3>3. beat' \in Beats => \E s \in Slots : heartbeats[s] = 1 /\ observed[s] = beat'
      BY DEF Beats, HealthInv, HealthTypeOK
    <3> QED BY <1>2, <3>2, <3>3 DEF IsStored
  <2> QED
    BY <2>1, <2>2
    DEF HealthNext, healthVars, reader, Tick, Ask, ReadRuns, ReadFails, Reports, Job
<1>4. report' # None /\ report'.status = "healthy" => IsStored(report.beat)'
  <2>1. CASE report' = report
    BY <1>2, <2>1 DEF Attributed, IsStored
  <2>2. CASE Reports
    <3>1. report'.status = Health /\ report'.beat = beat /\ beat # Unread
      BY <2>2 DEF Reports
    <3>2. Health = "healthy" => IsStored(beat)
      BY <3>1 DEF Health, Attributed
    <3> QED BY <1>2, <3>1, <3>2 DEF IsStored
  <2>3. CASE ReadFails
    BY <2>3 DEF ReadFails, Unavailable
  <2> QED
    BY <2>1, <2>2, <2>3 DEF HealthNext, healthVars, reader, Tick, Ask, ReadRuns, ReadBeat, Job
<1> QED BY <1>1, <1>3, <1>4 DEF Attributed

\* A healthy report goes by a heartbeat of a slot that a delivery executed,
\* and it counts no failure that no delivery executed.
THEOREM ReportsAreOfExecutions == WatchSpec => []ReportIsOfExecutions
<1>1. WatchInit => Attributed
  BY NullAssumption DEF WatchInit, Init, HealthInit, Attributed, Owned
<1>2. WatchSpec => [](IndInv /\ HealthInv) /\ [][Next]_vars /\ [][HealthNext]_healthVars
  BY JobGoesOn, TheJobIsWatchable, Invariance, HealthInvariance, PTL
  DEF Spec, HealthSpec, JobIsWatchable
<1>3. IndInv /\ HealthInv /\ HealthInv' /\ Attributed /\ [Next]_vars /\ [HealthNext]_healthVars
        => Attributed'
  BY AttributedStep
<1>4. IndInv /\ HealthInv /\ Attributed => ReportIsOfExecutions
  <2> SUFFICES ASSUME IndInv, HealthInv, Attributed, report # None PROVE ReportIsOfExecutions
    BY DEF ReportIsOfExecutions
  <2>1. ASSUME report.status = "healthy"
        PROVE  \E s \in Slots : Executes(s) /\ observed[s] = report.beat
    BY <2>1 DEF Attributed, Owned, IsStored
  <2>2. {s \in Slots : Executes(s) /\ runs[s] = "failed"} = Failed
    BY DEF Attributed, Owned, Failed
  <2>3. IsFiniteSet(Failed) /\ Cardinality(Failed) \in Nat
    BY FailedIsFinite, FS_CardinalityType DEF HealthInv
  <2>4. report.failures <= Cardinality(Failed)
    <3>1. CASE report = Unavailable
      BY <2>3, <3>1 DEF Unavailable
    <3>2. CASE report # Unavailable
      <4>1. InWindow(Failed) \subseteq Failed
        BY DEF InWindow
      <4>2. /\ Cardinality(InWindow(Failed)) <= Cardinality(Failed)
            /\ IsFiniteSet(InWindow(Failed))
        BY <2>3, <4>1, FS_Subset
      <4>3. Cardinality(InWindow(Failed)) \in Nat
        BY <4>2, FS_CardinalityType
      <4>4. report.failures \in Nat /\ report.failures <= Cardinality(InWindow(Failed))
        BY <3>2 DEF HealthInv, HealthTypeOK, Report, FailuresAreCounted
      <4> QED BY <2>3, <4>2, <4>3, <4>4
    <3> QED BY <3>1, <3>2
  <2> QED BY <2>1, <2>2, <2>4 DEF ReportIsOfExecutions
<1> QED BY <1>1, <1>2, <1>3, <1>4, PTL DEF WatchSpec
=============================================================================
