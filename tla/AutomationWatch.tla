--------------------------- MODULE AutomationWatch ---------------------------
(***************************************************************************)
(* The scheduled job and the report on its health together: the            *)
(* invocations of AutomationRuns write the tables, on the clock by which   *)
(* the reader of AutomationHealth judges them.  AutomationHealth takes the *)
(* tables to be written by any RunLedger in time; here they are written by *)
(* the job, duplicate deliveries, lost writes and dead invocations         *)
(* included.                                                               *)
(*                                                                         *)
(* A slot is delivered at its time at the earliest, and an invocation that *)
(* has not ended MaxLate after it can only die: neither Cron Triggers nor  *)
(* the limits of an invocation are in the code.                            *)
(***************************************************************************)
EXTENDS AutomationRuns, AutomationHealth

VARIABLE answered  \* observedAt: when each invocation's adapter had answered

job == <<pc, slot, owns, faults, answered>>
watchVars == <<healthVars, job>>

WatchInit ==
  /\ Init /\ HealthInit
  /\ answered = [i \in Invocations |-> None]

-----------------------------------------------------------------------------
(* handleScheduledEvent, on the clock                                      *)

Starts(i, s) ==
  /\ Deliver(i, s) /\ InTime(s)
  /\ UNCHANGED <<clock, observed, prompt, reader, answered>>

\* observedAt is taken once the adapter has answered, before the insert.
Observes(i) ==
  /\ Executed(i) /\ InTime(slot[i])
  /\ answered' = [answered EXCEPT ![i] = clock]
  /\ UNCHANGED <<clock, observed, prompt, reader>>

\* A heartbeat that is stored, confirmed or not, carries that time.
BeatsAt(i, outcome) ==
  /\ StoreHeartbeat(i, outcome) /\ InTime(slot[i])
  /\ IF Applied(outcome)
     THEN /\ observed' = [observed EXCEPT ![slot[i]] = answered[i]]
          /\ prompt' = IF clock < Due(slot[i]) + Period THEN prompt \cup {slot[i]} ELSE prompt
     ELSE UNCHANGED <<observed, prompt>>
  /\ UNCHANGED <<clock, reader, answered>>

Works(i) ==
  /\ \/ Begin(i) \/ Healthy(i) \/ AdapterFails(i)
     \/ \E outcome \in Outcomes : MarkSucceeded(i, outcome) \/ MarkFailed(i, outcome)
  /\ InTime(slot[i])
  /\ UNCHANGED <<clock, observed, prompt, reader, answered>>

Dies(i) == Crash(i) /\ UNCHANGED <<clock, observed, prompt, reader, answered>>

Watches == (Tick \/ Ask \/ ReadBeat \/ ReadRuns \/ ReadFails \/ Reports) /\ UNCHANGED job

WatchNext ==
  \/ Watches
  \/ \E i \in Invocations :
       \/ Observes(i) \/ Works(i) \/ Dies(i)
       \/ \E s \in Slots : Starts(i, s)
       \/ \E outcome \in Outcomes : BeatsAt(i, outcome)

WatchSpec == WatchInit /\ [][WatchNext]_watchVars

-----------------------------------------------------------------------------
\* What the report relies on the job does: it writes the tables as RunLedger
\* says, in time, and a heartbeat carries a time between the slot's and the
\* present one, although deliveries repeat and overlap, writes are lost and
\* invocations die.  So all that is said of the report holds of this one.
JobIsWatchable == HealthSpec

\* A report on the job is no better than the job: the heartbeat it goes by
\* was stored by the delivery that executed the slot, and each failure it
\* counts is one that a delivery executed.
Executes(s) == \E i \in owns : slot[i] = s
ReportIsOfExecutions ==
  report # None =>
    /\ report.status = "healthy" => \E s \in Slots : Executes(s) /\ observed[s] = report.beat
    /\ report.failures <= Cardinality({s \in Slots : Executes(s) /\ runs[s] = "failed"})
=============================================================================
