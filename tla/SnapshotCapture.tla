-------------------------- MODULE SnapshotCapture --------------------------
(***************************************************************************)
(* Evidence snapshots: five rows are scheduled per opportunity, invocations*)
(* claim a due row by a conditional update, render, put the image in the   *)
(* bucket and publish the row.  Invocations of the queue consumer and of   *)
(* the cron run concurrently and share the rows; no lock is held between   *)
(* the read of a row and its claim, and none is ever taken back.           *)
(*                                                                         *)
(* A snapshot is an opportunity and a phase; its object key is a function  *)
(* of the two, so a retry overwrites the same object.  Times are hours.    *)
(* armFinalOpportunitySnapshot has no caller, so a final row stays         *)
(* waiting.  faults counts lost, refused or failed store calls and dead    *)
(* invocations; MaxFaults bounds them.  A render may fail without limit:   *)
(* attempt_count ends it.                                                  *)
(***************************************************************************)
EXTENDS Naturals, FiniteSets

CONSTANTS
  Workers, Opportunities,
  Triggered,    \* the hour each opportunity was triggered
  Phases,       \* the phases scheduled
  MaxAttempts,  \* MAX_ATTEMPTS
  BatchLimit,   \* rows one maintenance pass takes
  Times,        \* the hours at which the clock is looked at
  MaxFaults,    \* bound on store faults and dead invocations
  NoRow, NoSnapshot

Offset(p) ==
  CASE p = "trigger" -> 0 [] p = "plus_4h" -> 4 [] p = "plus_12h" -> 12 [] OTHER -> 24

Snapshots == Opportunities \X Phases
Statuses == {"pending", "capturing", "ready", "failed", "waiting_final"}
Row == [status : Statuses, attempts : 0..MaxAttempts]

ASSUME ParameterAssumption ==
  /\ Phases \subseteq {"trigger", "plus_4h", "plus_12h", "plus_24h", "final"}
  /\ MaxAttempts \in Nat \ {0}
  /\ BatchLimit \in Nat \ {0}
  /\ MaxFaults \in Nat
  /\ Times \subseteq Nat
  /\ 0 \in Times
  /\ Triggered \in [Opportunities -> Nat]
  /\ NoRow \notin Row
  /\ NoSnapshot \notin Snapshots

VARIABLES
  rows,    \* opportunity_snapshots
  bucket,  \* snapshots with an image in R2
  pc,      \* the await each worker is at
  todo,    \* the rows it still has to capture
  at,      \* the row it is capturing
  seen,    \* that row as it read it
  now,     \* the clock
  faults

vars == <<rows, bucket, pc, todo, at, seen, now, faults>>

\* The steps at which a worker has claimed its row and not let go of it.
HoldingSteps == {"render", "put", "publish", "fail"}

Outcomes == {"confirmed", "lost", "failed"}
Applied(outcome) == outcome \in {"confirmed", "lost"}

\* Whatever is not confirmed uses up one of the faults.
Charge(outcome) ==
  IF outcome = "confirmed"
  THEN UNCHANGED faults
  ELSE faults < MaxFaults /\ faults' = faults + 1

Goto(w, label) == pc' = [pc EXCEPT ![w] = label]

\* The handler returns from this row and goes on with the next one, or ends.
NextRow(w) ==
  /\ Goto(w, IF todo[w] = {} THEN "idle" ELSE "next")
  /\ at' = [at EXCEPT ![w] = NoSnapshot]
  /\ seen' = [seen EXCEPT ![w] = NoRow]

-----------------------------------------------------------------------------
Init ==
  /\ rows = [s \in Snapshots |-> NoRow]
  /\ bucket = {}
  /\ pc = [w \in Workers |-> "idle"]
  /\ todo = [w \in Workers |-> {}]
  /\ at = [w \in Workers |-> NoSnapshot]
  /\ seen = [w \in Workers |-> NoRow]
  /\ now = 0
  /\ faults = 0

DueAt(s) == Triggered[s[1]] + Offset(s[2])

\* ensureOpportunitySnapshotSchedule: one insert of the five rows, which
\* leaves the rows that exist alone.
WithSchedule(o) ==
  [s \in Snapshots |->
     IF s[1] = o /\ rows[s] = NoRow
     THEN [status |-> IF s[2] = "final" THEN "waiting_final" ELSE "pending", attempts |-> 0]
     ELSE rows[s]]

\* The schedule is made or repaired by itself: by the reconciliation of a
\* maintenance pass, or by a post-processing whose confirmation was lost.
Schedule(o) ==
  /\ \E s \in Snapshots : s[1] = o /\ rows[s] = NoRow
  /\ rows' = WithSchedule(o)
  /\ UNCHANGED <<bucket, pc, todo, at, seen, now, faults>>

\* postProcessOpportunity: schedule, then capture the trigger row at once.
PostProcess(w, o) ==
  /\ pc[w] = "idle"
  /\ "trigger" \in Phases
  /\ rows' = WithSchedule(o)
  /\ todo' = [todo EXCEPT ![w] = {<<o, "trigger">>}]
  /\ Goto(w, "next")
  /\ UNCHANGED <<bucket, at, seen, now, faults>>

\* Mutant: lte for lt in the comparison with MAX_ATTEMPTS.
RetryableOnceMore(row) ==
  /\ row # NoRow
  /\ row.status \in {"pending", "failed"}
  /\ row.attempts <= MaxAttempts

Retryable(row) ==
  /\ row # NoRow
  /\ row.status \in {"pending", "failed"}
  /\ row.attempts < MaxAttempts

Due == {s \in Snapshots : Retryable(rows[s]) /\ DueAt(s) <= now}

\* processDueOpportunitySnapshots: the earliest due rows, at most BatchLimit.
ProcessDue(w) ==
  /\ pc[w] = "idle"
  /\ Due # {}
  /\ \E batch \in SUBSET Due :
       /\ Cardinality(batch) =
            IF Cardinality(Due) < BatchLimit THEN Cardinality(Due) ELSE BatchLimit
       /\ \A s \in batch, t \in Due \ batch : DueAt(s) <= DueAt(t)
       /\ todo' = [todo EXCEPT ![w] = batch]
  /\ Goto(w, "next")
  /\ UNCHANGED <<rows, bucket, at, seen, now, faults>>

\* The next row of the batch, in the order it was listed.
TakeRow(w) ==
  /\ pc[w] = "next"
  /\ \E s \in todo[w] :
       /\ \A t \in todo[w] : DueAt(s) <= DueAt(t)
       /\ at' = [at EXCEPT ![w] = s]
       /\ todo' = [todo EXCEPT ![w] = @ \ {s}]
  /\ Goto(w, "read")
  /\ UNCHANGED <<rows, bucket, seen, now, faults>>

-----------------------------------------------------------------------------
(* captureOpportunitySnapshot                                              *)

ReadRow(w) ==
  /\ pc[w] = "read"
  /\ Retryable(rows[at[w]])
  /\ seen' = [seen EXCEPT ![w] = rows[at[w]]]
  /\ Goto(w, "claim")
  /\ UNCHANGED <<rows, bucket, todo, at, now, faults>>

\* A row that is ready, waiting, being captured or used up is left alone.
PassOver(w) ==
  /\ pc[w] = "read"
  /\ ~Retryable(rows[at[w]])
  /\ NextRow(w)
  /\ UNCHANGED <<rows, bucket, todo, now, faults>>

ReadFails(w) ==
  /\ pc[w] = "read"
  /\ Charge("failed")
  /\ NextRow(w)
  /\ UNCHANGED <<rows, bucket, todo, now>>

\* Mutant: The update is made without the condition on the status.
ClaimUnconditional(w, outcome) ==
  /\ pc[w] = "claim"
  /\ Charge(outcome)
  /\ rows' = IF Applied(outcome)
             THEN [rows EXCEPT ![at[w]] = [status |-> "capturing",
                                           attempts |-> seen[w].attempts + 1]]
             ELSE rows
  /\ IF outcome = "confirmed"
     THEN Goto(w, "render") /\ UNCHANGED <<at, seen>>
     ELSE NextRow(w)
  /\ UNCHANGED <<bucket, todo, now>>

\* Mutant: The claim forgets to count the attempt.
ClaimUncounted(w, outcome) ==
  /\ pc[w] = "claim"
  /\ rows[at[w]].status = seen[w].status
  /\ Charge(outcome)
  /\ rows' = IF Applied(outcome) THEN [rows EXCEPT ![at[w]].status = "capturing"] ELSE rows
  /\ IF outcome = "confirmed"
     THEN Goto(w, "render") /\ UNCHANGED <<at, seen>>
     ELSE NextRow(w)
  /\ UNCHANGED <<bucket, todo, now>>

\* claimSnapshot: the update applies only where the status is still the one
\* read; the count is the one read plus one.
Claim(w, outcome) ==
  /\ pc[w] = "claim"
  /\ rows[at[w]].status = seen[w].status
  /\ Charge(outcome)
  /\ rows' = IF Applied(outcome)
             THEN [rows EXCEPT ![at[w]] = [status |-> "capturing",
                                           attempts |-> seen[w].attempts + 1]]
             ELSE rows
  /\ IF outcome = "confirmed"
     THEN Goto(w, "render") /\ UNCHANGED <<at, seen>>
     ELSE NextRow(w)
  /\ UNCHANGED <<bucket, todo, now>>

ClaimMisses(w) ==
  /\ pc[w] = "claim"
  /\ rows[at[w]].status # seen[w].status
  /\ NextRow(w)
  /\ UNCHANGED <<rows, bucket, todo, now, faults>>

Render(w) ==
  /\ pc[w] = "render"
  /\ Goto(w, "put")
  /\ UNCHANGED <<rows, bucket, todo, at, seen, now, faults>>

\* Mutant: A failed render returns without marking the row.
RenderFailureUnmarked(w) ==
  /\ pc[w] = "render"
  /\ NextRow(w)
  /\ UNCHANGED <<rows, bucket, todo, now, faults>>

\* The opportunity cannot be read, or the browser fails or answers too little.
RenderFails(w) ==
  /\ pc[w] = "render"
  /\ Goto(w, "fail")
  /\ UNCHANGED <<rows, bucket, todo, at, seen, now, faults>>

PutImage(w, outcome) ==
  /\ pc[w] = "put"
  /\ Charge(outcome)
  /\ bucket' = IF Applied(outcome) THEN bucket \cup {at[w]} ELSE bucket
  /\ Goto(w, IF outcome = "confirmed" THEN "publish" ELSE "fail")
  /\ UNCHANGED <<rows, todo, at, seen, now>>

\* Mutant: A publication that is not confirmed is marked as failed.
PublishOrMark(w, outcome) ==
  /\ pc[w] = "publish"
  /\ Charge(outcome)
  /\ rows' = IF Applied(outcome) /\ rows[at[w]].status = "capturing"
             THEN [rows EXCEPT ![at[w]].status = "ready"]
             ELSE rows
  /\ IF outcome = "confirmed"
     THEN NextRow(w)
     ELSE Goto(w, "fail") /\ UNCHANGED <<at, seen>>
  /\ UNCHANGED <<bucket, todo, now>>

\* The row becomes ready where it is still capturing; whatever the answer,
\* nothing more is written.
Publish(w, outcome) ==
  /\ pc[w] = "publish"
  /\ Charge(outcome)
  /\ rows' = IF Applied(outcome) /\ rows[at[w]].status = "capturing"
             THEN [rows EXCEPT ![at[w]].status = "ready"]
             ELSE rows
  /\ NextRow(w)
  /\ UNCHANGED <<bucket, todo, now>>

\* markSnapshotFailed: an unconditional update, best effort.
MarkFailed(w, outcome) ==
  /\ pc[w] = "fail"
  /\ Charge(outcome)
  /\ rows' = IF Applied(outcome) THEN [rows EXCEPT ![at[w]].status = "failed"] ELSE rows
  /\ NextRow(w)
  /\ UNCHANGED <<bucket, todo, now>>

\* The invocation dies at an await.  Nothing gives its row back.
Crash(w) ==
  /\ pc[w] # "idle"
  /\ Charge("failed")
  /\ Goto(w, "idle")
  /\ todo' = [todo EXCEPT ![w] = {}]
  /\ at' = [at EXCEPT ![w] = NoSnapshot]
  /\ seen' = [seen EXCEPT ![w] = NoRow]
  /\ UNCHANGED <<rows, bucket, now>>

Tick ==
  /\ \E t \in Times : t > now /\ now' = t
  /\ UNCHANGED <<rows, bucket, pc, todo, at, seen, faults>>

Capture(w) ==
  \/ TakeRow(w) \/ ReadRow(w) \/ PassOver(w) \/ ReadFails(w)
  \/ \E outcome \in Outcomes : Claim(w, outcome)
  \/ ClaimMisses(w) \/ Render(w) \/ RenderFails(w)
  \/ \E outcome \in Outcomes : PutImage(w, outcome)
  \/ \E outcome \in Outcomes : Publish(w, outcome)
  \/ \E outcome \in Outcomes : MarkFailed(w, outcome)
  \/ Crash(w)

Next ==
  \/ \E o \in Opportunities : Schedule(o)
  \/ \E w \in Workers :
       ProcessDue(w) \/ Capture(w) \/ \E o \in Opportunities : PostProcess(w, o)
  \/ Tick

\* The cron keeps running maintenance, which repairs schedules and processes
\* due rows; an invocation goes on until it ends or dies; time passes.
Fairness ==
  /\ \A o \in Opportunities : WF_vars(Schedule(o))
  /\ \A w \in Workers : WF_vars(Capture(w))
  /\ SF_vars(\E w \in Workers : ProcessDue(w))
  /\ WF_vars(Tick)

Spec == Init /\ [][Next]_vars
FairSpec == Spec /\ Fairness

-----------------------------------------------------------------------------
TypeOK ==
  /\ rows \in [Snapshots -> Row \cup {NoRow}]
  /\ bucket \subseteq Snapshots
  /\ pc \in [Workers -> {"idle", "next", "read", "claim"} \cup HoldingSteps]
  /\ todo \in [Workers -> SUBSET Snapshots]
  /\ at \in [Workers -> Snapshots \cup {NoSnapshot}]
  /\ seen \in [Workers -> Row \cup {NoRow}]
  /\ now \in Times
  /\ faults \in Nat

Holds(w, s) == pc[w] \in HoldingSteps /\ at[w] = s

\* A claim is exclusive: while one invocation works on a row it claimed, the
\* row says capturing and no other invocation works on it, although the
\* claim is decided from a read made earlier and statuses come round again.
ClaimIsExclusive ==
  \A s \in Snapshots : \A v, w \in Workers :
    /\ Holds(w, s) => rows[s] # NoRow /\ rows[s].status = "capturing"
    /\ Holds(v, s) /\ Holds(w, s) => v = w

\* A row that says ready has its image in the bucket ...
Ready(s) == rows[s] # NoRow /\ rows[s].status = "ready"
ReadyHasImage == \A s \in Snapshots : Ready(s) => s \in bucket

\* ... and never changes again: evidence once published stays, whatever
\* late publication, claim or unconditional failure update is on its way.
EvidenceIsDurable ==
  [][ReadyHasImage' /\ \A s \in Snapshots : Ready(s) => rows'[s] = rows[s]]_vars

\* Captured for good, given up, not to be captured, or abandoned: claimed by
\* an invocation that died or missed the answer.
Abandoned(s) ==
  rows[s] # NoRow /\ rows[s].status = "capturing" /\ \A w \in Workers : ~Holds(w, s)

Settled(s) ==
  \/ rows[s] # NoRow /\ (\/ rows[s].status \in {"ready", "waiting_final"}
                         \/ rows[s].attempts = MaxAttempts)
  \/ Abandoned(s)

\* An invocation that lives gives its row back however it fails: a row stays
\* claimed by nobody only where a store call went wrong or an invocation
\* died, one row each time.
AbandonedRows == {s \in Snapshots : Abandoned(s)}
AbandonmentNeedsFault == Cardinality(AbandonedRows) <= faults

\* Every row of every opportunity is settled in the end, none is starved by
\* the batch limit, and an abandoned claim is the only other way to stop.
EverySnapshotSettles == \A s \in Snapshots : <>[]Settled(s)
=============================================================================
