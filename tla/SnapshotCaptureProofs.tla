----------------------- MODULE SnapshotCaptureProofs -----------------------
(***************************************************************************)
(* Proofs about SnapshotCapture for any number of workers, opportunities,  *)
(* attempts, batch sizes, clock readings and faults.                       *)
(***************************************************************************)
EXTENDS SnapshotCapture, FiniteSetTheorems, TLAPS

\* A worker that reads, claims or holds has a row in hand; one that claims
\* read it when it could still be captured, and rows never go away; one that
\* publishes has put the image.
Local(w) ==
  /\ pc[w] \in {"read", "claim"} \cup HoldingSteps => at[w] \in Snapshots
  /\ pc[w] = "claim" => Retryable(seen[w]) /\ rows[at[w]] # NoRow
  /\ pc[w] = "publish" => at[w] \in bucket

IndInv ==
  /\ TypeOK
  /\ \A w \in Workers : Local(w)
  /\ ClaimIsExclusive
  /\ ReadyHasImage

\* What a step of worker w leaves to the other workers.
Frame(w) ==
  \A v \in Workers \ {w} : pc'[v] = pc[v] /\ at'[v] = at[v] /\ seen'[v] = seen[v]

\* A step that changes no row and lets nobody hold a new one.
Quiet ==
  /\ rows' = rows
  /\ bucket \subseteq bucket'
  /\ \A w \in Workers : pc'[w] \in HoldingSteps => pc[w] \in HoldingSteps /\ at'[w] = at[w]

-----------------------------------------------------------------------------
LEMMA RowFacts ==
  /\ NoRow \notin Row
  /\ NoSnapshot \notin Snapshots
  /\ \A r \in Row : r.status \in Statuses /\ r.attempts \in 0..MaxAttempts
BY ParameterAssumption DEF Row

\* Moving on to the next row, or ending, is typed and holds nothing.
LEMMA NextRowFrame ==
  ASSUME TypeOK, NEW w \in Workers, NextRow(w)
  PROVE  /\ Frame(w)
         /\ pc'[w] \in {"idle", "next"}
         /\ pc' \in [Workers -> {"idle", "next", "read", "claim"} \cup HoldingSteps]
         /\ at' \in [Workers -> Snapshots \cup {NoSnapshot}]
         /\ seen' \in [Workers -> Row \cup {NoRow}]
BY DEF NextRow, Goto, TypeOK, Frame

LEMMA GotoFrame ==
  ASSUME TypeOK, NEW w \in Workers, NEW label, Goto(w, label),
         label \in {"idle", "next", "read", "claim"} \cup HoldingSteps
  PROVE  /\ \A v \in Workers \ {w} : pc'[v] = pc[v]
         /\ pc'[w] = label
         /\ pc' \in [Workers -> {"idle", "next", "read", "claim"} \cup HoldingSteps]
BY DEF Goto, TypeOK

LEMMA ChargeTypes ==
  ASSUME TypeOK, NEW outcome, Charge(outcome)
  PROVE  faults' \in Nat
BY DEF Charge, TypeOK

\* The rows that exist are left alone by a schedule, and the new ones are
\* neither ready nor captured.
LEMMA ScheduleRows ==
  ASSUME TypeOK, NEW o \in Opportunities
  PROVE  /\ WithSchedule(o) \in [Snapshots -> Row \cup {NoRow}]
         /\ \A s \in Snapshots : rows[s] # NoRow => WithSchedule(o)[s] = rows[s]
         /\ \A s \in Snapshots : WithSchedule(o)[s] # NoRow /\ rows[s] = NoRow =>
              WithSchedule(o)[s].status \in {"pending", "waiting_final"}
<1>1. 0 \in 0..MaxAttempts
  BY ParameterAssumption
<1>2. /\ [status |-> "pending", attempts |-> 0] \in Row
      /\ [status |-> "waiting_final", attempts |-> 0] \in Row
  BY <1>1 DEF Row, Statuses
<1> QED BY <1>2 DEF WithSchedule, TypeOK

\* A quiet step keeps what the invariant says of rows and holders.
LEMMA QuietStep ==
  ASSUME IndInv, TypeOK', Quiet
  PROVE  ClaimIsExclusive' /\ ReadyHasImage'
<1>1. ASSUME NEW w \in Workers, NEW s \in Snapshots, Holds(w, s)'
      PROVE  Holds(w, s)
  BY <1>1 DEF Quiet, Holds
<1>2. ClaimIsExclusive'
  BY <1>1 DEF IndInv, ClaimIsExclusive, Quiet
<1>3. ReadyHasImage'
  BY DEF IndInv, ReadyHasImage, Ready, Quiet
<1> QED BY <1>2, <1>3

\* A schedule keeps it too: the rows it makes nobody holds.
LEMMA ScheduleStep ==
  ASSUME IndInv, NEW o \in Opportunities, rows' = WithSchedule(o), bucket' = bucket,
         \A w \in Workers : pc'[w] \in HoldingSteps => pc[w] \in HoldingSteps /\ at'[w] = at[w]
  PROVE  ClaimIsExclusive' /\ ReadyHasImage'
<1>1. ASSUME NEW w \in Workers, NEW s \in Snapshots, Holds(w, s)'
      PROVE  Holds(w, s)
  BY <1>1 DEF Holds
<1>2. \A s \in Snapshots : rows[s] # NoRow => rows'[s] = rows[s]
  BY ScheduleRows DEF IndInv
<1>3. \A s \in Snapshots : rows'[s] # NoRow /\ rows'[s].status = "ready" => rows[s] # NoRow
  BY ScheduleRows DEF IndInv
<1>4. ClaimIsExclusive'
  BY <1>1, <1>2 DEF IndInv, ClaimIsExclusive
<1>5. ReadyHasImage'
  BY <1>2, <1>3 DEF IndInv, ReadyHasImage, Ready
<1> QED BY <1>4, <1>5

\* A local invariant survives another worker's step that keeps rows and
\* images in being.
LEMMA OthersLocal ==
  ASSUME IndInv, NEW w \in Workers, Frame(w), bucket \subseteq bucket',
         \A s \in Snapshots : rows[s] # NoRow => rows'[s] # NoRow
  PROVE  \A v \in Workers \ {w} : Local(v)'
<1> SUFFICES ASSUME NEW v \in Workers \ {w} PROVE Local(v)'
  OBVIOUS
<1>1. Local(v) /\ pc'[v] = pc[v] /\ at'[v] = at[v] /\ seen'[v] = seen[v]
  BY DEF IndInv, Frame
<1>2. pc[v] = "claim" => Retryable(seen[v])' /\ rows'[at'[v]] # NoRow
  BY <1>1 DEF Local, Retryable
<1> QED BY <1>1, <1>2 DEF Local

-----------------------------------------------------------------------------
(* One lemma per kind of step.                                             *)

LEMMA ScheduleInv ==
  ASSUME IndInv, NEW o \in Opportunities, Schedule(o)
  PROVE  IndInv'
<1>1. TypeOK'
  BY ScheduleRows DEF IndInv, TypeOK, Schedule
<1>2. \A w \in Workers : Local(w)'
  BY ScheduleRows DEF IndInv, Schedule, Local, Retryable
<1>3. ClaimIsExclusive' /\ ReadyHasImage'
  BY ScheduleStep DEF Schedule
<1> QED BY <1>1, <1>2, <1>3 DEF IndInv

LEMMA PostProcessInv ==
  ASSUME IndInv, NEW w \in Workers, NEW o \in Opportunities, PostProcess(w, o)
  PROVE  IndInv'
<1>1. TypeOK
  BY DEF IndInv
<1>2. /\ \A v \in Workers \ {w} : pc'[v] = pc[v]
      /\ pc'[w] = "next"
      /\ pc' \in [Workers -> {"idle", "next", "read", "claim"} \cup HoldingSteps]
  BY <1>1, GotoFrame DEF PostProcess
<1>3. <<o, "trigger">> \in Snapshots
  BY DEF PostProcess, Snapshots
<1>4. TypeOK'
  BY <1>1, <1>2, <1>3, ScheduleRows DEF TypeOK, PostProcess
<1>5. Local(w)'
  BY <1>2 DEF Local, HoldingSteps
<1>6. \A v \in Workers \ {w} : Local(v)'
  BY <1>1, <1>2, ScheduleRows, OthersLocal DEF PostProcess, Frame
<1>7. ClaimIsExclusive' /\ ReadyHasImage'
  BY <1>2, ScheduleStep DEF PostProcess, HoldingSteps
<1> QED BY <1>4, <1>5, <1>6, <1>7 DEF IndInv

LEMMA ProcessDueInv ==
  ASSUME IndInv, NEW w \in Workers, ProcessDue(w)
  PROVE  IndInv'
<1>1. TypeOK
  BY DEF IndInv
<1>2. /\ \A v \in Workers \ {w} : pc'[v] = pc[v]
      /\ pc'[w] = "next"
      /\ pc' \in [Workers -> {"idle", "next", "read", "claim"} \cup HoldingSteps]
  BY <1>1, GotoFrame DEF ProcessDue
<1>3. todo' \in [Workers -> SUBSET Snapshots]
  BY <1>1 DEF ProcessDue, TypeOK, Due
<1>4. TypeOK'
  BY <1>1, <1>2, <1>3 DEF TypeOK, ProcessDue
<1>5. Local(w)'
  BY <1>2 DEF Local, HoldingSteps
<1>6. \A v \in Workers \ {w} : Local(v)'
  BY <1>2, OthersLocal DEF ProcessDue, Frame
<1>7. Quiet
  BY <1>2 DEF ProcessDue, Quiet, HoldingSteps
<1> QED BY <1>4, <1>5, <1>6, <1>7, QuietStep DEF IndInv

LEMMA TakeRowInv ==
  ASSUME IndInv, NEW w \in Workers, TakeRow(w)
  PROVE  IndInv'
<1>1. TypeOK
  BY DEF IndInv
<1>2. /\ \A v \in Workers \ {w} : pc'[v] = pc[v]
      /\ pc'[w] = "read"
      /\ pc' \in [Workers -> {"idle", "next", "read", "claim"} \cup HoldingSteps]
  BY <1>1, GotoFrame DEF TakeRow
<1>3. /\ at' \in [Workers -> Snapshots \cup {NoSnapshot}]
      /\ at'[w] \in Snapshots
      /\ todo' \in [Workers -> SUBSET Snapshots]
      /\ \A v \in Workers \ {w} : at'[v] = at[v]
  <2>1. PICK s \in todo[w] : /\ at' = [at EXCEPT ![w] = s]
                            /\ todo' = [todo EXCEPT ![w] = @ \ {s}]
    BY DEF TakeRow
  <2>2. s \in Snapshots
    BY <1>1 DEF TypeOK
  <2> QED BY <1>1, <2>1, <2>2 DEF TypeOK
<1>4. TypeOK'
  BY <1>1, <1>2, <1>3 DEF TypeOK, TakeRow
<1>5. Local(w)'
  BY <1>2, <1>3 DEF Local, HoldingSteps
<1>6. \A v \in Workers \ {w} : Local(v)'
  BY <1>2, <1>3, OthersLocal DEF TakeRow, Frame
<1>7. Quiet
  BY <1>2, <1>3 DEF TakeRow, Quiet, HoldingSteps
<1> QED BY <1>4, <1>5, <1>6, <1>7, QuietStep DEF IndInv

LEMMA ReadRowInv ==
  ASSUME IndInv, NEW w \in Workers, ReadRow(w)
  PROVE  IndInv'
<1>1. TypeOK /\ at[w] \in Snapshots
  BY DEF IndInv, Local, ReadRow
<1>2. /\ \A v \in Workers \ {w} : pc'[v] = pc[v]
      /\ pc'[w] = "claim"
      /\ pc' \in [Workers -> {"idle", "next", "read", "claim"} \cup HoldingSteps]
  BY <1>1, GotoFrame DEF ReadRow
<1>3. rows[at[w]] \in Row
  BY <1>1 DEF ReadRow, Retryable, TypeOK
<1>4. TypeOK'
  BY <1>1, <1>2, <1>3 DEF TypeOK, ReadRow
<1>5. Local(w)'
  <2>1. seen'[w] = rows[at[w]] /\ at'[w] = at[w] /\ rows' = rows
    BY <1>1 DEF ReadRow, TypeOK
  <2>2. Retryable(seen[w])' /\ rows'[at'[w]] # NoRow
    BY <2>1 DEF ReadRow, Retryable
  <2> QED BY <1>1, <1>2, <2>1, <2>2 DEF Local, HoldingSteps
<1>6. \A v \in Workers \ {w} : Local(v)'
  BY <1>1, <1>2, OthersLocal DEF ReadRow, Frame, TypeOK
<1>7. Quiet
  BY <1>2 DEF ReadRow, Quiet, HoldingSteps
<1> QED BY <1>4, <1>5, <1>6, <1>7, QuietStep DEF IndInv

\* A row that is passed over, cannot be read or has been claimed by another.
LEMMA LetGoInv ==
  ASSUME IndInv, NEW w \in Workers, NextRow(w), faults' \in Nat,
         UNCHANGED <<rows, bucket, todo, now>>
  PROVE  IndInv'
<1>1. TypeOK
  BY DEF IndInv
<1>2. TypeOK'
  BY <1>1, NextRowFrame DEF TypeOK
<1>3. Local(w)'
  BY <1>1, NextRowFrame DEF Local, HoldingSteps
<1>4. \A v \in Workers \ {w} : Local(v)'
  BY <1>1, NextRowFrame, OthersLocal
<1>5. Quiet
  BY <1>1, NextRowFrame DEF Quiet, Frame, HoldingSteps
<1> QED BY <1>2, <1>3, <1>4, <1>5, QuietStep DEF IndInv

\* The claim: nobody held the row, since its status was not capturing.
LEMMA ClaimInv ==
  ASSUME IndInv, NEW w \in Workers, NEW outcome \in Outcomes, Claim(w, outcome)
  PROVE  IndInv'
<1>1. TypeOK /\ pc[w] = "claim" /\ at[w] \in Snapshots /\ Retryable(seen[w]) /\ rows[at[w]] # NoRow
  BY DEF IndInv, Local, Claim
<1>2. /\ faults' \in Nat
      /\ UNCHANGED <<bucket, todo, now>>
  BY <1>1, ChargeTypes DEF Claim
<1>3. CASE ~Applied(outcome)
  <2>1. NextRow(w) /\ rows' = rows
    BY <1>3 DEF Claim, Applied
  <2> QED BY <1>2, <2>1, LetGoInv
<1>4. CASE Applied(outcome)
  <2> DEFINE claimed == [status |-> "capturing", attempts |-> seen[w].attempts + 1]
  <2>1. rows' = [rows EXCEPT ![at[w]] = claimed]
    BY <1>4 DEF Claim
  <2>2. claimed \in Row /\ claimed # NoRow
    <3>1. seen[w] \in Row
      BY <1>1 DEF TypeOK, Retryable
    <3>2. seen[w].attempts + 1 \in 0..MaxAttempts
      BY <1>1, <3>1, RowFacts, ParameterAssumption DEF Retryable
    <3>3. claimed \in Row
      BY <3>2 DEF Row, Statuses
    <3> QED BY <3>3, RowFacts
  <2>3. /\ rows' \in [Snapshots -> Row \cup {NoRow}]
        /\ rows'[at[w]] = claimed
        /\ \A s \in Snapshots \ {at[w]} : rows'[s] = rows[s]
    BY <1>1, <2>1, <2>2 DEF TypeOK
  <2>4. rows[at[w]].status \in {"pending", "failed"}
    BY <1>1 DEF Claim, Retryable
  <2>5. /\ Frame(w)
        /\ pc' \in [Workers -> {"idle", "next", "read", "claim"} \cup HoldingSteps]
        /\ at' \in [Workers -> Snapshots \cup {NoSnapshot}]
        /\ seen' \in [Workers -> Row \cup {NoRow}]
        /\ \/ pc'[w] \in {"idle", "next"}
           \/ pc'[w] = "render" /\ at'[w] = at[w]
    <3>1. CASE NextRow(w)
      BY <1>1, <3>1, NextRowFrame
    <3>2. CASE Goto(w, "render") /\ UNCHANGED <<at, seen>>
      BY <1>1, <3>2, GotoFrame DEF TypeOK, Frame, HoldingSteps
    <3> QED BY <3>1, <3>2 DEF Claim
  <2>6. TypeOK'
    BY <1>1, <1>2, <2>3, <2>5 DEF TypeOK
  <2>7. Local(w)'
    BY <1>1, <2>5 DEF Local, HoldingSteps
  <2>8. \A v \in Workers \ {w} : Local(v)'
    BY <1>2, <2>2, <2>3, <2>5, OthersLocal
  <2>9. ClaimIsExclusive'
    <3>1. \A v \in Workers : ~Holds(v, at[w])
      BY <1>1, <2>4 DEF IndInv, ClaimIsExclusive
    <3>2. ASSUME NEW v \in Workers, NEW s \in Snapshots, Holds(v, s)'
          PROVE  \/ v # w /\ s # at[w] /\ Holds(v, s)
                 \/ v = w /\ s = at[w]
      BY <2>5, <3>1, <3>2 DEF Holds, Frame, HoldingSteps
    <3> QED BY <2>2, <2>3, <3>2 DEF IndInv, ClaimIsExclusive
  <2>10. ReadyHasImage'
    BY <1>2, <2>3 DEF IndInv, ReadyHasImage, Ready
  <2> QED BY <2>6, <2>7, <2>8, <2>9, <2>10 DEF IndInv
<1> QED BY <1>3, <1>4

\* A holder goes on with the row it holds.
LEMMA GoOnInv ==
  ASSUME IndInv, NEW w \in Workers, NEW label \in HoldingSteps, pc[w] \in HoldingSteps,
         Goto(w, label), faults' \in Nat,
         bucket \subseteq bucket', bucket' \subseteq bucket \cup {at[w]},
         label = "publish" => at[w] \in bucket',
         UNCHANGED <<rows, todo, at, seen, now>>
  PROVE  IndInv'
<1>1. TypeOK /\ at[w] \in Snapshots
  BY DEF IndInv, Local
<1>2. /\ \A v \in Workers \ {w} : pc'[v] = pc[v]
      /\ pc'[w] = label
      /\ pc' \in [Workers -> {"idle", "next", "read", "claim"} \cup HoldingSteps]
  BY <1>1, GotoFrame
<1>3. TypeOK'
  BY <1>1, <1>2 DEF TypeOK
<1>4. Local(w)'
  BY <1>1, <1>2 DEF Local, HoldingSteps
<1>5. \A v \in Workers \ {w} : Local(v)'
  BY <1>2, OthersLocal DEF Frame
<1>6. Quiet
  BY <1>2 DEF Quiet
<1> QED BY <1>3, <1>4, <1>5, <1>6, QuietStep DEF IndInv

\* The holder writes its row, which is capturing, and lets it go.
LEMMA ReleaseInv ==
  ASSUME IndInv, NEW w \in Workers, pc[w] \in HoldingSteps, NextRow(w), faults' \in Nat,
         UNCHANGED <<bucket, todo, now>>,
         NEW status \in {"ready", "failed"}, status = "ready" => at[w] \in bucket,
         rows' = rows \/ rows' = [rows EXCEPT ![at[w]].status = status]
  PROVE  IndInv'
<1>1. CASE rows' = rows
  BY <1>1, LetGoInv
<1>2. CASE rows' = [rows EXCEPT ![at[w]].status = status]
  <2>1. TypeOK /\ at[w] \in Snapshots /\ rows[at[w]] \in Row
    BY DEF IndInv, Local, ClaimIsExclusive, Holds, TypeOK
  <2>2. /\ [rows[at[w]] EXCEPT !.status = status] \in Row
        /\ [rows[at[w]] EXCEPT !.status = status].status = status
    BY <2>1 DEF Row, Statuses
  <2>3. /\ rows' \in [Snapshots -> Row \cup {NoRow}]
        /\ rows'[at[w]] \in Row /\ rows'[at[w]].status = status
        /\ \A s \in Snapshots \ {at[w]} : rows'[s] = rows[s]
    BY <1>2, <2>1, <2>2 DEF TypeOK
  <2>4. TypeOK'
    BY <2>1, <2>3, NextRowFrame DEF TypeOK
  <2>5. Local(w)'
    BY <2>1, NextRowFrame DEF Local, HoldingSteps
  <2>6. \A v \in Workers \ {w} : Local(v)'
    BY <2>1, <2>3, RowFacts, NextRowFrame, OthersLocal
  <2>7. ClaimIsExclusive'
    <3>1. \A v \in Workers : Holds(v, at[w]) => v = w
      BY <2>1 DEF IndInv, ClaimIsExclusive, Holds
    <3>2. ASSUME NEW v \in Workers, NEW s \in Snapshots, Holds(v, s)'
          PROVE  Holds(v, s) /\ s # at[w]
      BY <2>1, <3>1, <3>2, NextRowFrame DEF Holds, Frame, HoldingSteps
    <3> QED BY <2>3, <3>2 DEF IndInv, ClaimIsExclusive
  <2>8. ReadyHasImage'
    BY <2>3 DEF IndInv, ReadyHasImage, Ready
  <2> QED BY <2>4, <2>5, <2>6, <2>7, <2>8 DEF IndInv
<1> QED BY <1>1, <1>2

LEMMA CrashInv ==
  ASSUME IndInv, NEW w \in Workers, Crash(w)
  PROVE  IndInv'
<1>1. TypeOK /\ faults' \in Nat
  BY ChargeTypes DEF IndInv, Crash
<1>2. /\ \A v \in Workers \ {w} : pc'[v] = pc[v]
      /\ pc'[w] = "idle"
      /\ pc' \in [Workers -> {"idle", "next", "read", "claim"} \cup HoldingSteps]
  BY <1>1, GotoFrame DEF Crash
<1>3. TypeOK'
  BY <1>1, <1>2 DEF TypeOK, Crash
<1>4. Local(w)'
  BY <1>2 DEF Local, HoldingSteps
<1>5. \A v \in Workers \ {w} : Local(v)'
  BY <1>1, <1>2, OthersLocal DEF Frame, Crash, TypeOK
<1>6. Quiet
  BY <1>1, <1>2 DEF Quiet, Crash, HoldingSteps, TypeOK
<1> QED BY <1>3, <1>4, <1>5, <1>6, QuietStep DEF IndInv

-----------------------------------------------------------------------------
LEMMA CaptureInv ==
  ASSUME IndInv, NEW w \in Workers, Capture(w)
  PROVE  IndInv'
<1> USE DEF HoldingSteps
<1>1. CASE TakeRow(w)
  BY <1>1, TakeRowInv
<1>2. CASE ReadRow(w)
  BY <1>2, ReadRowInv
<1>3. CASE PassOver(w) \/ ClaimMisses(w)
  BY <1>3, LetGoInv DEF PassOver, ClaimMisses, IndInv, TypeOK
<1>4. CASE ReadFails(w)
  BY <1>4, LetGoInv, ChargeTypes DEF ReadFails, IndInv
<1>5. ASSUME NEW outcome \in Outcomes, Claim(w, outcome) PROVE IndInv'
  BY <1>5, ClaimInv
<1>6. CASE Render(w)
  BY <1>6, GoOnInv DEF Render, IndInv, TypeOK
<1>7. CASE RenderFails(w)
  BY <1>7, GoOnInv DEF RenderFails, IndInv, TypeOK
<1>8. ASSUME NEW outcome \in Outcomes, PutImage(w, outcome) PROVE IndInv'
  <2>1. faults' \in Nat
    BY <1>8, ChargeTypes DEF PutImage, IndInv
  <2>2. CASE outcome = "confirmed"
    <3>1. Goto(w, "publish") /\ bucket' = bucket \cup {at[w]}
      BY <1>8, <2>2 DEF PutImage, Applied
    <3> QED BY <1>8, <2>1, <3>1, GoOnInv DEF PutImage
  <2>3. CASE outcome # "confirmed"
    <3>1. Goto(w, "fail")
      BY <1>8, <2>3 DEF PutImage
    <3> QED BY <1>8, <2>1, <3>1, GoOnInv DEF PutImage
  <2> QED BY <2>2, <2>3
<1>9. ASSUME NEW outcome \in Outcomes, Publish(w, outcome) PROVE IndInv'
  <2>1. faults' \in Nat /\ at[w] \in bucket
    BY <1>9, ChargeTypes DEF Publish, IndInv, Local
  <2>2. rows' = rows \/ rows' = [rows EXCEPT ![at[w]].status = "ready"]
    BY <1>9 DEF Publish
  <2> QED BY <1>9, <2>1, <2>2, ReleaseInv DEF Publish
<1>10. ASSUME NEW outcome \in Outcomes, MarkFailed(w, outcome) PROVE IndInv'
  <2>1. faults' \in Nat
    BY <1>10, ChargeTypes DEF MarkFailed, IndInv
  <2>2. rows' = rows \/ rows' = [rows EXCEPT ![at[w]].status = "failed"]
    BY <1>10 DEF MarkFailed
  <2> QED BY <1>10, <2>1, <2>2, ReleaseInv DEF MarkFailed
<1>11. CASE Crash(w)
  BY <1>11, CrashInv
<1> QED
  BY <1>1, <1>2, <1>3, <1>4, <1>5, <1>6, <1>7, <1>8, <1>9, <1>10, <1>11 DEF Capture

LEMMA StepInv == IndInv /\ [Next]_vars => IndInv'
<1> SUFFICES ASSUME IndInv, [Next]_vars PROVE IndInv'
  OBVIOUS
<1>1. ASSUME NEW o \in Opportunities, Schedule(o) PROVE IndInv'
  BY <1>1, ScheduleInv
<1>2. ASSUME NEW w \in Workers, ProcessDue(w) PROVE IndInv'
  BY <1>2, ProcessDueInv
<1>3. ASSUME NEW w \in Workers, Capture(w) PROVE IndInv'
  BY <1>3, CaptureInv
<1>4. ASSUME NEW w \in Workers, NEW o \in Opportunities, PostProcess(w, o) PROVE IndInv'
  BY <1>4, PostProcessInv
<1>5. CASE Tick
  <2>1. TypeOK'
    BY <1>5 DEF Tick, IndInv, TypeOK
  <2>2. (\A w \in Workers : Local(w))' /\ Quiet
    BY <1>5 DEF Tick, IndInv, Local, Retryable, Quiet
  <2> QED BY <2>1, <2>2, QuietStep DEF IndInv
<1>6. CASE UNCHANGED vars
  <2>1. TypeOK'
    BY <1>6 DEF vars, IndInv, TypeOK
  <2>2. (\A w \in Workers : Local(w))' /\ Quiet
    BY <1>6 DEF vars, IndInv, Local, Retryable, Quiet
  <2> QED BY <2>1, <2>2, QuietStep DEF IndInv
<1> QED BY <1>1, <1>2, <1>3, <1>4, <1>5, <1>6 DEF Next

LEMMA InitInv == Init => IndInv
<1> SUFFICES ASSUME Init PROVE IndInv
  OBVIOUS
<1>1. TypeOK
  BY ParameterAssumption DEF Init, TypeOK
<1>2. \A w \in Workers : Local(w)
  BY DEF Init, Local, HoldingSteps
<1>3. ClaimIsExclusive /\ ReadyHasImage
  BY DEF Init, ClaimIsExclusive, ReadyHasImage, Ready, Holds, HoldingSteps
<1> QED BY <1>1, <1>2, <1>3 DEF IndInv

\* The invariant holds throughout.
THEOREM Invariance == Spec => []IndInv
BY InitInv, StepInv, PTL DEF Spec

\* Every variable keeps its type: in particular attempt_count never passes
\* MAX_ATTEMPTS, although it is written from an earlier read.
THEOREM TypeCorrect == Spec => []TypeOK
<1>1. IndInv => TypeOK
  BY DEF IndInv
<1> QED BY <1>1, Invariance, PTL

\* No two invocations work on one snapshot at a time (claimSnapshot).
THEOREM ClaimsAreExclusive == Spec => []ClaimIsExclusive
<1>1. IndInv => ClaimIsExclusive
  BY DEF IndInv
<1> QED BY <1>1, Invariance, PTL

\* A row that says ready has its image (captureOpportunitySnapshot).
THEOREM ReadyRowsHaveImages == Spec => []ReadyHasImage
<1>1. IndInv => ReadyHasImage
  BY DEF IndInv
<1> QED BY <1>1, Invariance, PTL

\* The step that ReadyIsFinal speaks of: only a claim, a publication and a
\* failure write a row that exists, and none of them meets a ready one.
LEMMA ReadyKept ==
  ASSUME IndInv, [Next]_vars, NEW s \in Snapshots,
         rows[s] # NoRow, rows[s].status = "ready"
  PROVE  rows'[s] = rows[s]
<1>1. CASE rows' = rows
  BY <1>1
<1>2. ASSUME NEW o \in Opportunities, rows' = WithSchedule(o) PROVE rows'[s] = rows[s]
  BY <1>2, ScheduleRows DEF IndInv
<1>3. ASSUME NEW w \in Workers, NEW outcome \in Outcomes,
             Claim(w, outcome) \/ Publish(w, outcome) \/ MarkFailed(w, outcome)
      PROVE  rows'[s] = rows[s]
  <2>1. s # at[w]
    <3>1. CASE Claim(w, outcome)
      BY <3>1 DEF Claim, IndInv, Local, Retryable
    <3>2. CASE Publish(w, outcome) \/ MarkFailed(w, outcome)
      BY <3>2 DEF Publish, MarkFailed, IndInv, ClaimIsExclusive, Holds, HoldingSteps
    <3> QED BY <1>3, <3>1, <3>2
  <2>2. rows \in [Snapshots -> Row \cup {NoRow}]
    BY DEF IndInv, TypeOK
  <2>3. \/ rows' = rows
        \/ \E value : rows' = [rows EXCEPT ![at[w]] = value]
    BY <1>3 DEF Claim, Publish, MarkFailed
  <2> QED BY <2>1, <2>2, <2>3
<1>4. ASSUME NEW w \in Workers, Capture(w) PROVE rows'[s] = rows[s]
  BY <1>1, <1>3, <1>4
  DEF Capture, TakeRow, ReadRow, PassOver, ReadFails, ClaimMisses, Render, RenderFails,
      PutImage, Crash
<1> QED
  BY <1>1, <1>2, <1>4 DEF Next, vars, Schedule, ProcessDue, PostProcess, Tick

\* Evidence that was published keeps its image and its row, whatever late
\* failure update or claim is still on its way (markSnapshotFailed has no
\* condition on the status).
THEOREM EvidenceIsKept == Spec => EvidenceIsDurable
<1>1. IndInv /\ IndInv' /\ [Next]_vars =>
        [ReadyHasImage' /\ \A s \in Snapshots : Ready(s) => rows'[s] = rows[s]]_vars
  BY ReadyKept DEF IndInv, Ready
<1> QED BY <1>1, Invariance, PTL DEF Spec, EvidenceIsDurable

-----------------------------------------------------------------------------
\* Abandoned rows.  A row that a step leaves as it is, or takes out of
\* capturing, is not abandoned by it while whoever held it still does.
LEMMA NotAbandonedBy ==
  ASSUME NEW s \in Snapshots,
         \/ rows'[s] = rows[s]
         \/ rows'[s].status # "capturing",
         \A w \in Workers : Holds(w, s) => Holds(w, s)',
         Abandoned(s)'
  PROVE  Abandoned(s)
BY DEF Abandoned

\* A worker can abandon no row but the one it is at ...
LEMMA OnlyItsOwn ==
  ASSUME IndInv, NEW w \in Workers, Capture(w), NEW s \in Snapshots, s # at[w], Abandoned(s)'
  PROVE  Abandoned(s)
<1> USE DEF IndInv, TypeOK, HoldingSteps
<1>1. rows'[s] = rows[s]
  BY DEF Capture, TakeRow, ReadRow, PassOver, ReadFails, Claim, ClaimMisses, Render,
         RenderFails, PutImage, Publish, MarkFailed, Crash
<1>2. Frame(w)
  BY NextRowFrame
  DEF Capture, TakeRow, ReadRow, PassOver, ReadFails, Claim, ClaimMisses, Render,
      RenderFails, PutImage, Publish, MarkFailed, Crash, Frame, Goto
<1>3. ~Holds(w, s)
  BY DEF Holds
<1>4. \A v \in Workers : Holds(v, s) => Holds(v, s)'
  BY <1>2, <1>3 DEF Frame, Holds
<1> QED BY <1>1, <1>4, NotAbandonedBy

\* ... and that one only when something went wrong.
LEMMA AbandonsAtACost ==
  ASSUME IndInv, NEW w \in Workers, Capture(w), NEW s \in Snapshots, s = at[w], Abandoned(s)'
  PROVE  Abandoned(s) \/ faults' = faults + 1
<1> USE DEF IndInv, TypeOK
<1> SUFFICES ASSUME faults' # faults + 1 PROVE Abandoned(s)
  OBVIOUS
<1>1. CASE TakeRow(w) \/ ReadRow(w) \/ PassOver(w) \/ ClaimMisses(w)
  <2>1. rows' = rows /\ pc[w] \notin HoldingSteps
    BY <1>1 DEF TakeRow, ReadRow, PassOver, ClaimMisses, HoldingSteps
  <2>2. Frame(w)
    BY <1>1, NextRowFrame DEF TakeRow, ReadRow, PassOver, ClaimMisses, Frame, Goto
  <2>3. \A v \in Workers : Holds(v, s) => Holds(v, s)'
    BY <2>1, <2>2 DEF Frame, Holds
  <2> QED BY <2>1, <2>3, NotAbandonedBy
<1>2. CASE Render(w) \/ RenderFails(w)
  <2>1. pc'[w] \in HoldingSteps /\ at' = at
    BY <1>2 DEF Render, RenderFails, Goto, HoldingSteps
  <2> QED BY <2>1 DEF Abandoned, Holds
<1>3. CASE ReadFails(w) \/ Crash(w)
  BY <1>3 DEF ReadFails, Crash, Charge
<1>4. ASSUME NEW outcome \in Outcomes, Claim(w, outcome) \/ PutImage(w, outcome)
      PROVE  Abandoned(s)
  <2>1. outcome = "confirmed"
    BY <1>4 DEF Claim, PutImage, Charge
  <2>2. pc'[w] \in HoldingSteps /\ at' = at
    BY <1>4, <2>1 DEF Claim, PutImage, Goto, HoldingSteps
  <2> QED BY <2>2 DEF Abandoned, Holds
<1>5. ASSUME NEW outcome \in Outcomes, Publish(w, outcome) \/ MarkFailed(w, outcome)
      PROVE  Abandoned(s)
  <2>1. outcome = "confirmed"
    BY <1>5 DEF Publish, MarkFailed, Charge
  <2>2. rows[at[w]] \in Row /\ rows[at[w]].status = "capturing"
    BY <1>5 DEF Publish, MarkFailed, ClaimIsExclusive, Holds, HoldingSteps
  <2>3. rows'[at[w]].status \in {"ready", "failed"}
    BY <1>5, <2>1, <2>2 DEF Publish, MarkFailed, Applied, Row
  <2> QED BY <2>3 DEF Abandoned
<1> QED BY <1>1, <1>2, <1>3, <1>4, <1>5 DEF Capture
\* So a step abandons nothing, or one row at the cost of a fault.
LEMMA AbandonedGrow ==
  ASSUME IndInv, [Next]_vars
  PROVE  \/ AbandonedRows' \subseteq AbandonedRows /\ faults' >= faults
         \/ \E s \in Snapshots :
              AbandonedRows' \subseteq AbandonedRows \cup {s} /\ faults' = faults + 1
<1> USE DEF IndInv, TypeOK
<1>1. ASSUME NEW w \in Workers, Capture(w)
      PROVE  \/ AbandonedRows' \subseteq AbandonedRows /\ faults' >= faults
             \/ \E s \in Snapshots :
                  AbandonedRows' \subseteq AbandonedRows \cup {s} /\ faults' = faults + 1
  <2>1. faults' = faults \/ faults' = faults + 1
    BY <1>1 DEF Capture, TakeRow, ReadRow, PassOver, ReadFails, Claim, ClaimMisses, Render,
       RenderFails, PutImage, Publish, MarkFailed, Crash, Charge
  <2>2. \A s \in Snapshots : s # at[w] /\ Abandoned(s)' => Abandoned(s)
    BY <1>1, OnlyItsOwn
  <2>3. \A s \in Snapshots : s = at[w] /\ Abandoned(s)' => Abandoned(s) \/ faults' = faults + 1
    BY <1>1, AbandonsAtACost
  <2>4. CASE AbandonedRows' \subseteq AbandonedRows
    BY <2>1, <2>4
  <2>5. CASE ~(AbandonedRows' \subseteq AbandonedRows)
    <3>1. PICK s \in Snapshots : Abandoned(s)' /\ ~Abandoned(s)
      BY <2>5 DEF AbandonedRows
    <3>2. s = at[w] /\ faults' = faults + 1
      BY <2>2, <2>3, <3>1
    <3>3. AbandonedRows' \subseteq AbandonedRows \cup {s}
      BY <2>2, <3>2 DEF AbandonedRows
    <3> QED BY <3>2, <3>3
  <2> QED BY <2>4, <2>5
<1>2. ASSUME NEW o \in Opportunities, rows' = WithSchedule(o), faults' = faults,
             \A w \in Workers, s \in Snapshots : Holds(w, s) => Holds(w, s)'
      PROVE  AbandonedRows' \subseteq AbandonedRows /\ faults' >= faults
  <2>1. ASSUME NEW s \in Snapshots, Abandoned(s)' PROVE Abandoned(s)
    <3>1. rows'[s] = rows[s] \/ rows'[s].status # "capturing"
      BY <1>2 DEF WithSchedule
    <3> QED BY <1>2, <2>1, <3>1, NotAbandonedBy
  <2> QED BY <1>2, <2>1 DEF AbandonedRows
<1>3. ASSUME rows' = rows, faults' = faults,
             \A w \in Workers, s \in Snapshots : Holds(w, s) => Holds(w, s)'
      PROVE  AbandonedRows' \subseteq AbandonedRows /\ faults' >= faults
  BY <1>3, NotAbandonedBy DEF AbandonedRows
<1>4. ASSUME NEW o \in Opportunities, Schedule(o)
      PROVE  AbandonedRows' \subseteq AbandonedRows /\ faults' >= faults
  BY <1>2, <1>4 DEF Schedule, Holds
<1>5. ASSUME NEW w \in Workers, NEW o \in Opportunities, PostProcess(w, o)
      PROVE  AbandonedRows' \subseteq AbandonedRows /\ faults' >= faults
  BY <1>2, <1>5 DEF PostProcess, Holds, Goto, HoldingSteps
<1>6. ASSUME NEW w \in Workers, ProcessDue(w)
      PROVE  AbandonedRows' \subseteq AbandonedRows /\ faults' >= faults
  BY <1>3, <1>6 DEF ProcessDue, Holds, Goto, HoldingSteps
<1>7. CASE Tick \/ UNCHANGED vars
  BY <1>3, <1>7 DEF Tick, vars, Holds
<1> QED BY <1>1, <1>4, <1>5, <1>6, <1>7 DEF Next

\* An invocation that lives gives its row back however it fails: claims stay
\* abandoned only where a store call went wrong or an invocation died.
THEOREM AbandonmentHasACause == Spec => []AbandonmentNeedsFault
<1> DEFINE Inv == IsFiniteSet(AbandonedRows) /\ AbandonmentNeedsFault
<1>1. Init => Inv
  <2> SUFFICES ASSUME Init PROVE Inv
    OBVIOUS
  <2>1. AbandonedRows = {}
    BY DEF Init, AbandonedRows, Abandoned
  <2> QED BY <2>1, FS_EmptySet DEF Init, AbandonmentNeedsFault
<1>2. IndInv /\ IndInv' /\ Inv /\ [Next]_vars => Inv'
  <2> SUFFICES ASSUME IndInv, IndInv', Inv, [Next]_vars PROVE Inv'
    OBVIOUS
  <2>1. faults \in Nat /\ faults' \in Nat /\ Cardinality(AbandonedRows) \in Nat
    BY FS_CardinalityType DEF IndInv, TypeOK
  <2>2. CASE AbandonedRows' \subseteq AbandonedRows /\ faults' >= faults
    <3>1. /\ IsFiniteSet(AbandonedRows')
          /\ Cardinality(AbandonedRows') <= Cardinality(AbandonedRows)
          /\ Cardinality(AbandonedRows') \in Nat
      BY <2>2, FS_Subset, FS_CardinalityType
    <3> QED BY <2>1, <2>2, <3>1 DEF AbandonmentNeedsFault
  <2>3. ASSUME NEW s \in Snapshots, AbandonedRows' \subseteq AbandonedRows \cup {s},
               faults' = faults + 1
        PROVE  Inv'
    <3>1. /\ IsFiniteSet(AbandonedRows \cup {s})
          /\ Cardinality(AbandonedRows \cup {s}) <= Cardinality(AbandonedRows) + 1
          /\ Cardinality(AbandonedRows \cup {s}) \in Nat
      <4> DEFINE A == AbandonedRows
      <4> HIDE DEF A
      <4>1. IsFiniteSet(A) /\ Cardinality(A) \in Nat
        BY <2>1 DEF A
      <4>2. /\ IsFiniteSet(A \cup {s})
            /\ Cardinality(A \cup {s}) = IF s \in A THEN Cardinality(A) ELSE Cardinality(A) + 1
        BY <4>1, FS_AddElement
      <4> QED BY <4>1, <4>2 DEF A
    <3>2. /\ IsFiniteSet(AbandonedRows')
          /\ Cardinality(AbandonedRows') <= Cardinality(AbandonedRows \cup {s})
          /\ Cardinality(AbandonedRows') \in Nat
      BY <2>3, <3>1, FS_Subset, FS_CardinalityType
    <3> QED BY <2>1, <2>3, <3>1, <3>2 DEF AbandonmentNeedsFault
  <2> QED BY <2>2, <2>3, AbandonedGrow
<1> QED BY <1>1, <1>2, Invariance, PTL DEF Spec
=============================================================================
