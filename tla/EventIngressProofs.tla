------------------------- MODULE EventIngressProofs -------------------------
(***************************************************************************)
(* Proofs about EventIngress for any number of invocations, bodies, keys   *)
(* and inputs, and about SignalContract for any submissions, limits and    *)
(* payloads.                                                               *)
(***************************************************************************)
EXTENDS EventIngress, SignalContract, FiniteSetTheorems, WellFoundedInduction, TLAPS

Admitted(r) == pc[r] \notin {"idle", "rejected"}

\* An invocation past the screen keeps the admissible input it was given,
\* and only such an invocation has issued an insert.
AdmittedInput ==
  \A r \in Requests :
    /\ Admitted(r) => input[r] \in Input /\ Admissible(input[r])
    /\ write[r] # "none" => Admitted(r)

\* A committed insert is the row under its key, and every row is the
\* committed insert of the request whose id it carries.
RowsAreInserts ==
  /\ \A r \in Requests : write[r] = "inserted" =>
       ledger[KeyOf(input[r])] = [id |-> r, body |-> input[r].body]
  /\ \A k \in Keys : ledger[k] # NoRow =>
       /\ write[ledger[k].id] = "inserted"
       /\ KeyOf(input[ledger[k].id]) = k

\* From the moment a target is chosen it is the row under the key, and the
\* row holds the request's body.
TargetIsRecorded ==
  \A r \in Requests : pc[r] \in {"dispatch", "sent", "accepted"} =>
    /\ target[r] \in Requests
    /\ ledger[KeyOf(input[r])] = [id |-> target[r], body |-> input[r].body]

SentIsQueued ==
  \A r \in Requests : pc[r] \in {"sent", "accepted"} =>
    [by |-> r, event |-> target[r]] \in queue

\* A request told 409 met a row under its key with another body.
RefusedByOther ==
  \A r \in Requests : pc[r] = "conflict" =>
    /\ ledger[KeyOf(input[r])] # NoRow
    /\ ledger[KeyOf(input[r])].body # input[r].body

IndInv ==
  /\ TypeOK
  /\ AdmittedInput
  /\ RowsAreInserts
  /\ TargetIsRecorded
  /\ SentIsQueued
  /\ MessagesHaveEvents
  /\ RefusedByOther

-----------------------------------------------------------------------------
\* The key of an admissible input is a key the ledger indexes.
LEMMA KeyOfAdmissible ==
  ASSUME NEW i \in Input, Admissible(i)
  PROVE  KeyOf(i) \in Keys /\ i.body \in Bodies
BY KeyAssumption DEF Input, Admissible, KeyOf, Routes

\* Nothing is received, recorded or sent at first.
LEMMA InitEstablishes == Init => IndInv
BY NullAssumption, KeyAssumption
   DEF Init, IndInv, TypeOK, AdmittedInput, RowsAreInserts, TargetIsRecorded,
       SentIsQueued, MessagesHaveEvents, RefusedByOther, Admitted

\* What no step takes back: an admitted invocation's input, a ledger row, a
\* queued message, a committed insert.
LEMMA NothingTakenBack ==
  ASSUME TypeOK, AdmittedInput, [Next]_vars
  PROVE  /\ \A r \in Requests : Admitted(r) => Admitted(r)' /\ input'[r] = input[r]
         /\ \A k \in Keys : ledger[k] # NoRow => ledger'[k] = ledger[k]
         /\ queue \subseteq queue'
         /\ \A r \in Requests : write[r] = "inserted" => write'[r] = "inserted"
<1> DEFINE Kept ==
      /\ \A r \in Requests : Admitted(r) => Admitted(r)' /\ input'[r] = input[r]
      /\ \A k \in Keys : ledger[k] # NoRow => ledger'[k] = ledger[k]
      /\ queue \subseteq queue'
      /\ \A r \in Requests : write[r] = "inserted" => write'[r] = "inserted"
<1> USE DEF TypeOK, Admitted, Goto
<1>1. ASSUME NEW r \in Requests, Receive(r) PROVE Kept
  BY <1>1 DEF Receive, Reject, Begin, AdmittedInput
<1>2. ASSUME NEW r \in Requests, Database(r) PROVE Kept
  BY <1>2 DEF Database, DbInsert, DropInsert
<1>3. ASSUME NEW r \in Requests, Handler(r) PROVE Kept
  BY <1>3 DEF Handler, Created, Ambiguous, Replay, Conflict, LookupFails,
              Enqueue, Accept, SendFails
<1>4. ASSUME NEW r \in Requests, Crash(r) PROVE Kept
  BY <1>4 DEF Crash, Awaiting
<1>5. CASE UNCHANGED vars
  BY <1>5 DEF vars
<1> QED BY <1>1, <1>2, <1>3, <1>4, <1>5 DEF Next

\* Every step of the handlers and of the database keeps the state typed.
LEMMA TypeStep ==
  ASSUME TypeOK, AdmittedInput, TargetIsRecorded, [Next]_vars
  PROVE  TypeOK'
<1> USE DEF TypeOK
<1>1. ASSUME NEW r \in Requests, Receive(r) PROVE TypeOK'
  BY <1>1, InputAssumption DEF Receive, Reject, Begin, Goto, Answers, Awaiting
<1>2. ASSUME NEW r \in Requests, DbInsert(r) PROVE TypeOK'
  <2>1. input[r] \in Input /\ Admissible(input[r])
    BY <1>2 DEF DbInsert, AdmittedInput
  <2>2. KeyOf(input[r]) \in Keys /\ input[r].body \in Bodies
    BY <2>1, KeyOfAdmissible
  <2> QED BY <1>2, <2>2 DEF DbInsert, Row
<1>3. ASSUME NEW r \in Requests, DropInsert(r) PROVE TypeOK'
  BY <1>3 DEF DropInsert
<1>4. ASSUME NEW r \in Requests, Replay(r) PROVE TypeOK'
  <2>1. KeyOf(input[r]) \in Keys
    BY <1>4, KeyOfAdmissible DEF Replay, AdmittedInput, Admitted
  <2>2. ledger[KeyOf(input[r])] \in Row
    BY <1>4, <2>1 DEF Replay
  <2> QED BY <1>4, <2>2 DEF Replay, Row, Goto, Awaiting
<1>5. ASSUME NEW r \in Requests, Enqueue(r) PROVE TypeOK'
  <2>1. [by |-> r, event |-> target[r]] \in [by : Requests, event : Requests]
    BY <1>5 DEF Enqueue, TargetIsRecorded
  <2> QED BY <1>5, <2>1 DEF Enqueue, Goto, Awaiting
<1>6. ASSUME NEW r \in Requests,
             Created(r) \/ Ambiguous(r) \/ Conflict(r) \/ LookupFails(r)
             \/ Accept(r) \/ SendFails(r) \/ Crash(r)
      PROVE TypeOK'
  BY <1>6 DEF Created, Ambiguous, Conflict, LookupFails, Accept, SendFails, Crash,
              Goto, Awaiting, Answers
<1>7. CASE UNCHANGED vars
  BY <1>7 DEF vars
<1> QED BY <1>1, <1>2, <1>3, <1>4, <1>5, <1>6, <1>7 DEF Next, Database, Handler

\* The input of an admitted invocation is set once, by Begin.
LEMMA AdmittedInputStep ==
  ASSUME TypeOK, AdmittedInput, [Next]_vars
  PROVE  AdmittedInput'
<1> USE DEF TypeOK, AdmittedInput, Admitted, Goto
<1>1. ASSUME NEW r \in Requests, Receive(r) PROVE AdmittedInput'
  BY <1>1, InputAssumption DEF Receive, Reject, Begin
<1>2. ASSUME NEW r \in Requests, Database(r) PROVE AdmittedInput'
  BY <1>2 DEF Database, DbInsert, DropInsert
<1>3. ASSUME NEW r \in Requests, Handler(r) PROVE AdmittedInput'
  BY <1>3 DEF Handler, Created, Ambiguous, Replay, Conflict, LookupFails,
              Enqueue, Accept, SendFails
<1>4. ASSUME NEW r \in Requests, Crash(r) PROVE AdmittedInput'
  BY <1>4 DEF Crash, Awaiting
<1>5. CASE UNCHANGED vars
  BY <1>5 DEF vars
<1> QED BY <1>1, <1>2, <1>3, <1>4, <1>5 DEF Next

\* Only DbInsert writes the ledger, and it writes the inserter's own row
\* under a free key.
LEMMA RowsAreInsertsStep ==
  ASSUME TypeOK, TypeOK', AdmittedInput, RowsAreInserts, [Next]_vars
  PROVE  RowsAreInserts'
<1>1. ASSUME NEW r \in Requests, DbInsert(r) PROVE RowsAreInserts'
  <2> DEFINE k == KeyOf(input[r])
  <2>1. k \in Keys
    BY <1>1, KeyOfAdmissible DEF DbInsert, AdmittedInput
  <2>2. input' = input
    BY <1>1 DEF DbInsert
  <2>3. CASE ledger[k] = NoRow
    <3>1. /\ ledger' = [ledger EXCEPT ![k] = [id |-> r, body |-> input[r].body]]
          /\ write' = [write EXCEPT ![r] = "inserted"]
      BY <1>1, <2>3 DEF DbInsert
    <3>2. \A s \in Requests : write[s] = "inserted" => KeyOf(input[s]) # k
      <4> SUFFICES ASSUME NEW s \in Requests, write[s] = "inserted", KeyOf(input[s]) = k
                   PROVE  FALSE
        OBVIOUS
      <4>1. NoRow = [id |-> s, body |-> input[s].body]
        BY <2>3 DEF RowsAreInserts
      <4>2. input[s].body \in Bodies
        BY KeyOfAdmissible DEF AdmittedInput
      <4> QED BY <4>1, <4>2, NullAssumption DEF Row
    <3>3. \A s \in Requests : write'[s] = "inserted" =>
            ledger'[KeyOf(input[s])] = [id |-> s, body |-> input[s].body]
      BY <2>1, <3>1, <3>2 DEF RowsAreInserts, TypeOK
    <3>4. \A j \in Keys : ledger'[j] # NoRow =>
            write'[ledger'[j].id] = "inserted" /\ KeyOf(input[ledger'[j].id]) = j
      BY <2>1, <3>1 DEF RowsAreInserts, TypeOK, Row
    <3> QED BY <2>2, <3>3, <3>4 DEF RowsAreInserts
  <2>4. CASE ledger[k] # NoRow
    <3>1. ledger' = ledger /\ write' = [write EXCEPT ![r] = "refused"]
      BY <1>1, <2>4 DEF DbInsert
    <3> QED BY <1>1, <2>2, <3>1 DEF DbInsert, RowsAreInserts, TypeOK, Row
  <2> QED BY <2>3, <2>4
<1>2. ASSUME NEW r \in Requests, DropInsert(r) PROVE RowsAreInserts'
  BY <1>2 DEF DropInsert, RowsAreInserts, TypeOK, Row
<1>3. ASSUME NEW r \in Requests, Receive(r) PROVE RowsAreInserts'
  BY <1>3 DEF Receive, Reject, Begin, RowsAreInserts, AdmittedInput, Admitted, TypeOK, Row
<1>4. CASE UNCHANGED <<input, write, ledger>>
  BY <1>4 DEF RowsAreInserts
<1>5. ASSUME NEW r \in Requests, Handler(r) \/ Crash(r)
      PROVE  UNCHANGED <<input, write, ledger>>
  BY <1>5 DEF Handler, Created, Ambiguous, Replay, Conflict, LookupFails,
              Enqueue, Accept, SendFails, Crash
<1> QED BY <1>1, <1>2, <1>3, <1>4, <1>5 DEF Next, Database, vars

\* A target is chosen from a 201 for the handler's own row or from the row
\* read back, and that row stays.
LEMMA TargetStep ==
  ASSUME TypeOK, AdmittedInput, RowsAreInserts, TargetIsRecorded, [Next]_vars
  PROVE  TargetIsRecorded'
<1> SUFFICES ASSUME NEW s \in Requests, pc'[s] \in {"dispatch", "sent", "accepted"}
             PROVE  /\ target'[s] \in Requests
                    /\ ledger'[KeyOf(input'[s])]
                         = [id |-> target'[s], body |-> input'[s].body]
  BY DEF TargetIsRecorded
<1>1. Admitted(s) => /\ KeyOf(input[s]) \in Keys
                     /\ input[s].body \in Bodies
                     /\ input'[s] = input[s]
  BY NothingTakenBack, KeyOfAdmissible DEF AdmittedInput
<1>2. CASE pc[s] \in {"dispatch", "sent", "accepted"}
  <2>1. target'[s] = target[s]
    BY <1>2 DEF Next, vars, Receive, Reject, Begin, Database, DbInsert, DropInsert,
                Handler, Created, Ambiguous, Replay, Conflict, LookupFails, Enqueue,
                Accept, SendFails, Crash, TypeOK
  <2>2. ledger[KeyOf(input[s])] # NoRow
    <3>1. target[s] \in Requests /\ input[s].body \in Bodies
      BY <1>1, <1>2 DEF TargetIsRecorded, Admitted
    <3>2. [id |-> target[s], body |-> input[s].body] \in Row
      BY <3>1 DEF Row
    <3> QED BY <1>2, <3>2, NullAssumption DEF TargetIsRecorded
  <2> QED BY <1>1, <1>2, <2>1, <2>2, NothingTakenBack DEF TargetIsRecorded, Admitted
<1>3. CASE pc[s] \notin {"dispatch", "sent", "accepted"}
  <2>1. Created(s) \/ Replay(s)
    BY <1>3 DEF Next, vars, Receive, Reject, Begin, Database, DbInsert, DropInsert,
                Handler, Created, Ambiguous, Replay, Conflict, LookupFails, Enqueue,
                Accept, SendFails, Crash, TypeOK, Goto
  <2>2. CASE Created(s)
    BY <2>2, <1>1 DEF Created, RowsAreInserts, TypeOK, Admitted
  <2>3. CASE Replay(s)
    BY <2>3, <1>1 DEF Replay, SameBody, TypeOK, Row, Admitted
  <2> QED BY <2>1, <2>2, <2>3
<1> QED BY <1>2, <1>3
\* Enqueue puts the message in the queue before an answer can be given.
LEMMA SentStep ==
  ASSUME TypeOK, SentIsQueued, [Next]_vars
  PROVE  SentIsQueued'
<1> USE DEF SentIsQueued, TypeOK, Goto
<1>1. ASSUME NEW r \in Requests, Receive(r) \/ Database(r) PROVE SentIsQueued'
  BY <1>1 DEF Receive, Reject, Begin, Database, DbInsert, DropInsert
<1>2. ASSUME NEW r \in Requests, Handler(r) PROVE SentIsQueued'
  BY <1>2 DEF Handler, Created, Ambiguous, Replay, Conflict, LookupFails,
              Enqueue, Accept, SendFails
<1>3. ASSUME NEW r \in Requests, Crash(r) PROVE SentIsQueued'
  BY <1>3 DEF Crash
<1>4. CASE UNCHANGED vars
  BY <1>4 DEF vars
<1> QED BY <1>1, <1>2, <1>3, <1>4 DEF Next

\* Enqueue sends the recorded target, and ledger rows stay.
LEMMA MessagesStep ==
  ASSUME TypeOK, AdmittedInput, TargetIsRecorded, MessagesHaveEvents, [Next]_vars
  PROVE  MessagesHaveEvents'
<1> SUFFICES ASSUME NEW m \in queue'
             PROVE  \E k \in Keys : ledger'[k] # NoRow /\ ledger'[k].id = m.event
  BY DEF MessagesHaveEvents
<1>1. CASE m \in queue
  BY <1>1, NothingTakenBack DEF MessagesHaveEvents
<1>2. CASE m \notin queue
  <2>1. PICK r \in Requests : Enqueue(r)
    BY <1>2 DEF Next, vars, Receive, Reject, Begin, Database, DbInsert, DropInsert,
                Handler, Created, Ambiguous, Replay, Conflict, LookupFails, Enqueue,
                Accept, SendFails, Crash
  <2>2. m.event = target[r] /\ pc[r] = "dispatch" /\ ledger' = ledger
    BY <1>2, <2>1 DEF Enqueue
  <2>3. KeyOf(input[r]) \in Keys /\ input[r].body \in Bodies
    BY <2>2, KeyOfAdmissible DEF AdmittedInput, Admitted
  <2>4. /\ target[r] \in Requests
        /\ ledger[KeyOf(input[r])] = [id |-> target[r], body |-> input[r].body]
    BY <2>2 DEF TargetIsRecorded
  <2>5. ledger[KeyOf(input[r])] \in Row
    BY <2>3, <2>4 DEF Row
  <2> QED BY <2>2, <2>3, <2>4, <2>5, NullAssumption
<1> QED BY <1>1, <1>2

\* A 409 rests on a row, and rows stay.
LEMMA RefusedStep ==
  ASSUME TypeOK, AdmittedInput, RefusedByOther, [Next]_vars
  PROVE  RefusedByOther'
<1> SUFFICES ASSUME NEW s \in Requests, pc'[s] = "conflict"
             PROVE  /\ ledger'[KeyOf(input'[s])] # NoRow
                    /\ ledger'[KeyOf(input'[s])].body # input'[s].body
  BY DEF RefusedByOther
<1>1. pc[s] = "conflict" \/ Conflict(s)
  BY DEF Next, vars, Receive, Reject, Begin, Database, DbInsert, DropInsert,
         Handler, Created, Ambiguous, Replay, Conflict, LookupFails, Enqueue,
         Accept, SendFails, Crash, TypeOK, Goto
<1>2. Admitted(s)
  BY <1>1 DEF Admitted, Conflict
<1>3. input'[s] = input[s] /\ KeyOf(input[s]) \in Keys
  BY <1>2, NothingTakenBack, KeyOfAdmissible DEF AdmittedInput
<1>4. /\ ledger[KeyOf(input[s])] # NoRow
      /\ ledger[KeyOf(input[s])].body # input[s].body
  BY <1>1 DEF Conflict, SameBody, RefusedByOther
<1> QED BY <1>3, <1>4, NothingTakenBack

\* Every reachable state of the ingress satisfies the inductive invariant.
THEOREM Invariance == Spec => []IndInv
<1>1. Init => IndInv
  BY InitEstablishes
<1>2. IndInv /\ [Next]_vars => IndInv'
  BY TypeStep, AdmittedInputStep, RowsAreInsertsStep, TargetStep, SentStep,
     MessagesStep, RefusedStep DEF IndInv
<1> QED BY <1>1, <1>2, PTL DEF Spec

-----------------------------------------------------------------------------
\* The state of the ingress is always typed (event-ingress.ts, event-store.ts).
THEOREM TypeCorrect == Spec => []TypeOK
BY Invariance, PTL DEF IndInv

\* A 202 is never given before the event is in the ledger under the request's
\* key with its body and the message is in the queue.
THEOREM AcceptanceDurable == Spec => []AcceptedIsDurable
<1>1. IndInv => AcceptedIsDurable
  BY DEF IndInv, AcceptedIsDurable, Accepted, TargetIsRecorded, SentIsQueued
<1> QED BY <1>1, Invariance, PTL

\* Any two acceptances under one key name one event and one body, whatever
\* the number of retries, replays, lost answers and crashes.
THEOREM AcceptanceAgrees == Spec => []AcceptedAgree
<1>1. IndInv => AcceptedAgree
  <2> SUFFICES ASSUME IndInv, NEW r \in Requests, NEW s \in Requests,
                      pc[r] = "accepted", pc[s] = "accepted",
                      KeyOf(input[r]) = KeyOf(input[s])
               PROVE  target[r] = target[s] /\ input[r].body = input[s].body
    BY DEF AcceptedAgree, Accepted
  <2> DEFINE Answered(q) == [id |-> target[q], body |-> input[q].body]
  <2>1. ledger[KeyOf(input[r])] = Answered(r) /\ ledger[KeyOf(input[s])] = Answered(s)
    BY DEF IndInv, TargetIsRecorded
  <2>2. Answered(r) = Answered(s)
    BY <2>1
  <2>3. Answered(r).id = Answered(s).id /\ Answered(r).body = Answered(s).body
    BY <2>2
  <2> QED BY <2>3
<1> QED BY <1>1, Invariance, PTL

\* The queue never holds a message about an event the ledger does not have.
THEOREM DispatchFollowsPersistence == Spec => []MessagesHaveEvents
BY Invariance, PTL DEF IndInv

\* A 409 is only given to a body the ledger does not hold under the key, and
\* never because of the request's own insert.
THEOREM ConflictsAreGenuine == Spec => []ConflictIsGenuine
<1>1. IndInv => ConflictIsGenuine
  <2> SUFFICES ASSUME IndInv, NEW r \in Requests, pc[r] = "conflict"
               PROVE  /\ ledger[KeyOf(input[r])] # NoRow
                      /\ ledger[KeyOf(input[r])].body # input[r].body
                      /\ ledger[KeyOf(input[r])].id # r
    BY DEF ConflictIsGenuine
  <2>1. KeyOf(input[r]) \in Keys
    BY KeyOfAdmissible DEF IndInv, AdmittedInput, Admitted
  <2>2. /\ ledger[KeyOf(input[r])] # NoRow
        /\ ledger[KeyOf(input[r])].body # input[r].body
    BY DEF IndInv, RefusedByOther
  <2>3. ASSUME ledger[KeyOf(input[r])].id = r PROVE FALSE
    <3>1. write[r] = "inserted"
      BY <2>1, <2>2, <2>3 DEF IndInv, RowsAreInserts
    <3>2. ledger[KeyOf(input[r])] = [id |-> r, body |-> input[r].body]
      BY <3>1 DEF IndInv, RowsAreInserts
    <3>3. [id |-> r, body |-> input[r].body].body = input[r].body
      OBVIOUS
    <3> QED BY <2>2, <3>2, <3>3
  <2> QED BY <2>2, <2>3
<1> QED BY <1>1, Invariance, PTL
-----------------------------------------------------------------------------
(* The ingress implements IdempotentIntake.                                *)

\* The ids of the messages, as the intake's published set.
Published == {m.event : m \in queue}

\* A step that changes neither what was asked nor what was answered and
\* leaves the stores alone is a stutter of the intake.
LEMMA Stutter ==
  ASSUME \A r \in Requests : Asked(r)' = Asked(r) /\ Answer(r)' = Answer(r),
         ledger' = ledger, queue' = queue
  PROVE  UNCHANGED Intake!vars
BY DEF Intake!vars

\* An answer given by pc alone.
LEMMA TellStep ==
  ASSUME NEW r \in Requests, NEW what \in {"failed", "accepted", "conflict"},
         Answer(r) = "none", Answer(r)' = what,
         \A s \in Requests : Asked(s)' = Asked(s),
         \A s \in Requests \ {r} : Answer(s)' = Answer(s),
         ledger' = ledger, queue' = queue
  PROVE  Intake!Tell(r, what)
BY DEF Intake!Tell

\* What the intake knows of an admitted request.
LEMMA AskedOfAdmitted ==
  ASSUME IndInv, NEW r \in Requests, Admitted(r)
  PROVE  /\ Asked(r) = [key |-> KeyOf(input[r]), body |-> input[r].body]
         /\ Asked(r) # NoInput
         /\ KeyOf(input[r]) \in Keys /\ input[r].body \in Bodies
<1>1. KeyOf(input[r]) \in Keys /\ input[r].body \in Bodies
  BY KeyOfAdmissible DEF IndInv, AdmittedInput
<1>2. Asked(r) = [key |-> KeyOf(input[r]), body |-> input[r].body]
  BY DEF Admitted, Asked
<1> QED BY <1>1, <1>2, NullAssumption

\* Every step of the ingress is a step of the intake or a stutter.
LEMMA IntakeStep ==
  ASSUME IndInv, [Next]_vars
  PROVE  [Intake!Next]_(Intake!vars)
<1> USE DEF IndInv, TypeOK, Goto
<1>1. ASSUME NEW r \in Requests, NEW i \in Inputs, Reject(r, i)
      PROVE  Intake!Next
  <2>1. /\ Answer(r) = "none" /\ Answer(r)' = "failed"
        /\ \A s \in Requests : Asked(s)' = Asked(s)
        /\ \A s \in Requests \ {r} : Answer(s)' = Answer(s)
    BY <1>1 DEF Reject, Answer, Asked
  <2>2. Intake!Tell(r, "failed")
    BY <1>1, <2>1, TellStep DEF Reject
  <2> QED BY <2>2 DEF Intake!Next
<1>2. ASSUME NEW r \in Requests, NEW i \in Inputs, Begin(r, i)
      PROVE  Intake!Next
  <2>1. KeyOf(i) \in Keys /\ i.body \in Bodies
    BY <1>2, InputAssumption, KeyOfAdmissible DEF Begin
  <2>2. /\ Asked(r) = NoInput /\ Asked(r)' = [key |-> KeyOf(i), body |-> i.body]
        /\ Answer(r) = "none"
    BY <1>2 DEF Begin, Asked, Answer
  <2>3. /\ \A s \in Requests \ {r} : Asked(s)' = Asked(s)
        /\ \A s \in Requests : Answer(s)' = Answer(s)
    BY <1>2 DEF Begin, Asked, Answer
  <2>4. [s \in Requests |-> Asked(s)]' =
          [[s \in Requests |-> Asked(s)] EXCEPT ![r] = [key |-> KeyOf(i), body |-> i.body]]
    BY <2>2, <2>3
  <2>5. [s \in Requests |-> Answer(s)]' = [s \in Requests |-> Answer(s)]
    BY <2>3
  <2>6. Intake!Ask(r)
    BY <1>2, <2>1, <2>2, <2>4, <2>5 DEF Begin, Intake!Ask
  <2> QED BY <2>6 DEF Intake!Next
<1>3. ASSUME NEW r \in Requests, DbInsert(r)
      PROVE  Intake!Next \/ UNCHANGED Intake!vars
  <2>1. Admitted(r)
    BY <1>3 DEF DbInsert, AdmittedInput
  <2>2. \A s \in Requests : Asked(s)' = Asked(s) /\ Answer(s)' = Answer(s)
    BY <1>3 DEF DbInsert, Asked, Answer
  <2>3. CASE ledger[KeyOf(input[r])] = NoRow
    <3>1. Intake!Bind(r)
      BY <1>3, <2>1, <2>2, <2>3, AskedOfAdmitted DEF DbInsert, Intake!Bind
    <3> QED BY <3>1 DEF Intake!Next
  <2>4. CASE ledger[KeyOf(input[r])] # NoRow
    BY <1>3, <2>2, <2>4, Stutter DEF DbInsert
  <2> QED BY <2>3, <2>4
<1>4. ASSUME NEW r \in Requests,
             DropInsert(r) \/ Created(r) \/ Ambiguous(r) \/ Replay(r)
      PROVE  UNCHANGED Intake!vars
  <2>1. ledger' = ledger /\ queue' = queue
    BY <1>4 DEF DropInsert, Created, Ambiguous, Replay
  <2>2. \A s \in Requests : Asked(s)' = Asked(s) /\ Answer(s)' = Answer(s)
    BY <1>4 DEF DropInsert, Created, Ambiguous, Replay, Asked, Answer
  <2> QED BY <2>1, <2>2, Stutter
<1>5. ASSUME NEW r \in Requests, Conflict(r)
      PROVE  Intake!Next
  <2>1. Admitted(r)
    BY <1>5 DEF Conflict, Admitted
  <2>2. /\ Answer(r) = "none" /\ Answer(r)' = "conflict"
        /\ \A s \in Requests : Asked(s)' = Asked(s)
        /\ \A s \in Requests \ {r} : Answer(s)' = Answer(s)
    BY <1>5 DEF Conflict, Answer, Asked
  <2>3. Intake!Tell(r, "conflict")
    BY <1>5, <2>2, TellStep DEF Conflict
  <2>4. Intake!Conflict(r)
    BY <1>5, <2>1, <2>3, AskedOfAdmitted DEF Conflict, SameBody, Intake!Conflict
  <2> QED BY <2>4 DEF Intake!Next
<1>6. ASSUME NEW r \in Requests, LookupFails(r) \/ SendFails(r) \/ Crash(r)
      PROVE  Intake!Next
  <2>1. /\ Answer(r) = "none" /\ Answer(r)' = "failed"
        /\ \A s \in Requests : Asked(s)' = Asked(s)
        /\ \A s \in Requests \ {r} : Answer(s)' = Answer(s)
    BY <1>6 DEF LookupFails, SendFails, Crash, Answer, Asked, Awaiting
  <2>2. Intake!Tell(r, "failed")
    BY <1>6, <2>1, TellStep DEF LookupFails, SendFails, Crash
  <2> QED BY <2>2 DEF Intake!Next
<1>7. ASSUME NEW r \in Requests, Enqueue(r)
      PROVE  Intake!Next
  <2>1. Admitted(r)
    BY <1>7 DEF Enqueue, Admitted
  <2>2. \A s \in Requests : Asked(s)' = Asked(s) /\ Answer(s)' = Answer(s)
    BY <1>7 DEF Enqueue, Asked, Answer
  <2>3. ledger[KeyOf(input[r])] = [id |-> target[r], body |-> input[r].body]
    BY <1>7 DEF Enqueue, TargetIsRecorded
  <2>4. target[r] \in Requests
    BY <1>7 DEF Enqueue, TargetIsRecorded
  <2>5. ledger[KeyOf(input[r])] # NoRow
    BY <2>1, <2>3, <2>4, AskedOfAdmitted, NullAssumption DEF Row
  <2>6. Published' = Published \cup {target[r]}
    <3> DEFINE sent == [by |-> r, event |-> target[r]]
    <3>1. queue' = queue \cup {sent}
      BY <1>7 DEF Enqueue
    <3>2. {m.event : m \in queue \cup {sent}} = {m.event : m \in queue} \cup {sent.event}
      OBVIOUS
    <3>3. sent.event = target[r]
      OBVIOUS
    <3> QED BY <3>1, <3>2, <3>3 DEF Published
  <2>7. PICK k \in Keys : k = KeyOf(input[r])
    BY <2>1, AskedOfAdmitted
  <2>8. Intake!Publish(k)
    BY <1>7, <2>2, <2>3, <2>5, <2>6, <2>7 DEF Enqueue, Published, Intake!Publish
  <2> QED BY <2>8 DEF Intake!Next
<1>8. ASSUME NEW r \in Requests, Accept(r)
      PROVE  Intake!Next
  <2>1. Admitted(r)
    BY <1>8 DEF Accept, Admitted
  <2>2. /\ Answer(r) = "none" /\ Answer(r)' = "accepted"
        /\ \A s \in Requests : Asked(s)' = Asked(s)
        /\ \A s \in Requests \ {r} : Answer(s)' = Answer(s)
    BY <1>8 DEF Accept, Answer, Asked
  <2>3. Intake!Tell(r, "accepted")
    BY <1>8, <2>2, TellStep DEF Accept
  <2>4. /\ target[r] \in Requests
        /\ ledger[KeyOf(input[r])] = [id |-> target[r], body |-> input[r].body]
    BY <1>8 DEF Accept, TargetIsRecorded
  <2>5. ledger[KeyOf(input[r])] # NoRow
    BY <2>1, <2>4, AskedOfAdmitted, NullAssumption DEF Row
  <2>6. [by |-> r, event |-> target[r]] \in queue
    BY <1>8 DEF Accept, SentIsQueued
  <2>7. target[r] \in Published
    BY <2>6 DEF Published
  <2>8. Intake!Accept(r)
    BY <2>1, <2>3, <2>4, <2>5, <2>7, AskedOfAdmitted DEF Published, Intake!Accept
  <2> QED BY <2>8 DEF Intake!Next
<1>9. CASE UNCHANGED vars
  <2>1. \A s \in Requests : Asked(s)' = Asked(s) /\ Answer(s)' = Answer(s)
    BY <1>9 DEF vars, Asked, Answer
  <2> QED BY <1>9, <2>1, Stutter DEF vars
<1> QED
  BY <1>1, <1>2, <1>3, <1>4, <1>5, <1>6, <1>7, <1>8, <1>9
     DEF Next, Receive, Database, Handler

\* The acceptance routes keep the promise of IdempotentIntake: one event and
\* one body per key for ever, publication only of bound events, acceptance
\* only for a bound, published event.
THEOREM IngressImplementsIntake == Spec => ImplementsIntake
<1>1. Init => Intake!Init
  <2> SUFFICES ASSUME Init PROVE Intake!Init
    OBVIOUS
  <2>1. \A r \in Requests : Asked(r) = NoInput /\ Answer(r) = "none"
    BY DEF Init, Asked, Answer
  <2>2. {m.event : m \in queue} = {}
    BY DEF Init
  <2> QED BY <2>1, <2>2 DEF Init, Intake!Init
<1>2. IndInv /\ [Next]_vars => [Intake!Next]_(Intake!vars)
  BY IntakeStep
<1> QED BY <1>1, <1>2, Invariance, PTL DEF Spec, ImplementsIntake, Intake!Spec
-----------------------------------------------------------------------------
(* What the routes admit is stored.                                        *)

\* What the journey knows at each of its stages: the body is of its route;
\* past the screen the route's rules hold of it; past the ledger its event is
\* one the ledger takes; only alerts come to the decoder, and what it makes
\* of one is the signal the body stands for.
Passed(stages) == journey.stage \in stages

Kept ==
  /\ journey \in [route : {"tradingview", "events"}, body : Submissions \cup Envelopes,
                  stage : {"submitted", "rejected", "admitted", "unavailable", "recorded",
                           "dead", "decoded", "stored"},
                  signal : Signals \cup {Undecoded}]
  /\ journey.body \in IF journey.route = "tradingview" THEN Submissions ELSE Envelopes
  /\ Passed({"admitted", "unavailable", "recorded", "dead", "decoded", "stored"}) =>
       IF journey.route = "tradingview"
       THEN ValidateTradingViewPayload(journey.body, Now) = "ok"
       ELSE ValidateEventEnvelope(journey.body)
  /\ Passed({"unavailable"}) => ~LedgerAdmits(Envelope)
  /\ Passed({"recorded", "dead", "decoded", "stored"}) => LedgerAdmits(Envelope)
  /\ Passed({"dead", "decoded", "stored"}) => journey.route = "tradingview"
  /\ Passed({"decoded", "stored"}) => journey.signal = Identity(journey.body)
  /\ Passed({"dead"}) => journey.body.strategy_version.value > MaxInteger

JourneyInv == journey = NoJourney \/ Kept

\* A text keeps to its limit only with a natural number of characters, and
\* encoding takes at most nine characters for one of them.
LEMMA EncodedLength ==
  ASSUME NEW t \in Texts, NEW maximum \in Nat, HasLength(t, maximum)
  PROVE  t.width * t.length \in Nat /\ t.width * t.length <= 9 * maximum
<1>1. t.length \in 1..maximum /\ t.width \in 1..9
  BY DEF Texts, HasLength
<1>2. \A w \in 1..9 : w * t.length \in Nat /\ w * t.length <= 9 * t.length
  BY <1>1
<1>3. 9 * t.length <= 9 * maximum
  BY <1>1
<1> QED BY <1>1, <1>2, <1>3

\* The webhook's rules, one by one.
LEMMA AdmittedAlert ==
  ASSUME NEW b \in Submissions, ValidateTradingViewPayload(b, Now) = "ok"
  PROVE  /\ IsMachineId(b.signal_type, 64)
         /\ IsMachineId(b.strategy_id, 64)
         /\ IsPositiveInteger(b.strategy_version)
         /\ IsCleanProviderString(b.exchange, 64)
         /\ IsCleanProviderString(b.ticker, 128)
         /\ IsCleanProviderString(b.interval, 32)
         /\ b.bar_time.form = "utc" /\ b.triggered_at.form = "utc"
         /\ b.direction \in {"absent", "long", "short", "neutral"}
         /\ b.setup_key = Absent \/ IsMachineId(b.setup_key, 128)
         /\ b.payload.kind = "object"
BY DEF ValidateTradingViewPayload, NormalizeUtcInstant, IsBoundedPayload

\* Of an instant in UTC nothing is lost on the way.
LEMMA InstantKept ==
  ASSUME NEW i \in Instants, i.form = "utc"
  PROVE  /\ NormalizeUtcInstant(i) = i
         /\ NormalizeInstant(i) = i
         /\ i # NoInstant
BY DEF Instants, NormalizeUtcInstant, NormalizeInstant, NoInstant

\* The consumer's decoder takes every admitted alert and makes of it the
\* signal it stands for.
LEMMA AlertDecodes ==
  ASSUME NEW b \in Submissions, ValidateTradingViewPayload(b, Now) = "ok"
  PROVE  /\ Identity(b) \in Signals
         /\ DecodeTradingViewSignal(SignalPayload(b)) = Identity(b)
<1> DEFINE p == SignalPayload(b)
<1>1. /\ b.bar_time \in Instants /\ b.triggered_at \in Instants
      /\ b.strategy_version \in Numbers
      /\ b.direction \in Directions
      /\ {b.signal_type, b.strategy_id, b.exchange, b.ticker, b.interval, b.setup_key} \subseteq Texts
  BY SubmissionAssumption
<1>2. /\ NormalizeUtcInstant(b.bar_time) = b.bar_time
      /\ NormalizeUtcInstant(b.triggered_at) = b.triggered_at
      /\ NormalizeInstant(b.bar_time) = b.bar_time
      /\ NormalizeInstant(b.triggered_at) = b.triggered_at
      /\ b.bar_time # NoInstant /\ b.triggered_at # NoInstant
  BY <1>1, AdmittedAlert, InstantKept
<1>3. Identity(b) \in Signals
  BY <1>1 DEF Identity, Signals, Numbers
<1>4. p = [signal_type |-> b.signal_type, strategy_id |-> b.strategy_id,
           strategy_version |-> b.strategy_version, exchange |-> b.exchange,
           ticker |-> b.ticker, interval |-> b.interval, bar_time |-> b.bar_time,
           triggered_at |-> b.triggered_at, payload |-> b.payload,
           direction |-> b.direction, setup_key |-> b.setup_key]
  BY <1>2 DEF SignalPayload, copyOptionalFields
<1>5. /\ DecodesMachineId(p.signal_type, 64)
      /\ DecodesMachineId(p.strategy_id, 64)
      /\ p.strategy_version.whole /\ p.strategy_version.value > 0
      /\ DecodesProviderString(p.exchange, 64)
      /\ DecodesProviderString(p.ticker, 128)
      /\ DecodesProviderString(p.interval, 32)
      /\ p.direction \in {"absent", "long", "short", "neutral"}
      /\ p.setup_key = Absent \/ DecodesMachineId(p.setup_key, 128)
      /\ p.payload.kind = "object"
  BY <1>4, AdmittedAlert
     DEF IsMachineId, DecodesMachineId, IsCleanProviderString, DecodesProviderString,
         IsPositiveInteger
<1>6. NormalizeInstant(p.bar_time) = b.bar_time /\ NormalizeInstant(p.triggered_at) = b.triggered_at
  BY <1>2, <1>4
<1>7. DecodeTradingViewSignal(p) =
        [signal_type |-> p.signal_type, strategy_id |-> p.strategy_id,
         strategy_version |-> p.strategy_version.value, exchange |-> p.exchange,
         ticker |-> p.ticker, interval |-> p.interval,
         bar_time |-> b.bar_time, triggered_at |-> b.triggered_at,
         direction |-> p.direction, setup_key |-> p.setup_key]
  <2> HIDE DEF p
  <2> QED BY <1>2, <1>5, <1>6 DEF DecodeTradingViewSignal
<1>8. DecodeTradingViewSignal(p) = Identity(b)
  BY <1>4, <1>7 DEF Identity
<1> QED BY <1>3, <1>8

\* The table takes the opportunity of an admitted alert whose event the
\* ledger took, but for a version its column cannot hold.
LEMMA SignalIsStorable ==
  ASSUME NEW b \in Submissions, ValidateTradingViewPayload(b, Now) = "ok",
         LedgerAdmits(SignalEnvelope(b)), b.strategy_version.value <= MaxInteger
  PROVE  TableAdmits(Identity(b))
<1> DEFINE signal == Identity(b)
<1>1. /\ b.triggered_at \in Instants
      /\ b.strategy_version \in Numbers
      /\ b.exchange \in Texts /\ b.ticker \in Texts
  BY SubmissionAssumption
<1>2. signal.triggered_at.storable
  <2>1. NormalizeUtcInstant(b.triggered_at) = b.triggered_at
    BY <1>1, AdmittedAlert, InstantKept
  <2>2. SignalEnvelope(b).occurred_at = b.triggered_at
    BY <2>1 DEF SignalEnvelope
  <2> QED BY <2>2 DEF LedgerAdmits, Identity
<1>3. signal.strategy_version \in 1..MaxInteger
  BY <1>1, AdmittedAlert, ContractAssumption DEF IsPositiveInteger, Numbers, Identity
<1>4. /\ HasLength(signal.exchange, 64) /\ HasLength(signal.ticker, 128)
      /\ HasLength(signal.interval, 32)
  BY AdmittedAlert DEF IsCleanProviderString, Identity
<1>5. /\ StrategyIdCheck(signal.strategy_id)
      /\ signal.direction \in {"absent", "long", "short", "neutral"}
      /\ signal.setup_key = Absent \/ HasLength(signal.setup_key, 128)
  BY AdmittedAlert DEF IsMachineId, StrategyIdCheck, Identity
<1>6. DeepLinkLength(signal) <= 2048
  <2> DEFINE exchange == b.exchange.width * b.exchange.length
  <2> DEFINE ticker == b.ticker.width * b.ticker.length
  <2>1. exchange \in Nat /\ exchange <= 9 * 64
    BY <1>1, <1>4, EncodedLength DEF Identity
  <2>2. ticker \in Nat /\ ticker <= 9 * 128
    BY <1>1, <1>4, EncodedLength DEF Identity
  <2>3. DeepLinkLength(signal) = 42 + exchange + 3 + ticker
    BY DEF DeepLinkLength, Identity
  <2> HIDE DEF exchange, ticker
  <2> QED BY <2>1, <2>2, <2>3
<1> HIDE DEF signal
<1>7. TableAdmits(signal)
  BY <1>2, <1>3, <1>4, <1>5, <1>6 DEF TableAdmits
<1> QED BY <1>7 DEF signal

\* The ledger takes what either route admits, but for the exceptions.
LEMMA AlertIsRecorded ==
  ASSUME NEW b \in Submissions, ValidateTradingViewPayload(b, Now) = "ok",
         SignalEnvelope(b).occurred_at.storable, MaxInteger > 0
  PROVE  LedgerAdmits(SignalEnvelope(b))
<1>1. SignalEnvelope(b).event_version.whole /\ SignalEnvelope(b).event_version.value \in 1..MaxInteger
  BY ContractAssumption DEF SignalEnvelope, One
<1> QED BY <1>1 DEF LedgerAdmits, SignalEnvelope, Absent

LEMMA EnvelopeIsRecorded ==
  ASSUME NEW e \in Envelopes, ValidateEventEnvelope(e), e.occurred_at.storable,
         ~(e.event_version.value > MaxInteger),
         "unknown" \notin {e.source_id, e.provenance_record_id, e.causation_event_id}
  PROVE  LedgerAdmits(e)
<1>1. /\ e.event_version \in Numbers
      /\ e.source_id \in References /\ e.provenance_record_id \in References
      /\ e.causation_event_id \in References
      /\ e.subject_type \in Texts
  BY SubmissionAssumption
<1>2. e.event_version.whole /\ e.event_version.value \in 1..MaxInteger
  BY <1>1, ContractAssumption DEF ValidateEventEnvelope, IsPositiveInteger, Numbers
<1>3. {e.source_id, e.provenance_record_id, e.causation_event_id} \subseteq {"absent", "known"}
  BY <1>1 DEF ValidateEventEnvelope, References
<1>4. e.subject_type = Absent \/ (e.subject_type.form = "name" /\ e.subject_type.length <= 64)
  BY <1>1 DEF ValidateEventEnvelope, HasLength, Texts
<1> QED BY <1>2, <1>3, <1>4 DEF ValidateEventEnvelope, LedgerAdmits

\* The steps keep the invariant.
LEMMA JourneyStep ==
  ASSUME JourneyInv, [Travel]_journey
  PROVE  JourneyInv'
<1>1. CASE Submit
  <2>1. ASSUME NEW b \in Submissions, journey' = Submitted("tradingview", b)
        PROVE  Kept'
    BY <2>1 DEF Kept, Passed, Submitted
  <2>2. ASSUME NEW e \in Envelopes, journey' = Submitted("events", e)
        PROVE  Kept'
    BY <2>2 DEF Kept, Passed, Submitted
  <2> QED BY <1>1, <2>1, <2>2 DEF Submit, JourneyInv
<1>2. CASE Screen
  <2>1. Kept
    BY <1>2 DEF Screen, At, JourneyInv
  <2> QED BY <1>2, <2>1 DEF Screen, At, Goes, Kept, Passed, JourneyInv
<1>3. CASE Record
  <2>1. Kept
    BY <1>3 DEF Record, At, JourneyInv
  <2>2. journey' = [journey EXCEPT !.stage = IF LedgerAdmits(Envelope) THEN "recorded"
                                             ELSE "unavailable"]
    BY <1>3 DEF Record, Goes
  <2>3. Envelope' = Envelope
    BY <2>1, <2>2 DEF Envelope, Kept
  <2>4. LedgerAdmits(Envelope)' <=> LedgerAdmits(Envelope)
    BY <2>3 DEF LedgerAdmits
  <2> QED BY <1>3, <2>1, <2>2, <2>4 DEF Record, At, Kept, Passed, JourneyInv
<1>4. CASE Decode
  <2>1. Kept
    BY <1>4 DEF Decode, At, JourneyInv
  <2> DEFINE signal == DecodeTradingViewSignal(SignalPayload(journey.body))
  <2>2. /\ journey.route = "tradingview" /\ journey.body \in Submissions
        /\ ValidateTradingViewPayload(journey.body, Now) = "ok"
        /\ LedgerAdmits(Envelope)
    BY <1>4, <2>1 DEF Decode, At, OnRoute, Kept, Passed
  <2>3. signal = Identity(journey.body) /\ signal \in Signals /\ signal # Undecoded
    BY <2>2, AlertDecodes, SubmissionAssumption
  <2> HIDE DEF signal
  <2>4. journey' = [journey EXCEPT !.signal = signal, !.stage = "decoded"]
    BY <1>4, <2>3 DEF Decode, signal
  <2>5. Envelope' = Envelope
    BY <2>1, <2>4 DEF Envelope, Kept
  <2>6. LedgerAdmits(Envelope)'
    BY <2>2, <2>5 DEF LedgerAdmits
  <2>7. Identity(journey.body)' = signal
    BY <2>1, <2>3, <2>4 DEF Kept, Identity
  <2> QED BY <2>1, <2>2, <2>3, <2>4, <2>6, <2>7 DEF Kept, Passed, JourneyInv
<1>5. CASE Materialise
  <2>1. Kept
    BY <1>5 DEF Materialise, At, JourneyInv
  <2>2. /\ journey.route = "tradingview" /\ journey.body \in Submissions
        /\ ValidateTradingViewPayload(journey.body, Now) = "ok"
        /\ LedgerAdmits(SignalEnvelope(journey.body))
        /\ journey.signal = Identity(journey.body)
    BY <1>5, <2>1 DEF Materialise, At, Kept, Passed, Envelope
  <2>3. journey.body.strategy_version.value \in Int
    BY <2>2, SubmissionAssumption DEF Numbers
  <2>4. ~TableAdmits(journey.signal) => journey.body.strategy_version.value > MaxInteger
    BY <2>2, <2>3, SignalIsStorable, ContractAssumption
  <2>5. journey' = [journey EXCEPT !.stage = IF TableAdmits(journey.signal) THEN "stored"
                                             ELSE "dead"]
    BY <1>5 DEF Materialise, Goes
  <2>6. Envelope' = Envelope
    BY <2>1, <2>5 DEF Envelope, Kept
  <2>7. LedgerAdmits(Envelope)'
    BY <2>2, <2>6 DEF LedgerAdmits, Envelope
  <2>8. Identity(journey.body)' = Identity(journey.body)
    BY <2>1, <2>5 DEF Kept, Identity
  <2> QED BY <2>1, <2>2, <2>4, <2>5, <2>7, <2>8 DEF Kept, Passed, JourneyInv
<1>6. CASE UNCHANGED journey
  <2>1. Envelope' = Envelope
    BY <1>6 DEF Envelope
  <2> QED BY <1>6, <2>1 DEF JourneyInv, Kept, Passed, LedgerAdmits, Identity
<1> QED BY <1>1, <1>2, <1>3, <1>4, <1>5, <1>6 DEF Travel

LEMMA JourneyInvariance == JourneySpec => []JourneyInv
<1>1. InitJourney => JourneyInv
  BY DEF InitJourney, JourneyInv
<1> QED BY <1>1, JourneyStep, PTL DEF JourneySpec

\* What a route admits, the ledger records, the decoder decodes and the
\* table stores, for any limits of the integer columns, any bodies and
\* payloads; the exceptions are a version that no integer column holds, a
\* time no timestamp holds and references to rows that do not exist.
THEOREM AdmittedIsStored == JourneySpec => []AcceptedIsStorable
<1>1. JourneyInv => AcceptedIsStorable
  <2> SUFFICES ASSUME journey # NoJourney, Kept PROVE AcceptedIsStorable
    BY DEF JourneyInv, AcceptedIsStorable, At
  <2>1. ASSUME journey.stage = "unavailable"
        PROVE  \/ ~Envelope.occurred_at.storable
               \/ Envelope.event_version.value > MaxInteger
               \/ "unknown" \in {Envelope.source_id, Envelope.provenance_record_id,
                                 Envelope.causation_event_id}
    <3>1. ~LedgerAdmits(Envelope)
      BY <2>1 DEF Kept, Passed
    <3>2. CASE journey.route = "tradingview"
      <4>1. /\ journey.body \in Submissions
            /\ ValidateTradingViewPayload(journey.body, Now) = "ok"
            /\ Envelope = SignalEnvelope(journey.body)
        BY <2>1, <3>2 DEF Kept, Passed, Envelope
      <4>2. Envelope.event_version.value = 1
        BY <4>1 DEF SignalEnvelope, One
      <4> QED BY <3>1, <4>1, <4>2, AlertIsRecorded, ContractAssumption
    <3>3. CASE journey.route # "tradingview"
      <4>1. /\ journey.body \in Envelopes
            /\ ValidateEventEnvelope(journey.body)
            /\ Envelope = journey.body
        BY <2>1, <3>3 DEF Kept, Passed, Envelope
      <4> QED BY <3>1, <4>1, EnvelopeIsRecorded
    <3> QED BY <3>2, <3>3
  <2>2. journey.stage = "dead" => journey.body.strategy_version.value > MaxInteger
    BY DEF Kept, Passed
  <2>3. journey.stage = "stored" => journey.signal = Identity(journey.body)
    BY DEF Kept, Passed
  <2> QED BY <2>1, <2>2, <2>3 DEF AcceptedIsStorable, At
<1> QED BY <1>1, JourneyInvariance, PTL

-----------------------------------------------------------------------------
(* The walk through a payload stops at the limit and still judges it.      *)

Less == {p \in Nat \X Nat : p[1] < p[2]}

\* A set of naturals that is not empty has a least element; one with a bound
\* has a greatest.
LEMMA LeastOf ==
  ASSUME NEW T \in SUBSET Nat, T # {}
  PROVE  \E m \in T : \A n \in T : m <= n
<1>1. IsWellFoundedOn(Less, Nat)
  BY NatLessThanWellFounded DEF OpToRel, Less
<1>2. PICK m \in T : \A n \in T : ~ (<<n, m>> \in Less)
  BY <1>1, WFMin
<1>3. ASSUME NEW n \in T, n < m PROVE FALSE
  <2>1. <<n, m>> \in Less
    BY <1>3 DEF Less
  <2> QED BY <1>2, <2>1
<1> QED BY <1>2, <1>3

LEMMA MaxOf ==
  ASSUME NEW bound \in Nat, NEW T \in SUBSET (0..bound), T # {}
  PROVE  Max(T) \in T /\ \A n \in T : Max(T) >= n
<1> DEFINE Gaps == {k \in Nat : \E n \in T : k = bound - n}
<1>1. PICK n \in T : TRUE
  OBVIOUS
<1>2. bound - n \in Gaps
  BY <1>1
<1>3. PICK k \in Gaps : \A other \in Gaps : k <= other
  BY <1>2, LeastOf
<1>4. PICK m \in T : k = bound - m
  BY <1>3
<1>5. ASSUME NEW other \in T PROVE m >= other
  <2>1. bound - other \in Gaps
    OBVIOUS
  <2>2. k <= bound - other
    BY <1>3, <2>1
  <2> QED BY <1>4, <2>2
<1>6. \E x \in T : \A y \in T : x >= y
  BY <1>4, <1>5
<1> QED BY <1>6 DEF Max

\* What the walk makes of a value at a depth, given what it makes of the
\* values one level further in.
DepthOf(deeper, depth, value) ==
  IF value.kind = "scalar" \/ depth > MaxDepth THEN depth
  ELSE Max({depth} \cup {deeper[child] : child \in value.children})

\* There is such a walk: its levels are found from the limit upwards.
LEMMA WalkExists ==
  \E walk : walk = [depth \in Depths |->
                     [value \in Payloads |-> DepthOf(walk[depth + 1], depth, value)]]
<1> DEFINE Levels(k) == {d \in Depths : d >= k}
<1> DEFINE IsWalk(walk, k) ==
      walk = [depth \in Levels(k) |->
                [value \in Payloads |-> DepthOf(walk[depth + 1], depth, value)]]
<1> DEFINE Known == {k \in Depths : \E walk : IsWalk(walk, k)}
<1>1. MaxDepth + 1 \in Known
  <2> DEFINE last == [depth \in Levels(MaxDepth + 1) |-> [value \in Payloads |-> depth]]
  <2>1. \A depth \in Levels(MaxDepth + 1) : \A value \in Payloads :
          DepthOf(last[depth + 1], depth, value) = depth
    BY ContractAssumption DEF Depths, DepthOf
  <2>2. IsWalk(last, MaxDepth + 1)
    BY <2>1
  <2>3. MaxDepth + 1 \in Depths
    BY ContractAssumption DEF Depths
  <2> HIDE DEF last, IsWalk
  <2> QED BY <2>2, <2>3
<1>2. ASSUME NEW k \in Known, k # 0 PROVE k - 1 \in Known
  <2>1. PICK walk : IsWalk(walk, k)
    OBVIOUS
  <2> DEFINE longer ==
        [depth \in Levels(k - 1) |->
           IF depth = k - 1
           THEN [value \in Payloads |-> DepthOf(walk[k], depth, value)]
           ELSE walk[depth]]
  <2>2. ASSUME NEW depth \in Levels(k - 1)
        PROVE  longer[depth] =
                 [value \in Payloads |-> DepthOf(longer[depth + 1], depth, value)]
    <3>1. k \in Levels(k - 1) /\ longer[k] = walk[k]
      BY ContractAssumption DEF Depths
    <3>2. CASE depth = k - 1
      <4>1. longer[depth + 1] = walk[k]
        BY <3>1, <3>2, ContractAssumption DEF Depths
      <4> QED BY <3>2, <4>1
    <3>3. CASE depth # k - 1
      <4>1. depth \in Levels(k) /\ longer[depth] = walk[depth]
        BY <3>3, ContractAssumption DEF Depths
      <4>2. walk[depth] = [value \in Payloads |-> DepthOf(walk[depth + 1], depth, value)]
        BY <2>1, <4>1
      <4>3. CASE depth = MaxDepth + 1
        <5>1. \A value \in Payloads :
                DepthOf(walk[depth + 1], depth, value) = DepthOf(longer[depth + 1], depth, value)
          BY <4>3, ContractAssumption DEF DepthOf
        <5> QED BY <4>1, <4>2, <5>1
      <4>4. CASE depth # MaxDepth + 1
        <5>1. longer[depth + 1] = walk[depth + 1]
          BY <3>3, <4>4, ContractAssumption DEF Depths
        <5> QED BY <4>1, <4>2, <5>1
      <4> QED BY <4>3, <4>4
    <3> QED BY <3>2, <3>3
  <2>3. IsWalk(longer, k - 1)
    BY <2>2
  <2>4. k - 1 \in Depths
    BY <1>2, ContractAssumption DEF Depths
  <2> QED BY <2>3, <2>4
<1>3. Known \subseteq Nat
  BY ContractAssumption DEF Depths
<1>4. PICK k \in Known : \A other \in Known : k <= other
  BY <1>1, <1>3, LeastOf
<1>5. k = 0
  <2> HIDE DEF Known
  <2>1. k \in Nat
    BY <1>3, <1>4
  <2>2. k # 0 => k <= k - 1
    BY <1>2, <1>4
  <2> QED BY <2>1, <2>2
<1>6. PICK walk : IsWalk(walk, 0)
  BY <1>4, <1>5
<1>7. Levels(0) = Depths
  BY ContractAssumption DEF Depths
<1> HIDE DEF Levels
<1> QED BY <1>6, <1>7

LEMMA DepthFromIs ==
  /\ DepthFrom = [depth \in Depths |->
                    [value \in Payloads |-> DepthOf(DepthFrom[depth + 1], depth, value)]]
  /\ \A depth \in Depths : \A value \in Payloads :
       DepthFrom[depth][value] = DepthOf(DepthFrom[depth + 1], depth, value)
<1>1. DepthFrom = CHOOSE walk : walk =
        [depth \in Depths |-> [value \in Payloads |-> DepthOf(walk[depth + 1], depth, value)]]
  BY DEF DepthFrom, DepthOf
<1>2. DepthFrom = [depth \in Depths |->
                    [value \in Payloads |-> DepthOf(DepthFrom[depth + 1], depth, value)]]
  BY <1>1, WalkExists
<1>3. ASSUME NEW depth \in Depths, NEW value \in Payloads
      PROVE  DepthFrom[depth][value] = DepthOf(DepthFrom[depth + 1], depth, value)
  <2>1. DepthFrom[depth] = [v \in Payloads |-> DepthOf(DepthFrom[depth + 1], depth, v)]
    BY <1>2
  <2> QED BY <2>1
<1> QED BY <1>2, <1>3

\* The same of the values that lie so many levels inside: those are found
\* from the outside inwards.
InsideOf(outer, levels, value) ==
  IF levels = 0 THEN {value} ELSE UNION {v.children : v \in outer[value]}

LEMMA InsideExists ==
  \E inside : inside = [levels \in Depths |->
                         [value \in Payloads |-> InsideOf(inside[levels - 1], levels, value)]]
<1> DEFINE IsInside(inside, k) ==
      inside = [levels \in 0..k |->
                  [value \in Payloads |-> InsideOf(inside[levels - 1], levels, value)]]
<1> DEFINE Missing == {k \in Depths : ~ \E inside : IsInside(inside, k)}
<1>1. 0 \notin Missing
  <2> DEFINE first == [levels \in 0..0 |-> [value \in Payloads |-> {value}]]
  <2>1. \A levels \in 0..0 : \A value \in Payloads :
          InsideOf(first[levels - 1], levels, value) = {value}
    BY DEF InsideOf
  <2>2. IsInside(first, 0)
    BY <2>1
  <2> HIDE DEF first, IsInside
  <2> QED BY <2>2
<1>2. ASSUME NEW k \in Missing, k # 0 PROVE k - 1 \in Missing
  <2> SUFFICES ASSUME k - 1 \notin Missing PROVE FALSE
    OBVIOUS
  <2>1. k - 1 \in Depths
    BY <1>2, ContractAssumption DEF Depths
  <2>2. PICK inside : IsInside(inside, k - 1)
    BY <2>1
  <2> DEFINE longer ==
        [levels \in 0..k |->
           IF levels = k
           THEN [value \in Payloads |-> InsideOf(inside[k - 1], levels, value)]
           ELSE inside[levels]]
  <2>3. ASSUME NEW levels \in 0..k
        PROVE  longer[levels] =
                 [value \in Payloads |-> InsideOf(longer[levels - 1], levels, value)]
    <3>0. k \in Nat
      BY ContractAssumption DEF Depths
    <3>1. CASE levels = k
      <4>1. longer[levels - 1] = inside[k - 1]
        BY <1>2, <3>0, <3>1
      <4> QED BY <3>1, <4>1
    <3>2. CASE levels # k
      <4>1. levels \in 0..k - 1 /\ longer[levels] = inside[levels]
        BY <3>0, <3>2
      <4>2. inside[levels] = [value \in Payloads |-> InsideOf(inside[levels - 1], levels, value)]
        BY <2>2, <4>1
      <4>3. CASE levels = 0
        <5>1. \A value \in Payloads :
                InsideOf(inside[levels - 1], levels, value) = InsideOf(longer[levels - 1], levels, value)
          BY <4>3 DEF InsideOf
        <5> QED BY <4>1, <4>2, <5>1
      <4>4. CASE levels # 0
        <5>1. longer[levels - 1] = inside[levels - 1]
          BY <3>0, <3>2, <4>4
        <5> QED BY <4>1, <4>2, <5>1
      <4> QED BY <4>3, <4>4
    <3> QED BY <3>1, <3>2
  <2>4. IsInside(longer, k)
    BY <2>3
  <2> HIDE DEF longer, IsInside
  <2> QED BY <2>4
<1>3. MaxDepth + 1 \notin Missing
  <2>1. Missing \subseteq Nat
    BY ContractAssumption DEF Depths
  <2> HIDE DEF Missing
  <2> SUFFICES ASSUME Missing # {} PROVE FALSE
    OBVIOUS
  <2>2. PICK k \in Missing : \A other \in Missing : k <= other
    BY <2>1, LeastOf
  <2>3. k \in Nat
    BY <2>1
  <2>4. k # 0 => k <= k - 1
    BY <1>2, <2>2
  <2> QED BY <1>1, <2>3, <2>4
<1>4. MaxDepth + 1 \in Depths /\ 0..MaxDepth + 1 = Depths
  BY ContractAssumption DEF Depths
<1>5. PICK inside : IsInside(inside, MaxDepth + 1)
  BY <1>3, <1>4
<1> QED BY <1>4, <1>5

LEMMA InsideIs ==
  \A levels \in Depths : \A value \in Payloads :
    Inside[levels][value] = InsideOf(Inside[levels - 1], levels, value)
<1>1. Inside = CHOOSE inside : inside =
        [levels \in Depths |->
           [value \in Payloads |-> InsideOf(inside[levels - 1], levels, value)]]
  BY DEF Inside, InsideOf
<1>2. Inside = [levels \in Depths |->
                  [value \in Payloads |-> InsideOf(Inside[levels - 1], levels, value)]]
  BY <1>1, InsideExists
<1> SUFFICES ASSUME NEW levels \in Depths, NEW value \in Payloads
             PROVE  Inside[levels][value] = InsideOf(Inside[levels - 1], levels, value)
  OBVIOUS
<1>3. Inside[levels] = [v \in Payloads |-> InsideOf(Inside[levels - 1], levels, v)]
  BY <1>2
<1> QED BY <1>3

\* The walk answers with a depth between the one it stands at and one past
\* the limit.
LEMMA WalkStaysInRange ==
  \A depth \in Depths : \A value \in Payloads : DepthFrom[depth][value] \in Depths
<1> DEFINE Bad == {gap \in Depths : \E value \in Payloads :
                     DepthFrom[MaxDepth + 1 - gap][value] \notin Depths}
<1>1. ASSUME Bad # {} PROVE FALSE
  <2>1. Bad \subseteq Nat
    BY ContractAssumption DEF Depths
  <2>2. PICK gap \in Bad : \A other \in Bad : gap <= other
    BY <1>1, <2>1, LeastOf
  <2>3. PICK value \in Payloads : DepthFrom[MaxDepth + 1 - gap][value] \notin Depths
    BY <2>2
  <2> DEFINE depth == MaxDepth + 1 - gap
  <2>4. /\ gap \in Nat /\ gap <= MaxDepth + 1 /\ MaxDepth \in Nat
        /\ depth \in Depths
    BY <2>2, ContractAssumption DEF Depths
  <2>5. DepthFrom[depth][value] = DepthOf(DepthFrom[depth + 1], depth, value)
    BY <2>4, DepthFromIs
  <2>6. ~(value.kind = "scalar" \/ depth > MaxDepth)
    BY <2>3, <2>4, <2>5 DEF DepthOf
  <2>7. \A child \in value.children : DepthFrom[depth + 1][child] \in Depths
    <3> SUFFICES ASSUME NEW child \in value.children,
                        DepthFrom[depth + 1][child] \notin Depths
                 PROVE  FALSE
      OBVIOUS
    <3>1. child \in Payloads
      BY <2>3, PayloadAssumption
    <3>2. gap # 0 /\ gap - 1 \in Depths /\ MaxDepth + 1 - (gap - 1) = depth + 1
      BY <2>4, <2>6 DEF Depths
    <3>3. gap - 1 \in Bad
      BY <3>1, <3>2
    <3>4. gap <= gap - 1
      BY <2>2, <3>3
    <3> QED BY <2>4, <3>4
  <2>8. {depth} \cup {DepthFrom[depth + 1][child] : child \in value.children}
          \in SUBSET (0..MaxDepth + 1)
    BY <2>4, <2>7 DEF Depths
  <2>9. DepthOf(DepthFrom[depth + 1], depth, value) \in Depths
    <3> HIDE DEF depth
    <3> DEFINE S == {depth} \cup {DepthFrom[depth + 1][child] : child \in value.children}
    <3>1. S # {} /\ S \in SUBSET (0..MaxDepth + 1) /\ MaxDepth + 1 \in Nat
      BY <2>4, <2>8
    <3> HIDE DEF S
    <3>2. Max(S) \in S
      BY <3>1, MaxOf
    <3>3. DepthOf(DepthFrom[depth + 1], depth, value) = Max(S)
      BY <2>6 DEF DepthOf, S
    <3> QED BY <3>1, <3>2, <3>3 DEF Depths
  <2> QED BY <2>3, <2>5, <2>9
<1> SUFFICES ASSUME NEW depth \in Depths, NEW value \in Payloads
             PROVE  DepthFrom[depth][value] \in Depths
  OBVIOUS
<1>2. MaxDepth + 1 - depth \in Depths /\ MaxDepth + 1 - (MaxDepth + 1 - depth) = depth
  BY ContractAssumption DEF Depths
<1>3. MaxDepth + 1 - depth \notin Bad
  BY <1>1
<1> QED BY <1>2, <1>3

\* The walk passes the limit below a value exactly if it does so below one
\* of its children; a scalar has none.
LEMMA PassesThroughAChild ==
  ASSUME NEW depth \in Depths, depth <= MaxDepth, NEW value \in Payloads
  PROVE  DepthFrom[depth][value] = MaxDepth + 1
           <=> \E child \in value.children : DepthFrom[depth + 1][child] = MaxDepth + 1
<1> DEFINE S == {depth} \cup {DepthFrom[depth + 1][child] : child \in value.children}
<1>1. MaxDepth \in Nat /\ depth \in Nat /\ depth + 1 \in Depths
  BY ContractAssumption DEF Depths
<1>2. DepthFrom[depth][value] = DepthOf(DepthFrom[depth + 1], depth, value)
  BY DepthFromIs
<1>3. CASE value.kind = "scalar"
  <2>1. DepthFrom[depth][value] = depth
    BY <1>2, <1>3 DEF DepthOf
  <2>2. value.children = {}
    BY <1>3, PayloadAssumption
  <2> QED BY <1>1, <2>1, <2>2
<1>4. CASE value.kind # "scalar"
  <2>1. DepthFrom[depth][value] = Max(S)
    BY <1>1, <1>2, <1>4 DEF DepthOf
  <2>2. S # {} /\ S \in SUBSET (0..MaxDepth + 1) /\ MaxDepth + 1 \in Nat
    <3>1. \A child \in value.children : DepthFrom[depth + 1][child] \in Depths
      BY <1>1, PayloadAssumption, WalkStaysInRange
    <3> QED BY <1>1, <3>1 DEF Depths
  <2>3. MaxDepth + 1 \in S
          <=> \E child \in value.children : DepthFrom[depth + 1][child] = MaxDepth + 1
    BY <1>1
  <2> HIDE DEF S
  <2>4. Max(S) \in S /\ \A n \in S : Max(S) >= n
    BY <2>2, MaxOf
  <2>5. Max(S) = MaxDepth + 1 <=> MaxDepth + 1 \in S
    <3> DEFINE limit == MaxDepth + 1
    <3>1. limit \in Nat /\ Max(S) \in 0..limit
      BY <2>2, <2>4
    <3>2. ASSUME limit \in S PROVE Max(S) = limit
      <4>1. Max(S) >= limit
        BY <2>4, <3>2
      <4> HIDE DEF limit
      <4> QED BY <3>1, <4>1
    <3> HIDE DEF limit
    <3>3. Max(S) = limit <=> limit \in S
      BY <2>4, <3>2
    <3> QED BY <3>3 DEF limit
  <2> QED BY <2>1, <2>3, <2>5
<1> QED BY <1>3, <1>4

\* So a payload is found too deep exactly if it is so below a value that
\* lies any number of levels inside it, up to the limit.
LEMMA PassesThroughAnyLevel ==
  ASSUME NEW payload \in Payloads
  PROVE  \A levels \in Depths :
           /\ Inside[levels][payload] \subseteq Payloads
           /\ DepthFrom[0][payload] = MaxDepth + 1
                <=> \E v \in Inside[levels][payload] : DepthFrom[levels][v] = MaxDepth + 1
<1> DEFINE Holds(levels) ==
      /\ Inside[levels][payload] \subseteq Payloads
      /\ DepthFrom[0][payload] = MaxDepth + 1
           <=> \E v \in Inside[levels][payload] : DepthFrom[levels][v] = MaxDepth + 1
<1> DEFINE Fails == {levels \in Depths : ~Holds(levels)}
<1>1. Holds(0)
  <2>1. 0 \in Depths
    BY ContractAssumption DEF Depths
  <2>2. Inside[0][payload] = {payload}
    BY <2>1, InsideIs DEF InsideOf
  <2> QED BY <2>2
<1>2. ASSUME NEW levels \in Depths, levels # 0, Holds(levels - 1) PROVE Holds(levels)
  <2> DEFINE outer == Inside[levels - 1][payload]
  <2>1. /\ levels \in Nat /\ levels - 1 \in Depths /\ levels - 1 <= MaxDepth
        /\ (levels - 1) + 1 = levels
    BY <1>2, ContractAssumption DEF Depths
  <2>2. Inside[levels][payload] = UNION {v.children : v \in outer}
    BY <1>2, InsideIs DEF InsideOf
  <2>3. Inside[levels][payload] \subseteq Payloads
    BY <1>2, <2>2, PayloadAssumption
  <2>4. \A v \in outer :
          DepthFrom[levels - 1][v] = MaxDepth + 1
            <=> \E child \in v.children : DepthFrom[levels][child] = MaxDepth + 1
    BY <1>2, <2>1, PassesThroughAChild
  <2>5. (\E v \in outer : DepthFrom[levels - 1][v] = MaxDepth + 1)
          <=> \E child \in Inside[levels][payload] : DepthFrom[levels][child] = MaxDepth + 1
    BY <2>2, <2>4
  <2> QED BY <1>2, <2>3, <2>5
<1>3. Fails = {}
  <2>1. Fails \subseteq Nat
    BY ContractAssumption DEF Depths
  <2> SUFFICES ASSUME Fails # {} PROVE FALSE
    OBVIOUS
  <2>2. PICK levels \in Fails : \A other \in Fails : levels <= other
    <3> HIDE DEF Fails
    <3> QED BY <2>1, LeastOf
  <2> HIDE DEF Holds
  <2>3. levels # 0 /\ levels \in Nat /\ levels - 1 \in Depths
    BY <1>1, <2>1, <2>2, ContractAssumption DEF Depths
  <2>4. ~Holds(levels - 1)
    BY <1>2, <2>2, <2>3
  <2>5. levels <= levels - 1
    BY <2>2, <2>3, <2>4
  <2> QED BY <2>3, <2>5
<1> HIDE DEF Holds
<1>4. \A levels \in Depths : Holds(levels)
  BY <1>3
<1> QED BY <1>4 DEF Holds

\* The judgement on a payload, for any payloads and any limit: the walk
\* finds it too deep exactly if a value lies deeper in it than the limit.
LEMMA WalkIsExact ==
  ASSUME NEW payload \in Payloads
  PROVE  PayloadDepth(payload) <= MaxDepth <=> Inside[MaxDepth + 1][payload] = {}
<1>1. /\ MaxDepth \in Nat /\ 0 \in Depths /\ MaxDepth + 1 \in Depths
  BY ContractAssumption DEF Depths
<1>2. \A v \in Inside[MaxDepth + 1][payload] : DepthFrom[MaxDepth + 1][v] = MaxDepth + 1
  <2> SUFFICES ASSUME NEW v \in Inside[MaxDepth + 1][payload]
               PROVE  DepthFrom[MaxDepth + 1][v] = MaxDepth + 1
    OBVIOUS
  <2>1. v \in Payloads
    BY <1>1, PassesThroughAnyLevel
  <2>2. DepthFrom[MaxDepth + 1][v] = DepthOf(DepthFrom[MaxDepth + 2], MaxDepth + 1, v)
    BY <1>1, <2>1, DepthFromIs
  <2> QED BY <1>1, <2>2 DEF DepthOf
<1>3. DepthFrom[0][payload] = MaxDepth + 1 <=> Inside[MaxDepth + 1][payload] # {}
  BY <1>1, <1>2, PassesThroughAnyLevel
<1>4. DepthFrom[0][payload] \in 0..MaxDepth + 1
  BY <1>1, WalkStaysInRange DEF Depths
<1> QED BY <1>1, <1>3, <1>4 DEF PayloadDepth

\* A payload is refused for its depth exactly if something lies deeper in it
\* than the limit, although nothing below the limit is looked at.
THEOREM DepthIsJudgedRightly == JourneySpec => []DepthLimitIsExact
<1>1. JourneyInv => DepthLimitIsExact
  <2> SUFFICES ASSUME journey # NoJourney, Kept, journey.route = "tradingview"
               PROVE  DepthLimitIsExact
    BY DEF JourneyInv, DepthLimitIsExact, OnRoute
  <2>1. journey.body.payload \in Payloads
    BY SubmissionAssumption DEF Kept
  <2>2. MaxBytes <= MaxBytes
    BY ContractAssumption
  <2> QED BY <2>1, <2>2, WalkIsExact DEF DepthLimitIsExact, IsBoundedPayload
<1> QED BY <1>1, JourneyInvariance, PTL

=============================================================================
