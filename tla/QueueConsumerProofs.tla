------------------------ MODULE QueueConsumerProofs ------------------------
(***************************************************************************)
(* Proofs about QueueConsumer for any number of messages, events, signals, *)
(* workers, retries and duplicate deliveries.                              *)
(***************************************************************************)
EXTENDS QueueConsumer, TLAPS

\* A busy worker holds a message; past the canonical read it is about an
\* event; past the resolution the event is a signal with a candidate.
Holding(w) ==
  /\ pc[w] # "idle" => msg[w] \in Messages
  /\ pc[w] \in MainSteps \ {"read"} => EventOf(w) \in Events
  /\ pc[w] \in {"insert", "lookup"} =>
       SignalOf[EventOf(w)] \in Signals /\ candidate[w] \in Instruments

\* A worker about to mark success has the effect in the store.
MarksHandled(w) == pc[w] = "mark" => Handled(EventOf(w))

\* A receipt read as once processed is about a handled event.
SeenHandled(w) ==
  seen[w] # NoReceipt /\ seen[w].processed =>
    /\ pc[w] \in MainSteps \ {"read"}
    /\ Handled(EventOf(w))

\* A reported opportunity is the stored one, on the resolved instrument.
Reporting(w) ==
  reported[w] # NoEvent =>
    /\ pc[w] \in {"mark", "fail"}
    /\ candidate[w] \in Instruments
    /\ SignalOf[EventOf(w)] \in Signals
    /\ OpportunityOf(EventOf(w)) = [source |-> reported[w], instrument |-> candidate[w]]

WorkerInv(w) == Holding(w) /\ MarksHandled(w) /\ SeenHandled(w) /\ Reporting(w)

IndInv ==
  /\ TypeOK
  /\ \A w \in Workers : WorkerInv(w)
  /\ SuccessIsMaterialised
  /\ AckedIsMaterialised

-----------------------------------------------------------------------------
\* What a step of worker w leaves to the other workers, and to every stored
\* opportunity.
Frame(w) ==
  /\ \A v \in Workers \ {w} :
       /\ pc'[v] = pc[v]
       /\ msg'[v] = msg[v]
       /\ seen'[v] = seen[v]
       /\ candidate'[v] = candidate[v]
       /\ reported'[v] = reported[v]
  /\ \A s \in Signals : opportunities[s] # NoOpportunity => opportunities'[s] = opportunities[s]

\* A delivery the queue takes back or settles touches only its own worker
\* and its own message, and the message is acknowledged only by Ack.
LEMMA RetryFrame ==
  ASSUME TypeOK, NEW w \in Workers, Retry(w), msg[w] \in Messages
  PROVE  /\ \A v \in Workers \ {w} :
              /\ pc'[v] = pc[v] /\ msg'[v] = msg[v] /\ seen'[v] = seen[v]
              /\ candidate'[v] = candidate[v] /\ reported'[v] = reported[v]
         /\ pc'[w] = "idle" /\ msg'[w] = NoMessage /\ seen'[w] = NoReceipt
         /\ candidate'[w] = NoInstrument /\ reported'[w] = NoEvent
         /\ \A m \in Messages : place'[m] = "acked" => place[m] = "acked"
<1>1. LetGo(w)
  BY DEF Retry
<1>2. \A m \in Messages : place'[m] = "acked" => place[m] = "acked"
  BY DEF Retry, TypeOK, After, QueueOf, broker
<1> QED BY <1>1, <1>2 DEF LetGo, Goto, TypeOK

LEMMA AckFrame ==
  ASSUME TypeOK, NEW w \in Workers, Ack(w), msg[w] \in Messages
  PROVE  /\ \A v \in Workers \ {w} :
              /\ pc'[v] = pc[v] /\ msg'[v] = msg[v] /\ seen'[v] = seen[v]
              /\ candidate'[v] = candidate[v] /\ reported'[v] = reported[v]
         /\ pc'[w] = "idle" /\ msg'[w] = NoMessage /\ seen'[w] = NoReceipt
         /\ candidate'[w] = NoInstrument /\ reported'[w] = NoEvent
         /\ \A m \in Messages : place'[m] = "acked" =>
              place[m] = "acked" \/ (m = msg[w] /\ QueueOf(w) = "main")
BY DEF TypeOK, Ack, LetGo, Goto, QueueOf, local

\* Letting go, in either way, keeps the state typed.
LEMMA LetGoTypes ==
  ASSUME TypeOK, NEW w \in Workers, msg[w] \in Messages, Retry(w) \/ Ack(w)
  PROVE  /\ pc' \in [Workers -> {"idle"} \cup MainSteps \cup DlqSteps]
         /\ msg' \in [Workers -> Messages \cup {NoMessage}]
         /\ seen' \in [Workers -> Receipt \cup {NoReceipt}]
         /\ candidate' \in [Workers -> Instruments \cup {NoInstrument}]
         /\ reported' \in [Workers -> Events \cup {NoEvent}]
         /\ place' \in [Messages -> Queues \cup {"acked", "recorded", "dropped"}]
         /\ tries' \in [Messages -> Nat]
<1>1. LetGo(w)
  BY DEF Retry, Ack
<1>2. /\ place' \in [Messages -> Queues \cup {"acked", "recorded", "dropped"}]
      /\ tries' \in [Messages -> Nat]
  <2>1. CASE Retry(w)
    <3>1. tries[msg[w]] + 1 \in Nat
      BY DEF TypeOK
    <3> QED BY <2>1, <3>1 DEF Retry, TypeOK, After, QueueOf, Queues, broker
  <2>2. CASE Ack(w)
    BY <2>2 DEF Ack, TypeOK, QueueOf, Queues
  <2> QED BY <2>1, <2>2
<1> QED BY <1>1, <1>2 DEF LetGo, Goto, TypeOK
-----------------------------------------------------------------------------
\* The typing of each variable group across each kind of step.
LEMMA TypeStep ==
  ASSUME TypeOK, \A w \in Workers : WorkerInv(w), [Next]_vars
  PROVE  TypeOK'
<1> USE DEF TypeOK
<1>1. ASSUME NEW w \in Workers, NEW m \in Messages, Deliver(w, m) PROVE TypeOK'
  BY <1>1 DEF Deliver, Goto, MainSteps, DlqSteps, local, broker, catalogue
<1>2. ASSUME NEW s \in Signals, ChangeCatalog(s) PROVE TypeOK'
  BY <1>2 DEF ChangeCatalog, local, broker
<1>3. CASE UNCHANGED vars
  BY <1>3 DEF vars, local, broker, catalogue
<1>4. ASSUME NEW w \in Workers, pc[w] # "idle", Retry(w) \/ Ack(w),
             UNCHANGED <<duplicates, opportunities, catalogue>>,
             receipts' \in [Events -> Receipt \cup {NoReceipt}],
             deadLetters' \subseteq Messages
      PROVE  TypeOK'
  BY <1>4, LetGoTypes DEF WorkerInv, Holding, catalogue
<1>5. ASSUME NEW w \in Workers,
             ReadFails(w) \/ FetchFails(w) \/ AlreadySucceeded(w) \/ RecordFailure(w)
             \/ ConfirmDeadLetter(w) \/ ConfirmFails(w) \/ Crash(w)
      PROVE  TypeOK'
  <2>1. pc[w] # "idle" /\ (Retry(w) \/ Ack(w))
    BY <1>5 DEF ReadFails, FetchFails, AlreadySucceeded, RecordFailure,
                ConfirmDeadLetter, ConfirmFails, Crash
  <2>2. UNCHANGED <<duplicates, receipts, opportunities, deadLetters, catalogue>>
    BY <1>5 DEF ReadFails, FetchFails, AlreadySucceeded, RecordFailure,
                ConfirmDeadLetter, ConfirmFails, Crash
  <2> QED BY <1>4, <2>1, <2>2
<1>6. ASSUME NEW w \in Workers,
             ReadEvent(w) \/ FetchReceipt(w) \/ Skip(w) \/ Resolve(w) \/ ResolveFails(w)
             \/ RecogniseOpportunity(w) \/ LookupFails(w)
      PROVE  TypeOK'
  <2>1. pc[w] \in MainSteps \ {"read"} => EventOf(w) \in Events
    BY DEF WorkerInv, Holding
  <2>2. ASSUME RecogniseOpportunity(w) PROVE TypeOK'
    <3>1. SignalOf[EventOf(w)] \in Signals
      BY <2>2 DEF RecogniseOpportunity, WorkerInv, Holding
    <3>2. OpportunityOf(EventOf(w)) \in Opportunity
      BY <2>2, <3>1 DEF RecogniseOpportunity, OpportunityOf
    <3>3. OpportunityOf(EventOf(w)).source \in Events
      BY <3>2 DEF Opportunity
    <3> QED BY <2>2, <3>3 DEF RecogniseOpportunity, Goto, MainSteps, broker, catalogue
  <2>3. ASSUME FetchReceipt(w) PROVE TypeOK'
    BY <2>1, <2>3 DEF FetchReceipt, Goto, MainSteps, broker, catalogue
  <2>4. ASSUME Resolve(w) PROVE TypeOK'
    BY <2>4 DEF Resolve, Goto, MainSteps, broker, catalogue
  <2>5. ASSUME ReadEvent(w) \/ Skip(w) \/ ResolveFails(w) \/ LookupFails(w) PROVE TypeOK'
    BY <2>5 DEF ReadEvent, Skip, ResolveFails, LookupFails, Goto, MainSteps,
                local, broker, catalogue
  <2> QED BY <1>6, <2>2, <2>3, <2>4, <2>5
<1>7. ASSUME NEW w \in Workers, NEW outcome \in Outcomes, UpsertReceipt(w, outcome)
      PROVE  TypeOK'
  <2>1. Started(seen[w]) \in Receipt
    BY DEF Started, Receipt
  <2>2. receipts' \in [Events -> Receipt \cup {NoReceipt}]
    BY <1>7, <2>1 DEF UpsertReceipt
  <2>3. CASE outcome = "confirmed"
    BY <1>7, <2>2, <2>3 DEF UpsertReceipt, Goto, MainSteps, local, broker, catalogue
  <2>4. CASE outcome # "confirmed"
    BY <1>4, <1>7, <2>2, <2>4 DEF UpsertReceipt
  <2> QED BY <2>3, <2>4
<1>8. ASSUME NEW w \in Workers, NEW outcome \in Outcomes, InsertOpportunity(w, outcome)
      PROVE  TypeOK'
  <2>1. EventOf(w) \in Events /\ candidate[w] \in Instruments
    BY <1>8 DEF InsertOpportunity, WorkerInv, Holding, MainSteps
  <2>2. [source |-> EventOf(w), instrument |-> candidate[w]] \in Opportunity
    BY <2>1 DEF Opportunity
  <2>3. opportunities' \in [Signals -> Opportunity \cup {NoOpportunity}]
    BY <1>8, <2>2 DEF InsertOpportunity
  <2> QED BY <1>8, <2>1, <2>3 DEF InsertOpportunity, Goto, MainSteps, broker, catalogue
<1>9. ASSUME NEW w \in Workers, NEW outcome \in Outcomes, MarkSucceeded(w, outcome)
      PROVE  TypeOK'
  <2>1. EventOf(w) \in Events
    BY <1>9 DEF MarkSucceeded, WorkerInv, Holding, MainSteps
  <2>2. receipts' \in [Events -> Receipt \cup {NoReceipt}]
    <3>1. CASE receipts' = receipts
      BY <3>1
    <3>2. CASE receipts[EventOf(w)] # NoReceipt
               /\ receipts' = [receipts EXCEPT ![EventOf(w)].status = "succeeded",
                                               ![EventOf(w)].processed = TRUE]
      <4>1. receipts[EventOf(w)] \in Receipt
        BY <2>1, <3>2
      <4>2. [receipts[EventOf(w)] EXCEPT !.status = "succeeded", !.processed = TRUE] \in Receipt
        BY <4>1 DEF Receipt
      <4> QED BY <2>1, <3>2, <4>2
    <3> QED BY <1>9, <3>1, <3>2 DEF MarkSucceeded
  <2>3. CASE outcome = "confirmed"
    BY <1>4, <1>9, <2>2, <2>3 DEF MarkSucceeded
  <2>4. CASE outcome # "confirmed"
    BY <1>9, <2>2, <2>4 DEF MarkSucceeded, Goto, MainSteps, local, broker, catalogue
  <2> QED BY <2>3, <2>4
<1>10. ASSUME NEW w \in Workers, NEW outcome \in Outcomes, StoreDeadLetter(w, outcome)
       PROVE  TypeOK'
  <2>1. deadLetters' \subseteq Messages
    BY <1>10 DEF StoreDeadLetter, WorkerInv, Holding
  <2>2. CASE Ack(w) \/ Retry(w)
    BY <1>4, <1>10, <2>1, <2>2 DEF StoreDeadLetter
  <2>3. CASE Goto(w, "confirm") /\ UNCHANGED <<msg, local, broker>>
    BY <1>10, <2>1, <2>3 DEF StoreDeadLetter, Goto, DlqSteps, local, broker, catalogue
  <2> QED BY <1>10, <2>2, <2>3 DEF StoreDeadLetter
<1> QED
  BY <1>1, <1>2, <1>3, <1>5, <1>6, <1>7, <1>8, <1>9, <1>10
     DEF Next, Step, MainStep, DlqStep
-----------------------------------------------------------------------------
\* A step of one worker leaves the others alone and no step rewrites or
\* removes an opportunity.
LEMMA StepFrame ==
  ASSUME TypeOK, NEW w \in Workers, WorkerInv(w), Step(w)
  PROVE  Frame(w)
<1> USE DEF TypeOK
<1>1. ASSUME pc[w] # "idle", Retry(w) \/ Ack(w), UNCHANGED opportunities
      PROVE  Frame(w)
  BY <1>1, RetryFrame, AckFrame DEF Frame, WorkerInv, Holding
<1>2. ASSUME UNCHANGED <<msg, local, broker>>, pc' = [pc EXCEPT ![w] = pc'[w]],
             UNCHANGED opportunities
      PROVE  Frame(w)
  BY <1>2 DEF Frame, local
<1>3. ASSUME ReadFails(w) \/ FetchFails(w) \/ AlreadySucceeded(w) \/ RecordFailure(w)
             \/ ConfirmDeadLetter(w) \/ ConfirmFails(w) \/ Crash(w)
      PROVE  Frame(w)
  BY <1>1, <1>3 DEF ReadFails, FetchFails, AlreadySucceeded, RecordFailure,
                    ConfirmDeadLetter, ConfirmFails, Crash
<1>4. ASSUME ReadEvent(w) \/ Skip(w) \/ ResolveFails(w) \/ LookupFails(w)
      PROVE  Frame(w)
  BY <1>2, <1>4 DEF ReadEvent, Skip, ResolveFails, LookupFails, Goto
<1>5. ASSUME FetchReceipt(w) \/ Resolve(w) \/ RecogniseOpportunity(w)
      PROVE  Frame(w)
  BY <1>5 DEF FetchReceipt, Resolve, RecogniseOpportunity, Frame, Goto
<1>6. ASSUME NEW outcome \in Outcomes, InsertOpportunity(w, outcome)
      PROVE  Frame(w)
  BY <1>6 DEF InsertOpportunity, OpportunityOf, Frame, Goto
<1>7. ASSUME NEW outcome \in Outcomes,
             UpsertReceipt(w, outcome) \/ MarkSucceeded(w, outcome) \/ StoreDeadLetter(w, outcome)
      PROVE  Frame(w)
  <2>1. \/ Retry(w) \/ Ack(w)
        \/ UNCHANGED <<msg, local, broker>> /\ pc' = [pc EXCEPT ![w] = pc'[w]]
    BY <1>7 DEF UpsertReceipt, MarkSucceeded, StoreDeadLetter, Goto
  <2>2. pc[w] # "idle" /\ UNCHANGED opportunities
    BY <1>7 DEF UpsertReceipt, MarkSucceeded, StoreDeadLetter
  <2> QED BY <1>1, <1>2, <2>1, <2>2
<1> QED BY <1>3, <1>4, <1>5, <1>6, <1>7 DEF Step, MainStep, DlqStep

\* An event once handled stays handled.
LEMMA HandledStays ==
  ASSUME TypeOK, NEW w \in Workers, Frame(w), NEW e \in Events, Handled(e)
  PROVE  Handled(e)'
BY DEF Frame, Handled, OpportunityOf

\* What a worker reports is a row: its candidate is an instrument.
LEMMA ReportedIsARow ==
  ASSUME TypeOK, NEW v \in Workers, WorkerInv(v), reported[v] # NoEvent
  PROVE  OpportunityOf(EventOf(v)) # NoOpportunity
<1>1. [source |-> reported[v], instrument |-> candidate[v]] \in Opportunity
  BY DEF TypeOK, WorkerInv, Reporting, Opportunity
<1> QED BY <1>1, NullAssumption DEF WorkerInv, Reporting

\* A worker that does not take the step keeps its invariant.
LEMMA OthersKeep ==
  ASSUME TypeOK, NEW w \in Workers, Frame(w),
         NEW v \in Workers \ {w}, WorkerInv(v)
  PROVE  WorkerInv(v)'
<1>1. /\ pc'[v] = pc[v] /\ msg'[v] = msg[v] /\ seen'[v] = seen[v]
      /\ candidate'[v] = candidate[v] /\ reported'[v] = reported[v]
      /\ EventOf(v)' = EventOf(v)
  BY DEF Frame, EventOf
<1>2. pc[v] \in MainSteps \ {"read"} => EventOf(v) \in Events
  BY DEF WorkerInv, Holding
<1>3. pc[v] \in MainSteps \ {"read"} /\ Handled(EventOf(v)) => Handled(EventOf(v))'
  <2> SUFFICES ASSUME pc[v] \in MainSteps \ {"read"}, Handled(EventOf(v))
               PROVE  Handled(EventOf(v))'
    OBVIOUS
  <2>1. PICK e \in Events : e = EventOf(v)
    BY <1>2
  <2>2. Handled(e)'
    BY <2>1, HandledStays
  <2> QED BY <1>1, <2>1, <2>2 DEF Handled, OpportunityOf
<1>4. Holding(v)'
  BY <1>1 DEF WorkerInv, Holding
<1>5. MarksHandled(v)'
  BY <1>1, <1>3 DEF WorkerInv, MarksHandled, MainSteps
<1>6. SeenHandled(v)'
  BY <1>1, <1>3 DEF WorkerInv, SeenHandled
<1>7. Reporting(v)'
  <2> SUFFICES ASSUME reported[v] # NoEvent
               PROVE  /\ SignalOf[EventOf(v)] \in Signals
                      /\ opportunities'[SignalOf[EventOf(v)]]
                           = [source |-> reported[v], instrument |-> candidate[v]]
    BY <1>1 DEF WorkerInv, Reporting, OpportunityOf
  <2>1. /\ SignalOf[EventOf(v)] \in Signals
        /\ opportunities[SignalOf[EventOf(v)]] = [source |-> reported[v], instrument |-> candidate[v]]
    BY DEF WorkerInv, Reporting, OpportunityOf
  <2>2. opportunities[SignalOf[EventOf(v)]] # NoOpportunity
    BY ReportedIsARow DEF OpportunityOf
  <2> QED BY <2>1, <2>2 DEF Frame
<1> QED BY <1>4, <1>5, <1>6, <1>7 DEF WorkerInv
\* A worker that has let go knows nothing it could be wrong about.
LEMMA IdleKeeps ==
  ASSUME NEW w \in Workers, pc'[w] = "idle", seen'[w] = NoReceipt, reported'[w] = NoEvent
  PROVE  WorkerInv(w)'
BY DEF WorkerInv, Holding, MarksHandled, SeenHandled, Reporting, MainSteps

\* The worker that takes a step keeps its invariant.
LEMMA ActorKeeps ==
  ASSUME IndInv, NEW w \in Workers, Step(w)
  PROVE  WorkerInv(w)'
<1> USE DEF IndInv, TypeOK
<1>1. ASSUME pc[w] # "idle", Retry(w) \/ Ack(w)
      PROVE  WorkerInv(w)'
  BY <1>1, RetryFrame, AckFrame, IdleKeeps DEF WorkerInv, Holding
<1>2. ASSUME ReadFails(w) \/ FetchFails(w) \/ AlreadySucceeded(w) \/ RecordFailure(w)
             \/ ConfirmDeadLetter(w) \/ ConfirmFails(w) \/ Crash(w)
      PROVE  WorkerInv(w)'
  BY <1>1, <1>2 DEF ReadFails, FetchFails, AlreadySucceeded, RecordFailure,
                    ConfirmDeadLetter, ConfirmFails, Crash
<1>3. ASSUME ReadEvent(w)
      PROVE  WorkerInv(w)'
  BY <1>3 DEF ReadEvent, Goto, local, WorkerInv, Holding, MarksHandled, SeenHandled,
              Reporting, EventOf, MainSteps
<1>4. ASSUME FetchReceipt(w)
      PROVE  WorkerInv(w)'
  <2>1. EventOf(w) \in Events /\ msg[w] \in Messages
    BY <1>4 DEF FetchReceipt, WorkerInv, Holding, MainSteps
  <2>2. /\ pc'[w] = "upsert" /\ seen'[w] = receipts[EventOf(w)]
        /\ UNCHANGED <<msg, candidate, reported, opportunities>>
    BY <1>4 DEF FetchReceipt, Goto
  <2>3. seen'[w] # NoReceipt /\ seen'[w].processed => Handled(EventOf(w))
    BY <2>1, <2>2 DEF SuccessIsMaterialised
  <2>4. Handled(EventOf(w)) => Handled(EventOf(w))'
    BY <2>2 DEF Handled, OpportunityOf, EventOf
  <2>5. reported[w] = NoEvent
    BY <1>4 DEF FetchReceipt, WorkerInv, Reporting
  <2> QED BY <2>1, <2>2, <2>3, <2>4, <2>5
          DEF WorkerInv, Holding, MarksHandled, SeenHandled, Reporting, EventOf, MainSteps
<1>5. ASSUME NEW outcome \in Outcomes, UpsertReceipt(w, outcome)
      PROVE  WorkerInv(w)'
  <2>1. CASE outcome = "confirmed"
    BY <1>5, <2>1 DEF UpsertReceipt, Goto, local, WorkerInv, Holding, MarksHandled,
       SeenHandled, Reporting, EventOf, Handled, OpportunityOf, MainSteps
  <2>2. CASE outcome # "confirmed"
    BY <1>1, <1>5, <2>2 DEF UpsertReceipt
  <2> QED BY <2>1, <2>2
<1>6. ASSUME Skip(w)
      PROVE  WorkerInv(w)'
  BY <1>6 DEF Skip, Goto, local, WorkerInv, Holding, MarksHandled, SeenHandled,
     Reporting, EventOf, Handled, OpportunityOf, MainSteps
<1>7. ASSUME Resolve(w)
      PROVE  WorkerInv(w)'
  BY <1>7 DEF Resolve, Goto, WorkerInv, Holding, MarksHandled, SeenHandled,
     Reporting, EventOf, Handled, OpportunityOf, MainSteps
<1>8. ASSUME ResolveFails(w) \/ LookupFails(w)
      PROVE  WorkerInv(w)'
  BY <1>8 DEF ResolveFails, LookupFails, Goto, local, WorkerInv, Holding, MarksHandled,
     SeenHandled, Reporting, EventOf, Handled, OpportunityOf, MainSteps
<1>9. ASSUME NEW outcome \in Outcomes, InsertOpportunity(w, outcome)
      PROVE  WorkerInv(w)'
  <2>1. /\ EventOf(w) \in Events /\ msg[w] \in Messages
        /\ SignalOf[EventOf(w)] \in Signals /\ candidate[w] \in Instruments
        /\ reported[w] = NoEvent
    BY <1>9 DEF InsertOpportunity, WorkerInv, Holding, Reporting, MainSteps
  <2>2. UNCHANGED <<msg, seen, candidate>>
    BY <1>9 DEF InsertOpportunity
  <2>3. Handled(EventOf(w)) => Handled(EventOf(w))'
    <3>1. Frame(w)
      BY StepFrame DEF Frame
    <3> QED BY <2>1, <2>2, <3>1 DEF Frame, Handled, OpportunityOf, EventOf
  <2>4. CASE outcome = "confirmed" /\ OpportunityOf(EventOf(w)) = NoOpportunity
    <3> DEFINE row == [source |-> EventOf(w), instrument |-> candidate[w]]
    <3>1. /\ opportunities' = [opportunities EXCEPT ![SignalOf[EventOf(w)]] = row]
          /\ reported' = [reported EXCEPT ![w] = EventOf(w)]
          /\ pc'[w] = "mark"
      BY <1>9, <2>4 DEF InsertOpportunity, Applied, Goto
    <3>2. opportunities'[SignalOf[EventOf(w)]] = row
      BY <2>1, <3>1
    <3>3. row # NoOpportunity
      BY <2>1, NullAssumption DEF Opportunity
    <3>4. Handled(EventOf(w))'
      BY <2>1, <2>2, <3>2, <3>3 DEF Handled, OpportunityOf, EventOf
    <3>5. Reporting(w)'
      BY <2>1, <2>2, <3>1, <3>2 DEF Reporting, OpportunityOf, EventOf
    <3> QED BY <2>1, <2>2, <2>3, <3>1, <3>4, <3>5
            DEF WorkerInv, Holding, MarksHandled, SeenHandled, EventOf, MainSteps
  <2>5. CASE ~(outcome = "confirmed" /\ OpportunityOf(EventOf(w)) = NoOpportunity)
    <3>1. reported' = reported /\ pc'[w] = "lookup"
      BY <1>9, <2>5 DEF InsertOpportunity, Goto
    <3> QED BY <2>1, <2>2, <2>3, <3>1, <1>9
            DEF InsertOpportunity, WorkerInv, Holding, MarksHandled, SeenHandled, Reporting,
                EventOf, MainSteps
  <2> QED BY <2>4, <2>5
<1>10. ASSUME RecogniseOpportunity(w)
       PROVE  WorkerInv(w)'
  <2>1. /\ EventOf(w) \in Events /\ msg[w] \in Messages
        /\ SignalOf[EventOf(w)] \in Signals /\ candidate[w] \in Instruments
    BY <1>10 DEF RecogniseOpportunity, WorkerInv, Holding, MainSteps
  <2>2. /\ UNCHANGED <<msg, seen, candidate, opportunities>>
        /\ pc'[w] = "mark" /\ reported'[w] = OpportunityOf(EventOf(w)).source
    BY <1>10 DEF RecogniseOpportunity, Goto
  <2>3. /\ OpportunityOf(EventOf(w)) # NoOpportunity
        /\ OpportunityOf(EventOf(w)).instrument = candidate[w]
    BY <1>10 DEF RecogniseOpportunity, MatchesCandidate
  <2>4. OpportunityOf(EventOf(w)) \in Opportunity
    BY <2>1, <2>3 DEF OpportunityOf
  <2>5. OpportunityOf(EventOf(w)) = [source |-> reported'[w], instrument |-> candidate[w]]
    BY <2>2, <2>3, <2>4 DEF Opportunity
  <2>6. Handled(EventOf(w))'
    BY <2>1, <2>2, <2>3 DEF Handled, OpportunityOf, EventOf
  <2> QED BY <2>1, <2>2, <2>5, <2>6
          DEF WorkerInv, Holding, MarksHandled, SeenHandled, Reporting, OpportunityOf,
              EventOf, MainSteps
<1>11. ASSUME NEW outcome \in Outcomes, MarkSucceeded(w, outcome)
       PROVE  WorkerInv(w)'
  <2>1. CASE outcome = "confirmed"
    BY <1>1, <1>11, <2>1 DEF MarkSucceeded
  <2>2. CASE outcome # "confirmed"
    BY <1>11, <2>2 DEF MarkSucceeded, Goto, local, WorkerInv, Holding, MarksHandled,
       SeenHandled, Reporting, EventOf, Handled, OpportunityOf, MainSteps
  <2> QED BY <2>1, <2>2
<1>12. ASSUME NEW outcome \in Outcomes, StoreDeadLetter(w, outcome)
       PROVE  WorkerInv(w)'
  <2>1. CASE Ack(w) \/ Retry(w)
    BY <1>1, <1>12, <2>1 DEF StoreDeadLetter
  <2>2. CASE Goto(w, "confirm") /\ UNCHANGED <<msg, local, broker>>
    BY <1>12, <2>2 DEF StoreDeadLetter, Goto, local, WorkerInv, Holding, MarksHandled,
       SeenHandled, Reporting, EventOf, MainSteps
  <2> QED BY <1>12, <2>1, <2>2 DEF StoreDeadLetter
<1> QED
  BY <1>2, <1>3, <1>4, <1>5, <1>6, <1>7, <1>8, <1>9, <1>10, <1>11, <1>12
     DEF Step, MainStep, DlqStep
\* A receipt is written from a read receipt or from a handled event.
LEMMA SuccessStep ==
  ASSUME IndInv, NEW w \in Workers, Step(w)
  PROVE  SuccessIsMaterialised'
<1> USE DEF IndInv, TypeOK
<1>1. Frame(w)
  BY StepFrame
<1>2. ASSUME receipts' = receipts PROVE SuccessIsMaterialised'
  BY <1>1, <1>2, HandledStays DEF SuccessIsMaterialised
<1>3. ASSUME NEW outcome \in Outcomes, UpsertReceipt(w, outcome), Applied(outcome)
      PROVE  SuccessIsMaterialised'
  <2>1. EventOf(w) \in Events
    BY <1>3 DEF UpsertReceipt, WorkerInv, Holding, MainSteps
  <2>2. receipts' = [receipts EXCEPT ![EventOf(w)] = Started(seen[w])]
    BY <1>3 DEF UpsertReceipt
  <2>3. Started(seen[w]).status = "processing"
    BY DEF Started
  <2>4. Started(seen[w]).processed => seen[w] # NoReceipt /\ seen[w].processed
    BY DEF Started
  <2>5. Started(seen[w]).processed => Handled(EventOf(w))
    BY <2>4 DEF WorkerInv, SeenHandled
  <2> SUFFICES ASSUME NEW e \in Events, receipts'[e] # NoReceipt,
                      receipts'[e].status = "succeeded" \/ receipts'[e].processed
               PROVE  Handled(e)'
    BY DEF SuccessIsMaterialised
  <2>6. Handled(e)
    <3>1. CASE e = EventOf(w)
      BY <2>1, <2>2, <2>3, <2>5, <3>1
    <3>2. CASE e # EventOf(w)
      BY <2>2, <3>2 DEF SuccessIsMaterialised
    <3> QED BY <3>1, <3>2
  <2> QED BY <1>1, <2>6, HandledStays
<1>4. ASSUME NEW outcome \in Outcomes, MarkSucceeded(w, outcome)
      PROVE  SuccessIsMaterialised'
  <2>1. EventOf(w) \in Events /\ Handled(EventOf(w))
    BY <1>4 DEF MarkSucceeded, WorkerInv, Holding, MarksHandled, MainSteps
  <2>2. \A e \in Events \ {EventOf(w)} : receipts'[e] = receipts[e]
    BY <1>4 DEF MarkSucceeded
  <2> SUFFICES ASSUME NEW e \in Events, receipts'[e] # NoReceipt,
                      receipts'[e].status = "succeeded" \/ receipts'[e].processed
               PROVE  Handled(e)'
    BY DEF SuccessIsMaterialised
  <2>3. Handled(e)
    BY <2>1, <2>2 DEF SuccessIsMaterialised
  <2> QED BY <1>1, <2>3, HandledStays
<1>5. \/ receipts' = receipts
      \/ \E outcome \in Outcomes : UpsertReceipt(w, outcome) /\ Applied(outcome)
      \/ \E outcome \in Outcomes : MarkSucceeded(w, outcome)
  BY DEF Step, MainStep, DlqStep, ReadFails, ReadEvent, FetchFails, AlreadySucceeded,
         FetchReceipt, UpsertReceipt, Skip, Resolve, ResolveFails, InsertOpportunity,
         RecogniseOpportunity, LookupFails, RecordFailure, StoreDeadLetter,
         ConfirmDeadLetter, ConfirmFails, Crash
<1> QED BY <1>2, <1>3, <1>4, <1>5

\* The only main-queue acknowledgements follow a receipt that succeeded or a
\* confirmed mark, both about a handled event.
LEMMA AckedStep ==
  ASSUME IndInv, NEW w \in Workers, Step(w)
  PROVE  AckedIsMaterialised'
<1> USE DEF IndInv, TypeOK
<1>1. Frame(w)
  BY StepFrame
<1>2. ASSUME \A m \in Messages : place'[m] = "acked" =>
               \/ place[m] = "acked"
               \/ About[m] \in Events /\ Handled(About[m])
      PROVE  AckedIsMaterialised'
  <2> SUFFICES ASSUME NEW m \in Messages, place'[m] = "acked"
               PROVE  About[m] \in Events /\ Handled(About[m])'
    BY DEF AckedIsMaterialised
  <2>1. About[m] \in Events /\ Handled(About[m])
    BY <1>2 DEF AckedIsMaterialised
  <2>2. PICK e \in Events : e = About[m]
    BY <2>1
  <2>3. Handled(e)'
    BY <1>1, <2>1, <2>2, HandledStays
  <2> QED BY <2>1, <2>2, <2>3
<1>3. ASSUME pc[w] # "idle", Retry(w) PROVE AckedIsMaterialised'
  BY <1>2, <1>3, RetryFrame DEF WorkerInv, Holding
<1>4. ASSUME UNCHANGED place PROVE AckedIsMaterialised'
  BY <1>2, <1>4
<1>5. ASSUME Ack(w), pc[w] \in MainSteps \ {"read"}, Handled(EventOf(w))
      PROVE  AckedIsMaterialised'
  <2>1. msg[w] \in Messages /\ EventOf(w) \in Events
    BY <1>5 DEF WorkerInv, Holding, MainSteps
  <2> QED BY <1>2, <1>5, <2>1, AckFrame DEF EventOf
<1>6. ASSUME Ack(w), pc[w] \in DlqSteps
      PROVE  AckedIsMaterialised'
  <2>1. msg[w] \in Messages /\ QueueOf(w) = "dlq"
    BY <1>6 DEF WorkerInv, Holding, QueueOf, DlqSteps
  <2> QED BY <1>2, <1>6, <2>1, AckFrame
<1>7. CASE AlreadySucceeded(w)
  <2>1. EventOf(w) \in Events
    BY <1>7 DEF AlreadySucceeded, WorkerInv, Holding, MainSteps
  <2>2. Handled(EventOf(w))
    BY <1>7, <2>1 DEF AlreadySucceeded, Succeeded, SuccessIsMaterialised
  <2> QED BY <1>5, <1>7, <2>2 DEF AlreadySucceeded, MainSteps
<1>8. ASSUME NEW outcome \in Outcomes, MarkSucceeded(w, outcome)
      PROVE  AckedIsMaterialised'
  <2>1. Handled(EventOf(w)) /\ pc[w] \in MainSteps \ {"read"}
    BY <1>8 DEF MarkSucceeded, WorkerInv, MarksHandled, MainSteps
  <2> QED BY <1>4, <1>5, <1>8, <2>1 DEF MarkSucceeded, broker
<1>9. ASSUME NEW outcome \in Outcomes,
             StoreDeadLetter(w, outcome) \/ ConfirmDeadLetter(w) \/ ConfirmFails(w)
      PROVE  AckedIsMaterialised'
  <2>1. pc[w] # "idle" /\ pc[w] \in DlqSteps
    BY <1>9 DEF StoreDeadLetter, ConfirmDeadLetter, ConfirmFails, DlqSteps
  <2>2. Ack(w) \/ Retry(w) \/ UNCHANGED place
    BY <1>9 DEF StoreDeadLetter, ConfirmDeadLetter, ConfirmFails, broker
  <2> QED BY <1>3, <1>4, <1>6, <2>1, <2>2
<1>10. ASSUME NEW outcome \in Outcomes,
              \/ ReadFails(w) \/ FetchFails(w) \/ RecordFailure(w) \/ Crash(w)
              \/ ReadEvent(w) \/ FetchReceipt(w) \/ Skip(w) \/ Resolve(w) \/ ResolveFails(w)
              \/ RecogniseOpportunity(w) \/ LookupFails(w)
              \/ UpsertReceipt(w, outcome) \/ InsertOpportunity(w, outcome)
       PROVE  AckedIsMaterialised'
  <2>1. (pc[w] # "idle" /\ Retry(w)) \/ UNCHANGED place
    BY <1>10 DEF ReadFails, FetchFails, RecordFailure, Crash, ReadEvent, FetchReceipt,
       Skip, Resolve, ResolveFails, RecogniseOpportunity, LookupFails, UpsertReceipt,
       InsertOpportunity, broker
  <2> QED BY <1>3, <1>4, <2>1
<1>11. \E outcome \in Outcomes : TRUE
  BY DEF Outcomes
<1> QED BY <1>7, <1>8, <1>9, <1>10, <1>11 DEF Step, MainStep, DlqStep

-----------------------------------------------------------------------------
\* A delivery hands an idle worker a message and changes no store.
LEMMA DeliverStep ==
  ASSUME IndInv, NEW w \in Workers, NEW m \in Messages, Deliver(w, m)
  PROVE  /\ \A v \in Workers : WorkerInv(v)'
         /\ SuccessIsMaterialised'
         /\ AckedIsMaterialised'
<1> USE DEF IndInv, TypeOK
<1>1. /\ pc[w] = "idle" /\ UNCHANGED <<local, broker, receipts, opportunities>>
      /\ msg' = [msg EXCEPT ![w] = m]
      /\ pc' = [pc EXCEPT ![w] = IF place[m] = "main" THEN "read" ELSE "store"]
  BY DEF Deliver, Goto
<1>2. Frame(w)
  BY <1>1 DEF Frame, local
<1>3. \A v \in Workers \ {w} : WorkerInv(v)'
  BY <1>2, OthersKeep
<1>4. pc'[w] \in {"read", "store"} /\ msg'[w] = m
  BY <1>1
<1>5. reported'[w] = NoEvent
  BY <1>1 DEF WorkerInv, Reporting, local
<1>6. seen'[w] = NoReceipt \/ ~seen'[w].processed
  BY <1>1 DEF WorkerInv, SeenHandled, MainSteps, local
<1>7. WorkerInv(w)'
  BY <1>4, <1>5, <1>6 DEF WorkerInv, Holding, MarksHandled, SeenHandled, Reporting,
     MainSteps, EventOf
<1>8. SuccessIsMaterialised' /\ AckedIsMaterialised'
  BY <1>1 DEF SuccessIsMaterialised, AckedIsMaterialised, Handled, OpportunityOf, broker
<1> QED BY <1>3, <1>7, <1>8

\* A step that touches neither a worker nor a store.
LEMMA QuietStep ==
  ASSUME IndInv, UNCHANGED <<pc, msg, local, broker, receipts, opportunities>>
  PROVE  /\ \A v \in Workers : WorkerInv(v)'
         /\ SuccessIsMaterialised'
         /\ AckedIsMaterialised'
BY DEF IndInv, WorkerInv, Holding, MarksHandled, SeenHandled, Reporting, EventOf,
       SuccessIsMaterialised, AckedIsMaterialised, Handled, OpportunityOf, local, broker

\* At first nothing is held, read or stored.
LEMMA InitEstablishes == Init => IndInv
<1> SUFFICES ASSUME Init PROVE IndInv
  OBVIOUS
<1>1. TypeOK
  BY DEF Init, TypeOK, Queues
<1>2. \A w \in Workers : WorkerInv(w)
  BY DEF Init, WorkerInv, Holding, MarksHandled, SeenHandled, Reporting, MainSteps
<1>3. SuccessIsMaterialised /\ AckedIsMaterialised
  BY DEF Init, SuccessIsMaterialised, AckedIsMaterialised
<1> QED BY <1>1, <1>2, <1>3 DEF IndInv

\* Every reachable state of the consumer satisfies the inductive invariant.
THEOREM Invariance == Spec => []IndInv
<1>1. IndInv /\ [Next]_vars => IndInv'
  <2> SUFFICES ASSUME IndInv, [Next]_vars PROVE IndInv'
    OBVIOUS
  <2>1. TypeOK'
    BY TypeStep DEF IndInv
  <2>2. ASSUME NEW w \in Workers, Step(w)
        PROVE  (\A v \in Workers : WorkerInv(v)') /\ SuccessIsMaterialised' /\ AckedIsMaterialised'
    <3>1. Frame(w)
      BY <2>2, StepFrame DEF IndInv
    <3>2. \A v \in Workers \ {w} : WorkerInv(v)'
      BY <3>1, OthersKeep DEF IndInv
    <3> QED BY <2>2, <3>2, ActorKeeps, SuccessStep, AckedStep
  <2>3. ASSUME NEW w \in Workers, NEW m \in Messages, Deliver(w, m)
        PROVE  (\A v \in Workers : WorkerInv(v)') /\ SuccessIsMaterialised' /\ AckedIsMaterialised'
    BY <2>3, DeliverStep
  <2>4. ASSUME (\E s \in Signals : ChangeCatalog(s)) \/ UNCHANGED vars
        PROVE  (\A v \in Workers : WorkerInv(v)') /\ SuccessIsMaterialised' /\ AckedIsMaterialised'
    <3>1. UNCHANGED <<pc, msg, local, broker, receipts, opportunities>>
      BY <2>4 DEF ChangeCatalog, vars
    <3> QED BY <3>1, QuietStep
  <2> QED BY <2>1, <2>2, <2>3, <2>4 DEF IndInv, Next
<1> QED BY <1>1, InitEstablishes, PTL DEF Spec

-----------------------------------------------------------------------------
\* The state of the consumer is always typed.
THEOREM TypeCorrect == Spec => []TypeOK
BY Invariance, PTL DEF IndInv

\* No receipt ever says succeeded of an event without its effect.
THEOREM SuccessHasEffect == Spec => []SuccessIsMaterialised
BY Invariance, PTL DEF IndInv

\* No message leaves the main queue acknowledged without the effect of its
\* event, whatever is lost, duplicated, delayed or crashes.
THEOREM AckHasEffect == Spec => []AckedIsMaterialised
BY Invariance, PTL DEF IndInv

\* What a delivery reports is the opportunity stored for its signal.
THEOREM ReportIsStored == Spec => []ReportedIsStored
<1>1. IndInv => ReportedIsStored
  BY DEF IndInv, WorkerInv, Reporting, ReportedIsStored
<1> QED BY <1>1, Invariance, PTL

-----------------------------------------------------------------------------
\* A message becomes recorded only where the dead-letter consumer acks it.
LEMMA Recorded ==
  ASSUME IndInv, NEW w \in Workers, Retry(w) \/ Ack(w),
         NEW m \in Messages, place'[m] = "recorded", place[m] # "recorded"
  PROVE  Ack(w) /\ m = msg[w] /\ QueueOf(w) = "dlq"
<1>1. place \in [Messages -> Queues \cup {"acked", "recorded", "dropped"}]
  BY DEF IndInv, TypeOK
<1>2. ~Retry(w)
  BY <1>1 DEF Retry, After, Queues, QueueOf, broker
<1>3. m = msg[w] /\ QueueOf(w) # "main"
  BY <1>1, <1>2 DEF Ack
<1> QED BY <1>2, <1>3 DEF QueueOf

LEMMA DeadLetterStep ==
  ASSUME IndInv, [Next]_vars, DeadLetterIsDurable
  PROVE  DeadLetterIsDurable'
<1>1. CASE UNCHANGED place /\ deadLetters \subseteq deadLetters'
  BY <1>1 DEF DeadLetterIsDurable
<1>2. ASSUME NEW w \in Workers, Retry(w) \/ Ack(w), deadLetters \subseteq deadLetters',
             Ack(w) /\ QueueOf(w) = "dlq" => msg[w] \in deadLetters'
      PROVE  DeadLetterIsDurable'
  BY <1>2, Recorded DEF DeadLetterIsDurable
<1>3. ASSUME NEW w \in Workers, MainStep(w) PROVE DeadLetterIsDurable'
  <2>1. deadLetters' = deadLetters
    BY <1>3
    DEF MainStep, ReadFails, ReadEvent, FetchFails, AlreadySucceeded, FetchReceipt,
        UpsertReceipt, Skip, Resolve, ResolveFails, InsertOpportunity,
        RecogniseOpportunity, LookupFails, MarkSucceeded, RecordFailure
  <2>2. QueueOf(w) = "main"
    BY <1>3
    DEF MainStep, ReadFails, ReadEvent, FetchFails, AlreadySucceeded, FetchReceipt,
        UpsertReceipt, Skip, Resolve, ResolveFails, InsertOpportunity,
        RecogniseOpportunity, LookupFails, MarkSucceeded, RecordFailure, QueueOf, DlqSteps
  <2>3. UNCHANGED place \/ Retry(w) \/ Ack(w)
    BY <1>3
    DEF MainStep, ReadFails, ReadEvent, FetchFails, AlreadySucceeded, FetchReceipt,
        UpsertReceipt, Skip, Resolve, ResolveFails, InsertOpportunity,
        RecogniseOpportunity, LookupFails, MarkSucceeded, RecordFailure, broker
  <2> QED BY <1>1, <1>2, <2>1, <2>2, <2>3
<1>4. ASSUME NEW w \in Workers, DlqStep(w) PROVE DeadLetterIsDurable'
  <2>1. ASSUME NEW outcome \in Outcomes, StoreDeadLetter(w, outcome)
        PROVE  DeadLetterIsDurable'
    <3>1. deadLetters \subseteq deadLetters'
      BY <2>1 DEF StoreDeadLetter
    <3>2. CASE outcome = "confirmed" /\ msg[w] \notin deadLetters /\ Ack(w)
      <4>1. msg[w] \in deadLetters'
        BY <2>1, <3>2 DEF StoreDeadLetter, Applied
      <4> QED BY <1>2, <3>1, <3>2, <4>1
    <3>3. CASE outcome # "confirmed" /\ Retry(w)
      <4>1. ASSUME NEW m \in Messages, place'[m] = "recorded" PROVE place[m] = "recorded"
        BY <3>3, <4>1 DEF Retry, After, QueueOf, Queues, broker, IndInv, TypeOK
      <4> QED BY <3>1, <4>1 DEF DeadLetterIsDurable
    <3>4. CASE Goto(w, "confirm") /\ UNCHANGED <<msg, local, broker>>
      BY <1>1, <3>1, <3>4 DEF broker
    <3> QED BY <2>1, <3>2, <3>3, <3>4 DEF StoreDeadLetter
  <2>2. CASE ConfirmDeadLetter(w) \/ ConfirmFails(w)
    <3>1. deadLetters' = deadLetters
      BY <2>2 DEF ConfirmDeadLetter, ConfirmFails
    <3>2. CASE Ack(w) /\ msg[w] \in deadLetters
      BY <1>2, <3>1, <3>2
    <3>3. CASE Retry(w)
      <4>1. ASSUME NEW m \in Messages, place'[m] = "recorded" PROVE place[m] = "recorded"
        BY <3>3, <4>1 DEF Retry, After, QueueOf, Queues, broker, IndInv, TypeOK
      <4> QED BY <3>1, <4>1 DEF DeadLetterIsDurable
    <3> QED BY <2>2, <3>2, <3>3 DEF ConfirmDeadLetter, ConfirmFails
  <2> QED BY <1>4, <2>1, <2>2 DEF DlqStep
<1>5. ASSUME NEW w \in Workers, Crash(w) PROVE DeadLetterIsDurable'
  <2>1. ASSUME NEW m \in Messages, place'[m] = "recorded" PROVE place[m] = "recorded"
    BY <1>5, <2>1 DEF Crash, Retry, After, QueueOf, Queues, broker, IndInv, TypeOK
  <2> QED BY <1>5, <2>1 DEF Crash, DeadLetterIsDurable
<1>6. ASSUME NEW w \in Workers, NEW m \in Messages, Deliver(w, m) PROVE DeadLetterIsDurable'
  BY <1>1, <1>6 DEF Deliver, broker
<1>7. CASE (\E s \in Signals : ChangeCatalog(s)) \/ UNCHANGED vars
  BY <1>1, <1>7 DEF ChangeCatalog, vars, broker
<1> QED BY <1>3, <1>4, <1>5, <1>6, <1>7 DEF Next, Step

\* A message the dead-letter queue lets go of as recorded has its row in
\* event_dead_letters (storeDeadLetter, handleDeadLetterMessage).
THEOREM DeadLettersAreStored == Spec => []DeadLetterIsDurable
<1>1. Init => DeadLetterIsDurable
  BY DEF Init, DeadLetterIsDurable
<1> QED BY <1>1, DeadLetterStep, Invariance, PTL DEF Spec

-----------------------------------------------------------------------------
\* The consumer implements SignalDelivery.  What a step of a handler does to
\* a message's fate is what its last call does: retry or ack.
LEMMA RetryFate ==
  ASSUME TypeOK, NEW w \in Workers, Retry(w), msg[w] \in Messages
  PROVE  \/ Fate' = Fate
         \/ /\ QueueOf(w) = "dlq"
            /\ Fate[msg[w]] = "waiting"
            /\ Fate' = [Fate EXCEPT ![msg[w]] = "dropped"]
<1>1. CASE UNCHANGED place
  BY <1>1 DEF Fate
<1>2. CASE place[msg[w]] = QueueOf(w) /\ place' = [place EXCEPT ![msg[w]] = After(QueueOf(w))]
  <2>1. place[msg[w]] \in Queues /\ QueueOf(w) \in Queues
    BY <1>2 DEF QueueOf, Queues
  <2>2. CASE QueueOf(w) = "main"
    BY <1>2, <2>1, <2>2 DEF Fate, After, Queues, TypeOK
  <2>3. CASE QueueOf(w) = "dlq"
    BY <1>2, <2>1, <2>3 DEF Fate, After, Queues, TypeOK
  <2> QED BY <2>2, <2>3 DEF QueueOf
<1> QED BY <1>1, <1>2 DEF Retry, broker

LEMMA AckFate ==
  ASSUME TypeOK, NEW w \in Workers, Ack(w), msg[w] \in Messages
  PROVE  \/ Fate' = Fate
         \/ /\ Fate[msg[w]] = "waiting"
            /\ Fate' = [Fate EXCEPT ![msg[w]] =
                          IF QueueOf(w) = "main" THEN "acked" ELSE "recorded"]
<1>1. CASE UNCHANGED place
  BY <1>1 DEF Fate
<1>2. CASE place[msg[w]] = QueueOf(w)
           /\ place' = [place EXCEPT ![msg[w]] = IF QueueOf(w) = "main" THEN "acked"
                                                 ELSE "recorded"]
  BY <1>2 DEF Fate, Queues, QueueOf, TypeOK
<1> QED BY <1>1, <1>2 DEF Ack

\* A step that keeps the receipts' promise and touches nothing else the
\* delivery speaks of is a conclusion, an acknowledgement or a stutter.
LEMMA ReceiptsStep ==
  ASSUME IndInv, SuccessIsMaterialised', UNCHANGED <<opportunities, deadLetters>>,
         Fate' = Fate \/ \E m \in Messages :
           /\ Fate[m] = "waiting" /\ Fate' = [Fate EXCEPT ![m] = "acked"]
           /\ About[m] \in Events /\ Handled(About[m])
  PROVE  Delivery!Next
<1>1. Done' \subseteq {e \in Events : Delivery!Handled(e)}
  BY DEF Done, SuccessIsMaterialised, Handled, OpportunityOf, Delivery!Handled
<1>2. CASE Fate' = Fate
  BY <1>1, <1>2 DEF Delivery!Next, Delivery!Conclude, Delivery!Mark
<1>3. ASSUME NEW m \in Messages, Fate[m] = "waiting", Fate' = [Fate EXCEPT ![m] = "acked"],
             About[m] \in Events, Handled(About[m])
      PROVE  Delivery!Next
  <2>1. Delivery!Ack(m)
    BY <1>1, <1>3 DEF Delivery!Ack, Delivery!Leave, Delivery!Mark, Delivery!Handled,
                      Handled, OpportunityOf
  <2> QED BY <2>1 DEF Delivery!Next
<1> QED BY <1>2, <1>3

DeliveryVars == <<Fate, opportunities, Done, deadLetters>>

\* Every step of a main-queue handler.
LEMMA MainImplements ==
  ASSUME IndInv, NEW w \in Workers, MainStep(w)
  PROVE  [Delivery!Next]_DeliveryVars
<1> USE DEF IndInv
<1>1. /\ pc[w] \in MainSteps /\ QueueOf(w) = "main" /\ msg[w] \in Messages
      /\ deadLetters' = deadLetters
  BY DEF MainStep, ReadFails, ReadEvent, FetchFails, AlreadySucceeded, FetchReceipt,
         UpsertReceipt, Skip, Resolve, ResolveFails, InsertOpportunity, QueueOf, DlqSteps,
         RecogniseOpportunity, LookupFails, MarkSucceeded, RecordFailure, MainSteps,
         WorkerInv, Holding
<1>2. SuccessIsMaterialised'
  BY SuccessStep DEF Step
<1>3. ASSUME UNCHANGED place PROVE Fate' = Fate
  BY <1>3 DEF Fate
<1>4. ASSUME Retry(w) PROVE Fate' = Fate
  BY <1>1, <1>4, RetryFate
<1>5. ASSUME Ack(w), pc[w] # "read", Handled(EventOf(w))
      PROVE  Fate' = Fate \/ \E m \in Messages :
               /\ Fate[m] = "waiting" /\ Fate' = [Fate EXCEPT ![m] = "acked"]
               /\ About[m] \in Events /\ Handled(About[m])
  <2>1. EventOf(w) \in Events
    BY <1>1, <1>5 DEF WorkerInv, Holding
  <2> QED BY <1>1, <1>5, <2>1, AckFate DEF EventOf
<1>6. ASSUME NEW outcome \in Outcomes, InsertOpportunity(w, outcome)
      PROVE  [Delivery!Next]_DeliveryVars
  <2>1. /\ EventOf(w) \in Events /\ SignalOf[EventOf(w)] \in Signals
        /\ candidate[w] \in Instruments
    BY <1>6 DEF InsertOpportunity, WorkerInv, Holding, MainSteps
  <2>2. Fate' = Fate /\ Done' = Done
    BY <1>6 DEF InsertOpportunity, broker, Fate, Done
  <2>3. CASE UNCHANGED opportunities
    BY <1>1, <2>2, <2>3 DEF DeliveryVars
  <2>4. CASE /\ OpportunityOf(EventOf(w)) = NoOpportunity
             /\ opportunities' = [opportunities EXCEPT ![SignalOf[EventOf(w)]] =
                                    [source |-> EventOf(w), instrument |-> candidate[w]]]
    <3>1. Delivery!Make(EventOf(w), candidate[w])
      BY <1>1, <2>1, <2>2, <2>4 DEF Delivery!Make, OpportunityOf
    <3> QED BY <2>1, <3>1 DEF Delivery!Next
  <2> QED BY <1>6, <2>3, <2>4 DEF InsertOpportunity
<1>7. ASSUME opportunities' = opportunities,
             Fate' = Fate \/ \E m \in Messages :
               /\ Fate[m] = "waiting" /\ Fate' = [Fate EXCEPT ![m] = "acked"]
               /\ About[m] \in Events /\ Handled(About[m])
      PROVE  [Delivery!Next]_DeliveryVars
  BY <1>1, <1>2, <1>7, ReceiptsStep
<1>8. CASE AlreadySucceeded(w)
  <2>1. EventOf(w) \in Events
    BY <1>1, <1>8 DEF AlreadySucceeded, WorkerInv, Holding
  <2>2. Handled(EventOf(w))
    BY <1>8, <2>1 DEF AlreadySucceeded, Succeeded, SuccessIsMaterialised
  <2> QED BY <1>5, <1>7, <1>8, <2>2 DEF AlreadySucceeded
<1>9. ASSUME NEW outcome \in Outcomes, MarkSucceeded(w, outcome)
      PROVE  [Delivery!Next]_DeliveryVars
  <2>1. pc[w] = "mark" /\ Handled(EventOf(w)) /\ opportunities' = opportunities
    BY <1>9 DEF MarkSucceeded, WorkerInv, MarksHandled
  <2>2. Ack(w) \/ UNCHANGED place
    BY <1>9 DEF MarkSucceeded, broker
  <2> QED BY <1>3, <1>5, <1>7, <2>1, <2>2
<1>10. ASSUME NEW outcome \in Outcomes,
              \/ ReadFails(w) \/ FetchFails(w) \/ RecordFailure(w)
              \/ ReadEvent(w) \/ FetchReceipt(w) \/ Skip(w) \/ Resolve(w) \/ ResolveFails(w)
              \/ RecogniseOpportunity(w) \/ LookupFails(w) \/ UpsertReceipt(w, outcome)
       PROVE  [Delivery!Next]_DeliveryVars
  <2>1. (Retry(w) \/ UNCHANGED place) /\ opportunities' = opportunities
    BY <1>10 DEF ReadFails, FetchFails, RecordFailure, ReadEvent, FetchReceipt, Skip,
       Resolve, ResolveFails, RecogniseOpportunity, LookupFails, UpsertReceipt, broker
  <2> QED BY <1>3, <1>4, <1>7, <2>1
<1>11. \E outcome \in Outcomes : TRUE
  BY DEF Outcomes
<1> QED BY <1>6, <1>8, <1>9, <1>10, <1>11 DEF MainStep

\* A step that only stores a dead letter, settles one, or gives one up.
LEMMA DeadLettersStep ==
  ASSUME IndInv, NEW m \in Messages, UNCHANGED <<opportunities, receipts>>,
         deadLetters' \in {deadLetters, deadLetters \cup {m}},
         \/ Fate' = Fate
         \/ /\ Fate[m] = "waiting"
            /\ \/ Fate' = [Fate EXCEPT ![m] = "dropped"]
               \/ Fate' = [Fate EXCEPT ![m] = "recorded"] /\ m \in deadLetters'
  PROVE  [Delivery!Next]_DeliveryVars
<1>1. Done' = Done
  BY DEF Done
<1>2. CASE Fate' = Fate
  <2>1. CASE deadLetters' = deadLetters
    BY <1>1, <1>2, <2>1 DEF DeliveryVars
  <2>2. CASE deadLetters' = deadLetters \cup {m}
    BY <1>1, <1>2, <2>2 DEF Delivery!Next, Delivery!Store
  <2> QED BY <2>1, <2>2
<1>3. CASE Fate[m] = "waiting" /\ Fate' = [Fate EXCEPT ![m] = "dropped"]
  BY <1>1, <1>3 DEF Delivery!Next, Delivery!Drop, Delivery!Leave
<1>4. CASE /\ Fate[m] = "waiting" /\ m \in deadLetters'
           /\ Fate' = [Fate EXCEPT ![m] = "recorded"]
  <2>1. deadLetters' = deadLetters \cup {m}
    BY <1>4
  <2> QED BY <1>1, <1>4, <2>1 DEF Delivery!Next, Delivery!Record, Delivery!Leave
<1> QED BY <1>2, <1>3, <1>4

\* Every step of a dead-letter handler, and the death of either.
LEMMA DlqImplements ==
  ASSUME IndInv, NEW w \in Workers, DlqStep(w) \/ Crash(w)
  PROVE  [Delivery!Next]_DeliveryVars
<1> USE DEF IndInv
<1>1. /\ msg[w] \in Messages /\ UNCHANGED <<opportunities, receipts>>
      /\ DlqStep(w) => QueueOf(w) = "dlq"
  BY DEF DlqStep, StoreDeadLetter, ConfirmDeadLetter, ConfirmFails, Crash, QueueOf,
         DlqSteps, WorkerInv, Holding
<1>2. deadLetters' \in {deadLetters, deadLetters \cup {msg[w]}}
  BY DEF DlqStep, StoreDeadLetter, ConfirmDeadLetter, ConfirmFails, Crash
<1>3. \/ UNCHANGED place
      \/ Retry(w)
      \/ Ack(w) /\ DlqStep(w) /\ msg[w] \in deadLetters'
  BY DEF DlqStep, StoreDeadLetter, ConfirmDeadLetter, ConfirmFails, Crash, Applied, broker
<1>4. \/ Fate' = Fate
      \/ /\ Fate[msg[w]] = "waiting"
         /\ \/ Fate' = [Fate EXCEPT ![msg[w]] = "dropped"]
            \/ Fate' = [Fate EXCEPT ![msg[w]] = "recorded"] /\ msg[w] \in deadLetters'
  <2>1. CASE UNCHANGED place
    BY <2>1 DEF Fate
  <2>2. CASE Retry(w)
    BY <1>1, <2>2, RetryFate
  <2>3. CASE Ack(w) /\ DlqStep(w) /\ msg[w] \in deadLetters'
    BY <1>1, <2>3, AckFate
  <2> QED BY <1>3, <2>1, <2>2, <2>3
<1> QED BY <1>1, <1>2, <1>4, DeadLettersStep

\* Whatever is lost, duplicated, delayed or crashes, the consumer does only
\* what SignalDelivery allows: effects before acknowledgements, one opportunity
\* to a signal for ever, dead letters stored before they are let go.
THEOREM DeliveryIsImplemented == Spec => ImplementsDelivery
<1>1. Init => Delivery!Init
  BY DEF Init, Delivery!Init, Fate, Done, Queues
<1>2. IndInv /\ [Next]_vars => [Delivery!Next]_DeliveryVars
  <2> SUFFICES ASSUME IndInv, [Next]_vars PROVE [Delivery!Next]_DeliveryVars
    OBVIOUS
  <2>1. ASSUME NEW w \in Workers, Step(w) PROVE [Delivery!Next]_DeliveryVars
    BY <2>1, MainImplements, DlqImplements DEF Step
  <2>2. ASSUME UNCHANGED <<broker, receipts, opportunities, deadLetters>>
        PROVE  [Delivery!Next]_DeliveryVars
    BY <2>2 DEF DeliveryVars, Fate, Done, broker
  <2> QED BY <2>1, <2>2 DEF Next, Deliver, ChangeCatalog, vars
<1> QED BY <1>1, <1>2, Invariance, PTL DEF Spec, ImplementsDelivery, Delivery!Spec, DeliveryVars
=============================================================================
