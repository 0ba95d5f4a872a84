--------------------------- MODULE QueueConsumer ---------------------------
(***************************************************************************)
(* The consumer side of the event queue: main-queue invocations that read  *)
(* the canonical event, keep a processing receipt, materialise at most one *)
(* opportunity per signal and acknowledge; dead-letter invocations that    *)
(* store the message and acknowledge.                                      *)
(*                                                                         *)
(* Every await of the handlers is a step of its own, so invocations        *)
(* interleave between a read and the write that uses it.  A write to the   *)
(* store has one of three outcomes: it is applied and confirmed, applied   *)
(* with its answer lost, or not applied.  An invocation can die at any     *)
(* step.  The queue is Cloudflare's: it delivers at least once, counts a   *)
(* failed delivery, and moves a message on when its retries are used up.   *)
(*                                                                         *)
(* A batch is awaited message by message, so a worker holds one message.   *)
(* Ledger rows are immutable, so what an event is about is a constant.     *)
(* An opportunity's random id is named by the source event whose insert    *)
(* made it: source_event_id is unique, so each names the other.            *)
(* The receipt's diagnostic columns (error code, message id, timestamps)   *)
(* are abstracted; status, attempt_count and processed_at are kept.        *)
(***************************************************************************)
EXTENDS Naturals

CONSTANTS
  Messages, Events, Signals, Instruments, Workers,
  About,          \* the event each message names, or Malformed
  SignalOf,       \* the signal each event carries, or Skipped, or Invalid
  Malformed,      \* a body that is not a V1 queue message
  Skipped,        \* an event of another type: nothing to materialise
  Invalid,        \* a signal event whose version or payload does not decode
  MaxRetries,     \* retries of the main queue (wrangler.jsonc)
  MaxDlqRetries,  \* retries of the dead-letter queue (platform default)
  MaxDuplicates,  \* bound: deliveries of a message another worker holds
  MaxCatalogChanges,  \* bound: changes of the instrument catalogue
  NoReceipt, NoOpportunity, NoInstrument, NoMessage, NoEvent

Receipt == [status : {"processing", "succeeded"}, attempts : Nat, processed : BOOLEAN]
Opportunity == [source : Events, instrument : Instruments]
Queues == {"main", "dlq"}

ASSUME MessageAssumption ==
  About \in [Messages -> Events \cup {Malformed}] /\ Malformed \notin Events
ASSUME SignalAssumption ==
  /\ SignalOf \in [Events -> Signals \cup {Skipped, Invalid}]
  /\ {Skipped, Invalid} \cap Signals = {}
  /\ Skipped # Invalid
ASSUME BoundAssumption ==
  {MaxRetries, MaxDlqRetries, MaxDuplicates, MaxCatalogChanges} \subseteq Nat
ASSUME NullAssumption ==
  /\ NoReceipt \notin Receipt
  /\ NoOpportunity \notin Opportunity
  /\ NoInstrument \notin Instruments
  /\ NoMessage \notin Messages
  /\ NoEvent \notin Events

VARIABLES
  pc,             \* the await each worker is at
  msg,            \* the message each worker holds
  seen,           \* the receipt it read before deciding to process
  candidate,      \* the instrument it resolved for its candidate row
  reported,       \* the opportunity it materialised or recognised
  place,          \* where each message is
  tries,          \* failed deliveries of each message in its current queue
  duplicates,     \* duplicate deliveries so far
  receipts,       \* event_processing_receipts
  opportunities,  \* opportunities, by dedupe key
  deadLetters,    \* event_dead_letters, by queue_message_id
  catalog,        \* the instrument the catalogue resolves each signal to
  catalogChanges  \* changes of the catalogue so far

local == <<seen, candidate, reported>>
broker == <<place, tries>>
catalogue == <<catalog, catalogChanges>>
vars == <<pc, msg, local, broker, duplicates, receipts, opportunities,
          deadLetters, catalogue>>

\* Whether a write is applied, and whether its sender learns that it was.
Outcomes == {"confirmed", "lost", "failed"}
Applied(outcome) == outcome \in {"confirmed", "lost"}

MainSteps == {"read", "fetch", "upsert", "resolve", "insert", "lookup", "mark", "fail"}
DlqSteps == {"store", "confirm"}

QueueOf(w) == IF pc[w] \in DlqSteps THEN "dlq" ELSE "main"
EventOf(w) == About[msg[w]]
OpportunityOf(e) == opportunities[SignalOf[e]]
Goto(w, label) == pc' = [pc EXCEPT ![w] = label]

-----------------------------------------------------------------------------
Init ==
  /\ pc = [w \in Workers |-> "idle"]
  /\ msg = [w \in Workers |-> NoMessage]
  /\ seen = [w \in Workers |-> NoReceipt]
  /\ candidate = [w \in Workers |-> NoInstrument]
  /\ reported = [w \in Workers |-> NoEvent]
  /\ place = [m \in Messages |-> "main"]
  /\ tries = [m \in Messages |-> 0]
  /\ duplicates = 0
  /\ receipts = [e \in Events |-> NoReceipt]
  /\ opportunities = [s \in Signals |-> NoOpportunity]
  /\ deadLetters = {}
  /\ catalog \in [Signals -> Instruments \cup {NoInstrument}]
  /\ catalogChanges = 0

-----------------------------------------------------------------------------
(* The queue service.                                                      *)

\* A worker is handed a message; a message another worker still holds may be
\* delivered again, MaxDuplicates times in all.
Deliver(w, m) ==
  /\ pc[w] = "idle"
  /\ place[m] \in Queues
  /\ IF \E v \in Workers : pc[v] # "idle" /\ msg[v] = m
     THEN duplicates < MaxDuplicates /\ duplicates' = duplicates + 1
     ELSE UNCHANGED duplicates
  /\ msg' = [msg EXCEPT ![w] = m]
  /\ Goto(w, IF place[m] = "main" THEN "read" ELSE "store")
  /\ UNCHANGED <<local, broker, receipts, opportunities, deadLetters, catalogue>>

Retries(q) == IF q = "main" THEN MaxRetries ELSE MaxDlqRetries
After(q) == IF q = "main" THEN "dlq" ELSE "dropped"

\* The worker lets go of its message and forgets what it knew.
LetGo(w) ==
  /\ Goto(w, "idle")
  /\ msg' = [msg EXCEPT ![w] = NoMessage]
  /\ seen' = [seen EXCEPT ![w] = NoReceipt]
  /\ candidate' = [candidate EXCEPT ![w] = NoInstrument]
  /\ reported' = [reported EXCEPT ![w] = NoEvent]

\* A plausible mistake: failed deliveries are not counted.
RetryUncounted(w) ==
  /\ UNCHANGED broker
  /\ LetGo(w)

\* message.retry(), or a delivery that died: one try is used up; the last
\* one moves the message on.  A delivery the queue no longer waits for
\* changes nothing.
Retry(w) ==
  /\ LET m == msg[w]
         q == QueueOf(w)
     IN \/ place[m] # q /\ UNCHANGED broker
        \/ /\ place[m] = q
           /\ tries[m] < Retries(q)
           /\ tries' = [tries EXCEPT ![m] = @ + 1]
           /\ UNCHANGED place
        \/ /\ place[m] = q
           /\ tries[m] >= Retries(q)
           /\ place' = [place EXCEPT ![m] = After(q)]
           /\ tries' = [tries EXCEPT ![m] = 0]
  /\ LetGo(w)

\* message.ack(): the message leaves the queue.
Ack(w) ==
  /\ place' = IF place[msg[w]] = QueueOf(w)
              THEN [place EXCEPT ![msg[w]] = IF QueueOf(w) = "main" THEN "acked"
                                             ELSE "recorded"]
              ELSE place
  /\ UNCHANGED tries
  /\ LetGo(w)

\* The invocation dies: an exception, an evicted isolate, a time limit.
Crash(w) ==
  /\ pc[w] # "idle"
  /\ Retry(w)
  /\ UNCHANGED <<duplicates, receipts, opportunities, deadLetters, catalogue>>

-----------------------------------------------------------------------------
(* handleMainQueueMessage                                                  *)

\* A malformed body, or a canonical event that cannot be read, is retried.
ReadFails(w) ==
  /\ pc[w] = "read"
  /\ Retry(w)
  /\ UNCHANGED <<duplicates, receipts, opportunities, deadLetters, catalogue>>

ReadEvent(w) ==
  /\ pc[w] = "read"
  /\ EventOf(w) \in Events
  /\ Goto(w, "fetch")
  /\ UNCHANGED <<msg, local, broker, duplicates, receipts, opportunities,
                 deadLetters, catalogue>>

\* beginProcessingReceipt, first half: the receipt is read ...
FetchFails(w) ==
  /\ pc[w] = "fetch"
  /\ Retry(w)
  /\ UNCHANGED <<duplicates, receipts, opportunities, deadLetters, catalogue>>

Succeeded(e) == receipts[e] # NoReceipt /\ receipts[e].status = "succeeded"

AlreadySucceeded(w) ==
  /\ pc[w] = "fetch"
  /\ Succeeded(EventOf(w))
  /\ Ack(w)
  /\ UNCHANGED <<duplicates, receipts, opportunities, deadLetters, catalogue>>

FetchReceipt(w) ==
  /\ pc[w] = "fetch"
  /\ ~Succeeded(EventOf(w))
  /\ seen' = [seen EXCEPT ![w] = receipts[EventOf(w)]]
  /\ Goto(w, "upsert")
  /\ UNCHANGED <<msg, candidate, reported, broker, duplicates, receipts,
                 opportunities, deadLetters, catalogue>>

\* ... second half: the row is replaced by one made from what was read.
Started(r) ==
  IF r = NoReceipt
  THEN [status |-> "processing", attempts |-> 1, processed |-> FALSE]
  ELSE [status |-> "processing", attempts |-> r.attempts + 1, processed |-> r.processed]

UpsertReceipt(w, outcome) ==
  /\ pc[w] = "upsert"
  /\ receipts' = IF Applied(outcome)
                 THEN [receipts EXCEPT ![EventOf(w)] = Started(seen[w])]
                 ELSE receipts
  /\ IF outcome = "confirmed"
     THEN Goto(w, "resolve") /\ UNCHANGED <<msg, local, broker>>
     ELSE Retry(w)
  /\ UNCHANGED <<duplicates, opportunities, deadLetters, catalogue>>

\* materializeOpportunityForEvent: read the event again and decode it ...
Skip(w) ==
  /\ pc[w] = "resolve"
  /\ SignalOf[EventOf(w)] = Skipped
  /\ Goto(w, "mark")
  /\ UNCHANGED <<msg, local, broker, duplicates, receipts, opportunities,
                 deadLetters, catalogue>>

\* ... resolve its instrument ...
Resolve(w) ==
  /\ pc[w] = "resolve"
  /\ SignalOf[EventOf(w)] \in Signals
  /\ catalog[SignalOf[EventOf(w)]] # NoInstrument
  /\ candidate' = [candidate EXCEPT ![w] = catalog[SignalOf[EventOf(w)]]]
  /\ Goto(w, "insert")
  /\ UNCHANGED <<msg, seen, reported, broker, duplicates, receipts,
                 opportunities, deadLetters, catalogue>>

\* (an unreadable store, an undecodable event or an unknown instrument is a
\* failure) ...
ResolveFails(w) ==
  /\ pc[w] = "resolve"
  /\ Goto(w, "fail")
  /\ UNCHANGED <<msg, local, broker, duplicates, receipts, opportunities,
                 deadLetters, catalogue>>

\* ... insert the row, which the unique indexes admit once per signal; 201
\* names the handler's own row ...
InsertOpportunity(w, outcome) ==
  /\ pc[w] = "insert"
  /\ LET e == EventOf(w)
         free == OpportunityOf(e) = NoOpportunity
     IN /\ opportunities' =
             IF Applied(outcome) /\ free
             THEN [opportunities EXCEPT ![SignalOf[e]] =
                     [source |-> e, instrument |-> candidate[w]]]
             ELSE opportunities
        /\ IF outcome = "confirmed" /\ free
           THEN reported' = [reported EXCEPT ![w] = e] /\ Goto(w, "mark")
           ELSE UNCHANGED reported /\ Goto(w, "lookup")
  /\ UNCHANGED <<msg, seen, candidate, broker, duplicates, receipts,
                 deadLetters, catalogue>>

\* ... and otherwise look the row up, by source event and then by dedupe
\* key.  Rows are immutable, so the two reads amount to the second one.
MatchesCandidate(row, w) == row.instrument = candidate[w]

\* Plausible mistakes: a refused insert is answered with the candidate's own
\* identity; the row is kept instead of its identity; a row that cannot be
\* found counts as done.
RecogniseAsOwn(w) ==
  /\ pc[w] = "lookup"
  /\ OpportunityOf(EventOf(w)) # NoOpportunity
  /\ MatchesCandidate(OpportunityOf(EventOf(w)), w)
  /\ reported' = [reported EXCEPT ![w] = EventOf(w)]
  /\ Goto(w, "mark")
  /\ UNCHANGED <<msg, seen, candidate, broker, duplicates, receipts,
                 opportunities, deadLetters, catalogue>>

RecogniseWholeRow(w) ==
  /\ pc[w] = "lookup"
  /\ OpportunityOf(EventOf(w)) # NoOpportunity
  /\ reported' = [reported EXCEPT ![w] = OpportunityOf(EventOf(w))]
  /\ Goto(w, "mark")
  /\ UNCHANGED <<msg, seen, candidate, broker, duplicates, receipts,
                 opportunities, deadLetters, catalogue>>

LookupFailureIgnored(w) ==
  /\ pc[w] = "lookup"
  /\ Goto(w, "mark")
  /\ UNCHANGED <<msg, local, broker, duplicates, receipts, opportunities,
                 deadLetters, catalogue>>

RecogniseOpportunity(w) ==
  /\ pc[w] = "lookup"
  /\ OpportunityOf(EventOf(w)) # NoOpportunity
  /\ MatchesCandidate(OpportunityOf(EventOf(w)), w)
  /\ reported' = [reported EXCEPT ![w] = OpportunityOf(EventOf(w)).source]
  /\ Goto(w, "mark")
  /\ UNCHANGED <<msg, seen, candidate, broker, duplicates, receipts,
                 opportunities, deadLetters, catalogue>>

\* No row, a row that differs (conflict), or a read that failed.
LookupFails(w) ==
  /\ pc[w] = "lookup"
  /\ Goto(w, "fail")
  /\ UNCHANGED <<msg, local, broker, duplicates, receipts, opportunities,
                 deadLetters, catalogue>>

\* markProcessingSucceeded, then message.ack() in the same turn.
MarkSucceeded(w, outcome) ==
  /\ pc[w] = "mark"
  /\ receipts' = IF Applied(outcome) /\ receipts[EventOf(w)] # NoReceipt
                 THEN [receipts EXCEPT ![EventOf(w)].status = "succeeded",
                                       ![EventOf(w)].processed = TRUE]
                 ELSE receipts
  /\ IF outcome = "confirmed"
     THEN Ack(w)
     ELSE Goto(w, "fail") /\ UNCHANGED <<msg, local, broker>>
  /\ UNCHANGED <<duplicates, opportunities, deadLetters, catalogue>>

\* recordProcessingFailure writes diagnostic columns only, its result is not
\* looked at, and the message is retried.
RecordFailure(w) ==
  /\ pc[w] = "fail"
  /\ Retry(w)
  /\ UNCHANGED <<duplicates, receipts, opportunities, deadLetters, catalogue>>

-----------------------------------------------------------------------------
(* handleDeadLetterMessage                                                 *)

\* 201 stores the message; a 409 is confirmed by reading the row back; any
\* other outcome is retried.
StoreDeadLetter(w, outcome) ==
  /\ pc[w] = "store"
  /\ deadLetters' = IF Applied(outcome) THEN deadLetters \cup {msg[w]} ELSE deadLetters
  /\ \/ outcome = "confirmed" /\ msg[w] \notin deadLetters /\ Ack(w)
     \/ /\ outcome = "confirmed"
        /\ msg[w] \in deadLetters
        /\ Goto(w, "confirm")
        /\ UNCHANGED <<msg, local, broker>>
     \/ outcome # "confirmed" /\ Retry(w)
  /\ UNCHANGED <<duplicates, receipts, opportunities, catalogue>>

ConfirmDeadLetter(w) ==
  /\ pc[w] = "confirm"
  /\ IF msg[w] \in deadLetters THEN Ack(w) ELSE Retry(w)
  /\ UNCHANGED <<duplicates, receipts, opportunities, deadLetters, catalogue>>

ConfirmFails(w) ==
  /\ pc[w] = "confirm"
  /\ Retry(w)
  /\ UNCHANGED <<duplicates, receipts, opportunities, deadLetters, catalogue>>

-----------------------------------------------------------------------------
\* An operator adds, corrects or retires the alias a signal resolves by.
ChangeCatalog(s) ==
  /\ catalogChanges < MaxCatalogChanges
  /\ catalogChanges' = catalogChanges + 1
  /\ \E i \in Instruments \cup {NoInstrument} :
       i # catalog[s] /\ catalog' = [catalog EXCEPT ![s] = i]
  /\ UNCHANGED <<pc, msg, local, broker, duplicates, receipts, opportunities, deadLetters>>

MainStep(w) ==
  \/ ReadFails(w) \/ ReadEvent(w)
  \/ FetchFails(w) \/ AlreadySucceeded(w) \/ FetchReceipt(w)
  \/ \E outcome \in Outcomes : UpsertReceipt(w, outcome)
  \/ Skip(w) \/ Resolve(w) \/ ResolveFails(w)
  \/ \E outcome \in Outcomes : InsertOpportunity(w, outcome)
  \/ RecogniseOpportunity(w) \/ LookupFails(w)
  \/ \E outcome \in Outcomes : MarkSucceeded(w, outcome)
  \/ RecordFailure(w)

DlqStep(w) ==
  \/ \E outcome \in Outcomes : StoreDeadLetter(w, outcome)
  \/ ConfirmDeadLetter(w) \/ ConfirmFails(w)

Step(w) == MainStep(w) \/ DlqStep(w) \/ Crash(w)

Next ==
  \/ \E w \in Workers : Step(w) \/ \E m \in Messages : Deliver(w, m)
  \/ \E s \in Signals : ChangeCatalog(s)

\* A held invocation ends: its fetch answers or throws, or the platform kills
\* it.  The queue keeps delivering a message it still has.
Fairness ==
  /\ \A w \in Workers : WF_vars(Step(w))
  /\ \A m \in Messages : WF_vars(\E w \in Workers : Deliver(w, m))

Spec == Init /\ [][Next]_vars
FairSpec == Spec /\ Fairness

-----------------------------------------------------------------------------
TypeOK ==
  /\ pc \in [Workers -> {"idle"} \cup MainSteps \cup DlqSteps]
  /\ msg \in [Workers -> Messages \cup {NoMessage}]
  /\ seen \in [Workers -> Receipt \cup {NoReceipt}]
  /\ candidate \in [Workers -> Instruments \cup {NoInstrument}]
  /\ reported \in [Workers -> Events \cup {NoEvent}]
  /\ place \in [Messages -> Queues \cup {"acked", "recorded", "dropped"}]
  /\ tries \in [Messages -> Nat]
  /\ duplicates \in Nat
  /\ receipts \in [Events -> Receipt \cup {NoReceipt}]
  /\ opportunities \in [Signals -> Opportunity \cup {NoOpportunity}]
  /\ deadLetters \subseteq Messages
  /\ catalog \in [Signals -> Instruments \cup {NoInstrument}]
  /\ catalogChanges \in Nat

\* The event needed no opportunity, or its signal has one.
Handled(e) ==
  \/ SignalOf[e] = Skipped
  \/ SignalOf[e] \in Signals /\ OpportunityOf(e) # NoOpportunity

\* A receipt that says succeeded, or that ever said so (processed_at), is
\* about an event whose effect is in the store, although receipts are
\* rewritten from stale reads and confirmations get lost.
SuccessIsMaterialised ==
  \A e \in Events :
    receipts[e] # NoReceipt /\ (receipts[e].status = "succeeded" \/ receipts[e].processed)
    => Handled(e)

\* A message leaves the main queue acknowledged only when the effect of its
\* event is in the store: no signal is lost by an early or mistaken ack.
AckedIsMaterialised ==
  \A m \in Messages : place[m] = "acked" =>
    About[m] \in Events /\ Handled(About[m])

\* The opportunity a delivery goes on to report, and to schedule snapshots
\* for, is the one stored for the signal and is on the instrument this very
\* delivery resolved, whoever inserted it.
ReportedIsStored ==
  \A w \in Workers : reported[w] # NoEvent =>
    /\ SignalOf[EventOf(w)] \in Signals
    /\ OpportunityOf(EventOf(w)) = [source |-> reported[w], instrument |-> candidate[w]]

\* A dead-letter message is acknowledged only when its row is stored, also
\* when the answer to an earlier attempt's insert was lost.
DeadLetterIsDurable ==
  \A m \in Messages : place[m] = "recorded" => m \in deadLetters

\* What has become of each message, and the events whose receipts tell of a
\* success, now or ever (processed_at).
Fate == [m \in Messages |-> IF place[m] \in Queues THEN "waiting" ELSE place[m]]
Done ==
  {e \in Events :
     receipts[e] # NoReceipt /\ (receipts[e].status = "succeeded" \/ receipts[e].processed)}

Delivery == INSTANCE SignalDelivery WITH
  fate <- Fate, made <- opportunities, done <- Done, stored <- deadLetters

\* The consumer implements the delivery of signals: whatever is lost,
\* duplicated, delayed or crashes, an acknowledged message has its effect in
\* the store, a receipt tells of no success without it, a recorded one has its
\* dead letter, no opportunity is made twice or changed, and a message that
\* has left the queues stays gone.
ImplementsDelivery == Delivery!Spec

\* Every message the queue takes is settled in the end: acknowledged with its
\* effect, recorded as a dead letter, or dropped by the dead-letter queue.
EveryMessageSettles ==
  \A m \in Messages : <>(place[m] \notin Queues)

\* "Already-succeeded duplicate deliveries are acknowledged without repeating
\* processing": once a message about an event has been acknowledged, a
\* delivery that then reads the event's receipt does not go on to process it.
DuplicatesAreRecognised ==
  [][\A w \in Workers :
       pc[w] = "fetch" /\ pc'[w] = "upsert" =>
         \A m \in Messages : place[m] = "acked" => About[m] # EventOf(w)]_vars
=============================================================================
