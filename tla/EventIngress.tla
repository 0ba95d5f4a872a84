---------------------------- MODULE EventIngress ----------------------------
(***************************************************************************)
(* The two acceptance paths of the worker: POST /api/events/ingest and the *)
(* TradingView webhook.  Each request is one invocation of the handler; it *)
(* screens its input, inserts one row in event_ledger, reads the ledger    *)
(* back when the insert did not answer 201, sends one queue message and    *)
(* answers.  Invocations run concurrently and share the ledger and the     *)
(* queue; an invocation can die at any await.  The insert travels to the   *)
(* database on its own: it may commit although its answer is lost, or      *)
(* commit after the handler gave up on it.                                 *)
(*                                                                         *)
(* A request stands for the event id and the request id it mints (two      *)
(* fresh UUIDs).  One deployment writes one environment, so the unique     *)
(* index (environment, idempotency_key_sha256) is an index on the key.     *)
(* Requests bounds how many invocations there are.                         *)
(***************************************************************************)
EXTENDS Naturals

CONSTANTS
  Requests,   \* handler invocations, and the ids each of them mints
  Bodies,     \* raw request bodies (their SHA-256)
  Keys,       \* idempotency keys (their SHA-256)
  TvKey,      \* the synthetic key "tv:<sha of body>" of each body
  Inputs,     \* the requests clients send
  NoKey,      \* a missing or malformed Idempotency-Key header
  NoRow,      \* no ledger row
  NoInput,    \* nothing received yet
  NoEvent     \* no event chosen yet

Routes == {"events", "tradingview"}

\* What the handlers look at.  wellFormed is whether the body passed the
\* payload rules of its route when it was read: the TradingView rules compare
\* bar times with the clock, so it belongs to the request, not to the body.
Input == [route : Routes, authorised : BOOLEAN, json : BOOLEAN,
          bounded : BOOLEAN, wellFormed : BOOLEAN,
          body : Bodies, key : Keys \cup {NoKey}]

Row == [id : Requests, body : Bodies]

ASSUME KeyAssumption == TvKey \in [Bodies -> Keys] /\ NoKey \notin Keys
ASSUME InputAssumption == Inputs \subseteq Input /\ NoInput \notin Input
ASSUME NullAssumption ==
  /\ NoRow \notin Row
  /\ NoEvent \notin Requests
  /\ NoInput \notin [key : Keys, body : Bodies]

VARIABLES
  pc,      \* where each invocation is; an answer once it has answered
  input,   \* what each invocation received
  write,   \* what became of the insert each invocation issued
  target,  \* the event id each invocation dispatches and answers with
  ledger,  \* event_ledger: the row recorded under each key
  queue    \* the messages the event queue has taken

vars == <<pc, input, write, target, ledger, queue>>

Answers == {"rejected", "accepted", "conflict", "unavailable", "undispatched"}
Awaiting == {"insert", "lookup", "dispatch", "sent"}

-----------------------------------------------------------------------------
(* Pure parts of the handlers.                                             *)

\* Both handlers refuse anything but this before they touch a store.
Admissible(i) ==
  /\ i.authorised
  /\ i.json
  /\ i.bounded
  /\ i.wellFormed
  /\ i.route = "events" => i.key # NoKey

\* The generic route hashes the header, the webhook hashes "tv:" and the
\* digest of the body.  The header pattern admits the synthetic form too.
KeyOf(i) == IF i.route = "tradingview" THEN TvKey[i.body] ELSE i.key

\* A recorded row answers a request again only if it records the same body.
SameBody(row, i) == row.body = i.body

-----------------------------------------------------------------------------
Init ==
  /\ pc = [r \in Requests |-> "idle"]
  /\ input = [r \in Requests |-> NoInput]
  /\ write = [r \in Requests |-> "none"]
  /\ target = [r \in Requests |-> NoEvent]
  /\ ledger = [k \in Keys |-> NoRow]
  /\ queue = {}

Goto(r, label) == pc' = [pc EXCEPT ![r] = label]

-----------------------------------------------------------------------------
(* Plausible mistakes, each a variant of the definition it is named after. *)

ReplayWholeRow(r) ==
  /\ pc[r] = "lookup"
  /\ ledger[KeyOf(input[r])] # NoRow
  /\ SameBody(ledger[KeyOf(input[r])], input[r])
  /\ target' = [target EXCEPT ![r] = ledger[KeyOf(input[r])]]
  /\ Goto(r, "dispatch")
  /\ UNCHANGED <<input, write, ledger, queue>>

ConflictByIdentity(r) ==
  /\ pc[r] = "lookup"
  /\ ledger[KeyOf(input[r])] # NoRow
  /\ ledger[KeyOf(input[r])].id # r
  /\ Goto(r, "conflict")
  /\ UNCHANGED <<input, write, target, ledger, queue>>

LookupMissTakenAsCreated(r) ==
  /\ pc[r] = "lookup"
  /\ ledger[KeyOf(input[r])] = NoRow
  /\ target' = [target EXCEPT ![r] = r]
  /\ Goto(r, "dispatch")
  /\ UNCHANGED <<input, write, ledger, queue>>

SendFailureIgnored(r) ==
  /\ pc[r] \in {"dispatch", "sent"}
  /\ Goto(r, "accepted")
  /\ UNCHANGED <<input, write, target, ledger, queue>>

-----------------------------------------------------------------------------
\* A request that fails a check is answered 4xx and leaves no trace.
Reject(r, i) ==
  /\ pc[r] = "idle"
  /\ ~Admissible(i)
  /\ input' = [input EXCEPT ![r] = i]
  /\ Goto(r, "rejected")
  /\ UNCHANGED <<write, target, ledger, queue>>

\* The handler mints its ids and posts the row.
Begin(r, i) ==
  /\ pc[r] = "idle"
  /\ Admissible(i)
  /\ input' = [input EXCEPT ![r] = i]
  /\ write' = [write EXCEPT ![r] = "pending"]
  /\ Goto(r, "insert")
  /\ UNCHANGED <<target, ledger, queue>>

\* The database takes the insert: the unique index admits one row per key.
DbInsert(r) ==
  /\ write[r] = "pending"
  /\ LET k == KeyOf(input[r]) IN
       IF ledger[k] = NoRow
       THEN /\ ledger' = [ledger EXCEPT ![k] = [id |-> r, body |-> input[r].body]]
            /\ write' = [write EXCEPT ![r] = "inserted"]
       ELSE /\ write' = [write EXCEPT ![r] = "refused"]
            /\ UNCHANGED ledger
  /\ UNCHANGED <<pc, input, target, queue>>

\* The insert never reaches the database, or the database answers an error.
DropInsert(r) ==
  /\ write[r] = "pending"
  /\ write' = [write EXCEPT ![r] = "refused"]
  /\ UNCHANGED <<pc, input, target, ledger, queue>>

\* 201: the row is this request's own.
Created(r) ==
  /\ pc[r] = "insert"
  /\ write[r] = "inserted"
  /\ target' = [target EXCEPT ![r] = r]
  /\ Goto(r, "dispatch")
  /\ UNCHANGED <<input, write, ledger, queue>>

\* Any other status, or a thrown fetch: the insert may still be in flight.
Ambiguous(r) ==
  /\ pc[r] = "insert"
  /\ Goto(r, "lookup")
  /\ UNCHANGED <<input, write, target, ledger, queue>>

\* The recovery read found a row with the request's body: replay its id.
Replay(r) ==
  /\ pc[r] = "lookup"
  /\ LET row == ledger[KeyOf(input[r])] IN
       /\ row # NoRow
       /\ SameBody(row, input[r])
       /\ target' = [target EXCEPT ![r] = row.id]
  /\ Goto(r, "dispatch")
  /\ UNCHANGED <<input, write, ledger, queue>>

\* It found the key bound to another body: 409.
Conflict(r) ==
  /\ pc[r] = "lookup"
  /\ LET row == ledger[KeyOf(input[r])] IN
       row # NoRow /\ ~SameBody(row, input[r])
  /\ Goto(r, "conflict")
  /\ UNCHANGED <<input, write, target, ledger, queue>>

\* It found no row, or the read itself failed: 503.  Nothing distinguishes
\* an insert that failed from one that has not committed yet.
LookupFails(r) ==
  /\ pc[r] = "lookup"
  /\ Goto(r, "unavailable")
  /\ UNCHANGED <<input, write, target, ledger, queue>>

\* The queue takes the message; whether the sender learns it is open.
Enqueue(r) ==
  /\ pc[r] = "dispatch"
  /\ queue' = queue \cup {[by |-> r, event |-> target[r]]}
  /\ Goto(r, "sent")
  /\ UNCHANGED <<input, write, target, ledger>>

Accept(r) ==
  /\ pc[r] = "sent"
  /\ Goto(r, "accepted")
  /\ UNCHANGED <<input, write, target, ledger, queue>>

\* send threw, with or without the message taken: 503.
SendFails(r) ==
  /\ pc[r] \in {"dispatch", "sent"}
  /\ Goto(r, "undispatched")
  /\ UNCHANGED <<input, write, target, ledger, queue>>

\* The invocation dies at an await; the client sees no answer of ours.
Crash(r) ==
  /\ pc[r] \in Awaiting
  /\ Goto(r, "crashed")
  /\ UNCHANGED <<input, write, target, ledger, queue>>

Receive(r) == \E i \in Inputs : Reject(r, i) \/ Begin(r, i)
Database(r) == DbInsert(r) \/ DropInsert(r)
Handler(r) ==
  \/ Created(r) \/ Ambiguous(r)
  \/ Replay(r) \/ Conflict(r) \/ LookupFails(r)
  \/ Enqueue(r) \/ Accept(r) \/ SendFails(r)

Next == \E r \in Requests : Receive(r) \/ Database(r) \/ Handler(r) \/ Crash(r)

Spec == Init /\ [][Next]_vars

-----------------------------------------------------------------------------
TypeOK ==
  /\ pc \in [Requests -> {"idle", "crashed"} \cup Awaiting \cup Answers]
  /\ input \in [Requests -> Input \cup {NoInput}]
  /\ write \in [Requests -> {"none", "pending", "inserted", "refused"}]
  /\ target \in [Requests -> Requests \cup {NoEvent}]
  /\ ledger \in [Keys -> Row \cup {NoRow}]
  /\ queue \subseteq [by : Requests, event : Requests]

Accepted(r) == pc[r] = "accepted"

\* Two 202 answers under one key name the same event and were given to the
\* same body: retries, replays and concurrent first submissions all agree,
\* whichever insert won and whichever answer was lost (event-store.ts,
\* event-ingress.ts and tradingview-webhook.ts together).
AcceptedAgree ==
  \A r, s \in Requests :
    /\ Accepted(r)
    /\ Accepted(s)
    /\ KeyOf(input[r]) = KeyOf(input[s])
    => /\ target[r] = target[s]
       /\ input[r].body = input[s].body

\* A 202 is given only once the ledger holds the answered event with the
\* submitted body and the queue holds a message this request sent for it.
AcceptedIsDurable ==
  \A r \in Requests : Accepted(r) =>
    /\ ledger[KeyOf(input[r])] = [id |-> target[r], body |-> input[r].body]
    /\ [by |-> r, event |-> target[r]] \in queue

\* Every message the queue ever holds names an event already in the ledger:
\* the consumer's "missing event" branch and the dead-letter table's foreign
\* key rest on it.
MessagesHaveEvents ==
  \A m \in queue : \E k \in Keys :
    ledger[k] # NoRow /\ ledger[k].id = m.event

\* A 409 is only given to a body that the ledger does not hold under the key,
\* even when the handler's own insert committed after it stopped waiting.
ConflictIsGenuine ==
  \A r \in Requests : pc[r] = "conflict" =>
    /\ ledger[KeyOf(input[r])] # NoRow
    /\ ledger[KeyOf(input[r])].body # input[r].body
    /\ ledger[KeyOf(input[r])].id # r

-----------------------------------------------------------------------------
(* What a client may rely on, stated without inserts, lookups or queues.   *)

Answer(r) ==
  CASE pc[r] = "accepted" -> "accepted"
    [] pc[r] = "conflict" -> "conflict"
    [] pc[r] \in {"rejected", "unavailable", "undispatched", "crashed"} -> "failed"
    [] OTHER -> "none"

Asked(r) ==
  IF pc[r] \in {"idle", "rejected"} THEN NoInput
  ELSE [key |-> KeyOf(input[r]), body |-> input[r].body]

Intake == INSTANCE IdempotentIntake WITH
  binding <- ledger,
  published <- {m.event : m \in queue},
  asked <- [r \in Requests |-> Asked(r)],
  answer <- [r \in Requests |-> Answer(r)]

\* The ingress implements the idempotent intake: a key is bound once, only
\* bound events are published, and an acceptance answers for a bound,
\* published event.
ImplementsIntake == Intake!Spec
=============================================================================
