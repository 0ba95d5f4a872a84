-------------------------- MODULE OpportunityRepair --------------------------
(***************************************************************************)
(* Reconciliation, with the acceptance of events and the queue consumer it *)
(* runs beside.  A run scans the newest ledger events of its window, reads *)
(* in chunks which of them are the source of an opportunity, and sends a   *)
(* message for each of the others.  Between its reads and its sends events *)
(* arrive and messages are processed.                                      *)
(*                                                                         *)
(* Acceptance and consumption are taken at the grain EventIngress and      *)
(* QueueConsumer establish: an event is stored before its message is sent, *)
(* and a message that is acknowledged has had its effect.  Messages of one *)
(* event are not told apart.  Only events of the type the scan asks for    *)
(* are considered; an event is numbered by its place in the order of       *)
(* ingested_at and id, and a window is given by its first number.          *)
(* Windows reach back 168 hours at most; there is no clock here, so a      *)
(* window may begin anywhere.  Instruments are added to the catalogue and  *)
(* not taken away.                                                         *)
(* faults counts calls that fail, lose their answer or exhaust a message's *)
(* retries, and runs that die; MaxFaults bounds them.                      *)
(***************************************************************************)
EXTENDS Naturals, FiniteSets

CONSTANTS
  Events,     \* in the order of ingestion
  Signals,
  SignalOf,   \* the signal each event carries; several may carry one
  Runs,       \* reconciliation requests served at a time
  Limit,      \* the most events a run scans
  Chunk,      \* source ids of one read (100)
  MaxFaults,
  NoEvent

ASSUME ParameterAssumption ==
  /\ Events \subseteq Nat /\ IsFiniteSet(Events)
  /\ SignalOf \in [Events -> Signals]
  /\ {Limit, Chunk} \subseteq Nat \ {0}
  /\ MaxFaults \in Nat
  /\ NoEvent \notin Events

Modes == {"dry_run", "repair"}
Outcomes == {"confirmed", "lost", "failed"}
Applied(outcome) == outcome \in {"confirmed", "lost"}

VARIABLES
  ledger,         \* events stored
  queue,          \* events a message is under way for
  opportunities,  \* the source event of each signal's opportunity
  resolvable,     \* signals whose instrument is in the catalogue
  pc, mode, since,  \* each run: its await, and what was asked of it
  scanned,        \* the events it looks at
  truncated,      \* whether there were more
  unread,         \* those whose opportunity it has yet to look for
  missing,        \* those it found without one: the report
  todo, failed,   \* those it has yet to send for, and could not send for
  stored,         \* what the ledger held at its scan
  sent,           \* the messages it really put into the queue
  faults

asked == <<mode, since>>
scan == <<scanned, truncated, stored>>
dispatch == <<todo, failed, sent>>
run == <<pc, asked, scan, unread, missing, dispatch>>
vars == <<ledger, queue, opportunities, resolvable, run, faults>>

Sources == {opportunities[s] : s \in Signals}

Charge(outcome) ==
  IF outcome = "confirmed"
  THEN UNCHANGED faults
  ELSE faults < MaxFaults /\ faults' = faults + 1

Goto(r, label) == pc' = [pc EXCEPT ![r] = label]

\* Mutant: ascending order.
NewestAscending(set, n) == {e \in set : Cardinality({f \in set : f < e}) < n}

\* order=ingested_at.desc,id.desc and a limit
Newest(set, n) == {e \in set : Cardinality({f \in set : f > e}) < n}

Init ==
  /\ ledger = {}
  /\ queue = {}
  /\ opportunities = [s \in Signals |-> NoEvent]
  /\ resolvable \in SUBSET Signals
  /\ pc = [r \in Runs |-> "idle"]
  /\ mode = [r \in Runs |-> "dry_run"]
  /\ since = [r \in Runs |-> 0]
  /\ truncated = [r \in Runs |-> FALSE]
  /\ LET none == [r \in Runs |-> {}] IN
       /\ scanned = none /\ unread = none /\ missing = none
       /\ todo = none /\ failed = none /\ stored = none /\ sent = none
  /\ faults = 0

-----------------------------------------------------------------------------
(* What runs beside it.                                                    *)

\* Mutant: the message is sent although the event was not stored.
IngestUnstored(e, outcome) ==
  /\ e \notin ledger
  /\ Charge(outcome)
  /\ ledger' = IF Applied(outcome) THEN ledger \cup {e} ELSE ledger
  /\ queue' = queue \cup {e}
  /\ UNCHANGED <<opportunities, resolvable, run>>

\* An event is stored, and its message is sent or not.
Ingest(e, outcome) ==
  /\ e \notin ledger
  /\ ledger' = ledger \cup {e}
  /\ Charge(outcome)
  /\ queue' = IF Applied(outcome) THEN queue \cup {e} ELSE queue
  /\ UNCHANGED <<opportunities, resolvable, run>>

\* A delivery materialises the event, or recognises the opportunity another
\* event made; its message may be delivered again.
Process(e) ==
  /\ e \in queue
  /\ SignalOf[e] \in resolvable
  /\ opportunities' = IF opportunities[SignalOf[e]] = NoEvent
                      THEN [opportunities EXCEPT ![SignalOf[e]] = e]
                      ELSE opportunities
  /\ queue' \in {queue, queue \ {e}}
  /\ UNCHANGED <<ledger, resolvable, run, faults>>

\* The retries are used up: the instrument is unknown, or calls keep failing.
GiveUp(e) ==
  /\ e \in queue
  /\ IF SignalOf[e] \in resolvable THEN Charge("failed") ELSE UNCHANGED faults
  /\ queue' = queue \ {e}
  /\ UNCHANGED <<ledger, opportunities, resolvable, run>>

\* The operator adds the instrument a signal was missing.
AddInstrument(s) ==
  /\ s \notin resolvable
  /\ resolvable' = resolvable \cup {s}
  /\ UNCHANGED <<ledger, queue, opportunities, run, faults>>

-----------------------------------------------------------------------------
(* reconcileOpportunities                                                  *)

Begin(r, m, first) ==
  /\ pc[r] \in {"idle", "done"}
  /\ mode' = [mode EXCEPT ![r] = m]
  /\ since' = [since EXCEPT ![r] = first]
  /\ missing' = [missing EXCEPT ![r] = {}]
  /\ failed' = [failed EXCEPT ![r] = {}]
  /\ sent' = [sent EXCEPT ![r] = {}]
  /\ Goto(r, "scan")
  /\ UNCHANGED <<ledger, queue, opportunities, resolvable, scan, unread, todo, faults>>

Window(r) == {e \in ledger : e >= since[r]}

\* Mutant: it is not noticed that there were more.
ScanSilently(r) ==
  /\ pc[r] = "scan"
  /\ scanned' = [scanned EXCEPT ![r] = Newest(Window(r), Limit)]
  /\ unread' = [unread EXCEPT ![r] = Newest(Window(r), Limit)]
  /\ stored' = [stored EXCEPT ![r] = ledger]
  /\ Goto(r, "read")
  /\ UNCHANGED <<ledger, queue, opportunities, resolvable, asked, truncated, missing,
                 dispatch, faults>>

\* scanTradingViewEvents
Scan(r) ==
  /\ pc[r] = "scan"
  /\ scanned' = [scanned EXCEPT ![r] = Newest(Window(r), Limit)]
  /\ truncated' = [truncated EXCEPT ![r] = Cardinality(Window(r)) > Limit]
  /\ unread' = [unread EXCEPT ![r] = Newest(Window(r), Limit)]
  /\ stored' = [stored EXCEPT ![r] = ledger]
  /\ Goto(r, "read")
  /\ UNCHANGED <<ledger, queue, opportunities, resolvable, asked, missing, dispatch, faults>>

\* Mutant: the offset moves on by one more than was read.
ReadChunkSkipping(r) ==
  /\ pc[r] = "read"
  /\ unread[r] # {}
  /\ missing' = [missing EXCEPT ![r] = @ \cup (Newest(unread[r], Chunk) \ Sources)]
  /\ unread' = [unread EXCEPT ![r] = @ \ Newest(unread[r], Chunk + 1)]
  /\ UNCHANGED <<ledger, queue, opportunities, resolvable, pc, asked, scan, dispatch, faults>>

\* readExistingSourceIds: one chunk, and what it lacks is missing.
ReadChunk(r) ==
  /\ pc[r] = "read"
  /\ unread[r] # {}
  /\ LET chunk == Newest(unread[r], Chunk) IN
       /\ missing' = [missing EXCEPT ![r] = @ \cup (chunk \ Sources)]
       /\ unread' = [unread EXCEPT ![r] = @ \ chunk]
  /\ UNCHANGED <<ledger, queue, opportunities, resolvable, pc, asked, scan, dispatch, faults>>

\* The report is made; a dry run answers with it.
Report(r) ==
  /\ pc[r] = "read"
  /\ unread[r] = {}
  /\ IF mode[r] = "dry_run"
     THEN Goto(r, "done") /\ UNCHANGED todo
     ELSE Goto(r, "dispatch") /\ todo' = [todo EXCEPT ![r] = missing[r]]
  /\ UNCHANGED <<ledger, queue, opportunities, resolvable, asked, scan, unread, missing,
                 failed, sent, faults>>

\* dispatchEvent, for one event after the other; a failed one is noted and
\* the others are still sent.
Dispatch(r, outcome) ==
  /\ pc[r] = "dispatch"
  /\ \E e \in Newest(todo[r], 1) :
       /\ todo' = [todo EXCEPT ![r] = @ \ {e}]
       /\ IF Applied(outcome)
          THEN queue' = queue \cup {e} /\ sent' = [sent EXCEPT ![r] = @ \cup {e}]
          ELSE UNCHANGED <<queue, sent>>
       /\ failed' = IF outcome = "confirmed" THEN failed
                    ELSE [failed EXCEPT ![r] = @ \cup {e}]
  /\ Charge(outcome)
  /\ UNCHANGED <<ledger, opportunities, resolvable, pc, asked, scan, unread, missing>>

Finish(r) ==
  /\ pc[r] = "dispatch"
  /\ todo[r] = {}
  /\ Goto(r, "done")
  /\ UNCHANGED <<ledger, queue, opportunities, resolvable, asked, scan, unread, missing,
                 dispatch, faults>>

\* A read fails and 503 is answered, or the invocation dies.
Stop(r) ==
  /\ pc[r] \in {"scan", "read", "dispatch"}
  /\ Charge("failed")
  /\ Goto(r, "idle")
  /\ todo' = [todo EXCEPT ![r] = {}]
  /\ UNCHANGED <<ledger, queue, opportunities, resolvable, asked, scan, unread, missing,
                 failed, sent>>

Step(r) ==
  \/ Scan(r) \/ ReadChunk(r) \/ Report(r) \/ Finish(r) \/ Stop(r)
  \/ \E outcome \in Outcomes : Dispatch(r, outcome)

Next ==
  \/ \E e \in Events : Process(e) \/ GiveUp(e) \/ \E outcome \in Outcomes : Ingest(e, outcome)
  \/ \E s \in Signals : AddInstrument(s)
  \/ \E r \in Runs : Step(r) \/ \E m \in Modes, first \in {0} \cup Events : Begin(r, m, first)

\* The queue keeps delivering, and a request that was begun ends.  The rest
\* is the operator's part: to mend the catalogue, and to keep asking for
\* repairs that reach back to the events in question.
Fairness ==
  /\ \A e \in Events : WF_vars(Process(e))
  /\ \A s \in Signals : WF_vars(AddInstrument(s))
  /\ \A r \in Runs : WF_vars(Step(r)) /\ SF_vars(Begin(r, "repair", 0))

Spec == Init /\ [][Next]_vars
FairSpec == Spec /\ Fairness

-----------------------------------------------------------------------------
TypeOK ==
  /\ ledger \subseteq Events
  /\ queue \subseteq ledger
  /\ opportunities \in [Signals -> ledger \cup {NoEvent}]
  /\ resolvable \subseteq Signals
  /\ pc \in [Runs -> {"idle", "scan", "read", "dispatch", "done"}]
  /\ mode \in [Runs -> Modes]
  /\ since \in [Runs -> {0} \cup Events]
  /\ truncated \in [Runs -> BOOLEAN]
  /\ {scanned, unread, missing, todo, failed, stored, sent} \subseteq [Runs -> SUBSET ledger]
  /\ faults \in Nat

Reported(r) == pc[r] \in {"dispatch", "done"}

\* A report is about the newest Limit events at most.  What it calls missing
\* is among them, and what it does not call missing is the source of an
\* opportunity, although the chunks are read at different times while the
\* consumer is at work.
ReportIsTrue ==
  \A r \in Runs : Reported(r) =>
    /\ scanned[r] \subseteq Newest(stored[r], Limit)
    /\ missing[r] \subseteq scanned[r]
    /\ scanned[r] \ missing[r] \subseteq Sources

\* A repair that succeeds and was not truncated leaves no event of its window
\* behind: each that was stored when it scanned is the source of an
\* opportunity or has a new message.  One that fails names all it could not
\* send for.  A dry run sends nothing.
RepairIsComplete ==
  \A r \in Runs : pc[r] = "done" =>
    /\ mode[r] = "repair" /\ ~truncated[r] =>
         \A e \in stored[r] : e >= since[r] => e \in Sources \cup sent[r] \cup failed[r]
    /\ sent[r] \cup failed[r] \subseteq missing[r]
    /\ mode[r] = "dry_run" => sent[r] = {}

\* Every stored signal gets its opportunity in the end, whatever message was
\* lost or given up for a missing instrument, unless Limit newer events keep
\* it out of every scan.
EverySignalIsRepaired ==
  \A e \in Events :
    e \in ledger ~> \/ opportunities[SignalOf[e]] # NoEvent
                    \/ Cardinality({f \in ledger : f > e}) >= Limit
==============================================================================
