# Trading Company HQ, specified

Trading Company HQ is a Cloudflare Worker (`src/worker/`), a Supabase database
(`src/supabase/migrations/`) and a browser client (`src/src/`). TradingView and trusted producers
post events; the worker records each of them once in a ledger, sends a queue message, turns trading
signals into opportunities, photographs each opportunity's chart at set hours, and runs a heartbeat
job from a cron trigger. Everything that is hard in it comes from one fact: no two store calls are
in one transaction, any of them may take effect although its answer is lost, an invocation may die at
any `await`, and several invocations work on the same rows.

This directory holds TLA+ models of the worker's and the review page's state machines, TLC configurations that
check them, and TLAPS proofs of their safety properties. `PROJECT.json` lists the runs, the source lines each
definition stands for, the hazards and the theorems.

## 1. Inventory

| Component | State it keeps | Operations | What makes it correct |
| --- | --- | --- | --- |
| Event acceptance (`event-ingress`, `tradingview-webhook`, `event-store`, `idempotency`, `queue-dispatch`) | `event_ledger`, the event queue | POST `/api/events/ingest`, POST `/api/webhooks/tradingview`: screen, insert, recovery read, dispatch, answer | One event for a key whatever is retried or raced; 202 only for what is stored and enqueued; 409 only for another body |
| Queue consumer (`queue-consumer`, `processing-store`, `opportunity-store`) | `event_processing_receipts`, `opportunities`, the delivery counters of the queue | read event, begin receipt, materialise, mark, ack or retry | ack only after the effect; one opportunity for a signal; a receipt that says succeeded tells the truth |
| Dead letters (`dead-letter`, `queue-consumer`) | `event_dead_letters` | store, confirm a 409 by reading, ack or retry | ack only after the row is stored |
| Evidence snapshots (`opportunity-snapshot`) | `opportunity_snapshots`, the R2 bucket | schedule, list due, claim, render, put, publish, mark failed | claims exclude each other; ready means an image exists and stays; every row is settled in the end |
| Scheduled automation (`scheduled-runner`, `automation-store`, `heartbeat-store`) | `automation_runs`, `automation_heartbeats` | deliver a slot, begin, execute with timeout, heartbeat, close | a slot executes at most once; outcomes are final and agree with heartbeats |
| Automation health (`automation-health`) | none, reads the two tables above | read the latest heartbeat and the runs of a day, compare with the clock | stale only when slots were missed, healthy only on evidence that is young; every failure of the day counted |
| Opportunity queries (`opportunity-query`, `opportunity-api`) | none, reads `opportunities` | list by a keyset cursor, read one with its transitions | walking the pages shows every row once |
| Reconciliation (`opportunity-reconciliation`) | none, reads the ledger and `opportunities`, sends messages | scan, compare, redispatch | a repair redispatches what has no opportunity, and only that |
| Opportunity lifecycle (migrations `s04_2`, `f06`) | `opportunities.status`, `opportunity_transitions` | triggers on insert and update | statuses advance in order; the transition log is the history |
| Ledger and domain schema (other migrations) | constraints, static rows | none | uniqueness, immutability of ledger rows |
| Worker entry point (`index`) | none | routes; maintenance after a batch and after a cron | each trigger reaches its handler |
| Signal contract (`tradingview-payload`, `event-envelope`, the decoder in `opportunity-store`, the constraints of the tables) | none | validate, build the event, decode it, constrain its rows | what the first admits none of the later ones refuses |
| Browser client (`src/src/SetupFinder`) | filters, list, selection, detail, requests under way | filter, refresh, select, leave; effects fetch and abort | an old answer never replaces a newer one; loading ends |

How they meet: acceptance writes the ledger and the queue; the consumer reads the ledger, writes
receipts and opportunities, and afterwards schedules and captures snapshots; the queue moves a
message whose retries are used up to the dead-letter queue, whose consumer stores it; the cron runs
the automation job and a maintenance pass over due snapshots; reconciliation reads the ledger and
the opportunities and sends messages again. There is no shared memory: the tables, the queue and the
bucket are the only channels, and the unique indexes are the only locks.

The behaviours that are hard to test are listed, each at its line, under `hazards` in
`PROJECT.json`.

## 2. Modules

| Module | Models | State and actions |
| --- | --- | --- |
| `EventIngress` | both acceptance routes | `pc`, `input`, `target` are a request's local state; `write` is its insert on the way to the database; `ledger` and `queue` are shared. One action per answer a call may have |
| `IdempotentIntake` | what a client may rely on | `binding`, `published`, `asked`, `answer`; `EventIngress` implements it under the mapping at its end |
| `SignalContract` | the rules a submission passes: webhook payload, envelope, ledger table, decoder, opportunity table | `journey` is one submission and how far it came; an operator for each validator, decoder and table, an action for each stage. `MCEventIngress` composes it with `EventIngress`, whose inputs are well formed if it says so |
| `QueueConsumer` | main and dead-letter handlers with the queue service | `pc`, `msg`, `seen`, `candidate`, `reported` are a worker's; `receipts`, `opportunities`, `deadLetters` are tables; `place`, `tries` belong to the queue; `catalog` is what an instrument lookup answers |
| `SignalDelivery` | the promise of the processing side, without workers or retries | `fate` of a message, `made` opportunities, `done` events, `stored` dead letters; `QueueConsumer` implements it |
| `SnapshotCapture` | schedule, claim, capture, maintenance | `rows` and `bucket` are shared; `todo`, `at`, `seen` are a worker's; `now` is the clock in hours |
| `AutomationTables` | the two tables of the cron job | `runs`, `heartbeats`, declared once for the job that writes them and the report that reads them |
| `AutomationRuns` | the cron job | `runs`, `heartbeats` are tables; `pc`, `slot`, `owns` are an invocation's |
| `RunLedger` | what the tables of the cron job promise their readers | `runs`, `heartbeats`; `AutomationRuns` implements it, `AutomationHealth` builds on it |
| `AutomationHealth` | `readAutomationHealth` over the ledger of runs | `asked`, `beat`, `rows`, `report` are the reader's; `observed` are the heartbeats' times; `prompt` and `failedBy` remember what the properties speak of |
| `AutomationWatch` | the job and the report on one clock | the variables of `AutomationRuns` and of `AutomationHealth` over the same tables, and `answered`, the `observedAt` an invocation holds until it stores its heartbeat; it implements `AutomationHealth` |
| `OpportunityRepair` | reconciliation beside acceptance and consumption | `ledger`, `queue`, `opportunities`, `resolvable` are what the other components leave behind; the rest is a request's: `scanned`, `truncated`, `unread`, `missing`, `todo`, `failed`, with `stored` and `sent` remembering what really was there and what really was sent |
| `OpportunityLifecycle` | the triggers and constraints of `opportunities`, writers' transactions, `getOpportunityDetail` | `row` and `log` are the two tables as committed, `open` each writer's transaction with its `now()` and what it has written (the first update takes the row's lock, the commit publishes), `view` what a reader has put together; the random ids of log entries are left out, so entries of one time are listed in any order |
| `OpportunityPaging` | `listOpportunities` and its cursor | `rows` is the table; `filter`, `cursor` and `pages` are the client's; `steady` and `edges` remember what the properties speak of |
| `SetupFinder` | the review page under React | `shown` is the committed state, `next` the state with every queued update; `listRan`, `detailRan` what each effect last ran for; `requests` what is neither answered nor aborted |
| `...Proofs` | theorems about the module of that name | `AutomationProofs` is about `AutomationRuns`, `AutomationHealth` and `AutomationWatch`, `EventIngressProofs` also about `SignalContract` |
| `MC...` | instances for TLC | |

Three modules are abstract: each states what the users of a component may rely on, and the component is checked and
proved to implement it. The next component is then modelled against the promise and not against the detail.
`OpportunityRepair` takes `Ingest` and `Process` as the one step each that `IdempotentIntake` (published only
when bound) and `SignalDelivery` (acknowledged only with the effect) allow; `AutomationHealth` takes the steps of
`RunLedger` themselves, late or never, and `AutomationWatch` puts the job in their place. `OpportunityPaging` takes from `OpportunityLifecycle` that a status only
moves on.

`SetupFinder` splits what React does in one turn: handlers, answers and effects queue updates (`next`), a
render commits them (`shown`), and the effects that the commit made due run before the next commit. React runs
effects at once after a click; the model leaves the moment open, so it allows every order React has and a few more.

Every `await` is a boundary between actions. A write has three outcomes, `confirmed`, `lost`
(applied, the answer missed) and `failed` (not applied), so that every error path of the callers is
taken both with and without the effect. Writes take effect, if at all, before their caller stops
waiting, with one exception: the ledger insert travels on its own (`write` in `EventIngress`) and
may commit after the handler has read the ledger and answered 503, because that is where the code's
recovery read would notice. A crash is an action at every await.

What the data is abstracted to: a body or a key is a model value standing for its digest; authorisation,
media type and size of a request are Booleans of the input, since the handlers only look at whether they hold; in
`SignalContract` a string is the kind of name it is, its length and the width of its encoding, an instant the form it is
written in and its time, a payload a tree (the walk through it is a function of the depth over all `Payloads`, so that it can be reasoned about); an opportunity is named by the event that inserted it and
keeps the instrument it was inserted with, which is what the lookup compares; a receipt keeps
status, attempt count and `processed_at`; a snapshot keeps status and attempt count; an automation
run keeps its status. Requests, messages and invocations stand for the random ids they mint.

Definitions whose comment says *mistake* or *Mutant* are variants of the definition they precede, which
the actions do not use; each breaks a property, which is how we know the property has teeth.

## 3. Runs

| Run | Bounds | Shows |
| --- | --- | --- |
| `ingress` | 3 requests, 2 bodies, 3 keys; inputs on both routes, including a header that equals a webhook's synthetic key and a body that comes before its time; 6 thousand submissions, 2 thousand of them payload trees, and 1,400 envelopes, which differ from a good one in up to two fields | 202 only for what is stored and sent, genuine 409, `EventIngress` implements `IdempotentIntake`; what the routes admit the tables and the decoder admit; the depth limit is exact |
| `queue_race` | 2 workers, 2 messages about 2 events with one signal, 1 duplicate delivery, 1 retry on each queue, 1 catalogue change | reported opportunities are the stored ones, and `QueueConsumer` implements `SignalDelivery` |
| `queue_kinds` | 1 worker, one message of each kind (signal, skipped type, undecodable, malformed), fairness | every message is settled |
| `queue_twins` | 2 messages about one event | a violation, see *Findings* |
| `snapshot` | 2 workers, 2 opportunities due at different hours, 2 phases, 3 attempts, batches of 1, 2 faults, fairness | claims exclude each other; evidence stays; only faults abandon rows; every row is settled |
| `automation` | 3 deliveries of 2 slots, 2 faults, fairness | one execution for a slot, `AutomationRuns` implements `RunLedger`; slots that are given up are at most as many as the faults, always (`LossNeedsFault`) and of those without an outcome in the end |
| `watch` | 3 deliveries of 2 slots, 1 fault, 1 tick to a period, a threshold of 3 periods, slots up to a period late, a tick between the reads | the job writes what the report assumes; stale and healthy are said with reason, failures are counted; a report tells only of what a delivery executed |
| `repair` | 3 events, 2 of them with one signal, 1 request at a time, a limit of 2, chunks of 1, 1 fault, fairness | reports are true, repairs account for their window, every signal gets its opportunity |
| `lifecycle` | 2 writers, any updates to a transaction, 1 reader, 3 instants | the log is the path of the status, times follow it, a detail tells the steps in order (but for ties and times that writers brought) and accounts for its status |
| `paging_walk` | 3 rows, 4 instants in 2 milliseconds, pages of 1, fairness | nothing is shown twice, only rows in the millisecond of a page's end are lost, the walk ends |
| `paging_skips` | as `paging_walk` | a violation, see *Findings* |
| `browser` | 2 opportunities and every list of them, 1 choice for each filter, 3 things the user does, fairness | the settled page shows what it asked for last; only a click that overtook an answer selects what is not listed; loading ends |

Why the bounds are enough to be interesting: a race on a key, a receipt, a claim or a slot needs two
actors, and in `ingress` and `automation` a third one observes the result or comes round later; three attempts let a
row go through pending, failed and capturing twice, which the claim's compare of statuses could confuse, and
batches of one let an opportunity starve another. One retry on each queue makes a message pass through
redelivery, exhaustion and the dead-letter queue. Two faults let a failure be followed by a failed repair. In `repair` a limit below the
number of events makes scans truncated, chunks of one put the consumer between two reads, and the shared signal makes an
event that never becomes a source. In `lifecycle` two writers and three instants let a transaction
begin before and commit after another one, two steps share a transaction or only an instant, and a listing hold ties beside times that differ. In `paging_walk` two ticks to a
millisecond make rows that share an instant, a millisecond, or neither, and two page ends before the last. In `watch` the
clock outruns the last slot by more than the threshold, so the scheduler also stops; the window is shorter than the two slots, so
the first falls out of it; a slot may be so late that the next is due; the third delivery repeats a slot; as in the code, `Limit` exceeds what a window can
hold. In `browser` three actions let a change of filter
be overtaken by a click and by another change. The contract's sizes are reduced where a walk or an integer depends on them (depth 2 for 8, 3 for
32,768 bytes and for 2^31 - 1) and are the code's own for strings; each field takes a value on either side of each of its
limits, on its own and together with every other field's. The proofs remove the bounds for the safety properties.

CHECK_DEADLOCK is off in all runs because every instance is finite work: requests, messages, rows
and slots are used up and the system may stop.

### Fairness

- `QueueConsumer`: weak fairness of each worker's steps (a started invocation ends or is killed), and of the
  delivery of each message (the queue keeps delivering what it still has).
- `SnapshotCapture`: weak fairness of each worker's steps, of time, and of the repair of a missing
  schedule (maintenance reconciles missing schedules within its lookback, and the run assumes that it gets to run
  within it); strong fairness of *some* worker starting a maintenance pass, because the cron starts a new
  invocation every time it fires, whatever the other workers are doing.
- `AutomationRuns`: weak fairness of each started invocation only. No delivery of a slot is assumed.
- `OpportunityRepair`: weak fairness of the queue's deliveries and of a request that was begun. Nothing in the code
  calls reconciliation by itself, so the rest is an assumption on the operator, not on the code: the missing
  instrument is added in the end (weak fairness), and repairs reaching back to the event are asked for again and again (strong
  fairness, since a request is only served when another one is over). A request reaches back 168 hours at most, so the promise is
  about an operator who does this within them.
- `SetupFinder`: weak fairness of React's renders and effects, and of the answers to the list's and the detail's requests: a fetch is
  answered, fails or is aborted. Nothing is assumed of the user, who may stop anywhere.
- `OpportunityPaging`: weak fairness of the client's next request. No insert and no status change is assumed.

Faults are not assumed away by fairness: they are bounded by a constant where a run needs it, and the
properties count them.

### Findings

`queue_twins`: `docs/s03-2-queues-idempotency-failure.md` promises that deliveries of an event that
already succeeded are acknowledged without processing it again. `beginProcessingReceipt` reads the
receipt and then upserts a row made from what it read. When two messages about one event
are delivered together (a client's retry enqueues the event again), the second upsert overwrites the first one's
`succeeded` with `processing`, and a later delivery of the event is processed again. The repetition is harmless
for the opportunity, which is what `ImplementsDelivery` shows (a success may be forgotten, never invented), but the receipt of a
processed event says `processing` until then.

`paging_skips`: a cursor is made from a row's `created_at`, and `decodeOpportunityCursor` passes it through a
JavaScript `Date`, which keeps milliseconds. The column keeps microseconds, filled by `now()`. A row that follows
a page's last one in the same millisecond is not below the truncated instant. Either it is not equal to that instant, having
microseconds of its own, or it is, as in the trace that TLC prints, and is dropped since its id is greater than the cursor's, although its time is earlier.
No page shows it.
The tests name the listing "stable pagination" (`test/s04-3-opportunity-query.spec.ts:89`) and use rows whole seconds apart.
`MissedOnlyAtEdges`, checked and proved, says that this is the only way to lose a row.

More facts came out of the models, which no document contradicts. An event whose signal another event
materialised is never the source of an opportunity, so each repair reports and sends it again, and it takes up one of
the places of a scan; `EverySignalIsRepaired` therefore excepts signals that are older than a full scan. And the
history of a detail need not be in order: `readTransitions` sorts by `transitioned_at` and then by `id`, a random UUID, and `transitioned_at` is
always `now()`. So two steps of one transaction, or of two that began in one microsecond, may be told the wrong way round; and a writer that brings its own time for a
status sets the column, by which the step is judged, but not the log, by which it is sorted. `HistoryIsInOrder` names these two exceptions and no others; the run
fails without either. A version above 2^31 - 1 passes both routes' rules (`Number.isInteger`,
positive) and fits no `integer` column: `event_version` is answered 503 for ever, `strategy_version` becomes a dead letter; the same holds
for times outside the years the database knows. `AcceptedIsStorable` names these exceptions, together with references to rows that do not exist, and no others.
On the review page a click on a row of the old list that the user makes after a new list has arrived, but before it is rendered, selects a row
the new list need not hold; `SelectionStaysListed` names this click as the one step that does it, and says that the next answer mends it. A refresh keeps the selection and does not load its detail again, since the
detail effect depends on the selection alone.

## 4. Proofs

The proofs use only the named assumptions on the constants: the null values are no members of the sets
they are null for, bounds are naturals, and mappings have their types.

- `EventIngressProofs`: the inductive invariant `IndInv` adds to `TypeOK` what each program counter says of the insert
  and the target: who stopped at `dispatch` or `sent` has a target recorded under its key with its
  body; an insert that reports `inserted` is the row in the ledger. Ledger rows are never replaced, which makes
  these facts stable under the other requests' steps. From it follow `AcceptanceAgrees`,
  `AcceptanceDurable`, `DispatchFollowsPersistence`, `ConflictsAreGenuine` and the refinement
  `IngressImplementsIntake`.
- `QueueConsumerProofs`: the invariant relates the handler's local state to the tables: a worker at `mark` has
  its effect in the store, one that has seen a processed receipt is about a handled event, a candidate is only held between resolving and
  finishing. Opportunities are never replaced, so `Handled` is stable. Receipts need no lock for this: whatever a
  stale upsert writes, it claims no more than was true when it was read. `DeliveryIsImplemented` takes each action to a step of
  `SignalDelivery`: an insert that is applied makes the opportunity even if its answer is lost, an upsert or an update of a receipt concludes,
  an ack in the dead-letter queue records, and the last retry there drops.
- `SnapshotCaptureProofs`: the argument for exclusive claims is that a worker holding a row keeps it `capturing`, that a
  claim needs the status it read, that only `pending` or `failed` is ever read for a claim, and that only
  the holder leaves `capturing`. It needs no fencing token, and it is why the unconditional failure update is safe. `EvidenceIsKept` follows.
  `AbandonmentHasACause` counts: a step that leaves one more row capturing without a holder is one that a fault was charged for, and no other step
  adds a row to the set.
- `AutomationProofs`, the job: the invocation whose insert was confirmed owns the slot, at most one does,
  and only it writes the run or its heartbeat; the program counter of the owner determines both. `LedgerIsImplemented` reads each of its
  writes as a step of `RunLedger`, for which the invariant supplies the guards. `LossHasACause` counts the slots that are given up: a step can give up
  no slot but its invocation's own (`GivesUpItsOwn`) and that one only by a fault (`GivesUpAtACost`); a delivery that finds a run adds none, because
  a run is only of a slot that was delivered before. It is what of `LostSlotsNeedFaults` is safety.
- `AutomationProofs`, the report: `HealthInv` says what each of the two answers is worth while the tables go on. The newest heartbeat is no older than any
  that was prompt when the report was asked for, and as old as the heartbeat of some slot (`BeatStands`); the failures counted lie between those of
  then and those of now (`RowsStand`). The limit of 100 rows hides none because runs that fall into a window plus the time of the
  read are fewer than the limit (`WindowFits`, `LimitCutsNothing`), which is all that `LimitAssumption` asks: 24 hours and the time of a read in less than 100 quarter hours. The
  largest element that `CHOOSE` picks exists since times are naturals with a bound, which is proved from the well-foundedness of `<`.
- `AutomationProofs`, the two together: `JobGoesOn` and `TheJobIsWatchable` take each step of `AutomationWatch` to a step or a stutter of
  `AutomationRuns` and of `AutomationHealth`. The second needs that the time an invocation holds lies between its slot's and the present one
  (`AnswersInTime`) and, from the job's own invariant, that the run is open and has no heartbeat when one is stored. So `TheJobIsReportedTruly` inherits the
  properties of both, and `ReportsAreOfExecutions` says what neither can alone: whose heartbeat and whose failures are told.
- `EventIngressProofs`, the contract: `JourneyInv` says by stage which rules a submission has passed. Four lemmas carry it, each about two of the four
  statements of the rules: the decoder takes every admitted alert and makes of it what it stands for (`AlertDecodes`), the table takes that
  (`SignalIsStorable`), and the ledger takes what either route admits (`AlertIsRecorded`, `EnvelopeIsRecorded`), but for the exceptions. The longest
  deep link has 42 + 9 * 64 + 3 + 9 * 128 = 1773 characters of the 2048 that the table allows.
- `EventIngressProofs`, the depth of payloads: that the recursive functions `DepthFrom` and `Inside` exist is proved first (`WalkExists`,
  `InsideExists`: a least level without one would have a predecessor with one). `PassesThroughAnyLevel` then carries "the walk passes the limit below this
  value" from the payload down, level by level, to values past the limit, of which it is true. The sets of children need not be finite.
- `OpportunityRepairProofs`: `IInv` says of each request, by its program counter, that the scan is the newest of the window as it was
  then, that each scanned event is unread, missing or a source, and that each missing event is still to be
  sent for, was sent for, or failed. Sources stay sources, so the steps beside the request disturb none of it, however the chunked
  reads fall. `NewestOfFew` (a limit that is not exceeded cuts nothing off) turns an untruncated scan into the whole window.
- `OpportunityLifecycleProofs`: `Sound` says what a row and its log are to each other, committed or not: the length of the log and the status determine
  each other, and the time of each log entry that the database stamped is the time in the row. An update keeps it (`MovedIsSound`), at most one
  transaction has written anything, and that continues what is committed (`DraftsContinue`), so a commit only extends the log. The time
  constraint orders the log (`LogAscends`), and a listing of it, however it breaks ties (`ListingIsInOrder`).
- `OpportunityPagingProofs`: what was shown lies at or before the cursor, what passes the filter and was not shown lies beyond it or in the
  cursor tick of a page's end. Truncation to a tick never moves the cursor past a row it has not shown except
  within that tick, which is the lemma `TickBetween`.
- `SetupFinderProofs`: the list invariant says that at most the request of the query the list effect last ran for is under way, that the queued state
  is loading exactly while it is, and that ready items answer that query; the detail invariant says the same of the selection. Both speak of
  `next`, and a settled page has `shown = next` and both effects run for it, which turns them into the properties. That an answer finds its own query
  current rests on the cleanup alone. `SelectionIsKeptListed` needs no invariant but types: each action is looked at for what it does to a selection that is listed, a click by whether the new list holds its row (`ClickOvertakes`).

Only model-checked: liveness (`EveryMessageSettles`, `EverySnapshotSettles`, `LostSlotsNeedFaults`, `EverySignalIsRepaired`,
`WalkEnds`, `EveryLoadEnds`), which is out of the prover's reach, and the findings. Every invariant and every refinement that a passing run
checks is proved. Only proved: the types of the page, of the walk and of the report (`PageTypes`, `TypeCorrect`, `HealthTypes`), which no run repeats.

## 5. Not modelled, and why

- Authorisation, media types, body sizes, the parsing of list parameters and of rows: each is a condition on one request that a unit test
  reaches; the handlers only look at whether it holds.
- The size `jsonb` may have in the ledger (`pg_column_size(payload) <= 262144`) and the characters it refuses (`\u0000`): a body of the generic route may be
  65,536 bytes, so the first should not bite, but the size of a compressed column is nothing a model can tell; a payload with the second passes
  the rules and is answered 503 for ever.
- The read-only snapshot routes. `armFinalOpportunitySnapshot` has no caller, so final rows wait for ever and are settled by definition.
- An adapter's answer after its timeout: `Promise.race` has settled and nothing else awaits it; and how many more tries than `MAX_ATTEMPTS` stale attempt
  counts may give a snapshot, for which the code promises no number (`EverySnapshotSettles` says they end).
- Updates of `opportunities` that set the times of other statuses, privileges, the static domain tables, the ledger's immutability trigger
  (no model updates a ledger row).
- The shell around the review page, its drawing, the other pages, static configuration, `event-persistence` (types and an insert no route calls), the build-time checks.

Next would be: `EventIngress` and `QueueConsumer` put together over their two promises, so that `OpportunityRepair`'s grain is a theorem; a joint run of
`QueueConsumer` and `SnapshotCapture` over one message's post-processing, which is too large as the two modules stand.
