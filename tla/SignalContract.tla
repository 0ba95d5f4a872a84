--------------------------- MODULE SignalContract ---------------------------
(***************************************************************************)
(* What a submitted event passes on its way to an opportunity: the rules   *)
(* of its route, the event_ledger table, the consumer's decoder and the    *)
(* opportunities table.  The four repeat each other's limits and patterns, *)
(* in TypeScript and in SQL; a request that the first admits and a later   *)
(* one refuses is answered 503 for ever, or becomes a dead letter.         *)
(*                                                                         *)
(* A string is what the rules ask of it: the kind of name it is, its       *)
(* length, and how many characters of a URL its widest character takes.    *)
(* An integer column holds values up to MaxInteger (2^31 - 1).  The way of *)
(* one submission is followed; submissions do not meet here.  Not          *)
(* modelled: the size and the characters jsonb refuses.                    *)
(***************************************************************************)
EXTENDS Integers, FiniteSetsExt

CONSTANTS
  MaxDepth,        \* MAX_PAYLOAD_DEPTH
  MaxBytes,        \* MAX_STRATEGY_PAYLOAD_BYTES
  Tolerance,       \* FUTURE_TOLERANCE_MS
  MaxInteger,      \* the largest value of an integer column
  Payloads,        \* JSON values: trees whose leaves are scalars, {} and []
  Submissions,     \* TradingView bodies
  Envelopes,       \* bodies of the generic route
  Now,             \* the time at which the webhook looks at a body
  NoJourney,       \* nothing submitted yet
  Undecoded        \* no signal

ASSUME ContractAssumption ==
  {MaxDepth, MaxBytes, Tolerance, MaxInteger, Now} \subseteq Nat

\* A "name" is a machine id that is a subject type, "dotted" one that is an
\* event type, "coded" any other machine id; "clean" is printable and
\* trimmed, "dirty" the rest.  Types that are no machine ids (a__b) are left
\* out: the two places that judge types use one pattern.
MachineForms == {"name", "dotted", "coded"}
CleanForms == MachineForms \cup {"clean"}
Absent == [form |-> "absent", length |-> 0, width |-> 1]
Texts == [form : CleanForms \cup {"dirty", "absent"}, length : Nat, width : 1..9]
Numbers == [whole : BOOLEAN, value : Int]
\* An instant is written with Z ("utc"), with an offset, without either
\* ("local") or is none; the database knows the years from 1 to 9999.
Instants ==
  [form : {"utc", "offset", "local", "none", "absent"}, ms : Int, storable : BOOLEAN]
\* A reference names a row ("known") or none ("unknown"), or is no UUID.
References == {"absent", "known", "unknown", "malformed"}
Directions == {"absent", "long", "short", "neutral", "other"}
Signals ==
  [signal_type : Texts, strategy_id : Texts, strategy_version : Int, exchange : Texts,
   ticker : Texts, interval : Texts, bar_time : Instants, triggered_at : Instants,
   direction : Directions, setup_key : Texts]

ASSUME SubmissionAssumption ==
  /\ Submissions \subseteq
       [root : {"exact", "unknown", "missing"}, contract_version : Int,
        source : {"tradingview", "other"}, signal_type : Texts, strategy_id : Texts,
        strategy_version : Numbers, exchange : Texts, ticker : Texts, interval : Texts,
        bar_time : Instants, triggered_at : Instants, direction : Directions,
        prices : {"absent", "finite", "other"}, alert_name : Texts, setup_key : Texts,
        payload : Payloads, payload_bytes : Nat]
  /\ Envelopes \subseteq
       [fields : {"known", "unknown"}, contract_version : Int, event_type : Texts,
        event_version : Numbers, occurred_at : Instants, source_id : References,
        provenance_record_id : References, external_event_id : Texts, subject_type : Texts,
        subject_id : References, correlation_id : References,
        causation_event_id : References, payload : {"object", "other"}]
  /\ Undecoded \notin Signals
ASSUME PayloadAssumption ==
  \A v \in Payloads :
    /\ v.children \subseteq Payloads
    /\ v.kind = "scalar" => v.children = {}

Depths == 0..MaxDepth + 1

VARIABLE journey  \* a submission, how far it came and what was made of it

HasLength(t, maximum) == t.length \in 1..maximum

-----------------------------------------------------------------------------
(* tradingview-payload.ts                                                  *)

IsMachineId(t, maximum) == t.form \in MachineForms /\ HasLength(t, maximum)
IsCleanProviderString(t, maximum) == t.form \in CleanForms /\ HasLength(t, maximum)
IsPositiveInteger(n) == n.whole /\ n.value > 0

\* Only an instant in UTC is read, to the millisecond.
NoInstant == [form |-> "none", ms |-> 0, storable |-> TRUE]
NormalizeUtcInstant(i) ==
  IF i.form = "utc" THEN [form |-> "utc", ms |-> i.ms, storable |-> i.storable] ELSE NoInstant

\* All prices and the volume of an alert at once.
IsFiniteOptionalNumber(prices) == prices \in {"absent", "finite"}

\* Mutant: the cut-off comes one level too early.
CutEarlyFrom[depth \in Depths] ==
  [value \in Payloads |->
     IF value.kind = "scalar" \/ depth >= MaxDepth THEN depth
     ELSE Max({depth} \cup {CutEarlyFrom[depth + 1][child] : child \in value.children})]
PayloadDepthCutEarly(value) == CutEarlyFrom[0][value]

\* The walk that has come to a value at a depth: what lies below the limit
\* is not looked at any more.
DepthFrom[depth \in Depths] ==
  [value \in Payloads |->
     IF value.kind = "scalar" \/ depth > MaxDepth THEN depth
     ELSE Max({depth} \cup {DepthFrom[depth + 1][child] : child \in value.children})]
PayloadDepth(value) == DepthFrom[0][value]

IsBoundedPayload(value, bytes) ==
  value.kind = "object" /\ PayloadDepth(value) <= MaxDepth /\ bytes <= MaxBytes

ValidateTradingViewPayload(b, nowMs) ==
  IF b.root # "exact" THEN "invalid"
  ELSE IF b.contract_version # 1 THEN "unsupported_contract"
  ELSE IF /\ b.source = "tradingview"
          /\ IsMachineId(b.signal_type, 64)
          /\ IsMachineId(b.strategy_id, 64)
          /\ IsPositiveInteger(b.strategy_version)
          /\ IsCleanProviderString(b.exchange, 64)
          /\ IsCleanProviderString(b.ticker, 128)
          /\ IsCleanProviderString(b.interval, 32)
          /\ NormalizeUtcInstant(b.bar_time) # NoInstant
          /\ NormalizeUtcInstant(b.triggered_at) # NoInstant
          /\ b.triggered_at.ms <= nowMs + Tolerance
          /\ b.direction \in {"absent", "long", "short", "neutral"}
          /\ IsFiniteOptionalNumber(b.prices)
          /\ b.alert_name = Absent \/ IsCleanProviderString(b.alert_name, 128)
          /\ b.setup_key = Absent \/ IsMachineId(b.setup_key, 128)
          /\ IsBoundedPayload(b.payload, b.payload_bytes)
       THEN "ok"
  ELSE "invalid"

copyOptionalFields(b) == [direction |-> b.direction, setup_key |-> b.setup_key]

\* The payload of the event; prices and the alert's name go with it unread.
SignalPayload(b) ==
  [signal_type |-> b.signal_type, strategy_id |-> b.strategy_id,
   strategy_version |-> b.strategy_version, exchange |-> b.exchange, ticker |-> b.ticker,
   interval |-> b.interval, bar_time |-> NormalizeUtcInstant(b.bar_time),
   triggered_at |-> NormalizeUtcInstant(b.triggered_at), payload |-> b.payload,
   direction |-> copyOptionalFields(b).direction, setup_key |-> copyOptionalFields(b).setup_key]

One == [whole |-> TRUE, value |-> 1]
SignalEnvelope(b) ==
  [fields |-> "known", contract_version |-> 1,
   event_type |-> [form |-> "dotted", length |-> 18, width |-> 1], event_version |-> One,
   occurred_at |-> NormalizeUtcInstant(b.triggered_at),
   source_id |-> "absent", provenance_record_id |-> "absent", external_event_id |-> Absent,
   subject_type |-> Absent, subject_id |-> "absent", correlation_id |-> "absent",
   causation_event_id |-> "absent", payload |-> "object"]

-----------------------------------------------------------------------------
(* event-envelope.ts                                                       *)

ValidateEventEnvelope(e) ==
  /\ e.fields = "known"
  /\ e.contract_version = 1
  /\ e.event_type.form = "dotted" /\ e.event_type.length <= 128
  /\ IsPositiveInteger(e.event_version)
  /\ e.payload = "object"
  /\ "malformed" \notin {e.source_id, e.provenance_record_id, e.subject_id,
                         e.correlation_id, e.causation_event_id}
  /\ e.provenance_record_id # "absent" => e.source_id # "absent"
  /\ e.external_event_id = Absent \/ HasLength(e.external_event_id, 256)
  /\ e.subject_type = Absent \/ (e.subject_type.form = "name" /\ HasLength(e.subject_type, 64))
  /\ (e.subject_type = Absent) = (e.subject_id = "absent")
  /\ e.occurred_at.form \in {"absent", "utc", "offset"}

(* The event_ledger table.                                                 *)

LedgerAdmits(e) ==
  /\ e.contract_version = 1
  /\ e.event_type.form = "dotted" /\ e.event_type.length <= 128
  /\ e.event_version.whole /\ e.event_version.value \in 1..MaxInteger
  /\ {e.source_id, e.provenance_record_id, e.causation_event_id} \subseteq {"absent", "known"}
  /\ "malformed" \notin {e.subject_id, e.correlation_id}
  /\ e.occurred_at.storable
  /\ e.external_event_id = Absent \/ HasLength(e.external_event_id, 256)
  /\ e.subject_type = Absent \/ (e.subject_type.form = "name" /\ e.subject_type.length <= 64)
  /\ (e.subject_type = Absent) = (e.subject_id = "absent")
  /\ e.provenance_record_id # "absent" => e.source_id # "absent"
  /\ e.payload = "object"

-----------------------------------------------------------------------------
(* opportunity-store.ts                                                    *)

DecodesMachineId(t, maximum) == t.form \in MachineForms /\ HasLength(t, maximum)
DecodesProviderString(t, maximum) == t.form \in CleanForms /\ HasLength(t, maximum)
NormalizeInstant(i) ==
  IF i.form \in {"utc", "offset", "local"} THEN [i EXCEPT !.form = "utc"] ELSE NoInstant

DecodeTradingViewSignal(p) ==
  IF /\ DecodesMachineId(p.signal_type, 64)
     /\ DecodesMachineId(p.strategy_id, 64)
     /\ p.strategy_version.whole /\ p.strategy_version.value > 0
     /\ DecodesProviderString(p.exchange, 64)
     /\ DecodesProviderString(p.ticker, 128)
     /\ DecodesProviderString(p.interval, 32)
     /\ NormalizeInstant(p.bar_time) # NoInstant
     /\ NormalizeInstant(p.triggered_at) # NoInstant
     /\ p.direction \in {"absent", "long", "short", "neutral"}
     /\ p.setup_key = Absent \/ DecodesMachineId(p.setup_key, 128)
     /\ p.payload.kind = "object"
  THEN [signal_type |-> p.signal_type, strategy_id |-> p.strategy_id,
        strategy_version |-> p.strategy_version.value, exchange |-> p.exchange,
        ticker |-> p.ticker, interval |-> p.interval,
        bar_time |-> NormalizeInstant(p.bar_time),
        triggered_at |-> NormalizeInstant(p.triggered_at),
        direction |-> p.direction, setup_key |-> p.setup_key]
  ELSE Undecoded

\* https://www.tradingview.com/chart/?symbol= and "exchange:ticker", encoded.
DeepLinkLength(signal) ==
  42 + signal.exchange.width * signal.exchange.length + 3
     + signal.ticker.width * signal.ticker.length

(* The opportunities table.                                                *)

\* Mutant: the pattern the table had before strategy ids were aligned with
\* the contract.
StrategyIdCheckOfNames(t) == t.form = "name" /\ HasLength(t, 64)
StrategyIdCheck(t) == t.form \in MachineForms /\ HasLength(t, 64)

TableAdmits(signal) ==
  /\ StrategyIdCheck(signal.strategy_id)
  /\ signal.strategy_version \in 1..MaxInteger
  /\ HasLength(signal.exchange, 64)
  /\ HasLength(signal.ticker, 128)
  /\ HasLength(signal.interval, 32)
  /\ signal.triggered_at.storable
  /\ signal.direction \in {"absent", "long", "short", "neutral"}
  /\ signal.setup_key = Absent \/ HasLength(signal.setup_key, 128)
  /\ DeepLinkLength(signal) <= 2048

-----------------------------------------------------------------------------
(* The way of one submission; nothing is made of an event that a producer  *)
(* posts on the generic route beyond its row.                              *)

InitJourney == journey = NoJourney

At(stage) == journey # NoJourney /\ journey.stage = stage
OnRoute(route) == journey # NoJourney /\ journey.route = route
Goes(stage) == journey' = [journey EXCEPT !.stage = stage]

Submitted(route, body) ==
  [route |-> route, body |-> body, stage |-> "submitted", signal |-> Undecoded]

Submit ==
  /\ journey = NoJourney
  /\ \/ \E b \in Submissions : journey' = Submitted("tradingview", b)
     \/ \E e \in Envelopes : journey' = Submitted("events", e)

Screen ==
  /\ At("submitted")
  /\ LET admitted ==
           IF journey.route = "tradingview"
           THEN ValidateTradingViewPayload(journey.body, Now) = "ok"
           ELSE ValidateEventEnvelope(journey.body)
     IN Goes(IF admitted THEN "admitted" ELSE "rejected")

Envelope == IF journey.route = "tradingview" THEN SignalEnvelope(journey.body) ELSE journey.body

Record ==
  /\ At("admitted")
  /\ Goes(IF LedgerAdmits(Envelope) THEN "recorded" ELSE "unavailable")

Decode ==
  /\ At("recorded") /\ OnRoute("tradingview")
  /\ LET signal == DecodeTradingViewSignal(SignalPayload(journey.body)) IN
       journey' = [journey EXCEPT !.signal = signal,
                                  !.stage = IF signal = Undecoded THEN "dead" ELSE "decoded"]

Materialise ==
  /\ At("decoded")
  /\ Goes(IF TableAdmits(journey.signal) THEN "stored" ELSE "dead")

Travel == Submit \/ Screen \/ Record \/ Decode \/ Materialise

JourneySpec == InitJourney /\ [][Travel]_journey

-----------------------------------------------------------------------------
\* The signal a submission stands for: what identifies its opportunity.
Identity(b) ==
  [signal_type |-> b.signal_type, strategy_id |-> b.strategy_id,
   strategy_version |-> b.strategy_version.value, exchange |-> b.exchange, ticker |-> b.ticker,
   interval |-> b.interval, bar_time |-> b.bar_time, triggered_at |-> b.triggered_at,
   direction |-> b.direction, setup_key |-> b.setup_key]

\* What a route admits, the rest of the way takes: the ledger records it,
\* the consumer decodes the signal that was sent and the table admits its
\* opportunity, however the limits lie, but for the exceptions the code
\* has: a version beyond the integer columns, a time the database does not
\* know, and references to rows that do not exist.
AcceptedIsStorable ==
  /\ At("unavailable") =>
       \/ ~Envelope.occurred_at.storable
       \/ Envelope.event_version.value > MaxInteger
       \/ "unknown" \in {Envelope.source_id, Envelope.provenance_record_id,
                         Envelope.causation_event_id}
  /\ At("dead") => journey.body.strategy_version.value > MaxInteger
  /\ At("stored") => journey.signal = Identity(journey.body)

\* The values that lie so many levels inside a value.
Inside[levels \in Depths] ==
  [value \in Payloads |->
     IF levels = 0 THEN {value} ELSE UNION {v.children : v \in Inside[levels - 1][value]}]

\* The payload's depth is judged rightly although the walk stops at the
\* limit: a payload passes exactly if nothing lies deeper in it than MaxDepth.
DepthLimitIsExact ==
  OnRoute("tradingview") =>
    LET value == journey.body.payload IN
    IsBoundedPayload(value, MaxBytes)
      <=> value.kind = "object" /\ Inside[MaxDepth + 1][value] = {}
=============================================================================
