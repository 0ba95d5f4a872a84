--------------------------- MODULE MCEventIngress ---------------------------
(* Three invocations, two bodies, a header key and the two synthetic keys. *)
(* One client sends the synthetic key of b1 as a header, one sends no key, *)
(* and b1 also arrives before its own time.  Whether a webhook body is     *)
(* well formed is what the contract says of it.                            *)
EXTENDS EventIngress, SignalContract, FiniteSets, TLC

CONSTANTS b1, b2, kHeader, kTv1, kTv2

MCBodies == {b1, b2}
MCKeys == {kHeader, kTv1, kTv2}
MCTvKey == (b1 :> kTv1) @@ (b2 :> kTv2)

-----------------------------------------------------------------------------
\* The contract: payloads of up to two members a level, five levels deep, and bodies and
\* envelopes that differ from a good one in one or two fields.

Scalar == [kind |-> "scalar", children |-> {}]
Object(children) == [kind |-> "object", children |-> children]
Array(children) == [kind |-> "array", children |-> children]
Deeper(S) == {Scalar, Object({})} \cup {Object({v, w}) : v, w \in S}
Level0 == {Scalar, Object({}), Array({})}
Level3 == Deeper(Deeper(Deeper(Level0)))
MCValues == Level3 \cup {Object({v}) : v \in Level3} \cup {Object({Array({v})}) : v \in Level3}

Chain0 == Object({})
Chain1 == Object({Chain0})
Chain2 == Object({Array({Chain0}), Scalar})
Chain3 == Object({Chain2})

\* Everything that occurs in a payload.  (TLC keeps the value of a definition,
\* but not of what the configuration puts for a constant.)
AllPayloads ==
  UNION {Level0, Deeper(Level0), Deeper(Deeper(Level0)), MCValues, {Array({v}) : v \in Level3},
         {Array({Chain0}), Chain1, Chain2, Chain3}}
MCPayloads == AllPayloads

Instant(form, ms) == [form |-> form, ms |-> ms, storable |-> ms > 0]
SomeInstants ==
  {Instant("utc", ms) : ms \in 0..3} \cup {Instant(form, 1) : form \in {"offset", "local", "none"}}
AbsentInstant == [form |-> "absent", ms |-> 0, storable |-> TRUE]
Text(form, length) ==
  [form |-> form, length |-> length, width |-> IF form = "clean" THEN 9 ELSE 1]
SomeTexts(maximum) ==
  {Text(form, maximum) : form \in CleanForms \cup {"dirty"}}
  \cup {Text("coded", length) : length \in {0, 1, maximum + 1}}
SomeNumbers == {[whole |-> TRUE, value |-> n] : n \in {0, 3, 4}} \cup {[whole |-> FALSE, value |-> 1]}
Name == [form |-> "name", length |-> 3, width |-> 1]

GoodSubmission ==
  [root |-> "exact", contract_version |-> 1, source |-> "tradingview", signal_type |-> Name,
   strategy_id |-> Name, strategy_version |-> One, exchange |-> Name, ticker |-> Name,
   interval |-> Name, bar_time |-> Instant("utc", 1), triggered_at |-> Instant("utc", 2),
   direction |-> "long", prices |-> "finite", alert_name |-> Absent, setup_key |-> Name,
   payload |-> Chain1, payload_bytes |-> 2]

SubmissionChoices ==
  [root |-> {"unknown", "missing"}, contract_version |-> {2}, source |-> {"other"},
   signal_type |-> SomeTexts(64), strategy_id |-> SomeTexts(64), strategy_version |-> SomeNumbers,
   exchange |-> SomeTexts(64), ticker |-> SomeTexts(128), interval |-> SomeTexts(32),
   bar_time |-> SomeInstants, triggered_at |-> SomeInstants,
   direction |-> {"absent", "short", "neutral", "other"}, prices |-> {"absent", "other"},
   alert_name |-> SomeTexts(128), setup_key |-> SomeTexts(128) \cup {Absent},
   payload |-> {Scalar, Chain0, Chain2, Chain3}, payload_bytes |-> {3, 4}]

GoodEnvelope ==
  [SignalEnvelope(GoodSubmission) EXCEPT !.source_id = "known", !.subject_type = Name,
                                         !.subject_id = "known"]
EnvelopeChoices ==
  [fields |-> {"unknown"}, contract_version |-> {2}, event_type |-> SomeTexts(128) \cup
     {Text("dotted", 129)},
   event_version |-> SomeNumbers, occurred_at |-> SomeInstants \cup {AbsentInstant},
   source_id |-> References, provenance_record_id |-> References,
   external_event_id |-> SomeTexts(256), subject_type |-> SomeTexts(64) \cup {Absent},
   subject_id |-> References, correlation_id |-> References,
   causation_event_id |-> References, payload |-> {"other"}]

Vary(S, choices) ==
  S \cup UNION {{[x EXCEPT ![f] = v] : v \in choices[f]} : x \in S, f \in DOMAIN choices}
MCSubmissions ==
  Vary(Vary({GoodSubmission}, SubmissionChoices), SubmissionChoices)
  \cup {[GoodSubmission EXCEPT !.payload = v] : v \in MCValues}
MCEnvelopes == Vary(Vary({GoodEnvelope}, EnvelopeChoices), EnvelopeChoices)

-----------------------------------------------------------------------------
SubmissionOf == (b1 :> GoodSubmission) @@ (b2 :> [GoodSubmission EXCEPT !.setup_key = Absent])

Request(route, body, key, wellFormed) ==
  [route |-> route, authorised |-> TRUE, json |-> TRUE, bounded |-> TRUE,
   wellFormed |-> wellFormed, body |-> body, key |-> key]

Event(body, key) == Request("events", body, key, ValidateEventEnvelope(GoodEnvelope))
Alert(body, now) ==
  Request("tradingview", body, NoKey,
          ValidateTradingViewPayload(SubmissionOf[body], now) = "ok")

AllInputs ==
  { Event(b1, kHeader), Event(b2, kHeader), Event(b2, kTv1), Event(b1, NoKey),
    Alert(b1, Now), Alert(b2, Now), Alert(b1, 0) }
MCInputs == AllInputs

-----------------------------------------------------------------------------
\* The journey of a submission and the requests share nothing, so a behaviour
\* follows the one or the other.
MCInit == Init /\ InitJourney
MCNext ==
  \/ journey = NoJourney /\ Next /\ UNCHANGED journey
  \/ (\A r \in Requests : pc[r] = "idle") /\ Travel /\ UNCHANGED vars
MCSpec == MCInit /\ [][MCNext]_<<vars, journey>>

RequestSymmetry == Permutations(Requests)
=============================================================================
