--------------------------- MODULE SignalDelivery ---------------------------
(***************************************************************************)
(* The promise of the processing side, without workers, receipts' attempts *)
(* or retries.  A signal has at most one opportunity, made from one of its *)
(* events and never changed; only events whose effect is in the store are  *)
(* marked done; a message leaves the queues for good, acknowledged when    *)
(* the effect of its event is in the store, recorded when its dead letter  *)
(* is, or dropped.                                                         *)
(***************************************************************************)
CONSTANTS Messages, Events, Signals, Instruments, About, SignalOf, Skipped, NoOpportunity

VARIABLES
  fate,    \* waiting in a queue, or how each message left them
  made,    \* the opportunity of each signal
  done,    \* the events whose receipts tell of a success
  stored   \* the messages that have a dead letter

Init ==
  /\ fate = [m \in Messages |-> "waiting"]
  /\ made = [s \in Signals |-> NoOpportunity]
  /\ done = {}
  /\ stored = {}

\* The event needed no opportunity, or its signal has one.
Handled(e) ==
  \/ SignalOf[e] = Skipped
  \/ SignalOf[e] \in Signals /\ made[SignalOf[e]] # NoOpportunity

\* A success may be forgotten again, when a receipt is rewritten.
Mark == done' \subseteq {e \in Events : Handled(e)}

Make(e, i) ==
  /\ SignalOf[e] \in Signals
  /\ made[SignalOf[e]] = NoOpportunity
  /\ made' = [made EXCEPT ![SignalOf[e]] = [source |-> e, instrument |-> i]]
  /\ UNCHANGED <<fate, done, stored>>

Conclude == Mark /\ UNCHANGED <<fate, made, stored>>

Leave(m, how) ==
  /\ fate[m] = "waiting"
  /\ fate' = [fate EXCEPT ![m] = how]

Ack(m) ==
  /\ Leave(m, "acked")
  /\ About[m] \in Events
  /\ Handled(About[m])
  /\ Mark
  /\ UNCHANGED <<made, stored>>

Store(m) ==
  /\ stored' = stored \cup {m}
  /\ UNCHANGED <<fate, made, done>>

Record(m) ==
  /\ Leave(m, "recorded")
  /\ stored' = stored \cup {m}
  /\ UNCHANGED <<made, done>>

\* Also when the dead letter was stored and its sender never learnt it.
Drop(m) ==
  /\ Leave(m, "dropped")
  /\ stored' \in {stored, stored \cup {m}}
  /\ UNCHANGED <<made, done>>

Next ==
  \/ Conclude
  \/ \E e \in Events, i \in Instruments : Make(e, i)
  \/ \E m \in Messages : Ack(m) \/ Store(m) \/ Record(m) \/ Drop(m)

Spec == Init /\ [][Next]_<<fate, made, done, stored>>
=============================================================================
