-------------------------- MODULE IdempotentIntake --------------------------
(***************************************************************************)
(* The promise of the acceptance routes, without the mechanism: a key is   *)
(* bound to one event and one body for ever; events are published only     *)
(* once bound; an acceptance is given to a request whose body is the bound *)
(* one and whose event is published, a conflict to one whose body is not.  *)
(* A request may fail at any time, and may still bind its key after that.  *)
(***************************************************************************)
CONSTANTS Requests, Bodies, Keys, NoRow, NoInput

VARIABLES
  binding,    \* the event each key is bound to
  published,  \* events handed to the processing side
  asked,      \* what each request asked for
  answer      \* what each request was told

vars == <<binding, published, asked, answer>>

Init ==
  /\ binding = [k \in Keys |-> NoRow]
  /\ published = {}
  /\ asked = [r \in Requests |-> NoInput]
  /\ answer = [r \in Requests |-> "none"]

Ask(r) ==
  /\ asked[r] = NoInput
  /\ answer[r] = "none"
  /\ \E k \in Keys, b \in Bodies :
       asked' = [asked EXCEPT ![r] = [key |-> k, body |-> b]]
  /\ UNCHANGED <<binding, published, answer>>

Bind(r) ==
  /\ asked[r] # NoInput
  /\ binding[asked[r].key] = NoRow
  /\ binding' = [binding EXCEPT ![asked[r].key] = [id |-> r, body |-> asked[r].body]]
  /\ UNCHANGED <<published, asked, answer>>

Publish(k) ==
  /\ binding[k] # NoRow
  /\ published' = published \cup {binding[k].id}
  /\ UNCHANGED <<binding, asked, answer>>

Tell(r, what) ==
  /\ answer[r] = "none"
  /\ answer' = [answer EXCEPT ![r] = what]
  /\ UNCHANGED <<binding, published, asked>>

Accept(r) ==
  /\ asked[r] # NoInput
  /\ binding[asked[r].key] # NoRow
  /\ binding[asked[r].key].body = asked[r].body
  /\ binding[asked[r].key].id \in published
  /\ Tell(r, "accepted")

Conflict(r) ==
  /\ asked[r] # NoInput
  /\ binding[asked[r].key] # NoRow
  /\ binding[asked[r].key].body # asked[r].body
  /\ Tell(r, "conflict")

Next ==
  \/ \E r \in Requests : Ask(r) \/ Bind(r) \/ Accept(r) \/ Conflict(r) \/ Tell(r, "failed")
  \/ \E k \in Keys : Publish(k)

Spec == Init /\ [][Next]_vars
=============================================================================
