----------------------------- MODULE SetupFinder -----------------------------
(***************************************************************************)
(* The review page of the browser: two effects load the opportunity list   *)
(* for the filters and the detail of the selected row, while the user goes *)
(* on filtering, refreshing and clicking.  Answers arrive in any order;    *)
(* the cleanup of an effect aborts the request it made.                    *)
(*                                                                         *)
(* React commits state in steps.  What handlers, answers and effects set   *)
(* is queued: here "next" is the state after every queued update, "shown"  *)
(* the one the user sees.  Rendering commits the queue; the effects of a   *)
(* commit run later, before the next one.  (After a click React runs them  *)
(* at once; the steps here allow more orders, never fewer.)                *)
(*                                                                         *)
(* What an answer says of an opportunity is not looked at: a list is a     *)
(* sequence of ids, a detail the id it is about.  An answer that is not    *)
(* the JSON the page expects counts as a failed one.                       *)
(***************************************************************************)
EXTENDS Naturals, Sequences

CONSTANTS
  Opps,       \* opportunities the list may hold
  Lists,      \* the lists the service may answer, newest first
  Statuses,   \* choices of the status filter
  Tickers,    \* normalised ticker inputs
  MaxEdits,   \* bound: what the user does
  All,        \* a filter that is not set
  None,       \* no selection, no detail, no list yet
  Never       \* what an effect that has not run depended on

Filters == [status : Statuses \cup {All}, ticker : Tickers \cup {All}]
NoFilter == [status |-> All, ticker |-> All]

\* What the list effect depends on.
Queries == [filter : Filters, refreshKey : Nat]

ASSUME ListAssumption == Lists \subseteq Seq(Opps) /\ <<>> \in Lists
ASSUME NullAssumption == None \notin Opps /\ {None, Never} \cap Queries = {}
                         /\ Never \notin Opps \cup {None}
ASSUME BoundAssumption == MaxEdits \in Nat

VARIABLES
  shown,      \* the committed state
  next,       \* the state once every queued update is applied
  listRan,    \* the query the list effect last ran for
  detailRan,  \* the selection the detail effect last ran for
  requests,   \* requests that are neither answered nor aborted
  edits       \* what the user did so far

vars == <<shown, next, listRan, detailRan, requests, edits>>

ListStates == {"loading", "ready", "error"}
DetailStates == {"idle", "loading", "ready", "error"}

\* "asked" is not in the code: the query whose answer the items are.
State ==
  [items : Lists, asked : Queries \cup {None},
   selectedId : Opps \cup {None}, detail : Opps \cup {None},
   listState : ListStates, detailState : DetailStates,
   filter : Filters, refreshKey : Nat]

Requests == [kind : {"list"}, of : Queries] \cup [kind : {"detail"}, of : Opps]
ListRequest(q) == [kind |-> "list", of |-> q]
DetailRequest(o) == [kind |-> "detail", of |-> o]
OfKind(kind) == {r \in requests : r.kind = kind}

Query(state) == [filter |-> state.filter, refreshKey |-> state.refreshKey]
Listed(state) == {state.items[i] : i \in 1..Len(state.items)}

Blank == [items |-> <<>>, asked |-> None, selectedId |-> None, detail |-> None,
          listState |-> "loading", detailState |-> "idle",
          filter |-> NoFilter, refreshKey |-> 0]

Init ==
  /\ shown = Blank
  /\ next = Blank
  /\ listRan = Never
  /\ detailRan = Never
  /\ requests = {}
  /\ edits = 0

-----------------------------------------------------------------------------
(* The user                                                                *)

Edits ==
  /\ edits < MaxEdits
  /\ edits' = edits + 1
  /\ UNCHANGED <<shown, listRan, detailRan, requests>>

ChooseStatus(s) == Edits /\ next' = [next EXCEPT !.filter.status = s]
applyTicker(t) == Edits /\ next' = [next EXCEPT !.filter.ticker = t]
loadList == Edits /\ next' = [next EXCEPT !.refreshKey = @ + 1]

\* Offered beside a filter that is set, and in place of an empty list.
clearFilters ==
  /\ shown.filter # NoFilter \/ (shown.listState = "ready" /\ shown.items = <<>>)
  /\ Edits
  /\ next' = [next EXCEPT !.filter = NoFilter]

\* A click on a row the user sees.
Select(o) ==
  /\ shown.listState = "ready" /\ o \in Listed(shown)
  /\ Edits
  /\ next' = [next EXCEPT !.selectedId = o]

\* The user opens another page and comes back: every effect cleans up, the
\* state is lost, and the page starts anew.
Reopen ==
  /\ edits < MaxEdits
  /\ edits' = edits + 1
  /\ shown' = Blank /\ next' = Blank
  /\ listRan' = Never /\ detailRan' = Never
  /\ requests' = {}

-----------------------------------------------------------------------------
(* React                                                                   *)

ListDue == listRan # Query(shown)
DetailDue == detailRan # shown.selectedId

\* The queue is committed; effects of the last commit have run before.
Render ==
  /\ shown # next
  /\ ~ListDue /\ ~DetailDue
  /\ shown' = next
  /\ UNCHANGED <<next, listRan, detailRan, requests, edits>>

\* The requests the cleanup of the effects that are due aborts.
Aborted ==
  (IF ListDue THEN OfKind("list") ELSE {})
  \cup (IF DetailDue THEN OfKind("detail") ELSE {})

Fetched ==
  (IF ListDue THEN {ListRequest(Query(shown))} ELSE {})
  \cup (IF DetailDue /\ shown.selectedId # None
        THEN {DetailRequest(shown.selectedId)} ELSE {})

\* Mutant: nothing tells the panel that its selection went away.
UnsetNot(state) == state

Unset(state) == [state EXCEPT !.detail = None, !.detailState = "idle"]

\* What the bodies of the due effects set.
Started(state) ==
  LET list == IF ListDue THEN [state EXCEPT !.listState = "loading"] ELSE state
  IN IF ~DetailDue THEN list
     ELSE IF shown.selectedId = None THEN Unset(list)
     ELSE [list EXCEPT !.detailState = "loading"]

\* Mutant: the effects have no cleanup.
RunEffectsWithoutCleanup ==
  /\ ListDue \/ DetailDue
  /\ requests' = requests \cup Fetched
  /\ next' = Started(next)
  /\ listRan' = Query(shown)
  /\ detailRan' = shown.selectedId
  /\ UNCHANGED <<shown, edits>>

\* Every due effect cleans up, then every due effect runs its body.
RunEffects ==
  /\ ListDue \/ DetailDue
  /\ requests' = (requests \ Aborted) \cup Fetched
  /\ next' = Started(next)
  /\ listRan' = Query(shown)
  /\ detailRan' = shown.selectedId
  /\ UNCHANGED <<shown, edits>>

-----------------------------------------------------------------------------
(* The service                                                             *)

Ends(r) ==
  /\ r \in requests
  /\ requests' = requests \ {r}
  /\ UNCHANGED <<shown, listRan, detailRan, edits>>

\* Mutant: a selection is kept whatever the new list holds.
KeepsAny(list) ==
  IF next.selectedId # None \/ list = <<>> THEN next.selectedId ELSE list[1]

\* The selection stays if the new list holds it, else it is the first row.
Keeps(list) ==
  IF next.selectedId \in {list[i] : i \in 1..Len(list)} THEN next.selectedId
  ELSE IF list = <<>> THEN None ELSE list[1]

ListAnswered(r, list) ==
  /\ r \in OfKind("list")
  /\ Ends(r)
  /\ next' = [next EXCEPT !.items = list, !.asked = r.of, !.listState = "ready",
                          !.selectedId = Keeps(list)]

\* Mutant: a failed list leaves the page loading.
ListFailsSilently(r) == r \in OfKind("list") /\ Ends(r) /\ UNCHANGED next

ListFailed(r) ==
  /\ r \in OfKind("list")
  /\ Ends(r)
  /\ next' = [next EXCEPT !.listState = "error"]

DetailAnswered(r) ==
  /\ r \in OfKind("detail")
  /\ Ends(r)
  /\ next' = [next EXCEPT !.detail = r.of, !.detailState = "ready"]

DetailFailed(r) ==
  /\ r \in OfKind("detail")
  /\ Ends(r)
  /\ next' = [next EXCEPT !.detail = None, !.detailState = "error"]

Answered(r) ==
  \/ ListFailed(r) \/ DetailAnswered(r) \/ DetailFailed(r)
  \/ \E list \in Lists : ListAnswered(r, list)

User ==
  \/ clearFilters \/ loadList
  \/ \E s \in Statuses \cup {All} : ChooseStatus(s)
  \/ \E t \in Tickers \cup {All} : applyTicker(t)
  \/ \E o \in Opps : Select(o)

Next == User \/ Reopen \/ Render \/ RunEffects \/ \E r \in requests : Answered(r)

\* React renders and runs effects by itself, and every request is answered,
\* fails or is aborted; nothing makes the user do anything.
Fairness ==
  /\ WF_vars(Render) /\ WF_vars(RunEffects)
  /\ WF_vars(\E r \in OfKind("list") : Answered(r))
  /\ WF_vars(\E r \in OfKind("detail") : Answered(r))

Spec == Init /\ [][Next]_vars
FairSpec == Spec /\ Fairness

-----------------------------------------------------------------------------
\* The variables hold values of their kinds.
TypeOK ==
  /\ shown \in State /\ next \in State
  /\ listRan \in Queries \cup {Never}
  /\ detailRan \in Opps \cup {None, Never}
  /\ requests \subseteq Requests
  /\ edits \in Nat

\* Nothing is left to render and no effect is left to run.
Settled == shown = next /\ ~ListDue /\ ~DetailDue

\* Once the page has settled, a ready list is the answer to the very filters
\* and refresh the user sees, never a late answer to an earlier query, and a
\* page that says it is loading has a request under way that will end it.
ListIsTheOneAsked ==
  Settled =>
    /\ shown.listState = "ready" => shown.asked = Query(shown)
    /\ shown.listState = "loading" <=> ListRequest(Query(shown)) \in requests

\* Once the page has settled, the detail panel is about the selected row:
\* a detail that is ready is the selection's, one that is loading is being
\* asked for, and no detail of another row is kept behind an error.
DetailIsOfSelection ==
  Settled =>
    LET id == shown.selectedId IN
    CASE shown.detailState = "ready"   -> id # None /\ shown.detail = id
      [] shown.detailState = "loading" -> id # None /\ DetailRequest(id) \in requests
      [] shown.detailState = "error"   -> id # None /\ shown.detail = None
      [] shown.detailState = "idle"    -> id = None /\ shown.detail = None

\* A selected row leaves the list only by a click that overtook an answer:
\* one on a row the user still sees, but that the new list, which waits to be
\* rendered, does not hold.  No answer, failure, filter, refresh or effect
\* takes the selection off the list, even while the old one is still shown,
\* and the next answer brings one that strayed back to a row there is.
SelectionIsListed(state) == state.selectedId \in Listed(state) \cup {None}
OvertakingClick == \E o \in Listed(shown) \ Listed(next) : Select(o)
SelectionStaysListed ==
  [][/\ SelectionIsListed(next) => SelectionIsListed(next') \/ OvertakingClick
     /\ (\E r \in requests, list \in Lists : ListAnswered(r, list)) => SelectionIsListed(next')
    ]_vars

\* The page stops loading: when the user stops, so do both panels, with
\* everything rendered.
EveryLoadEnds ==
  <>[](Settled /\ shown.listState # "loading" /\ shown.detailState # "loading")
==============================================================================
