-------------------------- MODULE SetupFinderProofs --------------------------
(***************************************************************************)
(* Proofs about SetupFinder for any opportunities, lists, filters and any  *)
(* number of things the user does.                                         *)
(***************************************************************************)
EXTENDS SetupFinder, TLAPS

\* What the queued list panel stands for: the only list request is the one
\* of the effect's last run, and a ready list answers it.
ListInv ==
  /\ \A r \in OfKind("list") : r.of = listRan
  /\ next.listState = "ready" => next.asked = listRan
  /\ listRan # Never => (next.listState = "loading" <=> ListRequest(listRan) \in requests)

\* The same for the detail panel and the selection its effect last ran for.
DetailInv ==
  /\ \A r \in OfKind("detail") : r.of = detailRan
  /\ detailRan # Never =>
       /\ next.detailState = "ready" => detailRan # None /\ next.detail = detailRan
       /\ next.detailState = "loading" => detailRan # None /\ DetailRequest(detailRan) \in requests
       /\ next.detailState = "error" => detailRan # None /\ next.detail = None
       /\ next.detailState = "idle" => detailRan = None /\ next.detail = None

LEMMA RequestKinds ==
  ASSUME TypeOK, NEW r \in requests
  PROVE  /\ r.kind = "list" => r.of \in Queries /\ r = ListRequest(r.of)
         /\ r.kind = "detail" => r.of \in Opps /\ r = DetailRequest(r.of)
         /\ r.kind \in {"list", "detail"}
BY DEF TypeOK, Requests, ListRequest, DetailRequest

LEMMA QueryType ==
  ASSUME NEW state \in State
  PROVE  Query(state) \in Queries
BY DEF State, Query, Queries

LEMMA StartedFields ==
  ASSUME TypeOK
  PROVE  /\ Started(next) \in State
         /\ Started(next).items = next.items /\ Started(next).asked = next.asked
         /\ Started(next).selectedId = next.selectedId
         /\ Started(next).listState = IF ListDue THEN "loading" ELSE next.listState
         /\ Started(next).detailState =
              IF ~DetailDue THEN next.detailState
              ELSE IF shown.selectedId = None THEN "idle" ELSE "loading"
         /\ Started(next).detail =
              IF DetailDue /\ shown.selectedId = None THEN None ELSE next.detail
BY DEF TypeOK, Started, Unset, State, ListStates, DetailStates

LEMMA KeepsListed ==
  ASSUME TypeOK, NEW list \in Lists
  PROVE  /\ Keeps(list) \in Opps \cup {None}
         /\ Keeps(list) \in {list[i] : i \in 1..Len(list)} \cup {None}
<1>1. list \in Seq(Opps)
  BY ListAssumption
<1>2. \A i \in 1..Len(list) : list[i] \in Opps
  BY <1>1
<1>3. list # <<>> => 1 \in 1..Len(list)
  BY <1>1
<1> QED
  BY <1>2, <1>3 DEF Keeps

\* What each step does to the queued state, one fact per field it sets.
LEMMA UserSteps ==
  ASSUME TypeOK, User
  PROVE  /\ next' \in State
         /\ next'.items = next.items /\ next'.asked = next.asked
         /\ next'.listState = next.listState
         /\ next'.detail = next.detail /\ next'.detailState = next.detailState
         /\ next'.selectedId # next.selectedId => next'.selectedId \in Listed(shown)
         /\ edits' \in Nat
         /\ UNCHANGED <<shown, listRan, detailRan, requests>>
<1> USE DEF TypeOK, Edits
<1>1. CASE clearFilters
  BY <1>1 DEF clearFilters, State, NoFilter, Filters
<1>2. CASE loadList
  BY <1>2 DEF loadList, State
<1>3. CASE \E s \in Statuses \cup {All} : ChooseStatus(s)
  <2> PICK s \in Statuses \cup {All} : ChooseStatus(s)
    BY <1>3
  <2> QED
    BY DEF ChooseStatus, State, Filters
<1>4. CASE \E t \in Tickers \cup {All} : applyTicker(t)
  <2> PICK t \in Tickers \cup {All} : applyTicker(t)
    BY <1>4
  <2> QED
    BY DEF applyTicker, State, Filters
<1>5. CASE \E o \in Opps : Select(o)
  <2> PICK o \in Opps : Select(o)
    BY <1>5
  <2> QED
    BY DEF Select, State
<1> QED
  BY <1>1, <1>2, <1>3, <1>4, <1>5 DEF User

LEMMA AnswerSteps ==
  ASSUME TypeOK, NEW r \in requests, Answered(r)
  PROVE  /\ next' \in State
         /\ requests' = requests \ {r}
         /\ UNCHANGED <<shown, listRan, detailRan, edits>>
         /\ r.kind = "list" =>
              /\ next'.detail = next.detail /\ next'.detailState = next.detailState
              /\ \/ next'.listState = "error"
                 \/ next'.listState = "ready" /\ next'.asked = r.of
              /\ \/ next'.items = next.items /\ next'.selectedId = next.selectedId
                 \/ SelectionIsListed(next')
         /\ r.kind = "detail" =>
              /\ next'.items = next.items /\ next'.asked = next.asked
              /\ next'.selectedId = next.selectedId /\ next'.listState = next.listState
              /\ \/ next'.detailState = "error" /\ next'.detail = None
                 \/ next'.detailState = "ready" /\ next'.detail = r.of
<1> USE DEF TypeOK, Ends, OfKind
<1>1. CASE ListFailed(r)
  BY <1>1 DEF ListFailed, State, ListStates
<1>2. CASE DetailFailed(r)
  BY <1>2 DEF DetailFailed, State, DetailStates
<1>3. CASE DetailAnswered(r)
  BY <1>3, RequestKinds DEF DetailAnswered, State, DetailStates
<1>4. CASE \E list \in Lists : ListAnswered(r, list)
  <2> PICK list \in Lists : ListAnswered(r, list)
    BY <1>4
  <2>1. Keeps(list) \in Opps \cup {None}
    BY KeepsListed
  <2>2. r.of \in Queries
    BY RequestKinds DEF ListAnswered
  <2>3. /\ next' \in State /\ next'.items = list /\ next'.selectedId = Keeps(list)
        /\ next'.listState = "ready" /\ next'.asked = r.of
        /\ next'.detail = next.detail /\ next'.detailState = next.detailState
    BY <2>1, <2>2 DEF ListAnswered, State, ListStates
  <2>4. SelectionIsListed(next')
    BY <2>3, KeepsListed DEF SelectionIsListed, Listed
  <2> QED
    BY <2>3, <2>4 DEF ListAnswered
<1> QED
  BY <1>1, <1>2, <1>3, <1>4 DEF Answered

LEMMA BlankType == Blank \in State
BY ListAssumption DEF Blank, State, Filters, NoFilter, ListStates, DetailStates

LEMMA TypeInit == Init => TypeOK
BY BlankType DEF Init, TypeOK

\* The variables keep their types.
LEMMA TypeStep == TypeOK /\ [Next]_vars => TypeOK'
<1> SUFFICES ASSUME TypeOK, [Next]_vars PROVE TypeOK'
  OBVIOUS
<1>1. CASE User
  BY <1>1, UserSteps DEF TypeOK
<1>2. CASE Render
  BY <1>2 DEF Render, TypeOK
<1>3. CASE RunEffects
  <2>1. shown.selectedId \in Opps \cup {None} /\ Query(shown) \in Queries
    BY QueryType DEF TypeOK, State
  <2>2. Fetched \subseteq Requests
    BY <2>1 DEF Fetched, Requests, ListRequest, DetailRequest
  <2> QED
    BY <1>3, <2>1, <2>2, StartedFields DEF RunEffects, TypeOK
<1>4. CASE \E r \in requests : Answered(r)
  BY <1>4, AnswerSteps DEF TypeOK
<1>5. CASE Reopen
  BY <1>5, BlankType DEF Reopen, TypeOK
<1>6. CASE UNCHANGED vars
  BY <1>6 DEF vars, TypeOK
<1> QED
  BY <1>1, <1>2, <1>3, <1>4, <1>5, <1>6 DEF Next

\* The types of the page's state hold in every reachable state.
THEOREM PageTypes == Spec => []TypeOK
<1> QED
  BY TypeInit, TypeStep, PTL DEF Spec

LEMMA ListInit == Init => ListInv
BY DEF Init, Blank, ListInv, OfKind

LEMMA ListStep == TypeOK /\ ListInv /\ [Next]_vars => ListInv'
<1> SUFFICES ASSUME TypeOK, ListInv, [Next]_vars PROVE ListInv'
  OBVIOUS
<1>1. CASE User
  BY <1>1, UserSteps DEF ListInv, OfKind, ListRequest
<1>2. CASE Render
  BY <1>2 DEF Render, ListInv, OfKind, ListRequest
<1>3. CASE RunEffects
  <2>1. ListRequest(Query(shown)).kind = "list" /\ ListRequest(Query(shown)).of = Query(shown)
    BY DEF ListRequest
  <2>2. DetailRequest(shown.selectedId).kind = "detail"
    BY DEF DetailRequest
  <2>3. CASE ListDue
    <3>1. \A r \in requests' : r.kind = "list" => r = ListRequest(Query(shown))
      BY <1>3, <2>2, <2>3 DEF RunEffects, Aborted, Fetched, OfKind
    <3>2. ListRequest(Query(shown)) \in requests'
      BY <1>3, <2>3 DEF RunEffects, Fetched
    <3>3. next'.listState = "loading" /\ listRan' = Query(shown)
      BY <1>3, <2>3, StartedFields DEF RunEffects
    <3> QED
      BY <2>1, <3>1, <3>2, <3>3 DEF ListInv, OfKind, ListRequest
  <2>4. CASE ~ListDue
    <3>1. \A r : r.kind = "list" => (r \in requests' <=> r \in requests)
      BY <1>3, <2>2, <2>4 DEF RunEffects, Aborted, Fetched, OfKind
    <3>2. listRan' = listRan /\ next'.listState = next.listState /\ next'.asked = next.asked
      BY <1>3, <2>4, StartedFields DEF RunEffects, ListDue
    <3>3. ListRequest(listRan).kind = "list" /\ ListRequest(listRan)' = ListRequest(listRan)
      BY <3>2 DEF ListRequest
    <3> QED
      BY <3>1, <3>2, <3>3 DEF ListInv, OfKind
  <2> QED
    BY <2>3, <2>4
<1>4. ASSUME NEW r \in requests, Answered(r) PROVE ListInv'
  <2>1. ListRequest(listRan)' = ListRequest(listRan)
    BY <1>4, AnswerSteps DEF ListRequest
  <2>2. CASE r.kind = "list"
    <3>1. r.of = listRan /\ r = ListRequest(listRan)
      BY <2>2, RequestKinds DEF ListInv, OfKind
    <3> QED
      BY <1>4, <2>1, <2>2, <3>1, AnswerSteps DEF ListInv, OfKind
  <2>3. CASE r.kind = "detail"
    <3>1. ListRequest(listRan) # r
      BY <2>3 DEF ListRequest
    <3> QED
      BY <1>4, <2>1, <2>3, <3>1, AnswerSteps DEF ListInv, OfKind
  <2> QED
    BY <2>2, <2>3, RequestKinds
<1>5. CASE Reopen
  BY <1>5 DEF Reopen, Blank, ListInv, OfKind
<1>6. CASE UNCHANGED vars
  BY <1>6 DEF vars, ListInv, OfKind, ListRequest
<1> QED
  BY <1>1, <1>2, <1>3, <1>4, <1>5, <1>6 DEF Next

\* A settled page shows the list it asked for last, or is loading it.
THEOREM SettledListIsTheOneAsked == Spec => []ListIsTheOneAsked
<1>1. TypeOK /\ ListInv => ListIsTheOneAsked
  <2> SUFFICES ASSUME TypeOK, ListInv, Settled
               PROVE  /\ shown.listState = "ready" => shown.asked = Query(shown)
                      /\ shown.listState = "loading" <=> ListRequest(Query(shown)) \in requests
    BY DEF ListIsTheOneAsked
  <2>1. listRan = Query(shown) /\ shown = next
    BY DEF Settled, ListDue
  <2>2. listRan # Never
    BY <2>1, QueryType, NullAssumption DEF TypeOK
  <2> QED
    BY <2>1, <2>2 DEF ListInv
<1> QED
  BY <1>1, TypeInit, TypeStep, ListInit, ListStep, PTL DEF Spec

LEMMA DetailInit == Init => DetailInv
BY DEF Init, Blank, DetailInv, OfKind

LEMMA DetailStep == TypeOK /\ DetailInv /\ [Next]_vars => DetailInv'
<1> SUFFICES ASSUME TypeOK, DetailInv, [Next]_vars PROVE DetailInv'
  OBVIOUS
<1>1. CASE User
  BY <1>1, UserSteps DEF DetailInv, OfKind, DetailRequest
<1>2. CASE Render
  BY <1>2 DEF Render, DetailInv, OfKind, DetailRequest
<1>3. CASE RunEffects
  <2> DEFINE id == shown.selectedId
  <2>1. DetailRequest(id).kind = "detail" /\ DetailRequest(id).of = id
    BY DEF DetailRequest
  <2>2. ListRequest(Query(shown)).kind = "list"
    BY DEF ListRequest
  <2>3. CASE DetailDue
    <3>1. \A r \in requests' : r.kind = "detail" => r = DetailRequest(id)
      BY <1>3, <2>2, <2>3 DEF RunEffects, Aborted, Fetched, OfKind
    <3>2. id # None => DetailRequest(id) \in requests'
      BY <1>3, <2>3 DEF RunEffects, Fetched
    <3>3. /\ detailRan' = id
          /\ id = None => next'.detailState = "idle" /\ next'.detail = None
          /\ id # None => next'.detailState = "loading"
      BY <1>3, <2>3, StartedFields DEF RunEffects
    <3> QED
      BY <2>1, <3>1, <3>2, <3>3 DEF DetailInv, OfKind, DetailRequest
  <2>4. CASE ~DetailDue
    <3>1. \A r : r.kind = "detail" => (r \in requests' <=> r \in requests)
      BY <1>3, <2>2, <2>4 DEF RunEffects, Aborted, Fetched, OfKind
    <3>2. /\ detailRan' = detailRan /\ next'.detailState = next.detailState
          /\ next'.detail = next.detail
      BY <1>3, <2>4, StartedFields DEF RunEffects, DetailDue
    <3>3. DetailRequest(detailRan).kind = "detail" /\ DetailRequest(detailRan)' = DetailRequest(detailRan)
      BY <3>2 DEF DetailRequest
    <3> QED
      BY <3>1, <3>2, <3>3 DEF DetailInv, OfKind
  <2> QED
    BY <2>3, <2>4
<1>4. ASSUME NEW r \in requests, Answered(r) PROVE DetailInv'
  <2>1. DetailRequest(detailRan)' = DetailRequest(detailRan)
    BY <1>4, AnswerSteps DEF DetailRequest
  <2>2. CASE r.kind = "detail"
    <3>1. r.of = detailRan /\ detailRan # None
      BY <2>2, RequestKinds, NullAssumption DEF DetailInv, OfKind
    <3> QED
      BY <1>4, <2>2, <3>1, AnswerSteps DEF DetailInv, OfKind
  <2>3. CASE r.kind = "list"
    <3>1. DetailRequest(detailRan) # r
      BY <2>3 DEF DetailRequest
    <3> QED
      BY <1>4, <2>1, <2>3, <3>1, AnswerSteps DEF DetailInv, OfKind
  <2> QED
    BY <2>2, <2>3, RequestKinds
<1>5. CASE Reopen
  BY <1>5 DEF Reopen, Blank, DetailInv, OfKind
<1>6. CASE UNCHANGED vars
  BY <1>6 DEF vars, DetailInv, OfKind, DetailRequest
<1> QED
  BY <1>1, <1>2, <1>3, <1>4, <1>5, <1>6 DEF Next

\* A settled page's detail panel is about the row that is selected.
THEOREM SettledDetailIsOfSelection == Spec => []DetailIsOfSelection
<1>1. TypeOK /\ DetailInv => DetailIsOfSelection
  <2> SUFFICES ASSUME TypeOK, DetailInv PROVE DetailIsOfSelection
    OBVIOUS
  <2>1. shown.detailState \in DetailStates /\ shown.selectedId \in Opps \cup {None}
    BY DEF TypeOK, State
  <2>2. Settled => detailRan = shown.selectedId /\ shown = next /\ detailRan # Never
    BY <2>1, NullAssumption DEF Settled, DetailDue
  <2> QED
    BY <2>1, <2>2 DEF DetailInv, DetailIsOfSelection, DetailStates
<1> QED
  BY <1>1, TypeInit, TypeStep, DetailInit, DetailStep, PTL DEF Spec

\* A new list leaves no selection outside itself.
LEMMA AnswerLists ==
  ASSUME TypeOK, NEW r \in requests, NEW list \in Lists, ListAnswered(r, list)
  PROVE  SelectionIsListed(next')
<1>1. next'.items = list /\ next'.selectedId = Keeps(list)
  BY DEF TypeOK, State, ListAnswered
<1> QED
  BY <1>1, KeepsListed DEF SelectionIsListed, Listed

\* A click on a row that the new list has leaves the selection listed.
LEMMA ClickOvertakes ==
  ASSUME TypeOK, NEW o \in Opps, Select(o)
  PROVE  SelectionIsListed(next') \/ OvertakingClick
<1>1. next'.items = next.items /\ next'.selectedId = o /\ o \in Listed(shown)
  BY DEF TypeOK, State, Select
<1>2. CASE o \in Listed(next)
  BY <1>1, <1>2 DEF SelectionIsListed, Listed
<1>3. CASE o \notin Listed(next)
  BY <1>1, <1>3 DEF OvertakingClick
<1> QED
  BY <1>2, <1>3

\* The other things a user does leave list and selection alone.
LEMMA FiltersKeepSelection ==
  ASSUME TypeOK, User, ~\E o \in Opps : Select(o)
  PROVE  next'.items = next.items /\ next'.selectedId = next.selectedId
BY DEF User, TypeOK, State, clearFilters, loadList, ChooseStatus, applyTicker

\* A selection leaves the list only by a click that overtook an answer, and
\* the next answer mends it.
THEOREM SelectionIsKeptListed == Spec => SelectionStaysListed
<1>1. ASSUME TypeOK, [Next]_vars, SelectionIsListed(next)
      PROVE  SelectionIsListed(next') \/ OvertakingClick
  <2>1. CASE \E o \in Opps : Select(o)
    BY <1>1, <2>1, ClickOvertakes
  <2>2. CASE User /\ ~\E o \in Opps : Select(o)
    BY <1>1, <2>2, FiltersKeepSelection DEF SelectionIsListed, Listed
  <2>3. CASE Render
    BY <1>1, <2>3 DEF Render, SelectionIsListed, Listed
  <2>4. CASE RunEffects
    <3>1. next'.items = next.items /\ next'.selectedId = next.selectedId
      BY <1>1, <2>4, StartedFields DEF RunEffects
    <3> QED
      BY <1>1, <3>1 DEF SelectionIsListed, Listed
  <2>5. CASE \E r \in requests : Answered(r)
    BY <1>1, <2>5, AnswerSteps, RequestKinds DEF SelectionIsListed, Listed
  <2>6. CASE UNCHANGED vars
    BY <1>1, <2>6 DEF vars, SelectionIsListed, Listed
  <2>7. CASE Reopen
    BY <2>7 DEF Reopen, Blank, SelectionIsListed
  <2> QED
    BY <1>1, <2>1, <2>2, <2>3, <2>4, <2>5, <2>6, <2>7 DEF Next
<1>2. ASSUME TypeOK, NEW r \in requests, NEW list \in Lists, ListAnswered(r, list)
      PROVE  SelectionIsListed(next')
  BY <1>2, AnswerLists
<1>3. TypeOK /\ [Next]_vars =>
        [/\ SelectionIsListed(next) => SelectionIsListed(next') \/ OvertakingClick
         /\ (\E r \in requests, list \in Lists : ListAnswered(r, list))
              => SelectionIsListed(next')]_vars
  BY <1>1, <1>2
<1> QED
  BY <1>3, TypeInit, TypeStep, PTL DEF Spec, SelectionStaysListed
==============================================================================
