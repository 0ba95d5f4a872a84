-------------------------- MODULE OpportunityPaging --------------------------
(***************************************************************************)
(* Listing opportunities page by page.  Every page is one stateless query, *)
(* newest rows first; the only thing carried from page to page is the      *)
(* cursor the client hands back.  Rows are inserted and change status      *)
(* while a client walks the pages.                                         *)
(*                                                                         *)
(* created_at is the database's now(), in microseconds; it is taken when a *)
(* transaction begins, so rows do not appear in the order of created_at.   *)
(* The cursor passes through a JavaScript date, which counts in            *)
(* milliseconds: Precision ticks of the column are one tick of the cursor. *)
(* A row's id is its random UUID; ids are numbers because their order is   *)
(* all the query looks at.  Filters other than the status compare columns  *)
(* that never change, so Ids stands for the rows that pass them.           *)
(* A page that could not be read changes nothing: the client still has the *)
(* cursor it asked with.                                                   *)
(***************************************************************************)
EXTENDS Integers, Sequences, FiniteSets

CONSTANTS
  Ids,        \* opportunities, in the order of their UUIDs
  Instants,   \* values of now()
  Precision,  \* ticks of the column in a tick of the cursor
  Limit,      \* the page size asked for
  NoRow, Start, End

Statuses == {"detected", "qualified", "alerted", "seen"}
Row == [created : Instants, status : Statuses]
Cursor == [created : Int, id : Ids]

ASSUME ParameterAssumption ==
  /\ Ids \subseteq Nat /\ IsFiniteSet(Ids)
  /\ Instants \subseteq Nat
  /\ Precision \in Nat \ {0}
  /\ Limit \in Nat \ {0}
  /\ NoRow \notin Row
  /\ {Start, End} \cap Cursor = {}
  /\ Start # End

VARIABLES
  rows,    \* public.opportunities
  filter,  \* the statuses the walk asks for
  cursor,  \* what the client sends with its next request
  pages,   \* the pages it was shown
  steady,  \* rows that pass the filter since the walk began
  edges    \* cursor ticks at which a page was cut

vars == <<rows, filter, cursor, pages, steady, edges>>

Filters == {Statuses} \cup {{s} : s \in Statuses}
Listed == {i \in Ids : rows[i] # NoRow}

Init ==
  /\ rows \in [Ids -> {[created |-> t, status |-> "detected"] : t \in Instants} \cup {NoRow}]
  /\ filter \in Filters
  /\ cursor = Start
  /\ pages = <<>>
  /\ steady = {i \in Listed : rows[i].status \in filter}
  /\ edges = {}

-----------------------------------------------------------------------------
\* encodeOpportunityCursor and decodeOpportunityCursor: the id survives, the
\* time loses what is below a millisecond.
CursorTick(t) == (t \div Precision) * Precision

CursorOf(i) == [created |-> CursorTick(rows[i].created), id |-> i]

\* order=created_at.desc,id.desc
Precedes(i, j) ==
  \/ rows[i].created > rows[j].created
  \/ rows[i].created = rows[j].created /\ i > j

\* Mutant: the cursor's own row is let through.
BeyondOrAt(i) ==
  \/ cursor = Start
  \/ rows[i].created < cursor.created
  \/ rows[i].created = cursor.created /\ i <= cursor.id

\* or=(created_at.lt.C,and(created_at.eq.C,id.lt.I))
Beyond(i) ==
  \/ cursor = Start
  \/ rows[i].created < cursor.created
  \/ rows[i].created = cursor.created /\ i < cursor.id

Selected == {i \in Listed : rows[i].status \in filter /\ Beyond(i)}

\* Mutant: an empty page is no page.
IsPageNotEmpty(page) ==
  /\ page \subseteq Selected
  /\ page # {}
  /\ \A i \in page, j \in Selected \ page : Precedes(i, j)
  /\ Cardinality(page) <= Limit
  /\ page # Selected => Cardinality(page) = Limit

\* The first Limit rows of those selected; one more is read to learn whether
\* there are more.
IsPage(page) ==
  /\ page \subseteq Selected
  /\ \A i \in page, j \in Selected \ page : Precedes(i, j)
  /\ Cardinality(page) <= Limit
  /\ page # Selected => Cardinality(page) = Limit

LastOf(page, i) == i \in page /\ \A j \in page \ {i} : Precedes(j, i)

\* Mutant: a full page is taken for the last one.
FetchPageWithoutProbe ==
  /\ cursor # End
  /\ \E page \in SUBSET Selected : IsPage(page) /\ pages' = Append(pages, page)
  /\ cursor' = End
  /\ UNCHANGED <<rows, filter, steady, edges>>

\* listOpportunities
FetchPage ==
  /\ cursor # End
  /\ \E page \in SUBSET Selected :
       /\ IsPage(page)
       /\ pages' = Append(pages, page)
       /\ \/ /\ page = Selected
             /\ cursor' = End
             /\ UNCHANGED edges
          \/ /\ page # Selected
             /\ \E i \in Ids :
                  /\ LastOf(page, i)
                  /\ cursor' = CursorOf(i)
                  /\ edges' = edges \cup {CursorTick(rows[i].created)}
  /\ UNCHANGED <<rows, filter, steady>>

-----------------------------------------------------------------------------
\* The queue consumer inserts an opportunity.
InsertRow(i, t) ==
  /\ rows[i] = NoRow
  /\ rows' = [rows EXCEPT ![i] = [created |-> t, status |-> "detected"]]
  /\ UNCHANGED <<filter, cursor, pages, steady, edges>>

NextStatus == [detected |-> "qualified", qualified |-> "alerted", alerted |-> "seen"]

\* A row moves on in its lifecycle, and perhaps out of the filter.
AdvanceRow(i) ==
  /\ rows[i] # NoRow
  /\ rows[i].status # "seen"
  /\ rows' = [rows EXCEPT ![i].status = NextStatus[@]]
  /\ steady' = IF NextStatus[rows[i].status] \in filter THEN steady ELSE steady \ {i}
  /\ UNCHANGED <<filter, cursor, pages, edges>>

Next ==
  \/ FetchPage
  \/ \E i \in Ids : AdvanceRow(i) \/ \E t \in Instants : InsertRow(i, t)

Spec == Init /\ [][Next]_vars
FairSpec == Spec /\ WF_vars(FetchPage)

-----------------------------------------------------------------------------
TypeOK ==
  /\ rows \in [Ids -> Row \cup {NoRow}]
  /\ filter \in Filters
  /\ cursor \in Cursor \cup {Start, End}
  /\ pages \in Seq(SUBSET Ids)
  /\ steady \subseteq Ids
  /\ edges \subseteq Int

\* Every row of a page comes after every row of the pages before it, whatever
\* was inserted or moved on between the two requests: nothing is shown twice.
PagesDescend ==
  \A m, n \in DOMAIN pages :
    m < n => \A i \in pages[m], j \in pages[n] : Precedes(i, j)

Shown(i) == \E n \in DOMAIN pages : i \in pages[n]

\* What a complete walk did not show although it passed the filter all the
\* time was created in the millisecond of a row that ended a page.
MissedOnlyAtEdges ==
  cursor = End =>
    \A i \in steady : Shown(i) \/ CursorTick(rows[i].created) \in edges

\* A walk ends: cursors move on although rows keep arriving and changing.
WalkEnds == <>(cursor = End)

\* "lists environment-scoped opportunities with stable pagination": a complete
\* walk shows every row that passed the filter all the time.
PaginationIsStable == cursor = End => \A i \in steady : Shown(i)
==============================================================================
