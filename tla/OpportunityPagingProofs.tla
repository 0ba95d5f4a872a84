----------------------- MODULE OpportunityPagingProofs -----------------------
(* Walks of any length over any number of rows, whatever the page size and *)
(* the precision of the cursor.                                            *)
EXTENDS OpportunityPaging, TLAPS

(* The inductive invariant.                                                *)

\* A walk that has not begun has no pages.
Fresh == cursor = Start => pages = <<>>

\* What was shown lies at the cursor or before it.
Behind(i) ==
  /\ rows[i] # NoRow
  /\ \/ rows[i].created > cursor.created
     \/ rows[i].created = cursor.created /\ i >= cursor.id

ShownIsListed == \A n \in DOMAIN pages : \A i \in pages[n] : rows[i] # NoRow
ShownIsBehind == cursor \in Cursor => \A n \in DOMAIN pages : \A i \in pages[n] : Behind(i)

SteadyPasses == \A i \in steady : rows[i] # NoRow /\ rows[i].status \in filter

\* What passes the filter and was not shown is still to come, or is lost at
\* an edge.
Ahead ==
  cursor # End =>
    \A i \in steady : Shown(i) \/ Beyond(i) \/ CursorTick(rows[i].created) \in edges

IInv ==
  /\ TypeOK
  /\ Fresh
  /\ ShownIsListed
  /\ ShownIsBehind
  /\ SteadyPasses
  /\ PagesDescend
  /\ Ahead
  /\ MissedOnlyAtEdges

-----------------------------------------------------------------------------
(* The cursor's clock.                                                     *)

\* A quotient names the one interval of Precision ticks its dividend is in.
LEMMA QuotientUnique ==
  ASSUME NEW P \in Nat \ {0}, NEW t \in Nat, NEW q \in Int,
         q * P <= t, t < q * P + P
  PROVE  t \div P = q
BY SMTT(30)

LEMMA TickBounds ==
  ASSUME NEW t \in Nat
  PROVE  /\ CursorTick(t) \in Int
         /\ CursorTick(t) <= t
         /\ t < CursorTick(t) + Precision
BY ParameterAssumption, SMTT(30) DEF CursorTick

\* Instants between a cursor's tick and the instant it was made from have
\* that tick too.
LEMMA TickBetween ==
  ASSUME NEW t \in Nat, NEW u \in Nat, CursorTick(u) <= t, t <= u
  PROVE  CursorTick(t) = CursorTick(u)
<1>1. Precision \in Nat \ {0}
  BY ParameterAssumption
<1>2. u \div Precision \in Int
  BY <1>1
<1>3. u < CursorTick(u) + Precision
  BY TickBounds
<1>4. t \div Precision = u \div Precision
  BY <1>1, <1>2, <1>3, QuotientUnique DEF CursorTick
<1> QED
  BY <1>4 DEF CursorTick

-----------------------------------------------------------------------------
\* Facts about a listed row, from the type invariant.
LEMMA RowFields ==
  ASSUME TypeOK, NEW i \in Ids, rows[i] # NoRow
  PROVE  /\ i \in Nat
         /\ rows[i] \in Row
         /\ rows[i].created \in Nat
         /\ rows[i].status \in Statuses
BY ParameterAssumption DEF TypeOK, Row

LEMMA CursorFields ==
  ASSUME NEW c \in Cursor
  PROVE  c.created \in Int /\ c.id \in Ids /\ c.id \in Nat /\ c # Start /\ c # End
BY ParameterAssumption DEF Cursor

\* Whatever lies behind the cursor precedes whatever lies beyond it.
LEMMA BehindPrecedesBeyond ==
  ASSUME TypeOK, cursor \in Cursor, NEW i \in Ids, NEW j \in Ids,
         Behind(i), rows[j] # NoRow, Beyond(j)
  PROVE  Precedes(i, j)
BY RowFields, CursorFields DEF Behind, Beyond, Precedes

LEMMA PrecedesTransitive ==
  ASSUME TypeOK, NEW i \in Ids, NEW j \in Ids, NEW k \in Ids,
         rows[i] # NoRow, rows[j] # NoRow, rows[k] # NoRow,
         Precedes(i, j), Precedes(j, k)
  PROVE  Precedes(i, k)
BY RowFields DEF Precedes

LEMMA InitInvariant == Init => IInv
<1> SUFFICES ASSUME Init PROVE IInv
  OBVIOUS
<1> USE ParameterAssumption
<1>1. rows \in [Ids -> Row \cup {NoRow}]
  BY DEF Init, Row, Statuses
<1>2. TypeOK
  BY <1>1 DEF Init, TypeOK, Filters, Listed
<1>3. SteadyPasses
  BY DEF Init, SteadyPasses, Listed
<1>4. cursor = Start /\ Start # End /\ pages = <<>> /\ Start \notin Cursor
  BY DEF Init
<1>5. Fresh /\ ShownIsListed /\ ShownIsBehind /\ PagesDescend /\ MissedOnlyAtEdges
  BY <1>4 DEF Fresh, ShownIsListed, ShownIsBehind, PagesDescend, MissedOnlyAtEdges
<1>6. Ahead
  BY <1>4 DEF Ahead, Beyond
<1> QED
  BY <1>2, <1>3, <1>5, <1>6 DEF IInv

\* A step of the rows that keeps the rows there are, their times, and what
\* steady says, disturbs nothing the walk knows.
LEMMA RowsMove ==
  ASSUME IInv, TypeOK',
         UNCHANGED <<filter, cursor, pages, edges>>,
         steady' \subseteq steady,
         \A i \in Ids : rows[i] # NoRow =>
           rows'[i] # NoRow /\ rows'[i].created = rows[i].created,
         \A i \in steady' : rows'[i].status \in filter
  PROVE  IInv'
<1> USE DEF IInv
<1>1. \A n \in DOMAIN pages : pages[n] \subseteq Ids
  BY DEF TypeOK
<1>2. steady \subseteq Ids
  BY DEF TypeOK
<1>3. Fresh'
  BY DEF Fresh
<1>4. ShownIsListed'
  BY <1>1 DEF ShownIsListed
<1>5. ShownIsBehind'
  BY <1>1 DEF ShownIsBehind, Behind
<1>6. SteadyPasses'
  BY <1>2 DEF SteadyPasses
<1>7. PagesDescend'
  BY <1>1 DEF PagesDescend, Precedes, ShownIsListed
<1>8. Ahead'
  BY <1>2 DEF Ahead, SteadyPasses, Shown, Beyond
<1>9. MissedOnlyAtEdges'
  BY <1>2 DEF MissedOnlyAtEdges, SteadyPasses, Shown
<1> QED
  BY <1>3, <1>4, <1>5, <1>6, <1>7, <1>8, <1>9

LEMMA InsertKeeps ==
  ASSUME IInv, NEW i \in Ids, NEW t \in Instants, InsertRow(i, t)
  PROVE  IInv'
<1>1. [created |-> t, status |-> "detected"] \in Row
  BY DEF Row, Statuses
<1>2. TypeOK'
  BY <1>1 DEF IInv, TypeOK, InsertRow
<1>3. \A j \in Ids : rows[j] # NoRow => rows'[j] = rows[j]
  BY DEF IInv, TypeOK, InsertRow
<1>4. \A j \in steady' : rows'[j].status \in filter
  BY <1>3 DEF IInv, TypeOK, SteadyPasses, InsertRow
<1>5. UNCHANGED <<filter, cursor, pages, edges, steady>>
  BY DEF InsertRow
<1> QED
  BY <1>2, <1>3, <1>4, <1>5, RowsMove

LEMMA AdvanceKeeps ==
  ASSUME IInv, NEW i \in Ids, AdvanceRow(i)
  PROVE  IInv'
<1>1. TypeOK /\ rows[i] # NoRow /\ rows[i].status # "seen"
  BY DEF IInv, AdvanceRow
<1>2. rows[i] \in Row /\ rows[i].status \in Statuses
  BY <1>1, RowFields
<1>3. NextStatus[rows[i].status] \in Statuses
  BY <1>1, <1>2 DEF NextStatus, Statuses
<1>4. rows' = [rows EXCEPT ![i] = [created |-> rows[i].created,
                                   status |-> NextStatus[rows[i].status]]]
  <2>1. [rows[i] EXCEPT !.status = NextStatus[rows[i].status]]
          = [created |-> rows[i].created, status |-> NextStatus[rows[i].status]]
    BY <1>2 DEF Row
  <2>2. rows' = [rows EXCEPT ![i] = [rows[i] EXCEPT !.status = NextStatus[rows[i].status]]]
    BY DEF AdvanceRow
  <2> QED
    BY <2>1, <2>2
<1>5. [created |-> rows[i].created, status |-> NextStatus[rows[i].status]] \in Row
  BY <1>2, <1>3 DEF Row
<1>6. TypeOK'
  BY <1>1, <1>4, <1>5 DEF TypeOK, AdvanceRow
<1>7. \A j \in Ids : rows[j] # NoRow =>
        rows'[j] # NoRow /\ rows'[j].created = rows[j].created
  <2> SUFFICES ASSUME NEW j \in Ids, rows[j] # NoRow
               PROVE  rows'[j] # NoRow /\ rows'[j].created = rows[j].created
    OBVIOUS
  <2>1. CASE j = i
    <3>1. rows'[i] = [created |-> rows[i].created, status |-> NextStatus[rows[i].status]]
      BY <1>1, <1>4 DEF TypeOK
    <3>2. rows'[i] \in Row /\ rows'[i].created = rows[i].created
      BY <3>1, <1>5
    <3> QED
      BY <2>1, <3>2, ParameterAssumption
  <2>2. CASE j # i
    BY <2>2, <1>1, <1>4 DEF TypeOK
  <2> QED
    BY <2>1, <2>2
<1>8. \A j \in steady' : rows'[j].status \in filter
  <2> SUFFICES ASSUME NEW j \in steady' PROVE rows'[j].status \in filter
    OBVIOUS
  <2>1. j \in steady /\ j \in Ids /\ rows[j].status \in filter
    BY DEF AdvanceRow, IInv, TypeOK, SteadyPasses
  <2>2. CASE j = i
    <3>1. NextStatus[rows[i].status] \in filter
      BY <2>2 DEF AdvanceRow
    <3> QED
      BY <2>2, <3>1, <1>1, <1>4 DEF TypeOK
  <2>3. CASE j # i
    BY <2>1, <2>3, <1>1, <1>4 DEF TypeOK
  <2> QED
    BY <2>2, <2>3
<1>9. UNCHANGED <<filter, cursor, pages, edges>> /\ steady' \subseteq steady
  BY DEF AdvanceRow
<1> QED
  BY <1>6, <1>7, <1>8, <1>9, RowsMove

-----------------------------------------------------------------------------
\* The page that is fetched: its rows are listed, pass the filter and lie
\* beyond the cursor.
LEMMA PageIsSelected ==
  ASSUME TypeOK, NEW page \in SUBSET Selected, NEW i \in page
  PROVE  i \in Ids /\ rows[i] # NoRow /\ rows[i].status \in filter /\ Beyond(i)
BY DEF Selected, Listed

\* A page comes after all pages shown before it.
LEMMA PageDescends ==
  ASSUME IInv, cursor # End, NEW page \in SUBSET Selected,
         NEW n \in DOMAIN pages, NEW i \in pages[n], NEW j \in page
  PROVE  Precedes(i, j)
<1>1. TypeOK /\ i \in Ids
  BY DEF IInv, TypeOK
<1>2. j \in Ids /\ rows[j] # NoRow /\ Beyond(j)
  BY <1>1, PageIsSelected
<1>3. cursor \in Cursor
  BY DEF IInv, TypeOK, Fresh
<1>4. Behind(i)
  BY <1>3 DEF IInv, ShownIsBehind
<1> QED
  BY <1>1, <1>2, <1>3, <1>4, BehindPrecedesBeyond

\* The new cursor: what was shown is behind it.
LEMMA CutBehind ==
  ASSUME TypeOK, NEW i \in Ids, NEW j \in Ids, rows[i] # NoRow, rows[j] # NoRow,
         i = j \/ Precedes(i, j)
  PROVE  \/ rows[i].created > CursorOf(j).created
         \/ rows[i].created = CursorOf(j).created /\ i >= CursorOf(j).id
<1>1. CursorOf(j).created = CursorTick(rows[j].created) /\ CursorOf(j).id = j
  BY DEF CursorOf
<1>2. rows[i].created \in Nat /\ rows[j].created \in Nat /\ i \in Nat /\ j \in Nat
  BY RowFields
<1>3. CursorTick(rows[j].created) \in Int /\ CursorTick(rows[j].created) <= rows[j].created
  BY <1>2, TickBounds
<1>4. \/ i = j
      \/ rows[i].created > rows[j].created
      \/ rows[i].created = rows[j].created /\ i > j
  BY DEF Precedes
<1> QED
  BY <1>1, <1>2, <1>3, <1>4

\* And what comes after the last row of the page is beyond the new cursor or
\* shares its tick.
LEMMA CutAhead ==
  ASSUME TypeOK, NEW i \in Ids, NEW j \in Ids, rows[i] # NoRow, rows[j] # NoRow,
         Precedes(j, i)
  PROVE  \/ rows[i].created < CursorOf(j).created
         \/ CursorTick(rows[i].created) = CursorTick(rows[j].created)
<1>1. CursorOf(j).created = CursorTick(rows[j].created)
  BY DEF CursorOf
<1>2. rows[i].created \in Nat /\ rows[j].created \in Nat /\ i \in Nat /\ j \in Nat
  BY RowFields
<1>3. CursorTick(rows[j].created) \in Int
  BY <1>2, TickBounds
<1>4. rows[i].created <= rows[j].created
  BY <1>2 DEF Precedes
<1> QED
  BY <1>1, <1>2, <1>3, <1>4, TickBetween

\* Everything a fetch leaves as it is, and the pages it makes.
LEMMA FetchKeeps ==
  ASSUME IInv, FetchPage
  PROVE  IInv'
<1>1. PICK page \in SUBSET Selected :
        /\ IsPage(page)
        /\ pages' = Append(pages, page)
        /\ \/ page = Selected /\ cursor' = End /\ UNCHANGED edges
           \/ /\ page # Selected
              /\ \E i \in Ids :
                   /\ LastOf(page, i)
                   /\ cursor' = CursorOf(i)
                   /\ edges' = edges \cup {CursorTick(rows[i].created)}
  BY DEF FetchPage
<1>2. TypeOK /\ cursor # End /\ UNCHANGED <<rows, filter, steady>>
  BY DEF FetchPage, IInv
<1>3. /\ pages \in Seq(SUBSET Ids)
      /\ page \in SUBSET Ids
      /\ \A i \in page : rows[i] # NoRow
  BY <1>2, PageIsSelected DEF TypeOK
<1>4. /\ pages' \in Seq(SUBSET Ids)
      /\ DOMAIN pages' = DOMAIN pages \cup {Len(pages) + 1}
      /\ Len(pages) + 1 \notin DOMAIN pages
      /\ pages'[Len(pages) + 1] = page
      /\ \A n \in DOMAIN pages : pages'[n] = pages[n] /\ n < Len(pages) + 1
      /\ DOMAIN pages \subseteq Nat /\ Len(pages) \in Nat
  BY <1>1, <1>3
<1>5. ShownIsListed'
  BY <1>2, <1>3, <1>4 DEF IInv, ShownIsListed
<1>6. SteadyPasses'
  BY <1>2 DEF IInv, SteadyPasses
<1>7. PagesDescend'
  <2> SUFFICES ASSUME NEW m \in DOMAIN pages', NEW n \in DOMAIN pages', m < n,
                      NEW i \in pages'[m], NEW j \in pages'[n]
               PROVE  Precedes(i, j)
    BY <1>2 DEF PagesDescend, Precedes
  <2>1. CASE n \in DOMAIN pages
    <3>1. m \in DOMAIN pages
      BY <2>1, <1>4
    <3> QED
      BY <2>1, <3>1, <1>4 DEF IInv, PagesDescend
  <2>2. CASE n = Len(pages) + 1
    <3>1. m \in DOMAIN pages
      BY <2>2, <1>4
    <3>2. i \in pages[m] /\ j \in page
      BY <3>1, <2>2, <1>4
    <3> QED
      BY <3>1, <3>2, <1>2, PageDescends
  <2> QED
    BY <2>1, <2>2, <1>4
<1>8. \A i \in Ids : Shown(i)' <=> Shown(i) \/ i \in page
  BY <1>4 DEF Shown
<1>9. edges \subseteq edges'
  BY <1>1
<1>10. CASE page = Selected /\ cursor' = End /\ UNCHANGED edges
  <2>1. TypeOK'
    BY <1>2, <1>4, <1>10 DEF TypeOK
  <2>2. Fresh' /\ ShownIsBehind' /\ Ahead'
    BY <1>10, ParameterAssumption DEF Fresh, ShownIsBehind, Ahead
  <2>3. MissedOnlyAtEdges'
    <3> SUFFICES ASSUME NEW i \in steady
                 PROVE  Shown(i)' \/ CursorTick(rows[i].created) \in edges'
      BY <1>2 DEF MissedOnlyAtEdges
    <3>1. i \in Ids /\ rows[i] # NoRow /\ rows[i].status \in filter
      BY <1>2 DEF IInv, TypeOK, SteadyPasses
    <3>2. Shown(i) \/ Beyond(i) \/ CursorTick(rows[i].created) \in edges
      BY <1>2 DEF IInv, Ahead
    <3>3. Beyond(i) => i \in page
      BY <3>1, <1>10 DEF Selected, Listed
    <3> QED
      BY <3>1, <3>2, <3>3, <1>8, <1>9
  <2> QED
    BY <2>1, <2>2, <2>3, <1>5, <1>6, <1>7 DEF IInv
<1>11. CASE page # Selected
  <2>1. PICK k \in Ids :
          /\ LastOf(page, k)
          /\ cursor' = CursorOf(k)
          /\ edges' = edges \cup {CursorTick(rows[k].created)}
    BY <1>1, <1>11
  <2>2. k \in page /\ rows[k] # NoRow /\ Beyond(k)
    BY <2>1, <1>2, PageIsSelected DEF LastOf
  <2>3. rows[k].created \in Nat /\ CursorTick(rows[k].created) \in Int
    BY <2>2, <1>2, RowFields, TickBounds
  <2>4. cursor' \in Cursor /\ cursor' # Start /\ cursor' # End
    <3>1. CursorOf(k) \in Cursor
      BY <2>3 DEF CursorOf, Cursor
    <3> QED
      BY <2>1, <3>1, CursorFields
  <2>5. TypeOK'
    BY <1>2, <1>4, <2>1, <2>3, <2>4 DEF TypeOK
  <2>6. Fresh' /\ MissedOnlyAtEdges'
    BY <2>4 DEF Fresh, MissedOnlyAtEdges
  <2>7. ShownIsBehind'
    <3> SUFFICES ASSUME NEW n \in DOMAIN pages', NEW i \in pages'[n]
                 PROVE  Behind(i)'
      BY DEF ShownIsBehind
    <3>1. i \in Ids /\ rows[i] # NoRow
      BY <1>2, <1>3, <1>4 DEF IInv, ShownIsListed
    <3>2. i = k \/ Precedes(i, k)
      <4>1. CASE n \in DOMAIN pages
        BY <4>1, <1>2, <1>4, <2>2, PageDescends
      <4>2. CASE n = Len(pages) + 1
        BY <4>2, <1>4, <2>1 DEF LastOf
      <4> QED
        BY <4>1, <4>2, <1>4
    <3> QED
      BY <3>1, <3>2, <1>2, <2>1, <2>2, CutBehind DEF Behind
  <2>8. Ahead'
    <3> SUFFICES ASSUME NEW i \in steady
                 PROVE  Shown(i)' \/ Beyond(i)' \/ CursorTick(rows[i].created) \in edges'
      BY <1>2 DEF Ahead
    <3>1. i \in Ids /\ rows[i] # NoRow /\ rows[i].status \in filter
      BY <1>2 DEF IInv, TypeOK, SteadyPasses
    <3>2. CASE Shown(i) \/ i \in page
      BY <3>1, <3>2, <1>8
    <3>3. CASE CursorTick(rows[i].created) \in edges
      BY <3>3, <1>9
    <3>4. CASE Beyond(i) /\ i \notin page
      <4>1. i \in Selected \ page
        BY <3>1, <3>4 DEF Selected, Listed
      <4>2. Precedes(k, i)
        BY <4>1, <1>1, <2>2 DEF IsPage
      <4>3. \/ rows[i].created < CursorOf(k).created
            \/ CursorTick(rows[i].created) = CursorTick(rows[k].created)
        BY <4>2, <3>1, <2>2, <1>2, CutAhead
      <4>4. CASE rows[i].created < CursorOf(k).created
        BY <4>4, <2>1, <1>2 DEF Beyond
      <4>5. CASE CursorTick(rows[i].created) = CursorTick(rows[k].created)
        BY <4>5, <2>1
      <4> QED
        BY <4>3, <4>4, <4>5
    <3>5. Shown(i) \/ Beyond(i) \/ CursorTick(rows[i].created) \in edges
      BY <1>2 DEF IInv, Ahead
    <3> QED
      BY <3>2, <3>3, <3>4, <3>5
  <2> QED
    BY <2>5, <2>6, <2>7, <2>8, <1>5, <1>6, <1>7 DEF IInv
<1> QED
  BY <1>1, <1>10, <1>11

LEMMA StutterKeeps == IInv /\ UNCHANGED vars => IInv'
<1> SUFFICES ASSUME IInv, UNCHANGED vars PROVE IInv'
  OBVIOUS
<1>1. UNCHANGED <<rows, filter, cursor, pages, steady, edges>>
  BY DEF vars
<1>2. TypeOK' /\ Fresh' /\ ShownIsListed' /\ ShownIsBehind' /\ SteadyPasses'
  BY <1>1 DEF IInv, TypeOK, Fresh, ShownIsListed, ShownIsBehind, SteadyPasses, Behind
<1>3. PagesDescend' /\ Ahead' /\ MissedOnlyAtEdges'
  BY <1>1 DEF IInv, PagesDescend, Precedes, Ahead, Beyond, MissedOnlyAtEdges, Shown
<1> QED
  BY <1>2, <1>3 DEF IInv

-----------------------------------------------------------------------------
\* The invariant holds of every walk.
THEOREM Invariance == Spec => []IInv
<1>1. ASSUME IInv, [Next]_vars PROVE IInv'
  <2>1. CASE FetchPage
    BY <1>1, <2>1, FetchKeeps
  <2>2. ASSUME NEW i \in Ids, AdvanceRow(i) PROVE IInv'
    BY <1>1, <2>2, AdvanceKeeps
  <2>3. ASSUME NEW i \in Ids, NEW t \in Instants, InsertRow(i, t) PROVE IInv'
    BY <1>1, <2>3, InsertKeeps
  <2>4. CASE UNCHANGED vars
    BY <1>1, <2>4, StutterKeeps
  <2> QED
    BY <1>1, <2>1, <2>2, <2>3, <2>4 DEF Next
<1> QED
  BY <1>1, InitInvariant, PTL DEF Spec

\* Rows, cursors and pages have their types.
THEOREM TypeCorrect == Spec => []TypeOK
<1>1. IInv => TypeOK
  BY DEF IInv
<1> QED
  BY <1>1, Invariance, PTL

\* No row is shown twice, and pages are in order, while rows are inserted and
\* move on: the keyset condition of listOpportunities.
THEOREM PagesAreOrdered == Spec => []PagesDescend
<1>1. IInv => PagesDescend
  BY DEF IInv
<1> QED
  BY <1>1, Invariance, PTL

\* All that a complete walk can miss shares its millisecond with the last row
\* of a page: the truncation of the cursor is the only loss.
THEOREM LossIsAtEdges == Spec => []MissedOnlyAtEdges
<1>1. IInv => MissedOnlyAtEdges
  BY DEF IInv
<1> QED
  BY <1>1, Invariance, PTL
==============================================================================
