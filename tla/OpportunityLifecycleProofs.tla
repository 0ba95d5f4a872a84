--------------------- MODULE OpportunityLifecycleProofs ---------------------
(* Any number of writers, updates to a transaction and readers, and a clock *)
(* of any length.                                                          *)
EXTENDS OpportunityLifecycle, TLAPS

(* The inductive invariant.                                                *)

\* A step whose writer brought no time is logged at the time its column has.
LogMatchesStamps(r, l) ==
  \A k \in DOMAIN l : ~l[k].stamped => r.stamps[Path[k]] = l[k].at

\* A row and its log that belong together, committed or not.
Sound(r, l) ==
  /\ r \in Row \cup {NoRow} /\ l \in Seq(Entry)
  /\ IsThePath(r, l) /\ StampsAre(r, l) /\ LogMatchesStamps(r, l)

Extends(longer, l) == \A k \in DOMAIN l : k \in DOMAIN longer /\ longer[k] = l[k]

\* At most one writer has updated the row, and what it wrote continues what
\* is committed.
DraftsContinue ==
  /\ \A w \in Writers :
       Locks(w) => row # NoRow /\ Sound(open[w].row, open[w].log) /\ Extends(open[w].log, log)
  /\ \A v, w \in Writers : Locks(v) /\ Locks(w) => v = w

\* A status that was read has been logged.
SummaryIsLogged ==
  \A d \in Readers :
    view[d] \in Summary => \E k \in DOMAIN log : log[k].to = view[d].status

Answers == SummaryIsLogged /\ DetailTellsItsStatus /\ HistoryIsInOrder

IInv == TypeOK /\ Sound(row, log) /\ DraftsContinue /\ Answers

-----------------------------------------------------------------------------
LEMMA PathFacts ==
  /\ Path[1] = "detected" /\ Path[2] = "qualified"
  /\ Path[3] = "alerted" /\ Path[4] = "seen"
  /\ Statuses = {"detected", "qualified", "alerted", "seen"}
<1>1. /\ Path[1] = "detected" /\ Path[2] = "qualified"
      /\ Path[3] = "alerted" /\ Path[4] = "seen"
  BY DEF Path
<1>2. 1..4 = {1, 2, 3, 4}
  OBVIOUS
<1> QED
  BY <1>1, <1>2 DEF Statuses

LEMMA PathInjective == \A k, l \in 1..4 : Path[k] \in Statuses /\ (Path[k] = Path[l] => k = l)
<1>1. 1..4 = {1, 2, 3, 4}
  OBVIOUS
<1> QED
  BY <1>1, PathFacts

\* The time constraint, along the path.
LEMMA LawfulAlongPath ==
  ASSUME NEW stamps, Lawful(stamps), NEW k \in 1..3, stamps[Path[k + 1]] # NoTime
  PROVE  stamps[Path[k]] <= stamps[Path[k + 1]]
<1>1. k = 1 \/ k = 2 \/ k = 3
  OBVIOUS
<1>2. CASE k = 1
  BY <1>2, PathFacts DEF Lawful, NotBefore
<1>3. CASE k = 2
  BY <1>3, PathFacts DEF Lawful, NotBefore
<1>4. CASE k = 3
  BY <1>4, PathFacts DEF Lawful, NotBefore
<1> QED
  BY <1>1, <1>2, <1>3, <1>4

\* What a row and its log say of each other, once there is a row.
LEMMA RowFacts ==
  ASSUME NEW r, NEW l, Sound(r, l), r # NoRow
  PROVE  /\ l \in Seq(Entry) /\ Len(l) \in 1..4 /\ DOMAIN l = 1..Len(l)
         /\ r \in Row /\ r.status \in Statuses
         /\ r.stamps \in [Statuses -> Times \cup {NoTime}]
         /\ r.status = Path[Len(l)]
         /\ \A k \in DOMAIN l :
              l[k].to = Path[k] /\ l[k].from = IF k = 1 THEN NoRow ELSE Path[k - 1]
<1>1. l \in Seq(Entry) /\ r \in Row
  BY DEF Sound
<1>2. DOMAIN l = 1..Len(l)
  BY <1>1
<1>3. r.status \in Statuses /\ r.stamps \in [Statuses -> Times \cup {NoTime}]
  BY <1>1 DEF Row
<1> QED
  BY <1>1, <1>2, <1>3 DEF Sound, IsThePath

\* Steps the database stamped are logged with times that ascend.
LEMMA LogAscends ==
  ASSUME NEW r, NEW l, Sound(r, l), r # NoRow,
         NEW k \in DOMAIN l, NEW m \in DOMAIN l, k < m, ~l[k].stamped, ~l[m].stamped
  PROVE  l[k].at <= l[m].at
<1>1. Len(l) \in 1..4 /\ DOMAIN l = 1..Len(l)
  BY RowFacts
<1>2. r.stamps[Path[k]] = l[k].at /\ r.stamps[Path[m]] = l[m].at
  BY DEF Sound, LogMatchesStamps
<1>3. \A n \in 1..4 : n <= Len(l) => r.stamps[Path[n]] \in Nat
  <2> SUFFICES ASSUME NEW n \in 1..4, n <= Len(l) PROVE r.stamps[Path[n]] \in Nat
    OBVIOUS
  <2>1. Path[n] \in Statuses /\ r.stamps[Path[n]] # NoTime
    BY PathInjective DEF Sound, StampsAre
  <2> QED
    BY <2>1, RowFacts DEF Times
<1>4. \A n \in 1..4 : n > 1 /\ n <= Len(l) => r.stamps[Path[n - 1]] <= r.stamps[Path[n]]
  BY DEF Sound, StampsAre
<1>5. /\ Len(l) >= 2 => r.stamps[Path[1]] <= r.stamps[Path[2]]
      /\ Len(l) >= 3 => r.stamps[Path[2]] <= r.stamps[Path[3]]
      /\ Len(l) >= 4 => r.stamps[Path[3]] <= r.stamps[Path[4]]
  <2>1. 2 - 1 = 1 /\ 3 - 1 = 2 /\ 4 - 1 = 3
    OBVIOUS
  <2> QED
    BY <1>1, <1>4, <2>1
<1>6. k \in 1..4 /\ m \in 1..4 /\ m <= Len(l)
  BY <1>1
<1>7. r.stamps[Path[k]] <= r.stamps[Path[m]]
  <2>1. CASE m = 2
    BY <2>1, <1>5, <1>6
  <2>2. CASE m = 3
    BY <2>2, <1>1, <1>3, <1>5, <1>6
  <2>3. CASE m = 4
    <3>1. Len(l) = 4 /\ (k = 1 \/ k = 2 \/ k = 3)
      BY <2>3, <1>1, <1>6
    <3>2. /\ r.stamps[Path[1]] \in Nat /\ r.stamps[Path[2]] \in Nat
          /\ r.stamps[Path[3]] \in Nat /\ r.stamps[Path[4]] \in Nat
      BY <1>3, <3>1
    <3> QED
      BY <2>3, <1>5, <3>1, <3>2
  <2> QED
    BY <1>6, <2>1, <2>2, <2>3
<1> QED
  BY <1>2, <1>7

\* However ties are broken, a listing tells the steps in order.
LEMMA ListingIsInOrder ==
  ASSUME IInv, NEW h \in Listings
  PROVE  h \in Seq(Entry) /\ InOrder(h)
<1>1. log \in Seq(Entry) /\ Sound(row, log)
  BY DEF IInv, TypeOK
<1>2. Len(log) \in Nat /\ DOMAIN log = 1..Len(log) /\ \A k \in DOMAIN log : log[k] \in Entry
  BY <1>1
<1>3. h \in [1..Len(log) -> {log[k] : k \in DOMAIN log}]
  BY <1>2 DEF Listings
<1>4. h \in [1..Len(log) -> Entry]
  BY <1>2, <1>3
<1>5. h \in Seq(Entry)
  BY <1>2, <1>4
<1>6. InOrder(h)
  <2> SUFFICES ASSUME NEW i \in DOMAIN h, NEW j \in DOMAIN h,
                      i < j, Earlier(h[j].to, h[i].to), ~h[i].stamped, ~h[j].stamped
               PROVE  h[i].at = h[j].at
    BY DEF InOrder
  <2>1. PICK k \in DOMAIN log : h[i] = log[k]
    BY <1>3
  <2>2. PICK m \in DOMAIN log : h[j] = log[m]
    BY <1>3
  <2>3. row # NoRow
    BY <1>1, <2>1 DEF Sound, IsThePath
  <2>4. /\ k \in 1..4 /\ m \in 1..4
        /\ log[k].to = Path[k] /\ log[m].to = Path[m]
    BY <1>1, <1>2, <2>1, <2>2, <2>3, RowFacts
  <2>5. PICK p, q \in 1..4 : p < q /\ h[j].to = Path[p] /\ h[i].to = Path[q]
    BY DEF Earlier
  <2>6. m = p /\ k = q
    BY <2>1, <2>2, <2>4, <2>5, PathInjective
  <2>7. log[m].at <= log[k].at
    BY <1>1, <2>1, <2>2, <2>3, <2>5, <2>6, LogAscends
  <2>8. h[i].at <= h[j].at
    BY <1>2, <1>3 DEF Listings
  <2>9. log[m].at \in Nat /\ log[k].at \in Nat
    BY <1>2, <2>1, <2>2 DEF Entry, Times
  <2> QED
    BY <2>1, <2>2, <2>7, <2>8, <2>9
<1> QED
  BY <1>5, <1>6

-----------------------------------------------------------------------------
LEMMA InitInvariant == Init => IInv
<1> SUFFICES ASSUME Init PROVE IInv
  OBVIOUS
<1> USE ParameterAssumption
<1>1. TypeOK
  BY DEF Init, TypeOK, Times
<1>2. \A d \in Readers : view[d] \notin Summary /\ view[d] \notin Detail
  BY DEF Init
<1>3. row = NoRow /\ log = <<>> /\ DOMAIN log = {}
  BY DEF Init
<1>4. Sound(row, log)
  BY <1>1, <1>3 DEF Sound, TypeOK, IsThePath, StampsAre, LogMatchesStamps
<1>5. \A w \in Writers : ~Locks(w)
  BY DEF Init, Locks
<1>6. Answers
  BY <1>2 DEF Answers, SummaryIsLogged, DetailTellsItsStatus, HistoryIsInOrder
<1> QED
  BY <1>1, <1>4, <1>5, <1>6 DEF IInv, DraftsContinue

-----------------------------------------------------------------------------
\* Steps of the others leave a reader's answer as true as it was: the log
\* only grows.
LEMMA AnswersStay ==
  ASSUME Answers, UNCHANGED view, Extends(log', log)
  PROVE  Answers'
BY DEF Answers, Extends, SummaryIsLogged, DetailTellsItsStatus, HistoryIsInOrder

LEMMA ExtendsItself == Extends(log, log)
BY DEF Extends

\* Steps that leave the row and the transactions alone.
LEMMA DraftsStay ==
  ASSUME IInv, UNCHANGED <<row, log, open>>
  PROVE  Sound(row, log)' /\ DraftsContinue'
<1>1. Sound(row, log)' = Sound(row, log)
  BY DEF Sound, IsThePath, StampsAre, LogMatchesStamps
<1>2. \A w \in Writers : Locks(w)' = Locks(w)
  BY DEF Locks
<1>3. \A w \in Writers :
        Locks(w)' => (row # NoRow /\ Sound(open[w].row, open[w].log) /\ Extends(open[w].log, log))'
  BY <1>2 DEF IInv, DraftsContinue, Sound, IsThePath, StampsAre, LogMatchesStamps, Extends
<1> QED
  BY <1>1, <1>2, <1>3 DEF IInv, DraftsContinue

\* A transaction that has written nothing yet, or ends without a trace.
LEMMA FreeKeeps ==
  ASSUME IInv, NEW w \in Writers, UNCHANGED <<row, log, view, clock>>,
         NEW t \in Transaction \cup {NoTransaction}, t # NoTransaction => t.row = NoRow,
         open' = [open EXCEPT ![w] = t]
  PROVE  IInv'
<1>1. TypeOK'
  BY DEF IInv, TypeOK
<1>2. ~Locks(w)'
  BY DEF IInv, TypeOK, Locks
<1>3. \A v \in Writers \ {w} : open'[v] = open[v] /\ Locks(v)' = Locks(v)
  BY DEF IInv, TypeOK, Locks
<1>4. Sound(row, log)'
  BY DEF IInv, Sound, IsThePath, StampsAre, LogMatchesStamps
<1>5. DraftsContinue'
  <2>1. ASSUME NEW v \in Writers, Locks(v)'
        PROVE  /\ v # w /\ Locks(v)
               /\ (row # NoRow /\ Sound(open[v].row, open[v].log) /\ Extends(open[v].log, log))'
    <3>1. v # w /\ open'[v] = open[v] /\ Locks(v)
      BY <1>2, <1>3, <2>1
    <3> QED
      BY <3>1 DEF IInv, DraftsContinue, Sound, IsThePath, StampsAre, LogMatchesStamps, Extends
  <2> QED
    BY <2>1 DEF IInv, DraftsContinue
<1>6. Extends(log', log)
  BY ExtendsItself
<1> QED
  BY <1>1, <1>4, <1>5, <1>6, AnswersStay DEF IInv

LEMMA BeginKeeps ==
  ASSUME IInv, NEW w \in Writers, Begin(w)
  PROVE  IInv'
<1> DEFINE t == [began |-> clock, row |-> NoRow, log |-> <<>>]
<1>1. t \in Transaction /\ t.row = NoRow
  BY DEF IInv, TypeOK, Transaction
<1> QED
  BY <1>1, FreeKeeps DEF Begin

LEMMA EndKeeps ==
  ASSUME IInv, NEW w \in Writers, End(w)
  PROVE  IInv'
BY FreeKeeps DEF End, Close

LEMMA TickKeeps ==
  ASSUME IInv, Tick
  PROVE  IInv'
<1>1. TypeOK'
  BY ParameterAssumption DEF IInv, TypeOK, Tick, Times
<1>2. UNCHANGED <<row, log, open>> /\ UNCHANGED view /\ Extends(log', log)
  BY ExtendsItself DEF Tick
<1> QED
  BY <1>1, <1>2, DraftsStay, AnswersStay DEF IInv

-----------------------------------------------------------------------------
LEMMA ReadOpportunityKeeps ==
  ASSUME IInv, NEW d \in Readers, ReadOpportunity(d)
  PROVE  IInv'
<1>1. row \in Row /\ row.status \in Statuses
  BY DEF ReadOpportunity, IInv, TypeOK, Row
<1>2. [status |-> row.status] \in Summary
  BY <1>1 DEF Summary
<1>3. TypeOK'
  BY <1>2 DEF IInv, TypeOK, ReadOpportunity
<1>4. Len(log) \in DOMAIN log /\ log[Len(log)].to = row.status
  BY RowFacts DEF ReadOpportunity, IInv
<1>5. view' = [view EXCEPT ![d] = [status |-> row.status]] /\ UNCHANGED log
  BY DEF ReadOpportunity
<1>6. SummaryIsLogged'
  BY <1>4, <1>5 DEF IInv, TypeOK, Answers, SummaryIsLogged
<1>7. DetailTellsItsStatus' /\ HistoryIsInOrder'
  BY <1>2, <1>5, ParameterAssumption
  DEF IInv, TypeOK, Answers, DetailTellsItsStatus, HistoryIsInOrder
<1> QED
  BY <1>3, <1>6, <1>7, DraftsStay DEF ReadOpportunity, IInv, Answers

LEMMA ReadTransitionsKeeps ==
  ASSUME IInv, NEW d \in Readers, ReadTransitions(d)
  PROVE  IInv'
<1>1. view[d] \in Summary /\ view[d].status \in Statuses
  BY DEF ReadTransitions, Summary
<1>2. PICK h \in Listings :
        view' = [view EXCEPT ![d] = [status |-> view[d].status, history |-> h]]
  BY DEF ReadTransitions
<1>3. h \in Seq(Entry) /\ InOrder(h)
  BY ListingIsInOrder
<1>4. [status |-> view[d].status, history |-> h] \in Detail
  BY <1>1, <1>3 DEF Detail
<1>5. TypeOK'
  BY <1>2, <1>4 DEF IInv, TypeOK, ReadTransitions
<1>6. \E i \in DOMAIN h : h[i].to = view[d].status
  <2>1. PICK k \in DOMAIN log : log[k].to = view[d].status
    BY <1>1 DEF IInv, Answers, SummaryIsLogged
  <2> QED
    BY <2>1 DEF Listings
<1>7. SummaryIsLogged'
  BY <1>2, <1>4, ParameterAssumption
  DEF IInv, TypeOK, Answers, SummaryIsLogged, ReadTransitions
<1>8. DetailTellsItsStatus' /\ HistoryIsInOrder'
  <2> SUFFICES ASSUME NEW r \in Readers, view'[r] \in Detail
               PROVE  /\ \E i \in DOMAIN view'[r].history :
                           view'[r].history[i].to = view'[r].status
                      /\ InOrder(view'[r].history)
    BY DEF DetailTellsItsStatus, HistoryIsInOrder
  <2>1. CASE r = d
    <3>1. view'[r] = [status |-> view[d].status, history |-> h]
      BY <2>1, <1>2 DEF IInv, TypeOK
    <3>2. view'[r].status = view[d].status /\ view'[r].history = h
      BY <3>1
    <3> QED
      BY <3>2, <1>3, <1>6
  <2>2. CASE r # d
    BY <2>2, <1>2 DEF IInv, TypeOK, Answers, DetailTellsItsStatus, HistoryIsInOrder
  <2> QED
    BY <2>1, <2>2
<1> QED
  BY <1>5, <1>7, <1>8, DraftsStay DEF ReadTransitions, IInv, Answers

LEMMA ReadFailsKeeps ==
  ASSUME IInv, NEW d \in Readers, ReadFails(d)
  PROVE  IInv'
<1>1. TypeOK'
  BY DEF IInv, TypeOK, ReadFails
<1>2. Answers'
  BY ParameterAssumption
  DEF IInv, TypeOK, Answers, SummaryIsLogged, DetailTellsItsStatus, HistoryIsInOrder, ReadFails
<1> QED
  BY <1>1, <1>2, DraftsStay DEF ReadFails, IInv

-----------------------------------------------------------------------------
LEMMA InsertKeeps ==
  ASSUME IInv, NEW t \in Times, Insert(t)
  PROVE  IInv'
<1> DEFINE stamps == [s \in Statuses |-> IF s = "detected" THEN t ELSE NoTime]
           entry == [from |-> NoRow, to |-> "detected", at |-> t, stamped |-> FALSE]
<1>1. /\ row = NoRow
      /\ row' = [status |-> "detected", stamps |-> stamps]
      /\ log' = <<entry>>
      /\ UNCHANGED open /\ UNCHANGED view /\ UNCHANGED clock
  BY DEF Insert
<1>2. stamps \in [Statuses -> Times \cup {NoTime}] /\ t # NoTime /\ t \in Nat
  BY ParameterAssumption DEF Times
<1>3. row' \in Row
  BY <1>1, <1>2, PathFacts DEF Row
<1>4. row' # NoRow
  BY <1>3, ParameterAssumption
<1>5. row'.status = "detected" /\ row'.stamps = stamps
  BY <1>1
<1>6. entry \in Entry
  BY PathFacts DEF Entry
<1>7. log' \in Seq(Entry) /\ Len(log') = 1 /\ DOMAIN log' = {1} /\ log'[1] = entry
  BY <1>1, <1>6
<1>8. TypeOK'
  BY <1>1, <1>3, <1>7 DEF IInv, TypeOK
<1>9. IsThePath(row', log')
  BY <1>4, <1>5, <1>7, PathFacts DEF IsThePath
<1>10. StampsAre(row', log')
  <2> SUFFICES ASSUME NEW k \in 1..4
               PROVE  /\ stamps[Path[k]] # NoTime <=> k <= 1
                      /\ k > 1 /\ k <= 1 => stamps[Path[k - 1]] <= stamps[Path[k]]
    BY <1>5, <1>7 DEF StampsAre
  <2>1. Path[k] \in Statuses /\ (Path[k] = "detected" <=> k = 1)
    BY PathInjective, PathFacts
  <2> QED
    BY <2>1, <1>2
<1>11. LogMatchesStamps(row', log')
  BY <1>5, <1>7, PathFacts DEF LogMatchesStamps
<1>12. Sound(row, log)'
  BY <1>3, <1>7, <1>9, <1>10, <1>11 DEF Sound
<1>13. DOMAIN log = {}
  BY <1>1 DEF IInv, Sound, IsThePath
<1>14. Answers'
  BY <1>1, <1>13, AnswersStay DEF IInv, Extends
<1>15. \A w \in Writers : ~Locks(w) /\ Locks(w)' = Locks(w)
  BY <1>1 DEF IInv, DraftsContinue, Locks
<1> QED
  BY <1>8, <1>12, <1>14, <1>15 DEF IInv, DraftsContinue

\* What an update that passes makes of a row and its log.
LEMMA MovedIsSound ==
  ASSUME NEW r, NEW l, Sound(r, l), r # NoRow,
         NEW u \in Update, NEW began \in Times,
         Follows(r.status, u.status), Lawful(Moved(r, u, began).stamps)
  PROVE  LET moved == Moved(r, u, began)
             longer == Append(l, LogEntry(r, u, began))
         IN Sound(moved, longer) /\ moved \in Row /\ moved # NoRow /\ Extends(longer, l)
<1> DEFINE n == Len(l)
           entry == LogEntry(r, u, began)
           stamp == Stamp(u, began)
           moved == Moved(r, u, began)
           longer == Append(l, entry)
<1>1. u.status \in Statuses /\ u.stamp \in Times \cup {NoTime}
  BY DEF Update
<1>2. /\ l \in Seq(Entry) /\ n \in 1..4 /\ DOMAIN l = 1..n
      /\ r.status \in Statuses /\ r.status = Path[n]
      /\ r.stamps \in [Statuses -> Times \cup {NoTime}]
      /\ \A k \in DOMAIN l :
           l[k].to = Path[k] /\ l[k].from = IF k = 1 THEN NoRow ELSE Path[k - 1]
  BY RowFacts
<1>3. n \in 1..3 /\ u.status = Path[n + 1]
  <2>1. PICK k \in 1..3 : r.status = Path[k] /\ u.status = Path[k + 1]
    BY DEF Follows
  <2>2. k \in 1..4 /\ n \in 1..4 /\ Path[k] = Path[n]
    BY <2>1, <1>2
  <2>3. k = n
    BY <2>2, PathInjective
  <2> QED
    BY <2>1, <2>3
<1>4. stamp \in Times /\ stamp # NoTime /\ stamp \in Nat
  BY <1>1, ParameterAssumption DEF Stamp, Times
<1>5. moved.status = Path[n + 1] /\ moved.stamps = [r.stamps EXCEPT ![Path[n + 1]] = stamp]
  BY <1>3 DEF Moved
<1>6. moved \in Row /\ moved # NoRow
  <2>1. moved.stamps \in [Statuses -> Times \cup {NoTime}]
    BY <1>2, <1>4, <1>5
  <2>2. moved = [status |-> u.status, stamps |-> moved.stamps]
    BY DEF Moved
  <2>3. moved \in Row
    BY <2>1, <2>2, <1>1 DEF Row
  <2> QED
    BY <2>3, ParameterAssumption
<1>7. /\ entry.from = Path[n] /\ entry.to = Path[n + 1] /\ entry.at = began
      /\ entry.stamped = (u.stamp # NoTime)
  BY <1>2, <1>3 DEF LogEntry
<1>8. entry \in Entry
  BY <1>1, <1>2 DEF LogEntry, Entry
<1>9. /\ longer \in Seq(Entry) /\ Len(longer) = n + 1 /\ DOMAIN longer = 1..(n + 1)
      /\ longer[n + 1] = entry
      /\ \A k \in 1..n : longer[k] = l[k]
  BY <1>2, <1>8
<1>10. /\ moved.stamps[Path[n + 1]] = stamp
       /\ \A k \in 1..4 : k # n + 1 => moved.stamps[Path[k]] = r.stamps[Path[k]]
  <2>1. n + 1 \in 1..4
    BY <1>2, <1>3
  <2>2. Path[n + 1] \in Statuses
    BY <2>1, PathInjective
  <2>3. ASSUME NEW k \in 1..4, k # n + 1
        PROVE  Path[k] \in Statuses /\ Path[k] # Path[n + 1]
    BY <2>1, <2>3, PathInjective
  <2> QED
    BY <2>2, <2>3, <1>2, <1>5
<1>11. IsThePath(moved, longer)
  <2>1. Len(longer) \in 1..4 /\ moved.status = Path[Len(longer)]
    BY <1>2, <1>3, <1>5, <1>9
  <2>2. ASSUME NEW k \in DOMAIN longer
        PROVE  longer[k].to = Path[k] /\ longer[k].from = IF k = 1 THEN NoRow ELSE Path[k - 1]
    <3>1. CASE k \in 1..n
      BY <3>1, <1>2, <1>9
    <3>2. CASE k = n + 1
      BY <3>2, <1>2, <1>3, <1>7, <1>9
    <3> QED
      BY <3>1, <3>2, <1>3, <1>9
  <2> QED
    BY <2>1, <2>2, <1>6 DEF IsThePath
<1>12. StampsAre(moved, longer)
  <2> SUFFICES ASSUME NEW k \in 1..4
               PROVE  /\ moved.stamps[Path[k]] # NoTime <=> k <= n + 1
                      /\ k > 1 /\ k <= n + 1 =>
                           moved.stamps[Path[k - 1]] <= moved.stamps[Path[k]]
    BY <1>9 DEF StampsAre
  <2>1. r.stamps[Path[k]] # NoTime <=> k <= n
    BY DEF Sound, StampsAre
  <2>2. moved.stamps[Path[k]] # NoTime <=> k <= n + 1
    BY <2>1, <1>3, <1>4, <1>10
  <2>3. ASSUME k > 1, k <= n + 1
        PROVE  moved.stamps[Path[k - 1]] <= moved.stamps[Path[k]]
    <3>1. k - 1 \in 1..3 /\ (k - 1) + 1 = k
      BY <2>3, <1>3
    <3>2. moved.stamps[Path[(k - 1) + 1]] # NoTime
      BY <2>2, <2>3, <3>1
    <3> QED
      BY <3>1, <3>2, LawfulAlongPath
  <2> QED
    BY <2>2, <2>3
<1>13. LogMatchesStamps(moved, longer)
  <2> SUFFICES ASSUME NEW k \in DOMAIN longer, ~longer[k].stamped
               PROVE  moved.stamps[Path[k]] = longer[k].at
    BY DEF LogMatchesStamps
  <2>1. CASE k \in 1..n
    BY <2>1, <1>2, <1>3, <1>9, <1>10 DEF Sound, LogMatchesStamps
  <2>2. CASE k = n + 1
    BY <2>2, <1>7, <1>9, <1>10 DEF Stamp
  <2> QED
    BY <2>1, <2>2, <1>3, <1>9
<1>14. Extends(longer, l)
  BY <1>2, <1>3, <1>9 DEF Extends
<1> QED
  BY <1>6, <1>9, <1>11, <1>12, <1>13, <1>14 DEF Sound

\* What the next update of a transaction finds.
LEMMA FoundIsSound ==
  ASSUME IInv, NEW w \in Writers, RowOf(w) # NoRow
  PROVE  row # NoRow /\ Sound(RowOf(w), LogOf(w)) /\ Extends(LogOf(w), log)
BY ExtendsItself DEF IInv, DraftsContinue, RowOf, LogOf

LEMMA MoveKeeps ==
  ASSUME IInv, NEW w \in Writers, NEW u \in Update, Move(w, u)
  PROVE  IInv'
<1> DEFINE began == open[w].began
           moved == Moved(RowOf(w), u, began)
           longer == Append(LogOf(w), LogEntry(RowOf(w), u, began))
           t == [began |-> began, row |-> moved, log |-> longer]
<1>1. /\ open[w] # NoTransaction /\ RowOf(w) # NoRow
      /\ \A v \in Writers \ {w} : ~Locks(v)
      /\ Follows(RowOf(w).status, u.status) /\ Lawful(moved.stamps)
      /\ open' = [open EXCEPT ![w] = t]
      /\ UNCHANGED row /\ UNCHANGED log /\ UNCHANGED view /\ UNCHANGED clock
  BY DEF Move
<1>2. open[w] \in Transaction /\ began \in Times
  BY <1>1 DEF IInv, TypeOK, Transaction
<1>3. row # NoRow /\ Sound(RowOf(w), LogOf(w)) /\ Extends(LogOf(w), log)
  BY <1>1, FoundIsSound
<1>4. Sound(moved, longer) /\ moved \in Row /\ moved # NoRow /\ Extends(longer, LogOf(w))
  BY <1>1, <1>2, <1>3, MovedIsSound
<1>5. t \in Transaction
  BY <1>2, <1>4 DEF Transaction, Sound
<1>6. TypeOK'
  BY <1>1, <1>5 DEF IInv, TypeOK
<1>7. open'[w] = t /\ \A v \in Writers \ {w} : open'[v] = open[v]
  BY <1>1 DEF IInv, TypeOK
<1>8. \A v \in Writers : Locks(v)' => v = w
  BY <1>1, <1>7 DEF Locks
<1>9. Extends(longer, log)
  BY <1>3, <1>4 DEF Extends
<1>10. (row # NoRow /\ Sound(open[w].row, open[w].log) /\ Extends(open[w].log, log))'
  <2>1. open'[w].row = moved /\ open'[w].log = longer
    BY <1>7
  <2>2. row' # NoRow /\ Sound(open'[w].row, open'[w].log) /\ Extends(open'[w].log, log')
    BY <1>1, <1>3, <1>4, <1>9, <2>1
  <2> QED
    BY <2>2 DEF Sound, IsThePath, StampsAre, LogMatchesStamps, Extends
<1>11. DraftsContinue'
  BY <1>8, <1>10 DEF DraftsContinue
<1>12. Sound(row, log)'
  BY <1>1 DEF IInv, Sound, IsThePath, StampsAre, LogMatchesStamps
<1>13. Answers'
  BY <1>1, ExtendsItself, AnswersStay DEF IInv
<1> QED
  BY <1>6, <1>11, <1>12, <1>13 DEF IInv

LEMMA CommitKeeps ==
  ASSUME IInv, NEW w \in Writers, Commit(w)
  PROVE  IInv'
<1>1. /\ Locks(w) /\ row' = open[w].row /\ log' = open[w].log
      /\ open' = [open EXCEPT ![w] = NoTransaction]
      /\ UNCHANGED view /\ UNCHANGED clock
  BY DEF Commit, Close
<1>2. Sound(open[w].row, open[w].log) /\ Extends(open[w].log, log)
  BY <1>1 DEF IInv, DraftsContinue
<1>3. Sound(row', log') /\ Extends(log', log)
  BY <1>1, <1>2
<1>4. Sound(row, log)'
  BY <1>3 DEF Sound, IsThePath, StampsAre, LogMatchesStamps
<1>5. TypeOK'
  BY <1>1, <1>3 DEF IInv, TypeOK, Sound
<1>6. \A v \in Writers : ~Locks(v)'
  <2>1. ~Locks(w)'
    BY <1>1 DEF IInv, TypeOK, Locks
  <2>2. ASSUME NEW v \in Writers, v # w PROVE ~Locks(v)'
    <3>1. ~Locks(v)
      BY <1>1, <2>2 DEF IInv, DraftsContinue
    <3>2. open'[v] = open[v]
      BY <1>1, <2>2 DEF IInv, TypeOK
    <3> QED
      BY <3>1, <3>2 DEF Locks
  <2> QED
    BY <2>1, <2>2
<1>7. DraftsContinue'
  BY <1>6 DEF DraftsContinue
<1>8. Answers'
  BY <1>1, <1>3, AnswersStay DEF IInv
<1> QED
  BY <1>4, <1>5, <1>7, <1>8 DEF IInv

LEMMA StutterKeeps == IInv /\ UNCHANGED vars => IInv'
<1> SUFFICES ASSUME IInv, UNCHANGED vars PROVE IInv'
  OBVIOUS
<1>1. UNCHANGED <<row, log, open>> /\ UNCHANGED <<open, clock>> /\ UNCHANGED view
      /\ Extends(log', log)
  BY ExtendsItself DEF vars
<1>2. TypeOK'
  BY <1>1 DEF IInv, TypeOK
<1> QED
  BY <1>1, <1>2, DraftsStay, AnswersStay DEF IInv

-----------------------------------------------------------------------------
\* The invariant holds in every behaviour.
THEOREM Invariance == Spec => []IInv
<1>1. ASSUME IInv, [Next]_vars PROVE IInv'
  <2>1. ASSUME NEW t \in Times, Insert(t) PROVE IInv'
    BY <1>1, <2>1, InsertKeeps
  <2>2. ASSUME NEW w \in Writers, NEW u \in Update, Move(w, u) PROVE IInv'
    BY <1>1, <2>2, MoveKeeps
  <2>3. ASSUME NEW w \in Writers, End(w) PROVE IInv'
    BY <1>1, <2>3, EndKeeps
  <2>4. ASSUME NEW w \in Writers, Begin(w) PROVE IInv'
    BY <1>1, <2>4, BeginKeeps
  <2>5. ASSUME NEW w \in Writers, Commit(w) PROVE IInv'
    BY <1>1, <2>5, CommitKeeps
  <2>6. ASSUME NEW d \in Readers, ReadOpportunity(d) PROVE IInv'
    BY <1>1, <2>6, ReadOpportunityKeeps
  <2>7. ASSUME NEW d \in Readers, ReadTransitions(d) PROVE IInv'
    BY <1>1, <2>7, ReadTransitionsKeeps
  <2>8. ASSUME NEW d \in Readers, ReadFails(d) PROVE IInv'
    BY <1>1, <2>8, ReadFailsKeeps
  <2>9. CASE Tick
    BY <1>1, <2>9, TickKeeps
  <2>10. CASE UNCHANGED vars
    BY <1>1, <2>10, StutterKeeps
  <2> QED
    BY <1>1, <2>1, <2>2, <2>3, <2>4, <2>5, <2>6, <2>7, <2>8, <2>9, <2>10 DEF Next
<1> QED
  BY <1>1, InitInvariant, PTL DEF Spec

\* The row, its log, the transactions and the answers have their types.
THEOREM TypeCorrect == Spec => []TypeOK
<1>1. IInv => TypeOK
  BY DEF IInv
<1> QED
  BY <1>1, Invariance, PTL

\* opportunity_transitions is the way the status came, for any writers.
THEOREM HistoryIsComplete == Spec => []HistoryIsThePath
<1>1. IInv => HistoryIsThePath
  BY DEF IInv, Sound, HistoryIsThePath
<1> QED
  BY <1>1, Invariance, PTL

\* The times of the statuses a row has been through are set and in order.
THEOREM StampsAreComplete == Spec => []StampsFollowStatus
<1>1. IInv => StampsFollowStatus
  BY DEF IInv, Sound, StampsFollowStatus
<1> QED
  BY <1>1, Invariance, PTL

\* Answers tell the steps in order, but for ties and times writers brought.
THEOREM HistorySortsByTime == Spec => []HistoryIsInOrder
<1>1. IInv => HistoryIsInOrder
  BY DEF IInv, Answers
<1> QED
  BY <1>1, Invariance, PTL

\* A detail answer accounts for its own status.
THEOREM DetailsAreCoherent == Spec => []DetailTellsItsStatus
<1>1. IInv => DetailTellsItsStatus
  BY DEF IInv, Answers
<1> QED
  BY <1>1, Invariance, PTL
=============================================================================
