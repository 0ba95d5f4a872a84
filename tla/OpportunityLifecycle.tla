------------------------ MODULE OpportunityLifecycle ------------------------
(***************************************************************************)
(* One opportunity after its insert: writers move its status on, the       *)
(* database's triggers admit the move, stamp it and log it, and readers of *)
(* the detail API put the row and its log together from two queries.       *)
(*                                                                         *)
(* A writer's transaction makes any number of updates.  now() is the time *)
(* it began; its first update locks the row, in the version the row then   *)
(* has, until the commit publishes what was written or the transaction ends*)
(* without a trace.  So transactions commit in an order other than that of *)
(* their now(), and steps of one transaction have one now().  The          *)
(* repository has no writer yet; what any writer can do is what the        *)
(* triggers and constraints admit.  A writer may stamp its transition      *)
(* itself; it is taken to set no other status's time, and an update that   *)
(* leaves the status alone to leave the times alone as well: it then only  *)
(* touches updated_at, which is left out.                                  *)
(***************************************************************************)
EXTENDS Naturals, Sequences

CONSTANTS
  Writers,
  Readers,
  MaxTime,  \* bound on the clock
  NoRow, NoTime, NoTransaction, NoView

Path == <<"detected", "qualified", "alerted", "seen">>
Statuses == {Path[k] : k \in 1..4}
Times == 0..MaxTime

Row == [status : Statuses, stamps : [Statuses -> Times \cup {NoTime}]]
Update == [status : Statuses, stamp : Times \cup {NoTime}]

\* stamped is no column: it remembers that the writer brought its own time.
Entry == [from : Statuses \cup {NoRow}, to : Statuses, at : Times, stamped : BOOLEAN]
Summary == [status : Statuses]
Detail == [status : Statuses, history : Seq(Entry)]

\* What a transaction has written and not committed; no row before it has.
Transaction == [began : Times, row : Row \cup {NoRow}, log : Seq(Entry)]

ASSUME ParameterAssumption ==
  /\ MaxTime \in Nat
  /\ NoTime \notin Nat
  /\ NoRow \notin Row \cup Statuses
  /\ NoTransaction \notin Transaction
  /\ NoView \notin Summary \cup Detail
  /\ Summary \cap Detail = {}

VARIABLES
  row,    \* the opportunity
  log,    \* its rows of opportunity_transitions, in the order of their commit
  open,   \* each writer's transaction
  view,   \* what each reader has put together
  clock

vars == <<row, log, open, view, clock>>

Init ==
  /\ row = NoRow
  /\ log = <<>>
  /\ open = [w \in Writers |-> NoTransaction]
  /\ view = [d \in Readers |-> NoView]
  /\ clock = 0

-----------------------------------------------------------------------------
(* The triggers and constraints of public.opportunities.                   *)

\* Mutant: a neighbouring status, in either direction.
FollowsOrPrecedes(from, to) == \E k \in 1..3 : {from, to} = {Path[k], Path[k + 1]}

\* enforce_opportunity_lifecycle
Follows(from, to) == \E k \in 1..3 : from = Path[k] /\ to = Path[k + 1]

\* Mutant: the writer's time is taken as it is.
StampAsGiven(u, began) == u.stamp

\* coalesce(new.<status>_at, now())
Stamp(u, began) == IF u.stamp # NoTime THEN u.stamp ELSE began

Moved(r, u, began) ==
  [status |-> u.status, stamps |-> [r.stamps EXCEPT ![u.status] = Stamp(u, began)]]

\* Mutant: the times may be in any order.
LawfulUnordered(stamps) ==
  /\ stamps["alerted"] # NoTime => stamps["qualified"] # NoTime
  /\ stamps["seen"] # NoTime => stamps["alerted"] # NoTime

\* A later status has its time only after the one before it has.
NotBefore(stamps, earlier, later) ==
  stamps[later] # NoTime => stamps[earlier] # NoTime /\ stamps[later] >= stamps[earlier]

\* opportunities_lifecycle_time_check
Lawful(stamps) ==
  /\ NotBefore(stamps, "detected", "qualified")
  /\ NotBefore(stamps, "qualified", "alerted")
  /\ NotBefore(stamps, "alerted", "seen")

\* Mutant: the entry is given the writer's time.
LogEntryAsGiven(r, u, began) ==
  [from |-> r.status, to |-> u.status, at |-> u.stamp, stamped |-> u.stamp # NoTime]

\* record_opportunity_status_transition
LogEntry(r, u, began) ==
  [from |-> r.status, to |-> u.status, at |-> began, stamped |-> u.stamp # NoTime]

-----------------------------------------------------------------------------
\* The queue consumer's insert commits; it began at t.  The row is detected
\* and record_opportunity_insert_transition logs it.
Insert(t) ==
  /\ row = NoRow
  /\ t <= clock
  /\ row' = [status |-> "detected",
             stamps |-> [s \in Statuses |-> IF s = "detected" THEN t ELSE NoTime]]
  /\ log' = <<[from |-> NoRow, to |-> "detected", at |-> t, stamped |-> FALSE]>>
  /\ UNCHANGED <<open, view, clock>>

Begin(w) ==
  /\ open[w] = NoTransaction
  /\ open' = [open EXCEPT ![w] = [began |-> clock, row |-> NoRow, log |-> <<>>]]
  /\ UNCHANGED <<row, log, view, clock>>

\* The writer has updated the row and holds its lock.
Locks(w) == open[w] # NoTransaction /\ open[w].row # NoRow

\* The version its next update finds.
RowOf(w) == IF Locks(w) THEN open[w].row ELSE row
LogOf(w) == IF Locks(w) THEN open[w].log ELSE log

\* An update passes the triggers and the constraint.
Move(w, u) ==
  /\ open[w] # NoTransaction
  /\ \A v \in Writers \ {w} : ~Locks(v)
  /\ RowOf(w) # NoRow
  /\ Follows(RowOf(w).status, u.status)
  /\ LET began == open[w].began
         moved == Moved(RowOf(w), u, began)
     IN /\ Lawful(moved.stamps)
        /\ open' = [open EXCEPT ![w] =
                      [began |-> began, row |-> moved,
                       log |-> Append(LogOf(w), LogEntry(RowOf(w), u, began))]]
  /\ UNCHANGED <<row, log, view, clock>>

Close(w) == open' = [open EXCEPT ![w] = NoTransaction]

Commit(w) ==
  /\ Locks(w)
  /\ row' = open[w].row
  /\ log' = open[w].log
  /\ Close(w)
  /\ UNCHANGED <<view, clock>>

\* It found no row, kept the status, was refused, or is aborted.
End(w) ==
  /\ open[w] # NoTransaction
  /\ Close(w)
  /\ UNCHANGED <<row, log, view, clock>>

Tick ==
  /\ clock < MaxTime
  /\ clock' = clock + 1
  /\ UNCHANGED <<row, log, open, view>>

-----------------------------------------------------------------------------
(* getOpportunityDetail                                                    *)

\* readSingleOpportunity; the source event and the identity never change.
ReadOpportunity(d) ==
  /\ view[d] \notin Summary
  /\ row # NoRow
  /\ view' = [view EXCEPT ![d] = [status |-> row.status]]
  /\ UNCHANGED <<row, log, open, clock>>

\* order=transitioned_at.asc,id.asc.  The ids are random, so entries of one
\* time come in any order.
Listings ==
  {h \in [DOMAIN log -> {log[k] : k \in DOMAIN log}] :
     /\ \A k \in DOMAIN log : \E i \in DOMAIN log : h[i] = log[k]
     /\ \A i, j \in DOMAIN log : i < j => h[i].at <= h[j].at}

\* Mutant: only the newest entry is asked for.
ReadLatestTransition(d) ==
  /\ view[d] \in Summary
  /\ view' = [view EXCEPT ![d] = [status |-> view[d].status, history |-> <<log[Len(log)]>>]]
  /\ UNCHANGED <<row, log, open, clock>>

\* readTransitions; at most 16 are read, which is more than there can be.
ReadTransitions(d) ==
  /\ view[d] \in Summary
  /\ \E h \in Listings :
       view' = [view EXCEPT ![d] = [status |-> view[d].status, history |-> h]]
  /\ UNCHANGED <<row, log, open, clock>>

\* A read failed: the answer is 503.
ReadFails(d) ==
  /\ view[d] \in Summary
  /\ view' = [view EXCEPT ![d] = NoView]
  /\ UNCHANGED <<row, log, open, clock>>

Next ==
  \/ \E t \in Times : Insert(t)
  \/ \E w \in Writers : Begin(w) \/ Commit(w) \/ End(w) \/ \E u \in Update : Move(w, u)
  \/ \E d \in Readers : ReadOpportunity(d) \/ ReadTransitions(d) \/ ReadFails(d)
  \/ Tick

Spec == Init /\ [][Next]_vars

-----------------------------------------------------------------------------
TypeOK ==
  /\ row \in Row \cup {NoRow}
  /\ log \in Seq(Entry)
  /\ open \in [Writers -> Transaction \cup {NoTransaction}]
  /\ view \in [Readers -> Summary \cup Detail \cup {NoView}]
  /\ clock \in Times

\* The log is the way the row came: from detected step by step to its present
\* status, nothing skipped, repeated or missing, whatever writers overlapped.
IsThePath(r, l) ==
  /\ r = NoRow => l = <<>>
  /\ r # NoRow =>
       /\ Len(l) \in 1..4
       /\ r.status = Path[Len(l)]
       /\ \A k \in DOMAIN l :
            /\ l[k].to = Path[k]
            /\ l[k].from = IF k = 1 THEN NoRow ELSE Path[k - 1]
HistoryIsThePath == IsThePath(row, log)

\* The statuses a row has been through have their times, in order, and the
\* others have none.
StampsAre(r, l) ==
  r # NoRow =>
    \A k \in 1..4 :
      /\ r.stamps[Path[k]] # NoTime <=> k <= Len(l)
      /\ k > 1 /\ k <= Len(l) => r.stamps[Path[k - 1]] <= r.stamps[Path[k]]
StampsFollowStatus == StampsAre(row, log)

\* An answer tells the steps in the order they happened, although it sorts
\* them by the time their transactions began: a transaction that began
\* before the step it follows is refused by the time constraint.  There are
\* two exceptions.  Steps of one instant, as those of one transaction always
\* are, come in any order.  And a step whose writer brought its own time is
\* judged by that time and sorted by the other.
Earlier(s, t) == \E k, l \in 1..4 : k < l /\ s = Path[k] /\ t = Path[l]
InOrder(h) ==
  \A i, j \in DOMAIN h :
    i < j /\ Earlier(h[j].to, h[i].to)
      => h[i].at = h[j].at \/ h[i].stamped \/ h[j].stamped
HistoryIsInOrder == \A d \in Readers : view[d] \in Detail => InOrder(view[d].history)

\* The history in an answer accounts for the status in that answer, although
\* the two were read at different times.
DetailTellsItsStatus ==
  \A d \in Readers :
    view[d] \in Detail =>
      \E i \in DOMAIN view[d].history : view[d].history[i].to = view[d].status
=============================================================================
