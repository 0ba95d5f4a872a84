-------------------------- MODULE AutomationHealth --------------------------
(***************************************************************************)
(* The automation health report over the tables of the scheduled job: a    *)
(* reader takes the time, asks for the latest heartbeat and for the runs   *)
(* of the last day, and combines two answers that were read at different   *)
(* moments, while runs go on.                                              *)
(*                                                                         *)
(* What the job may write is RunLedger, which AutomationRuns implements:   *)
(* a slot may be opened late or never, its run may store its heartbeat     *)
(* and end, or be left as it is.  Time is counted in parts of the period.  *)
(* One report is followed; reports share nothing.                          *)
(***************************************************************************)
EXTENDS AutomationTables, Integers, FiniteSets

CONSTANTS
  Period,     \* 15 minutes
  Threshold,  \* 45 minutes
  Window,     \* 24 hours
  Limit,      \* rows of runs read at most: 100
  MaxTime,    \* bound: the clock
  MaxLate,    \* bound: a slot is opened and its heartbeat stored this late
  MaxRead,    \* bound: how long the two lookups take
  None,       \* no time, no heartbeat, no report
  Unread      \* a lookup that has no answer yet

Times == 0..MaxTime

\* Slots are numbered in order.
Due(s) == s * Period

ASSUME TimeAssumption ==
  /\ Slots \subseteq Nat
  /\ {Period, Threshold, Window, Limit, MaxTime, MaxLate, MaxRead} \subseteq Nat
  /\ Period > 0
\* A day has fewer slots than the rows that are read, even if more of them
\* fall due meanwhile.
ASSUME LimitAssumption == Window + MaxRead < Limit * Period
ASSUME NullAssumption ==
  /\ {None, Unread} \cap Int = {} /\ None # Unread
  /\ NoRun \notin {"running", "succeeded", "failed"}

VARIABLES
  clock,
  observed,  \* the observed_at of each slot's heartbeat
  prompt,    \* history: slots whose heartbeat was stored before the next was due
  asked,     \* when the report was asked for
  failedBy,  \* history: the slots that had failed by then
  beat,      \* the answer of the first lookup
  rows,      \* the answer of the second
  report     \* the report

reader == <<asked, failedBy, beat, rows, report>>
healthVars == <<clock, runs, heartbeats, observed, prompt, reader>>

RunStatuses == {NoRun, "running", "succeeded", "failed"}
SchedulerStatuses == {"healthy", "stale", "unavailable"}
Rows == [run : RunStatuses, failures : Nat]
Report == [status : SchedulerStatuses, beat : Int \cup {None},
           run : RunStatuses, failures : Nat]

Failed == {s \in Slots : runs[s] = "failed"}

HealthInit ==
  /\ clock = 0
  /\ Ledger!Init
  /\ observed = [s \in Slots |-> None]
  /\ prompt = {}
  /\ asked = None
  /\ failedBy = {}
  /\ beat = Unread
  /\ rows = Unread
  /\ report = None

-----------------------------------------------------------------------------
(* Time and the scheduled job                                              *)

Reading == asked # None /\ report = None

Tick ==
  /\ clock < MaxTime
  /\ Reading => clock < asked + MaxRead
  /\ clock' = clock + 1
  /\ UNCHANGED <<runs, heartbeats, observed, prompt, reader>>

InTime(s) == Due(s) <= clock /\ clock <= Due(s) + MaxLate

\* The heartbeat carries the time at which the adapter had answered.
StoreBeat(s, at) ==
  /\ Ledger!Beat(s)
  /\ observed' = [observed EXCEPT ![s] = at]
  /\ prompt' = IF clock < Due(s) + Period THEN prompt \cup {s} ELSE prompt

Job(s) ==
  /\ InTime(s)
  /\ \/ \E at \in Due(s)..clock : StoreBeat(s, at)
     \/ /\ Ledger!Open(s) \/ Ledger!Succeed(s) \/ Ledger!Fail(s)
        /\ UNCHANGED <<observed, prompt>>
  /\ UNCHANGED <<clock, reader>>

-----------------------------------------------------------------------------
(* readAutomationHealth                                                    *)

Ask ==
  /\ asked = None
  /\ asked' = clock
  /\ failedBy' = Failed
  /\ UNCHANGED <<clock, runs, heartbeats, observed, prompt, beat, rows, report>>

Beats == {observed[s] : s \in {t \in Slots : heartbeats[t] > 0}}

\* order=observed_at.desc, limit=1
ReadBeat ==
  /\ Reading /\ beat = Unread
  /\ beat' = IF Beats = {} THEN None
             ELSE CHOOSE at \in Beats : \A other \in Beats : other <= at
  /\ UNCHANGED <<clock, runs, heartbeats, observed, prompt, asked, failedBy, rows, report>>

\* Mutant: runs of earlier days are not left out.
AllRuns == {s \in Slots : runs[s] # NoRun}

Recent == {s \in Slots : runs[s] # NoRun /\ Due(s) >= asked - Window}

\* order=scheduled_for.desc, limit=Limit
Latest == {s \in Recent : Cardinality({t \in Recent : t > s}) < Limit}

\* Mutant: what has not succeeded is counted as a failure.
ReadRunsUnfinished ==
  /\ Reading /\ rows = Unread
  /\ rows' =
       [run |-> IF Latest = {} THEN NoRun
                ELSE runs[CHOOSE s \in Latest : \A t \in Latest : t <= s],
        failures |-> Cardinality({s \in Latest : runs[s] # "succeeded"})]
  /\ UNCHANGED <<clock, runs, heartbeats, observed, prompt, asked, failedBy, beat, report>>

ReadRuns ==
  /\ Reading /\ rows = Unread
  /\ rows' =
       [run |-> IF Latest = {} THEN NoRun
                ELSE runs[CHOOSE s \in Latest : \A t \in Latest : t <= s],
        failures |-> Cardinality(Latest \cap Failed)]
  /\ UNCHANGED <<clock, runs, heartbeats, observed, prompt, asked, failedBy, beat, report>>

Unavailable == [status |-> "unavailable", beat |-> None, run |-> NoRun, failures |-> 0]

\* Either lookup fails, is refused, or answers what is not a list of rows.
ReadFails ==
  /\ Reading
  /\ report' = Unavailable
  /\ UNCHANGED <<clock, runs, heartbeats, observed, prompt, asked, failedBy, beat, rows>>

\* Mutant: the age is compared with the period of the cron.
AgeOfOnePeriod ==
  IF beat = None THEN "unavailable" ELSE IF asked - beat <= Period THEN "healthy" ELSE "stale"

\* The age is taken from the time of asking and may be negative.
Health ==
  IF beat = None THEN "unavailable"
  ELSE IF asked - beat <= Threshold THEN "healthy" ELSE "stale"

Reports ==
  /\ Reading /\ beat # Unread /\ rows # Unread
  /\ report' = [status |-> Health, beat |-> beat, run |-> rows.run,
                failures |-> rows.failures]
  /\ UNCHANGED <<clock, runs, heartbeats, observed, prompt, asked, failedBy, beat, rows>>

HealthNext ==
  \/ Tick \/ Ask \/ ReadBeat \/ ReadRuns \/ ReadFails \/ Reports
  \/ \E s \in Slots : Job(s)

HealthSpec == HealthInit /\ [][HealthNext]_healthVars

-----------------------------------------------------------------------------
\* The variables hold values of their kinds.
HealthTypeOK ==
  /\ clock \in Times
  /\ runs \in [Slots -> RunStatuses]
  /\ heartbeats \in [Slots -> {0, 1}]
  /\ observed \in [Slots -> Times \cup {None}]
  /\ prompt \subseteq Slots
  /\ asked \in Times \cup {None}
  /\ failedBy \subseteq Slots
  /\ beat \in Times \cup {None, Unread}
  /\ rows \in Rows \cup {Unread}
  /\ report \in Report \cup {None}

\* The scheduler is not called stale while it keeps its times, nor healthy
\* once it has stopped: a stale report means that every slot whose whole
\* period lies in the last 45 minutes had not stored its heartbeat within
\* the period, so one slot that is lost or late is never enough; a healthy
\* one that a slot which fell due at most 45 minutes before, or was as late
\* as it may be, did store one.
StatusIsTrue ==
  report # None =>
    CASE report.status = "stale" ->
           \A s \in Slots :
             asked - Threshold <= Due(s) /\ Due(s) + Period <= asked => s \notin prompt
      [] report.status = "healthy" ->
           \E s \in Slots : heartbeats[s] = 1 /\ Due(s) + MaxLate >= asked - Threshold
      [] OTHER -> TRUE

\* No failure of the last day is missed and none is made up, although runs
\* go on failing between the two lookups and their answers are limited:
\* every run that had failed when the report was asked for is counted, and
\* what is counted has failed.
InWindow(set) == {s \in set : Due(s) >= asked - Window}
FailuresAreCounted ==
  report # None /\ report # Unavailable =>
    /\ Cardinality(InWindow(failedBy)) <= report.failures
    /\ report.failures <= Cardinality(InWindow(Failed))
=============================================================================
