----------------------- MODULE OpportunityRepairProofs -----------------------
(* Reconciliation with any number of events, runs and faults, and whatever *)
(* the page and chunk sizes are.                                           *)
EXTENDS OpportunityRepair, FiniteSetTheorems, TLAPS

(* The inductive invariant.                                                *)

\* What the window of a run held when it scanned.
WindowThen(r) == {e \in stored[r] : e >= since[r]}

ScanIsOfWindow(r) ==
  pc[r] \in {"read", "dispatch", "done"} =>
    /\ scanned[r] = Newest(WindowThen(r), Limit)
    /\ truncated[r] <=> Cardinality(WindowThen(r)) > Limit

\* Each event of the scan is unread, missing, or the source of an opportunity.
ReadingIsTrue(r) ==
  /\ pc[r] = "scan" => missing[r] = {}
  /\ pc[r] = "read" =>
       /\ missing[r] \cup unread[r] \subseteq scanned[r]
       /\ scanned[r] \subseteq unread[r] \cup missing[r] \cup Sources
  /\ Reported(r) =>
       /\ missing[r] \subseteq scanned[r]
       /\ scanned[r] \subseteq missing[r] \cup Sources

\* Each missing event is still to be sent for, was sent for, or failed.
SendingAccounts(r) ==
  /\ pc[r] \in {"scan", "read"} => sent[r] = {} /\ failed[r] = {}
  /\ pc[r] = "dispatch" =>
       /\ mode[r] = "repair"
       /\ missing[r] = todo[r] \cup sent[r] \cup failed[r]
  /\ pc[r] = "done" =>
       /\ sent[r] \cup failed[r] \subseteq missing[r]
       /\ mode[r] = "repair" => missing[r] \subseteq sent[r] \cup failed[r]
       /\ mode[r] = "dry_run" => sent[r] = {}

RunOK(r) == ScanIsOfWindow(r) /\ ReadingIsTrue(r) /\ SendingAccounts(r)

IInv == TypeOK /\ \A r \in Runs : RunOK(r)

-----------------------------------------------------------------------------
(* Newest.                                                                 *)

LEMMA NewestIsSubset ==
  ASSUME NEW S, NEW n
  PROVE  Newest(S, n) \subseteq S
BY DEF Newest

\* A limit the set does not exceed cuts nothing off.
LEMMA NewestOfFew ==
  ASSUME NEW S \in SUBSET Events, NEW n \in Nat, Cardinality(S) <= n
  PROVE  Newest(S, n) = S
<1>1. IsFiniteSet(S) /\ S \subseteq Nat
  BY ParameterAssumption, FS_Subset
<1>2. ASSUME NEW e \in S
      PROVE  Cardinality({f \in S : f > e}) < n
  <2>1. IsFiniteSet(S \ {e}) /\ Cardinality(S \ {e}) = Cardinality(S) - 1
    BY <1>1, FS_RemoveElement
  <2>2. {f \in S : f > e} \subseteq S \ {e}
    BY <1>1
  <2>3. /\ IsFiniteSet({f \in S : f > e})
        /\ Cardinality({f \in S : f > e}) <= Cardinality(S \ {e})
    BY <2>1, <2>2, FS_Subset
  <2>4. /\ Cardinality(S) \in Nat
        /\ Cardinality(S \ {e}) \in Nat
        /\ Cardinality({f \in S : f > e}) \in Nat
    BY <1>1, <2>1, <2>3, FS_CardinalityType
  <2> QED
    BY <2>1, <2>3, <2>4
<1> QED
  BY <1>2 DEF Newest

\* The newest of those after some event are among the newest of all.
LEMMA NewestOfTail ==
  ASSUME NEW S \in SUBSET Events, NEW a \in Nat, NEW n \in Nat
  PROVE  Newest({e \in S : e >= a}, n) \subseteq Newest(S, n)
<1> DEFINE T == {x \in S : x >= a}
<1> SUFFICES ASSUME NEW e \in Newest(T, n)
             PROVE  e \in Newest(S, n)
  OBVIOUS
<1>1. S \subseteq Nat
  BY ParameterAssumption
<1>2. e \in T /\ Cardinality({f \in T : f > e}) < n
  BY DEF Newest
<1>3. \A f \in S : f > e => f >= a
  BY <1>1, <1>2
<1>4. {f \in T : f > e} = {f \in S : f > e}
  BY <1>3
<1> QED
  BY <1>2, <1>4 DEF Newest

-----------------------------------------------------------------------------
(* Types.                                                                  *)

LEMMA Bounds == Limit \in Nat /\ Chunk \in Nat /\ Limit > 0 /\ Chunk > 0
BY ParameterAssumption

LEMMA SetsOfARun ==
  ASSUME TypeOK, NEW r \in Runs
  PROVE  /\ scanned[r] \in SUBSET Events /\ stored[r] \in SUBSET Events
         /\ unread[r] \in SUBSET Events /\ missing[r] \in SUBSET Events
         /\ todo[r] \in SUBSET Events /\ failed[r] \in SUBSET Events
         /\ sent[r] \in SUBSET Events
         /\ since[r] \in Nat
<1>1. ledger \subseteq Events /\ since[r] \in {0} \cup Events /\ Events \subseteq Nat
  BY ParameterAssumption DEF TypeOK
<1>2. /\ scanned \in [Runs -> SUBSET ledger] /\ stored \in [Runs -> SUBSET ledger]
      /\ unread \in [Runs -> SUBSET ledger] /\ missing \in [Runs -> SUBSET ledger]
      /\ todo \in [Runs -> SUBSET ledger] /\ failed \in [Runs -> SUBSET ledger]
      /\ sent \in [Runs -> SUBSET ledger]
  BY DEF TypeOK
<1>3. ASSUME NEW f, f \in [Runs -> SUBSET ledger]
      PROVE  f[r] \in SUBSET Events
  BY <1>1, <1>3
<1>4. since[r] \in Nat
  <2>1. CASE since[r] = 0
    BY <2>1
  <2>2. CASE since[r] \in Events
    BY <2>2, <1>1, Zenon
  <2> QED
    BY <1>1, <2>1, <2>2, Zenon
<1> QED
  BY <1>2, <1>3, <1>4

-----------------------------------------------------------------------------
(* The safety properties follow from the invariant.                        *)

LEMMA InvariantIsTrue == IInv => ReportIsTrue
<1> SUFFICES ASSUME IInv, NEW r \in Runs, Reported(r)
             PROVE  /\ scanned[r] \subseteq Newest(stored[r], Limit)
                    /\ missing[r] \subseteq scanned[r]
                    /\ scanned[r] \ missing[r] \subseteq Sources
  BY DEF ReportIsTrue
<1>1. stored[r] \in SUBSET Events /\ since[r] \in Nat /\ Limit \in Nat
  BY Bounds, SetsOfARun DEF IInv
<1>2. scanned[r] = Newest(WindowThen(r), Limit)
  BY DEF IInv, RunOK, ScanIsOfWindow, Reported
<1>3. scanned[r] \subseteq Newest(stored[r], Limit)
  BY <1>1, <1>2, NewestOfTail DEF WindowThen
<1>4. missing[r] \subseteq scanned[r] /\ scanned[r] \ missing[r] \subseteq Sources
  BY DEF IInv, RunOK, ReadingIsTrue
<1> QED
  BY <1>3, <1>4

LEMMA InvariantIsComplete == IInv => RepairIsComplete
<1> SUFFICES ASSUME IInv, NEW r \in Runs, pc[r] = "done"
             PROVE  /\ mode[r] = "repair" /\ ~truncated[r] =>
                         \A e \in stored[r] :
                           e >= since[r] => e \in Sources \cup sent[r] \cup failed[r]
                    /\ sent[r] \cup failed[r] \subseteq missing[r]
                    /\ mode[r] = "dry_run" => sent[r] = {}
  BY DEF RepairIsComplete
<1>1. SendingAccounts(r) /\ ScanIsOfWindow(r) /\ ReadingIsTrue(r) /\ Reported(r)
  BY DEF IInv, RunOK, Reported
<1>2. ASSUME mode[r] = "repair", ~truncated[r], NEW e \in stored[r], e >= since[r]
      PROVE  e \in Sources \cup sent[r] \cup failed[r]
  <2>1. stored[r] \in SUBSET Events /\ Limit \in Nat
    BY Bounds, SetsOfARun DEF IInv
  <2>2. WindowThen(r) \in SUBSET Events /\ e \in WindowThen(r)
    BY <2>1, <1>2 DEF WindowThen
  <2>3. IsFiniteSet(WindowThen(r)) /\ Cardinality(WindowThen(r)) \in Nat
    BY <2>2, ParameterAssumption, FS_Subset, FS_CardinalityType
  <2>4. Cardinality(WindowThen(r)) <= Limit
    BY <1>1, <1>2, <2>1, <2>3 DEF ScanIsOfWindow
  <2>5. e \in scanned[r]
    BY <1>1, <2>1, <2>2, <2>4, NewestOfFew DEF ScanIsOfWindow
  <2>6. e \in missing[r] \cup Sources
    BY <1>1, <2>5 DEF ReadingIsTrue
  <2>7. missing[r] \subseteq sent[r] \cup failed[r]
    BY <1>1, <1>2 DEF SendingAccounts
  <2> QED
    BY <2>6, <2>7
<1>3. /\ sent[r] \cup failed[r] \subseteq missing[r]
      /\ mode[r] = "dry_run" => sent[r] = {}
  BY <1>1 DEF SendingAccounts
<1> QED
  BY <1>2, <1>3

-----------------------------------------------------------------------------
(* Facts about steps.                                                      *)

LEMMA InitInvariant == Init => IInv
<1> SUFFICES ASSUME Init PROVE IInv
  OBVIOUS
<1>1. TypeOK
  BY ParameterAssumption DEF Init, TypeOK, Modes
<1>2. ASSUME NEW r \in Runs PROVE RunOK(r)
  <2>1. pc[r] = "idle"
    BY DEF Init
  <2> QED
    BY <2>1 DEF RunOK, ScanIsOfWindow, ReadingIsTrue, SendingAccounts, Reported
<1> QED
  BY <1>1, <1>2 DEF IInv

\* A source stays one: no step takes an opportunity away.
SourcesStay == \A e \in Events : e \in Sources => e \in Sources'

\* A step leaves run q as it was.
Kept(q) ==
  /\ pc'[q] = pc[q] /\ mode'[q] = mode[q] /\ since'[q] = since[q]
  /\ scanned'[q] = scanned[q] /\ truncated'[q] = truncated[q] /\ stored'[q] = stored[q]
  /\ unread'[q] = unread[q] /\ missing'[q] = missing[q]
  /\ todo'[q] = todo[q] /\ failed'[q] = failed[q] /\ sent'[q] = sent[q]

LEMMA RunStaysOK ==
  ASSUME TypeOK, SourcesStay, NEW q \in Runs, RunOK(q), Kept(q)
  PROVE  RunOK(q)'
<1> USE DEF Kept
<1>1. scanned[q] \subseteq Events
  BY SetsOfARun
<1>2. ScanIsOfWindow(q)'
  BY DEF RunOK, ScanIsOfWindow, WindowThen, Newest
<1>3. \A S : scanned[q] \subseteq S \cup Sources => scanned[q] \subseteq S \cup Sources'
  BY <1>1 DEF SourcesStay
<1>4. ReadingIsTrue(q)'
  <2>1. (pc[q] = "scan" => missing[q] = {})'
    BY DEF RunOK, ReadingIsTrue
  <2>2. pc[q] = "read" => scanned[q] \subseteq (unread[q] \cup missing[q]) \cup Sources'
    BY <1>3 DEF RunOK, ReadingIsTrue
  <2>3. Reported(q) => scanned[q] \subseteq missing[q] \cup Sources'
    BY <1>3 DEF RunOK, ReadingIsTrue
  <2> QED
    BY <2>1, <2>2, <2>3 DEF RunOK, ReadingIsTrue, Reported
<1>5. SendingAccounts(q)'
  BY DEF RunOK, SendingAccounts
<1> QED
  BY <1>2, <1>4, <1>5 DEF RunOK

\* A step of what runs beside reconciliation.
LEMMA BesideStep ==
  ASSUME IInv, TypeOK', SourcesStay, UNCHANGED run
  PROVE  IInv'
<1>1. \A q \in Runs : Kept(q)
  BY DEF run, asked, scan, dispatch, Kept
<1> QED
  BY <1>1, RunStaysOK DEF IInv

\* A step of run r.
LEMMA OneRunStep ==
  ASSUME IInv, TypeOK', SourcesStay, NEW r \in Runs, RunOK(r)',
         \A q \in Runs \ {r} : Kept(q)
  PROVE  IInv'
BY RunStaysOK DEF IInv

-----------------------------------------------------------------------------
(* The steps of what runs beside reconciliation.                           *)

\* The ledger only grows, and the sets of the runs keep their type.
LEMMA LedgerGrows ==
  ASSUME TypeOK, UNCHANGED run, ledger \subseteq ledger'
  PROVE  ({scanned, unread, missing, todo, failed, stored, sent}
            \subseteq [Runs -> SUBSET ledger])'
<1>1. ASSUME NEW f, f \in [Runs -> SUBSET ledger]
      PROVE  f \in [Runs -> SUBSET ledger']
  BY <1>1
<1>2. \A f \in {scanned, unread, missing, todo, failed, stored, sent} :
        f \in [Runs -> SUBSET ledger]
  BY DEF TypeOK
<1> QED
  BY <1>1, <1>2 DEF run, scan, dispatch

LEMMA IngestStep ==
  ASSUME IInv, NEW e \in Events, NEW outcome \in Outcomes, Ingest(e, outcome)
  PROVE  IInv'
<1> USE DEF IInv, Ingest
<1>1. ledger' = ledger \cup {e} /\ UNCHANGED <<opportunities, resolvable, run>>
  OBVIOUS
<1>2. queue' \subseteq queue \cup {e}
  OBVIOUS
<1>3. faults' \in Nat
  BY DEF TypeOK, Charge
<1>4. opportunities \in [Signals -> (ledger \cup {e}) \cup {NoEvent}]
  BY DEF TypeOK
<1>5. TypeOK'
  BY <1>1, <1>2, <1>3, <1>4, LedgerGrows DEF TypeOK, run, asked, scan
<1>6. SourcesStay
  BY <1>1 DEF SourcesStay, Sources
<1> QED
  BY <1>1, <1>5, <1>6, BesideStep

LEMMA ProcessStep ==
  ASSUME IInv, NEW e \in Events, Process(e)
  PROVE  IInv'
<1> USE DEF IInv, Process
<1>1. SignalOf[e] \in Signals /\ e \in ledger /\ NoEvent \notin Events
  BY ParameterAssumption DEF TypeOK
<1>2. opportunities' \in [Signals -> ledger \cup {NoEvent}]
  BY <1>1 DEF TypeOK
<1>3. queue' \subseteq ledger
  BY DEF TypeOK
<1>4. TypeOK'
  BY <1>2, <1>3 DEF TypeOK, run, asked, scan, dispatch
<1>5. \A s \in Signals : opportunities[s] # NoEvent => opportunities'[s] = opportunities[s]
  BY <1>1 DEF TypeOK
<1>6. SourcesStay
  BY <1>1, <1>5 DEF SourcesStay, Sources
<1> QED
  BY <1>4, <1>6, BesideStep

LEMMA GiveUpStep ==
  ASSUME IInv, NEW e \in Events, GiveUp(e)
  PROVE  IInv'
<1> USE DEF IInv, GiveUp
<1>1. faults' \in Nat
  BY DEF TypeOK, Charge
<1>2. TypeOK'
  BY <1>1 DEF TypeOK, run, asked, scan, dispatch
<1>3. SourcesStay
  BY DEF SourcesStay, Sources
<1> QED
  BY <1>2, <1>3, BesideStep

LEMMA AddInstrumentStep ==
  ASSUME IInv, NEW s \in Signals, AddInstrument(s)
  PROVE  IInv'
<1> USE DEF IInv, AddInstrument
<1>1. TypeOK'
  BY DEF TypeOK, run, asked, scan, dispatch
<1>2. SourcesStay
  BY DEF SourcesStay, Sources
<1> QED
  BY <1>1, <1>2, BesideStep

-----------------------------------------------------------------------------
(* The steps of a run.                                                     *)

LEMMA BeginStep ==
  ASSUME IInv, NEW r \in Runs, NEW m \in Modes, NEW first \in {0} \cup Events,
         Begin(r, m, first)
  PROVE  IInv'
<1> USE DEF IInv, Begin, Goto, scan
<1>1. TypeOK'
  BY DEF TypeOK
<1>2. SourcesStay
  BY DEF SourcesStay, Sources
<1>3. \A q \in Runs \ {r} : Kept(q)
  BY DEF TypeOK, Kept
<1>4. RunOK(r)'
  BY DEF TypeOK, RunOK, ScanIsOfWindow, ReadingIsTrue, SendingAccounts, Reported
<1> QED
  BY <1>1, <1>2, <1>3, <1>4, OneRunStep

LEMMA ScanStep ==
  ASSUME IInv, NEW r \in Runs, Scan(r)
  PROVE  IInv'
<1> USE DEF IInv, Scan, Goto, asked, dispatch
<1>1. Newest(Window(r), Limit) \subseteq ledger
  BY NewestIsSubset DEF Window
<1>2. TypeOK'
  BY <1>1 DEF TypeOK
<1>3. SourcesStay
  BY DEF SourcesStay, Sources
<1>4. \A q \in Runs \ {r} : Kept(q)
  BY DEF TypeOK, Kept
<1>5. /\ pc'[r] = "read" /\ since'[r] = since[r] /\ stored'[r] = ledger
      /\ scanned'[r] = Newest(Window(r), Limit)
      /\ unread'[r] = scanned'[r]
      /\ truncated'[r] = (Cardinality(Window(r)) > Limit)
      /\ missing'[r] = {} /\ sent'[r] = {} /\ failed'[r] = {}
  BY DEF TypeOK, RunOK, ReadingIsTrue, SendingAccounts
<1>6. WindowThen(r)' = Window(r)
  BY <1>5 DEF WindowThen, Window
<1>7. ScanIsOfWindow(r)'
  <2>1. scanned'[r] = Newest(WindowThen(r)', Limit)
    BY <1>5, <1>6
  <2>2. truncated'[r] <=> Cardinality(WindowThen(r)') > Limit
    BY <1>5, <1>6
  <2> QED
    BY <2>1, <2>2 DEF ScanIsOfWindow, Newest
<1>8. RunOK(r)'
  BY <1>5, <1>7 DEF RunOK, ReadingIsTrue, SendingAccounts, Reported
<1> QED
  BY <1>2, <1>3, <1>4, <1>8, OneRunStep

LEMMA ReadChunkStep ==
  ASSUME IInv, NEW r \in Runs, ReadChunk(r)
  PROVE  IInv'
<1> USE DEF IInv, ReadChunk, asked, scan, dispatch
<1> DEFINE chunk == Newest(unread[r], Chunk)
<1>1. chunk \subseteq unread[r]
  BY NewestIsSubset
<1>2. /\ missing' = [missing EXCEPT ![r] = @ \cup (chunk \ Sources)]
      /\ unread' = [unread EXCEPT ![r] = @ \ chunk]
  OBVIOUS
<1> HIDE DEF chunk
<1>3. TypeOK'
  <2>1. missing' \in [Runs -> SUBSET ledger] /\ unread' \in [Runs -> SUBSET ledger]
    BY <1>1, <1>2 DEF TypeOK
  <2> QED
    BY <2>1 DEF TypeOK
<1>4. SourcesStay /\ Sources' = Sources
  BY DEF SourcesStay, Sources
<1>5. \A q \in Runs \ {r} : Kept(q)
  BY <1>2 DEF TypeOK, Kept
<1>6. /\ missing'[r] = missing[r] \cup (chunk \ Sources)
      /\ unread'[r] = unread[r] \ chunk
  BY <1>2 DEF TypeOK
<1>7. ScanIsOfWindow(r)'
  BY DEF RunOK, ScanIsOfWindow, WindowThen, Newest
<1>8. ReadingIsTrue(r)'
  BY <1>1, <1>4, <1>6 DEF RunOK, ReadingIsTrue, Reported
<1>9. SendingAccounts(r)'
  BY DEF RunOK, SendingAccounts
<1> QED
  BY <1>3, <1>4, <1>5, <1>7, <1>8, <1>9, OneRunStep DEF RunOK

LEMMA ReportStep ==
  ASSUME IInv, NEW r \in Runs, Report(r)
  PROVE  IInv'
<1> USE DEF IInv, Report, Goto, asked, scan
<1>1. TypeOK'
  <2>1. todo' \in [Runs -> SUBSET ledger]
    BY DEF TypeOK
  <2>2. pc' \in [Runs -> {"idle", "scan", "read", "dispatch", "done"}]
    BY DEF TypeOK
  <2> QED
    BY <2>1, <2>2 DEF TypeOK
<1>2. SourcesStay /\ Sources' = Sources
  BY DEF SourcesStay, Sources
<1>3. \A q \in Runs \ {r} : Kept(q)
  BY DEF TypeOK, Kept
<1>4. /\ pc[r] = "read" /\ unread[r] = {}
      /\ mode[r] \in Modes
      /\ mode[r] = "dry_run" => pc'[r] = "done"
      /\ mode[r] # "dry_run" => pc'[r] = "dispatch" /\ todo'[r] = missing[r]
  BY DEF TypeOK
<1>5. ScanIsOfWindow(r)'
  BY <1>4 DEF RunOK, ScanIsOfWindow, WindowThen, Newest
<1>6. ReadingIsTrue(r)'
  BY <1>2, <1>4 DEF RunOK, ReadingIsTrue, Reported
<1>7. SendingAccounts(r)'
  BY <1>4 DEF RunOK, SendingAccounts, Modes
<1> QED
  BY <1>1, <1>2, <1>3, <1>5, <1>6, <1>7, OneRunStep DEF RunOK

LEMMA DispatchStep ==
  ASSUME IInv, NEW r \in Runs, NEW outcome \in Outcomes, Dispatch(r, outcome)
  PROVE  IInv'
<1> USE DEF IInv
<1>1. PICK e \in Newest(todo[r], 1) :
        /\ todo' = [todo EXCEPT ![r] = @ \ {e}]
        /\ IF Applied(outcome)
           THEN queue' = queue \cup {e} /\ sent' = [sent EXCEPT ![r] = @ \cup {e}]
           ELSE UNCHANGED <<queue, sent>>
        /\ failed' = IF outcome = "confirmed" THEN failed
                     ELSE [failed EXCEPT ![r] = @ \cup {e}]
  BY DEF Dispatch
<1>2. /\ pc[r] = "dispatch" /\ Charge(outcome)
      /\ UNCHANGED <<ledger, opportunities, resolvable, pc, asked, scan, unread, missing>>
  BY DEF Dispatch
<1>3. e \in todo[r] /\ e \in ledger
  BY NewestIsSubset DEF TypeOK
<1>4. TypeOK'
  <2>1. faults' \in Nat
    BY <1>2 DEF TypeOK, Charge
  <2>2. queue' \subseteq ledger
    BY <1>1, <1>3 DEF TypeOK
  <2>3. todo' \in [Runs -> SUBSET ledger]
    BY <1>1 DEF TypeOK
  <2>4. sent' \in [Runs -> SUBSET ledger]
    BY <1>1, <1>3 DEF TypeOK
  <2>5. failed' \in [Runs -> SUBSET ledger]
    BY <1>1, <1>3 DEF TypeOK
  <2> QED
    BY <1>2, <2>1, <2>2, <2>3, <2>4, <2>5 DEF TypeOK, asked, scan
<1>5. SourcesStay /\ Sources' = Sources
  BY <1>2 DEF SourcesStay, Sources
<1>6. \A q \in Runs \ {r} : Kept(q)
  BY <1>1, <1>2 DEF TypeOK, Kept, asked, scan
<1>7. /\ todo'[r] = todo[r] \ {e}
      /\ sent'[r] \in {sent[r], sent[r] \cup {e}}
      /\ failed'[r] \in {failed[r], failed[r] \cup {e}}
      /\ e \in sent'[r] \cup failed'[r]
  BY <1>1 DEF TypeOK, Applied
<1>8. ScanIsOfWindow(r)'
  BY <1>2 DEF RunOK, ScanIsOfWindow, WindowThen, Newest, asked, scan
<1>9. ReadingIsTrue(r)'
  BY <1>2, <1>5 DEF RunOK, ReadingIsTrue, Reported, scan
<1>10. SendingAccounts(r)'
  <2>1. mode[r] = "repair" /\ missing[r] = todo[r] \cup sent[r] \cup failed[r]
    BY <1>2 DEF RunOK, SendingAccounts
  <2>2. missing'[r] = todo'[r] \cup sent'[r] \cup failed'[r]
    BY <1>2, <1>3, <1>7, <2>1
  <2> QED
    BY <1>2, <2>1, <2>2 DEF SendingAccounts, asked
<1> QED
  BY <1>4, <1>5, <1>6, <1>8, <1>9, <1>10, OneRunStep DEF RunOK

LEMMA FinishStep ==
  ASSUME IInv, NEW r \in Runs, Finish(r)
  PROVE  IInv'
<1> USE DEF IInv, Finish, Goto, asked, scan, dispatch
<1>1. TypeOK'
  BY DEF TypeOK
<1>2. SourcesStay /\ Sources' = Sources
  BY DEF SourcesStay, Sources
<1>3. \A q \in Runs \ {r} : Kept(q)
  BY DEF TypeOK, Kept
<1>4. pc[r] = "dispatch" /\ todo[r] = {} /\ pc'[r] = "done"
  BY DEF TypeOK
<1>5. ScanIsOfWindow(r)'
  BY <1>4 DEF RunOK, ScanIsOfWindow, WindowThen, Newest
<1>6. ReadingIsTrue(r)'
  BY <1>2, <1>4 DEF RunOK, ReadingIsTrue, Reported
<1>7. SendingAccounts(r)'
  BY <1>4 DEF RunOK, SendingAccounts
<1> QED
  BY <1>1, <1>2, <1>3, <1>5, <1>6, <1>7, OneRunStep DEF RunOK

LEMMA StopStep ==
  ASSUME IInv, NEW r \in Runs, Stop(r)
  PROVE  IInv'
<1> USE DEF IInv, Stop, Goto, asked, scan
<1>1. faults' \in Nat
  BY DEF TypeOK, Charge
<1>2. TypeOK'
  BY <1>1 DEF TypeOK
<1>3. SourcesStay
  BY DEF SourcesStay, Sources
<1>4. \A q \in Runs \ {r} : Kept(q)
  BY DEF TypeOK, Kept
<1>5. pc'[r] = "idle"
  BY DEF TypeOK
<1>6. RunOK(r)'
  BY <1>5 DEF RunOK, ScanIsOfWindow, ReadingIsTrue, SendingAccounts, Reported
<1> QED
  BY <1>2, <1>3, <1>4, <1>6, OneRunStep

LEMMA NextStep == IInv /\ [Next]_vars => IInv'
<1> SUFFICES ASSUME IInv, [Next]_vars PROVE IInv'
  OBVIOUS
<1>1. ASSUME NEW e \in Events, Process(e) \/ GiveUp(e) PROVE IInv'
  BY <1>1, ProcessStep, GiveUpStep
<1>2. ASSUME NEW e \in Events, NEW outcome \in Outcomes, Ingest(e, outcome) PROVE IInv'
  BY <1>2, IngestStep
<1>3. ASSUME NEW s \in Signals, AddInstrument(s) PROVE IInv'
  BY <1>3, AddInstrumentStep
<1>4. ASSUME NEW r \in Runs, Step(r) PROVE IInv'
  BY <1>4, ScanStep, ReadChunkStep, ReportStep, FinishStep, StopStep, DispatchStep DEF Step
<1>5. ASSUME NEW r \in Runs, NEW m \in Modes, NEW first \in {0} \cup Events,
             Begin(r, m, first)
      PROVE  IInv'
  BY <1>5, BeginStep
<1>6. CASE UNCHANGED vars
  <2>1. TypeOK'
    BY <1>6 DEF vars, run, asked, scan, dispatch, IInv, TypeOK
  <2>2. SourcesStay
    BY <1>6 DEF vars, SourcesStay, Sources
  <2> QED
    BY <1>6, <2>1, <2>2, BesideStep DEF vars
<1> QED
  BY <1>1, <1>2, <1>3, <1>4, <1>5, <1>6 DEF Next

-----------------------------------------------------------------------------
(* The theorems.                                                           *)

\* Every reachable state satisfies the inductive invariant.
THEOREM Invariance == Spec => []IInv
BY InitInvariant, NextStep, PTL DEF Spec

\* Only what the ledger holds is queued, reported, sent for, or the source of
\* an opportunity.
THEOREM TypeCorrect == Spec => []TypeOK
<1>1. IInv => TypeOK
  BY DEF IInv
<1> QED
  BY <1>1, Invariance, PTL

\* readExistingSourceIds: the report of a run is about the newest events of
\* its window, and what it passes over is the source of an opportunity.
THEOREM ReportsAreTrue == Spec => []ReportIsTrue
BY InvariantIsTrue, Invariance, PTL

\* reconcileOpportunities: a repair that was not truncated accounts for every
\* event of its window.
THEOREM RepairsAreComplete == Spec => []RepairIsComplete
BY InvariantIsComplete, Invariance, PTL
==============================================================================
