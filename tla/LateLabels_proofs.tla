-------------------------- MODULE LateLabels_proofs --------------------------
(***************************************************************************)
(* What LateLabels promises for every set of transactions, every number of *)
(* days and every bound: types, the restatement invariant, the ledger's    *)
(* at-most-once, the order of reports, labels and ledger rows; that it     *)
(* implements the abstract label store; that the history never runs ahead  *)
(* of the manifest; and, where all labels of the source are Yes or No,     *)
(* that an applied change is staged.                                       *)
(***************************************************************************)
EXTENDS LateLabelsStore, WellFoundedInduction, TLAPS

\* Restating works through the partitions in date order: a non-empty set of dates that
\* starts somewhere has an earliest one.
LEMMA EarliestExists ==
  ASSUME NEW lo \in Int, NEW S \in SUBSET Int, S # {}, \A x \in S : lo <= x
  PROVE  \E m \in S : \A n \in S : m <= n
<1> DEFINE T == {x - lo : x \in S}
<1>1. \A x \in S : x - lo \in Nat
  OBVIOUS
<1>2. T \subseteq Nat /\ T # {}
  BY <1>1
<1>3. IsWellFoundedOn(OpToRel(<, Nat), Nat)
  BY NatLessThanWellFounded
<1>4. PICK m \in T : \A n \in T : ~ (<<n, m>> \in OpToRel(<, Nat))
  <2> HIDE DEF T
  <2> QED BY <1>2, <1>3, WFMin
<1>5. \A n \in T : ~(n < m)
  <2> HIDE DEF T
  <2> QED BY <1>2, <1>4 DEF OpToRel
<1>6. PICK x \in S : m = x - lo
  BY <1>4
<1>7. \A y \in S : ~(y - lo < x - lo)
  BY <1>5, <1>6
<1>8. \A y \in S : x <= y
  BY <1>7
<1> QED BY <1>8

LEMMA CurrentIsLeft == TypeOK /\ left # {} => Current \in left
<1> SUFFICES ASSUME TypeOK, left # {} PROVE Current \in left
  OBVIOUS
<1>1. left \in SUBSET Int /\ \A x \in left : FirstDay <= x
  BY LateLabelsAssumption DEF TypeOK, Partitions
<1>2. \E p \in left : \A q \in left : p <= q
  BY <1>1, EarliestExists, LateLabelsAssumption
<1> QED BY <1>2 DEF Current
-----------------------------------------------------------------------------
(* Types *)

LEMMA ReportIsSnapshot ==
  ASSUME TypeOK, left # {}, ds \in KDays,
         NEW type \in {"AS_PREVIOUSLY_REPORTED", "RESTATED"}, NEW labels
  PROVE  Report(type, labels) \in Snapshot
<1>1. Current \in Partitions
  BY CurrentIsLeft DEF TypeOK
<1> QED BY <1>1 DEF Report, Snapshot

LEMMA RestatedIsRow == TypeOK => Restated \in [Txns -> Row]
<1> SUFFICES ASSUME TypeOK, NEW t \in Txns PROVE RestatedLabel(t) \in Row
  BY DEF Restated
<1>1. staging[t] \in Row
  BY DEF TypeOK
<1>2. CASE \E c \in PartChanges : c.txn = t /\ c.new \in Known
  <2>1. PICK c \in PartChanges : c.txn = t /\ c.new \in Known
         /\ c = CHOOSE d \in PartChanges : d.txn = t /\ d.new \in Known
    BY <1>2
  <2>2. RestatedLabel(t) = c.new
    BY <1>2, <2>1 DEF RestatedLabel
  <2> QED BY <2>1, <2>2 DEF Known, Row, Label
<1>3. CASE ~ \E c \in PartChanges : c.txn = t /\ c.new \in Known
  BY <1>1, <1>3 DEF RestatedLabel
<1> QED BY <1>2, <1>3

LEMMA DetectedAreChanges == DetectedChanges \subseteq Change
<1>1. \A r : CastLabel(r) \in Label
  BY DEF CastLabel, Label
<1>2. \A old, new : ChangeType(old, new) \in ChangeTypes
  BY DEF ChangeType, ChangeTypes
<1> QED BY <1>1, <1>2 DEF DetectedChanges, Change

LEMMA BaselineHistoryType ==
  ASSUME TypeOK, NEW d \in KDays
  PROVE  BaselineHistory(d) \in [HistoryDays -> [Txns -> Row]]
<1>1. \A r : CastLabel(r) \in Label
  BY DEF CastLabel, Label
<1>2. BaselineRows \in [Txns -> Row]
  BY <1>1 DEF BaselineRows, Row
<1>3. d \in HistoryDays
  BY LateLabelsAssumption DEF KDays, HistoryDays
<1> QED BY <1>2, <1>3 DEF BaselineHistory, TypeOK

LEMMA InitType == Init => TypeOK
<1> SUFFICES ASSUME Init PROVE TypeOK
  OBVIOUS
<1>1. \A r : CastLabel(r) \in Label
  BY DEF CastLabel, Label
<1>2. staging \in [Txns -> Row] /\ index \in [Txns -> Row]
  BY <1>1 DEF Init, Row, Label
<1>3. BaselineRows \in [Txns -> Row]
  BY <1>1 DEF BaselineRows, Row
<1>4. history \in [HistoryDays -> [Txns -> Row]]
  BY <1>3 DEF Init, Row
<1>5. loaded \subseteq Partitions
  BY LateLabelsAssumption DEF Init, Partitions
<1>6. snapshots \subseteq Snapshot /\ changed \subseteq Change /\ impact \subseteq Change
      /\ todo \subseteq Change
      /\ left \subseteq Partitions
  BY DEF Init
<1>7. manifest \in [KDays -> SUBSET Change] /\ ledger \in [ChangeId -> Nat]
      /\ runs \in [KDays -> Tasks \cup {"none", "done"}]
  BY DEF Init
<1> QED BY <1>2, <1>4, <1>5, <1>6, <1>7, LateLabelsAssumption DEF Init, TypeOK, Idle

LEMMA FailTaskType ==
  ASSUME TypeOK, ~Idle, FailTask
  PROVE  /\ at' \in Steps \cup {"idle"} /\ ds' \in KDays \cup {0} /\ ((ds = 0) <=> Idle)'
         /\ tries' \in 0 .. Retries /\ changed' \subseteq Change /\ impact' \subseteq Change
         /\ todo' \subseteq Change /\ left' \subseteq Partitions
         /\ runs' \in [KDays -> Tasks \cup {"none", "done"}]
<1>1. TaskOf(at) \in Tasks /\ TaskOf(at) \in Steps /\ TaskOf(at) # "idle"
  BY DEF TaskOf, Tasks, Steps, DetectSteps, RestateSteps
<1>2. ds \in KDays
  BY DEF TypeOK
<1>3. CASE tries < Retries
  BY <1>1, <1>2, <1>3, LateLabelsAssumption DEF FailTask, TypeOK, Idle, KDays
<1>4. CASE ~(tries < Retries)
  <2>1. EndRun(TaskOf(at))
    BY <1>4 DEF FailTask
  <2> QED BY <1>1, <1>2, <2>1, LateLabelsAssumption DEF EndRun, TypeOK, Idle
<1> QED BY <1>3, <1>4
-----------------------------------------------------------------------------
IInv == TypeOK /\ RestateInv /\ LedgerOnce

LEMMA TypeStep == IInv /\ [Next]_vars => TypeOK'
<1> SUFFICES ASSUME IInv, [Next]_vars PROVE TypeOK'
  OBVIOUS
<1>0. TypeOK
  BY DEF IInv
<1>1. ASSUME NEW t \in Txns, NEW r \in RawLabels \cup {Absent}, IngestLabels(t, r) PROVE TypeOK'
  BY <1>0, <1>1, LateLabelsAssumption DEF IngestLabels, TypeOK, job, Idle
<1>2. ASSUME NEW d \in Partitions, LoadDay(d) PROVE TypeOK'
  <2>1. staging' \in [Txns -> Row]
    BY <1>0, <1>2 DEF LoadDay, TypeOK, DailyLabel, Row, Label
  <2>2. loaded' \subseteq Partitions
    BY <1>0, <1>2 DEF LoadDay, TypeOK
  <2> QED BY <1>0, <1>2, <2>1, <2>2 DEF LoadDay, TypeOK, job, bounds, Idle
<1>3. ASSUME NEW d \in KDays, Schedule(d) PROVE TypeOK'
  BY <1>0, <1>3, LateLabelsAssumption
     DEF Schedule, Start, TypeOK, lake, bounds, Idle, Steps, KDays
<1>4. ASSUME NEW d \in KDays, NEW task \in Tasks, Clear(d, task) PROVE TypeOK'
  BY <1>0, <1>4, LateLabelsAssumption
     DEF Clear, Start, TypeOK, lake, Idle, Steps, Tasks, DetectSteps, RestateSteps, KDays
<1>5. ASSUME NEW d \in KDays, Rebaseline(d) PROVE TypeOK'
  BY <1>0, <1>5, BaselineHistoryType, LateLabelsAssumption DEF Rebaseline, TypeOK, job, Idle
<1>6. CASE TaskCrashes
  BY <1>0, <1>6, FailTaskType, LateLabelsAssumption DEF TaskCrashes, TypeOK, lake
<1>7. CASE JobStep
  <2>2. CASE IndexRaises
    <3>1. ~Idle
      BY <2>2 DEF IndexRaises, Idle
    <3> QED BY <1>0, <2>2, <3>1, FailTaskType DEF IndexRaises, TypeOK, lake, bounds
  <2>3. CASE DetectBaseline
    <3>1. ds \in KDays
      BY <1>0, <2>3 DEF DetectBaseline, TypeOK, Idle
    <3>2. history' \in [HistoryDays -> [Txns -> Row]]
      BY <1>0, <2>3, <3>1, BaselineHistoryType DEF DetectBaseline
    <3> QED BY <1>0, <2>3, <3>1, <3>2 DEF DetectBaseline, TypeOK, bounds, Idle, Steps, DetectSteps
  <2>4. CASE DetectCompare
    <3>1. changed' \subseteq Change /\ impact' \subseteq Change
      BY <2>4, DetectedAreChanges DEF DetectCompare
    <3> QED BY <1>0, <2>4, <3>1 DEF DetectCompare, TypeOK, lake, bounds, Idle, Steps, DetectSteps
  <2>5. CASE WriteManifest
    <3>1. manifest' \in [KDays -> SUBSET Change]
      BY <1>0, <2>5 DEF WriteManifest, TypeOK
    <3> QED BY <1>0, <2>5, <3>1 DEF WriteManifest, TypeOK, bounds, Idle, Steps, DetectSteps
  <2>6. CASE AppendHistory
    <3>1. \A t \in Txns : (\E c \in changed : c.txn = t) =>
            (CHOOSE c \in changed : c.txn = t).new \in Row
      BY <1>0 DEF TypeOK, Change, Row
    <3>2. history' \in [HistoryDays -> [Txns -> Row]]
      BY <1>0, <2>6, <3>1 DEF AppendHistory, TypeOK
    <3> QED BY <1>0, <2>6, <3>2 DEF AppendHistory, TypeOK, bounds, Idle, Steps, DetectSteps
  <2>7. CASE DetectDone
    BY <1>0, <2>7, LateLabelsAssumption
       DEF DetectDone, TypeOK, lake, bounds, Idle, Steps, RestateSteps
  <2>8. CASE RestateNothing
    BY <1>0, <2>8, LateLabelsAssumption DEF RestateNothing, EndRun, TypeOK, lake, bounds, Idle, KDays
  <2>9. CASE RestatePlan
    <3>1. Pending \subseteq Change
      BY <1>0, <2>9 DEF RestatePlan, Pending, TypeOK, Idle
    <3>2. left' \subseteq Partitions
      BY <2>9, <3>1, LateLabelsAssumption DEF RestatePlan, Change
    <3> QED BY <1>0, <2>9, <3>1, <3>2
            DEF RestatePlan, TypeOK, lake, bounds, Idle, Steps, RestateSteps
  <2>10. CASE SnapshotBefore
    <3>1. Report("AS_PREVIOUSLY_REPORTED", staging) \in Snapshot
      BY <1>0, <2>10, ReportIsSnapshot DEF SnapshotBefore, IInv, RestateInv, TodoOpen, TypeOK, Idle
    <3> QED BY <1>0, <2>10, <3>1 DEF SnapshotBefore, TypeOK, bounds, Idle, Steps, RestateSteps
  <2>11. CASE SnapshotAfter
    <3>1. Report("RESTATED", Restated) \in Snapshot
      BY <1>0, <2>11, ReportIsSnapshot DEF SnapshotAfter, IInv, RestateInv, TodoOpen, TypeOK, Idle
    <3> QED BY <1>0, <2>11, <3>1 DEF SnapshotAfter, TypeOK, bounds, Idle, Steps, RestateSteps
  <2>12. CASE OverwriteStaging
    BY <1>0, <2>12, RestatedIsRow DEF OverwriteStaging, TypeOK, bounds, Idle, Steps, RestateSteps
  <2>13. CASE RefreshIndex
    <3>1. index' \in [Txns -> Row]
      BY <1>0, <2>13 DEF RefreshIndex, TypeOK
    <3> QED BY <1>0, <2>13, <3>1 DEF RefreshIndex, TypeOK, bounds, Idle, Steps, RestateSteps
  <2>14. CASE AppendLedger
    <3>1. ledger' \in [ChangeId -> Nat]
      BY <1>0, <2>14 DEF AppendLedger, TypeOK
    <3> QED BY <1>0, <2>14, <3>1 DEF AppendLedger, TypeOK, bounds, Idle, Steps, RestateSteps
  <2>15. CASE RestateDone
    BY <1>0, <2>15, LateLabelsAssumption DEF RestateDone, EndRun, TypeOK, lake, bounds, Idle, KDays
  <2> QED BY <1>7, <2>2, <2>3, <2>4, <2>5, <2>6, <2>7, <2>8, <2>9, <2>10, <2>11, <2>12,
             <2>13, <2>14, <2>15 DEF JobStep
<1>8. CASE UNCHANGED vars
  BY <1>0, <1>8 DEF vars, lake, job, bounds, TypeOK, Idle
<1>9. CASE BuildIndex
  <2>1. index' \in [Txns -> Row]
    BY <1>0, <1>9 DEF BuildIndex, TypeOK
  <2> QED BY <1>0, <1>9, <2>1 DEF BuildIndex, TypeOK, job, bounds, Idle
<1>10. ASSUME NEW d \in KDays, MarkIndexed(d) PROVE TypeOK'
  BY <1>0, <1>10, LateLabelsAssumption
     DEF MarkIndexed, Start, TypeOK, lake, bounds, Idle, Steps, DetectSteps, KDays
<1> QED BY <1>1, <1>2, <1>3, <1>4, <1>5, <1>6, <1>7, <1>8, <1>9, <1>10 DEF Next
-----------------------------------------------------------------------------
(* The restatement under way *)

\* Outside a restatement only the tables of changes matter to the invariant.
LEMMA NotRestating ==
  ASSUME ChangesWellFormed', at' \notin {"before", "after", "stage", "refresh", "ledger"}
  PROVE  RestateInv'
BY DEF RestateInv, TodoOpen, ReportsFirst

\* A step that leaves all of it alone; of the index only which transactions it has matters.
LEMMA IndexUntied ==
  ASSUME RestateInv,
         \A t \in Txns : index'[t] # Absent => index[t] # Absent \/ staging[t] # Absent,
         UNCHANGED <<loaded, staging, manifest, ledger, snapshots, at, ds, changed,
                     impact, todo, left>>
  PROVE  RestateInv'
<1>1. ChangesWellFormed'
  BY DEF RestateInv, ChangesWellFormed, OnePerTxn
<1>2. TodoOpen'
  BY DEF RestateInv, TodoOpen, Id
<1>3. ReportsFirst'
  BY DEF RestateInv, ReportsFirst, Report, Restated, RestatedLabel, PartChanges, Current
<1> QED BY <1>1, <1>2, <1>3 DEF RestateInv

LEMMA RestateUntouched ==
  ASSUME RestateInv,
         UNCHANGED <<loaded, staging, index, manifest, ledger, snapshots, at, ds, changed,
                     impact, todo, left>>
  PROVE  RestateInv'
BY IndexUntied

\* A task that fails drops what it had planned.
LEMMA FailTaskLeavesRestating ==
  ASSUME FailTask
  PROVE  /\ at' \notin {"before", "after", "stage", "refresh", "ledger"}
         /\ changed' = {} /\ impact' = {}
BY DEF FailTask, EndRun, TaskOf

\* The partition in hand is loaded: its changes are of transactions staging has.
LEMMA CurrentIsLoaded ==
  ASSUME TypeOK, RestateInv, at \in {"before", "after", "stage", "refresh", "ledger"}
  PROVE  /\ Current \in left /\ Current \in loaded
         /\ \A c \in todo : EventDay[c.txn] \in loaded
<1>1. ds \in KDays
  BY DEF TypeOK, Idle
<1>2. \A c \in todo : EventDay[c.txn] \in loaded
  BY <1>1 DEF RestateInv, TodoOpen, ChangesWellFormed
<1>3. Current \in left
  BY CurrentIsLeft DEF RestateInv, TodoOpen
<1> QED BY <1>2, <1>3 DEF RestateInv, TodoOpen

\* The first write of a day touches none of the rows a restatement is working on.
LEMMA LoadDayKeepsRestating ==
  ASSUME TypeOK, RestateInv, NEW d \in Partitions, LoadDay(d)
  PROVE  RestateInv'
<1>0. UNCHANGED <<index, manifest, ledger, snapshots, at, ds, changed,
                     impact, todo, left>>
  BY DEF LoadDay, job
<1>1. ChangesWellFormed'
  BY <1>0 DEF LoadDay, RestateInv, ChangesWellFormed, OnePerTxn
<1>2. TodoOpen'
  BY <1>0 DEF RestateInv, TodoOpen, Id
<1>3. ASSUME at \in {"before", "after", "stage", "refresh", "ledger"} PROVE ReportsFirst'
  <2>1. Current' = Current /\ PartChanges' = PartChanges /\ Current # d
    BY <1>0, <1>3, CurrentIsLoaded DEF Current, PartChanges, LoadDay
  <2>2. \A t \in Txns : EventDay[t] # d => staging'[t] = staging[t]
    BY DEF LoadDay
  <2>3. \A c \in PartChanges : EventDay[c.txn] # d
    BY <2>1 DEF PartChanges
  <2>4. \A t \in Txns : EventDay[t] # d => RestatedLabel(t)' = RestatedLabel(t)
    BY <2>1, <2>2 DEF RestatedLabel
  <2>5. \A t \in Txns : EventDay[t] = d => RestatedLabel(t)' = staging'[t]
    BY <2>1, <2>3 DEF RestatedLabel
  <2>6. Report("RESTATED", Restated)' = Report("RESTATED", Restated)
    BY <1>0, <2>1, <2>4 DEF Report, Restated
  <2>7. staging = Restated => staging' = Restated'
    <3> SUFFICES ASSUME staging = Restated, NEW t \in Txns PROVE staging'[t] = RestatedLabel(t)'
      BY DEF Restated, LoadDay
    <3>1. staging[t] = RestatedLabel(t)
      BY DEF Restated
    <3> QED BY <2>2, <2>4, <2>5, <3>1
  <2> QED BY <1>0, <2>1, <2>6, <2>7 DEF RestateInv, ReportsFirst
<1>4. CASE at \notin {"before", "after", "stage", "refresh", "ledger"}
  BY <1>0, <1>1, <1>4, NotRestating
<1> QED BY <1>1, <1>2, <1>3, <1>4 DEF RestateInv

LEMMA DetectedOnePerTxn == OnePerTxn(DetectedChanges)
BY DEF OnePerTxn, DetectedChanges
LEMMA RestateStep == IInv /\ [Next]_vars => RestateInv'
<1> SUFFICES ASSUME IInv, [Next]_vars PROVE RestateInv'
  OBVIOUS
<1>0. TypeOK /\ RestateInv /\ TypeOK'
  BY TypeStep DEF IInv
<1>1. ASSUME NEW t \in Txns, NEW r \in RawLabels \cup {Absent}, IngestLabels(t, r) PROVE RestateInv'
  BY <1>0, <1>1, RestateUntouched DEF IngestLabels, job
<1>2. ASSUME NEW d \in Partitions, LoadDay(d) PROVE RestateInv'
  BY <1>0, <1>2, LoadDayKeepsRestating
<1>3. ASSUME NEW d \in KDays, NEW step \in Tasks, Start(d, step) PROVE RestateInv'
  <2>1. ChangesWellFormed'
    BY <1>0, <1>3 DEF Start, lake, RestateInv, ChangesWellFormed, OnePerTxn
  <2> QED BY <1>3, <2>1, NotRestating DEF Start, Tasks
<1>4. ASSUME NEW d \in KDays, Rebaseline(d) PROVE RestateInv'
  BY <1>0, <1>4, RestateUntouched DEF Rebaseline, job
<1>5. ASSUME FailTask, UNCHANGED lake PROVE RestateInv'
  <2>1. ChangesWellFormed'
    BY <1>0, <1>5, FailTaskLeavesRestating DEF lake, RestateInv, ChangesWellFormed, OnePerTxn
  <2> QED BY <1>5, <2>1, NotRestating, FailTaskLeavesRestating
<1>6. CASE JobStep
  <2>2. CASE IndexRaises
    BY <1>5, <2>2 DEF IndexRaises
  <2>3. CASE DetectBaseline
    <3>1. ChangesWellFormed'
      BY <1>0, <2>3 DEF DetectBaseline, RestateInv, ChangesWellFormed, OnePerTxn
    <3> QED BY <2>3, <3>1, NotRestating DEF DetectBaseline
  <2>4. CASE DetectCompare
    <3>1. /\ OnePerTxn(changed') /\ OnePerTxn(impact')
          /\ \A c \in impact' : EventDay[c.txn] \in loaded
      <4>1. OnePerTxn(changed') /\ OnePerTxn(impact')
        BY <2>4, DetectedOnePerTxn DEF DetectCompare, OnePerTxn
      <4>2. \A c \in impact' : c.txn \in Txns /\ index[c.txn] # Absent
        BY <2>4, DetectedAreChanges DEF DetectCompare, Change
      <4> QED BY <1>0, <4>1, <4>2 DEF RestateInv, ChangesWellFormed
    <3>2. ChangesWellFormed'
      BY <1>0, <2>4, <3>1 DEF DetectCompare, lake, RestateInv, ChangesWellFormed, OnePerTxn
    <3> QED BY <2>4, <3>2, NotRestating DEF DetectCompare
  <2>5. CASE WriteManifest
    <3>1. ASSUME NEW d \in KDays
          PROVE  OnePerTxn(manifest'[d]) /\ \A c \in manifest'[d] : EventDay[c.txn] \in loaded
      <4>1. manifest'[d] = manifest[d] \/ manifest'[d] = impact
        BY <1>0, <2>5 DEF WriteManifest, TypeOK
      <4>2. CASE manifest'[d] = manifest[d]
        BY <1>0, <3>1, <4>2 DEF RestateInv, ChangesWellFormed
      <4>3. CASE manifest'[d] = impact
        BY <1>0, <4>3 DEF RestateInv, ChangesWellFormed, OnePerTxn, TypeOK, Change
      <4> QED BY <4>1, <4>2, <4>3
    <3>2. ChangesWellFormed'
      BY <1>0, <2>5, <3>1 DEF WriteManifest, RestateInv, ChangesWellFormed, OnePerTxn
    <3> QED BY <2>5, <3>2, NotRestating DEF WriteManifest
  <2>6. CASE AppendHistory
    <3>1. ChangesWellFormed'
      BY <1>0, <2>6 DEF AppendHistory, RestateInv, ChangesWellFormed, OnePerTxn
    <3> QED BY <2>6, <3>1, NotRestating DEF AppendHistory
  <2>7. CASE DetectDone
    <3>1. ChangesWellFormed'
      BY <1>0, <2>7 DEF DetectDone, lake, RestateInv, ChangesWellFormed, OnePerTxn
    <3> QED BY <2>7, <3>1, NotRestating DEF DetectDone
  <2>8. CASE RestateNothing \/ RestateDone
    <3>1. ChangesWellFormed'
      BY <1>0, <2>8 DEF RestateNothing, RestateDone, EndRun, lake, RestateInv,
                        ChangesWellFormed, OnePerTxn
    <3> QED BY <2>8, <3>1, NotRestating DEF RestateNothing, RestateDone, EndRun
  <2>9. CASE RestatePlan
    <3>1. ChangesWellFormed'
      BY <1>0, <2>9 DEF RestatePlan, lake, RestateInv, ChangesWellFormed, OnePerTxn
    <3>2. TodoOpen'
      BY <2>9 DEF RestatePlan, Pending, lake, TodoOpen, Id
    <3>3. ReportsFirst'
      BY <2>9 DEF RestatePlan, ReportsFirst
    <3> QED BY <3>1, <3>2, <3>3 DEF RestateInv
  <2>10. CASE SnapshotBefore
    <3>1. ChangesWellFormed'
      BY <1>0, <2>10 DEF SnapshotBefore, RestateInv, ChangesWellFormed, OnePerTxn
    <3>2. TodoOpen'
      BY <1>0, <2>10 DEF SnapshotBefore, RestateInv, TodoOpen, Id
    <3>3. ReportsFirst'
      <4>1. Current' = Current /\ ds' = ds
        BY <2>10 DEF SnapshotBefore, Current
      <4>2. \E s \in snapshots' :
              s.part = Current /\ s.kd = ds /\ s.type = "AS_PREVIOUSLY_REPORTED"
        <5> DEFINE r == Report("AS_PREVIOUSLY_REPORTED", staging)
        <5>1. r \in snapshots'
          BY <2>10 DEF SnapshotBefore
        <5>2. r.part = Current /\ r.kd = ds /\ r.type = "AS_PREVIOUSLY_REPORTED"
          BY DEF Report
        <5> HIDE DEF r
        <5> QED BY <5>1, <5>2
      <4> QED BY <2>10, <4>1, <4>2 DEF SnapshotBefore, ReportsFirst
    <3> QED BY <3>1, <3>2, <3>3 DEF RestateInv
  <2>11. CASE SnapshotAfter
    <3>1. ChangesWellFormed'
      BY <1>0, <2>11 DEF SnapshotAfter, RestateInv, ChangesWellFormed, OnePerTxn
    <3>2. TodoOpen'
      BY <1>0, <2>11 DEF SnapshotAfter, RestateInv, TodoOpen, Id
    <3>3. ReportsFirst'
      <4>1. Current' = Current /\ ds' = ds
        BY <2>11 DEF SnapshotAfter, Current
      <4>2. Report("RESTATED", Restated)' = Report("RESTATED", Restated)
        BY <2>11, <4>1 DEF SnapshotAfter, Report, Restated, RestatedLabel, PartChanges
      <4>3. \E s \in snapshots' :
              s.part = Current /\ s.kd = ds /\ s.type = "AS_PREVIOUSLY_REPORTED"
        BY <1>0, <2>11 DEF SnapshotAfter, RestateInv, ReportsFirst
      <4> QED BY <2>11, <4>1, <4>2, <4>3 DEF SnapshotAfter, ReportsFirst
    <3> QED BY <3>1, <3>2, <3>3 DEF RestateInv
  <2>12. CASE OverwriteStaging
    <3>1. ChangesWellFormed'
      <4>1. \A t \in Txns : staging'[t] # staging[t] => EventDay[t] \in loaded
        BY <1>0, <2>12, CurrentIsLoaded DEF OverwriteStaging, Restated, RestatedLabel, PartChanges
      <4> QED BY <1>0, <2>12, <4>1 DEF OverwriteStaging, RestateInv, ChangesWellFormed, OnePerTxn
    <3>2. TodoOpen'
      BY <1>0, <2>12 DEF OverwriteStaging, RestateInv, TodoOpen, Id
    <3>3. ReportsFirst'
      <4>1. Current' = Current /\ ds' = ds /\ PartChanges' = PartChanges /\ snapshots' = snapshots
        BY <2>12 DEF OverwriteStaging, Current, PartChanges
      <4>2. ASSUME NEW t \in Txns PROVE RestatedLabel(t)' = RestatedLabel(t)
        BY <2>12, <4>1 DEF OverwriteStaging, RestatedLabel, Restated
      <4>3. Restated' = Restated
        BY <4>2 DEF Restated
      <4>4. Report("RESTATED", Restated)' = Report("RESTATED", Restated)
        BY <4>1, <4>3 DEF Report
      <4> QED BY <1>0, <2>12, <4>1, <4>3, <4>4 DEF OverwriteStaging, RestateInv, ReportsFirst
    <3> QED BY <3>1, <3>2, <3>3 DEF RestateInv
  <2>13. CASE RefreshIndex
    <3>1. \A t \in Txns : index'[t] # Absent => index[t] # Absent
      BY <2>13 DEF RefreshIndex
    <3>2. ChangesWellFormed'
      BY <1>0, <2>13, <3>1 DEF RefreshIndex, RestateInv, ChangesWellFormed, OnePerTxn
    <3>3. TodoOpen'
      BY <1>0, <2>13 DEF RefreshIndex, RestateInv, TodoOpen, Id
    <3>4. ReportsFirst'
      <4>1. Current' = Current /\ ds' = ds /\ PartChanges' = PartChanges /\ staging' = staging
            /\ snapshots' = snapshots
        BY <2>13 DEF RefreshIndex, Current, PartChanges
      <4>2. Restated' = Restated /\ Report("RESTATED", Restated)' = Report("RESTATED", Restated)
        BY <4>1 DEF Restated, RestatedLabel, Report
      <4> QED BY <1>0, <2>13, <4>1, <4>2 DEF RefreshIndex, RestateInv, ReportsFirst
    <3> QED BY <3>2, <3>3, <3>4 DEF RestateInv
  <2>14. CASE AppendLedger
    <3>1. ChangesWellFormed'
      BY <1>0, <2>14 DEF AppendLedger, RestateInv, ChangesWellFormed, OnePerTxn
    <3>2. TodoOpen'
      <4>1. at = "ledger" /\ ds \in KDays /\ todo' = todo /\ manifest' = manifest /\ ds' = ds
        BY <1>0, <2>14 DEF AppendLedger, TypeOK, Idle
      <4>2. ASSUME NEW c \in todo, EventDay[c.txn] \in left' PROVE ledger'[Id(ds, c)] = 0
        <5>1. EventDay[c.txn] \in left /\ EventDay[c.txn] # Current
          BY <2>14, <4>2 DEF AppendLedger
        <5>2. Id(ds, c) \in ChangeId
          BY <1>0, <4>1, <4>2 DEF TypeOK, Change, Id, ChangeId
        <5>3. ~ \E d \in PartChanges : Id(ds, d) = Id(ds, c)
          BY <5>1 DEF PartChanges, Id
        <5> QED BY <1>0, <2>14, <4>1, <4>2, <5>1, <5>2, <5>3 DEF AppendLedger, RestateInv, TodoOpen
      <4>3. \A c \in todo : Id(ds, c)' = Id(ds, c)
        BY <4>1 DEF Id
      <4> QED BY <1>0, <2>14, <4>1, <4>2, <4>3 DEF AppendLedger, RestateInv, TodoOpen
    <3>3. ReportsFirst'
      BY <2>14 DEF AppendLedger, ReportsFirst
    <3> QED BY <3>1, <3>2, <3>3 DEF RestateInv
  <2> QED BY <1>6, <2>2, <2>3, <2>4, <2>5, <2>6, <2>7, <2>8, <2>9, <2>10, <2>11, <2>12,
             <2>13, <2>14 DEF JobStep
<1>7. CASE UNCHANGED vars
  BY <1>0, <1>7, RestateUntouched DEF vars, lake, job
<1>8. ASSUME NEW d \in KDays, Schedule(d) PROVE RestateInv'
  BY <1>3, <1>8 DEF Schedule, Tasks
<1>9. ASSUME NEW d \in KDays, NEW task \in Tasks, Clear(d, task) PROVE RestateInv'
  BY <1>3, <1>9 DEF Clear
<1>10. CASE TaskCrashes
  BY <1>5, <1>10 DEF TaskCrashes
<1>11. CASE BuildIndex
  <2>1. \A t \in Txns : index'[t] # Absent => index[t] # Absent \/ staging[t] # Absent
    BY <1>11 DEF BuildIndex
  <2> QED BY <1>0, <1>11, <2>1, IndexUntied DEF BuildIndex, job
<1>12. ASSUME NEW d \in KDays, MarkIndexed(d) PROVE RestateInv'
  BY <1>3, <1>12 DEF MarkIndexed, Tasks
<1> QED BY <1>1, <1>2, <1>4, <1>6, <1>7, <1>8, <1>9, <1>10, <1>11, <1>12 DEF Next
-----------------------------------------------------------------------------
(* The ledger *)

LEMMA LedgerStep == IInv /\ [Next]_vars => LedgerOnce'
<1> SUFFICES ASSUME IInv, [Next]_vars PROVE LedgerOnce'
  OBVIOUS
<1>1. CASE AppendLedger
  <2> SUFFICES ASSUME NEW id \in ChangeId PROVE ledger'[id] <= 1
    BY DEF LedgerOnce
  <2>1. CASE \E c \in PartChanges : Id(ds, c) = id
    <3>1. PICK c \in PartChanges : Id(ds, c) = id
      BY <2>1
    <3>2. c \in todo /\ EventDay[c.txn] \in left
      BY <1>1, <3>1, CurrentIsLoaded DEF AppendLedger, PartChanges, IInv
    <3>3. ledger[id] = 0
      BY <1>1, <3>1, <3>2 DEF AppendLedger, IInv, RestateInv, TodoOpen
    <3> QED BY <1>1, <2>1, <3>3 DEF AppendLedger
  <2>2. CASE ~ \E c \in PartChanges : Id(ds, c) = id
    BY <1>1, <2>2 DEF AppendLedger, IInv, LedgerOnce
  <2> QED BY <2>1, <2>2
<1>2. CASE ~AppendLedger
  <2>1. ledger' = ledger
    BY <1>2 DEF Next, vars, lake, job, bounds, IngestLabels, LoadDay, Schedule, Clear,
       MarkIndexed, Start, Rebaseline, TaskCrashes, JobStep, BuildIndex, IndexRaises,
       DetectBaseline, DetectCompare,
       WriteManifest, AppendHistory, DetectDone, RestateNothing, RestatePlan, SnapshotBefore,
       SnapshotAfter, OverwriteStaging, RefreshIndex, RestateDone
  <2> QED BY <2>1 DEF IInv, LedgerOnce
<1> QED BY <1>1, <1>2

LEMMA InitIInv == Init => IInv
<1> SUFFICES ASSUME Init PROVE IInv
  OBVIOUS
<1>1. TypeOK
  BY InitType
<1>2. LedgerOnce
  BY DEF Init, LedgerOnce
<1>3. \A t \in Txns : index[t] # Absent \/ staging[t] # Absent => EventDay[t] \in loaded
  BY LateLabelsAssumption DEF Init, Partitions
<1>4. ChangesWellFormed
  BY <1>3 DEF Init, ChangesWellFormed, OnePerTxn
<1>5. TodoOpen /\ ReportsFirst
  BY DEF Init, TodoOpen, ReportsFirst
<1> QED BY <1>1, <1>2, <1>4, <1>5 DEF IInv, RestateInv

LEMMA Inductive == Spec => []IInv
<1>1. Init => IInv
  BY InitIInv
<1>2. IInv /\ [Next]_vars => IInv'
  BY TypeStep, RestateStep, LedgerStep DEF IInv
<1> QED BY <1>1, <1>2, PTL DEF Spec

\* Every variable keeps its type, for any number of transactions, days and interventions.
THEOREM TypeCorrect == Spec => []TypeOK
<1>1. IInv => TypeOK
  BY DEF IInv
<1> QED BY <1>1, Inductive, PTL

\* The ledger never has two APPLIED rows of one change, whatever crashes and is run again.
THEOREM LedgerAtMostOnce == Spec => []LedgerOnce
<1>1. IInv => LedgerOnce
  BY DEF IInv
<1> QED BY <1>1, Inductive, PTL

\* At each step of a restatement what the step relies on is on record.
THEOREM RestateInvariant == Spec => []RestateInv
<1>1. IInv => RestateInv
  BY DEF IInv
<1> QED BY <1>1, Inductive, PTL

-----------------------------------------------------------------------------
(* Order of labels, reports and ledger rows *)

LEMMA LedgerMovesOnlyThere ==
  ASSUME [Next]_vars, ledger' # ledger
  PROVE  AppendLedger
BY DEF Next, vars, lake, job, bounds, IngestLabels, LoadDay, Schedule, Clear, MarkIndexed, Start,
   Rebaseline, TaskCrashes, JobStep, BuildIndex, IndexRaises, DetectBaseline, DetectCompare,
   WriteManifest, AppendHistory, DetectDone, RestateNothing, RestatePlan, SnapshotBefore,
   SnapshotAfter, OverwriteStaging, RefreshIndex, RestateDone

\* The restated label of a transaction is that of its one change, unless that is NULL.
LEMMA RestatedIsNew ==
  ASSUME TypeOK, RestateInv, at \in {"stage", "refresh", "ledger"},
         NEW c \in PartChanges, c.new \in Known
  PROVE  RestatedLabel(c.txn) = c.new
<1>1. OnePerTxn(todo)
  BY DEF TypeOK, Idle, RestateInv, TodoOpen, ChangesWellFormed, OnePerTxn
<1>2. \A d \in PartChanges : d.txn = c.txn => d = c
  BY <1>1 DEF PartChanges, OnePerTxn
<1> QED BY <1>2 DEF RestatedLabel

\* A change is recorded as APPLIED only after staging shows its label and both reports of
\* the restatement are on record.
THEOREM AppliedOnlyAfterReport == Spec => AppliedAfterReported
<1> DEFINE Ordered ==
      \A c \in todo : ledger'[Id(ds, c)] # ledger[Id(ds, c)] =>
        /\ c.new \in Known => staging[c.txn] = c.new
        /\ Report("RESTATED", staging) \in snapshots
        /\ \E s \in snapshots : s.part = Current /\ s.kd = ds /\ s.type = "AS_PREVIOUSLY_REPORTED"
<1>1. ASSUME IInv, [Next]_vars PROVE Ordered
  <2> SUFFICES ASSUME NEW c \in todo, ledger'[Id(ds, c)] # ledger[Id(ds, c)]
               PROVE  /\ c.new \in Known => staging[c.txn] = c.new
                      /\ Report("RESTATED", staging) \in snapshots
                      /\ \E s \in snapshots : /\ s.part = Current /\ s.kd = ds
                                               /\ s.type = "AS_PREVIOUSLY_REPORTED"
    OBVIOUS
  <2>1. AppendLedger
    BY <1>1, LedgerMovesOnlyThere
  <2>2. at = "ledger" /\ c \in Change /\ ds \in KDays
    BY <1>1, <2>1 DEF AppendLedger, IInv, TypeOK, Idle
  <2>3. PICK d \in PartChanges : Id(ds, d) = Id(ds, c)
    <3>1. Id(ds, c) \in ChangeId
      BY <2>2 DEF Id, ChangeId, Change
    <3> QED BY <2>1, <3>1 DEF AppendLedger
  <2>4. c \in PartChanges
    BY <2>3 DEF PartChanges, Id
  <2>5. staging = Restated
    BY <1>1, <2>2 DEF IInv, RestateInv, ReportsFirst
  <2>6. c.new \in Known => staging[c.txn] = c.new
    BY <1>1, <2>2, <2>4, <2>5, RestatedIsNew DEF IInv, Restated, Change
  <2> QED BY <1>1, <2>2, <2>5, <2>6 DEF IInv, RestateInv, ReportsFirst
<1>2. IInv /\ [Next]_vars => [Ordered]_vars
  BY <1>1
<1> QED BY <1>2, Inductive, PTL DEF AppliedAfterReported, Spec

LEMMA StagingMovesOnlyThere ==
  ASSUME [Next]_vars, staging' # staging
  PROVE  OverwriteStaging \/ \E d \in Partitions : LoadDay(d)
BY DEF Next, vars, lake, job, bounds, IngestLabels, Schedule, Clear, MarkIndexed, Start,
   Rebaseline, TaskCrashes, JobStep, BuildIndex, IndexRaises, DetectBaseline, DetectCompare,
   WriteManifest, AppendHistory, DetectDone, RestateNothing, RestatePlan, SnapshotBefore,
   SnapshotAfter, RefreshIndex, AppendLedger, RestateDone

\* No label of a staged transaction moves but to that of a change the active date's manifest
\* lists and the ledger does not have.
THEOREM OnlyListedRestated == Spec => OnlyListedChangesRestate
<1> DEFINE Listed ==
      \A t \in Txns : staging[t] # Absent /\ staging'[t] # staging[t] =>
        /\ ~Idle
        /\ \E c \in manifest[ds] : /\ c.txn = t /\ staging'[t] = c.new /\ c.new \in Known
                                  /\ ledger[Id(ds, c)] = 0
<1>1. ASSUME IInv, [Next]_vars PROVE Listed
  <2> SUFFICES ASSUME NEW t \in Txns, staging[t] # Absent, staging'[t] # staging[t]
               PROVE  /\ ~Idle
                      /\ \E c \in manifest[ds] : /\ c.txn = t /\ staging'[t] = c.new
                                                /\ c.new \in Known /\ ledger[Id(ds, c)] = 0
    OBVIOUS
  <2>1. EventDay[t] \in loaded
    BY <1>1 DEF IInv, RestateInv, ChangesWellFormed
  <2>2. ~ \E d \in Partitions : LoadDay(d)
    BY <2>1 DEF LoadDay
  <2>3. OverwriteStaging
    BY <1>1, <2>2, StagingMovesOnlyThere
  <2>4. staging'[t] = RestatedLabel(t)
    BY <2>3 DEF OverwriteStaging, Restated
  <2>5. PICK c \in PartChanges : c.txn = t /\ c.new \in Known /\ RestatedLabel(t) = c.new
    BY <2>4 DEF RestatedLabel
  <2>6. c \in todo /\ EventDay[c.txn] \in left
    BY <1>1, <2>3, <2>5, CurrentIsLoaded DEF OverwriteStaging, PartChanges, IInv
  <2>7. c \in manifest[ds] /\ ledger[Id(ds, c)] = 0
    BY <1>1, <2>3, <2>6 DEF OverwriteStaging, IInv, RestateInv, TodoOpen
  <2>8. ~Idle
    BY <2>3 DEF OverwriteStaging, Idle
  <2> QED BY <2>4, <2>5, <2>7, <2>8
<1>2. IInv /\ [Next]_vars => [Listed]_vars
  BY <1>1
<1> QED BY <1>2, Inductive, PTL DEF OnlyListedChangesRestate, Spec
-----------------------------------------------------------------------------
(* The abstract store: an open change stays open until its ledger row, and the ledger
   row is written while staging is what the restatement computed. *)

LEMMA StoreInit == Init => Store!Init
<1> SUFFICES ASSUME Init PROVE Store!Init
  OBVIOUS
<1>1. staging \in [Txns -> Row]
  BY InitType DEF TypeOK
<1>2. appliedIds = {}
  BY DEF Init, appliedIds
<1> QED BY <1>1, <1>2 DEF Init, Store!Init, Store!Row, Row, Label, Known

\* A change is open in the store exactly when the ledger counts no row of it.
LEMMA OpenUnapplied ==
  ASSUME TypeOK, NEW d \in KDays, NEW c \in manifest[d]
  PROVE  c \in Store!Open(d) <=> ledger[Id(d, c)] = 0
<1>1. Id(d, c) \in ChangeId /\ ledger[Id(d, c)] \in Nat
  BY DEF TypeOK, Id, ChangeId, Change
<1>2. Store!Key(d, c) = Id(d, c)
  BY DEF Store!Key, Id
<1> QED BY <1>1, <1>2 DEF Store!Open, appliedIds

\* The overwrite of a partition is a Relabel.
LEMMA StageRelabels ==
  ASSUME IInv, OverwriteStaging
  PROVE  Store!Relabel(ds)
<1>0. TypeOK /\ RestateInv /\ at = "stage" /\ ds \in KDays
  BY DEF IInv, OverwriteStaging, TypeOK, Idle
<1> DEFINE S == {c \in PartChanges : c.new \in Known}
<1>1. S \in SUBSET Store!Open(ds)
  <2> SUFFICES ASSUME NEW c \in PartChanges PROVE c \in Store!Open(ds)
    OBVIOUS
  <2>1. c \in todo /\ EventDay[c.txn] \in left
    BY <1>0, CurrentIsLoaded DEF PartChanges
  <2>2. c \in manifest[ds] /\ ledger[Id(ds, c)] = 0
    BY <1>0, <2>1 DEF RestateInv, TodoOpen
  <2> QED BY <1>0, <2>2, OpenUnapplied
<1>2. \A t \in Txns : staging'[t] = IF \E c \in S : c.txn = t
                                    THEN (CHOOSE c \in S : c.txn = t).new ELSE staging[t]
  <2> SUFFICES ASSUME NEW t \in Txns
               PROVE  RestatedLabel(t) = IF \E c \in S : c.txn = t
                                         THEN (CHOOSE c \in S : c.txn = t).new ELSE staging[t]
    BY DEF OverwriteStaging, Restated
  <2>1. CASE \E c \in S : c.txn = t
    <3>1. PICK c \in S : c.txn = t /\ c = CHOOSE e \in S : e.txn = t
      BY <2>1
    <3>2. RestatedLabel(t) = c.new
      BY <1>0, <3>1, RestatedIsNew
    <3> QED BY <2>1, <3>1, <3>2
  <2>2. CASE ~ \E c \in S : c.txn = t
    BY <2>2 DEF RestatedLabel
  <2> QED BY <2>1, <2>2
<1>3. staging' = [t \in Txns |-> IF \E c \in S : c.txn = t
                                 THEN (CHOOSE c \in S : c.txn = t).new ELSE staging[t]]
  <2>1. staging' = Restated
    BY DEF OverwriteStaging
  <2> HIDE DEF S
  <2> QED BY <1>2, <2>1 DEF Restated
<1>4. \A t \in Txns : staging'[t] # staging[t] => staging'[t] \in Known
  BY <1>2
<1>5. UNCHANGED <<manifest, appliedIds>>
  BY DEF OverwriteStaging, appliedIds
<1> HIDE DEF S
<1> QED BY <1>1, <1>3, <1>4, <1>5 DEF Store!Relabel

\* The ledger's append is a Record.
LEMMA LedgerRecords ==
  ASSUME IInv, AppendLedger
  PROVE  Store!Record(ds)
<1>0. TypeOK /\ RestateInv /\ at = "ledger" /\ ds \in KDays
  BY DEF IInv, AppendLedger, TypeOK, Idle
<1>1. \A c \in PartChanges : c \in todo /\ c \in Change /\ EventDay[c.txn] \in left
  BY <1>0, CurrentIsLoaded DEF PartChanges, TypeOK
<1>2. PartChanges \in SUBSET Store!Open(ds)
  BY <1>0, <1>1, OpenUnapplied DEF RestateInv, TodoOpen
<1>3. \A c \in PartChanges : c.new \in Known => staging[c.txn] = c.new
  <2>1. staging = Restated
    BY <1>0 DEF RestateInv, ReportsFirst
  <2> QED BY <1>0, <1>1, <2>1, RestatedIsNew DEF Restated, Change
<1>4. appliedIds' = appliedIds \cup {Store!Key(ds, c) : c \in PartChanges}
  <2>1. \A c \in PartChanges : Store!Key(ds, c) = Id(ds, c) /\ Id(ds, c) \in ChangeId
    BY <1>0, <1>1 DEF Store!Key, Id, ChangeId, Change
  <2>2. ASSUME NEW id \in ChangeId
        PROVE  ledger'[id] > 0 <=> ledger[id] > 0 \/ \E c \in PartChanges : Id(ds, c) = id
    BY <1>0 DEF AppendLedger, TypeOK
  <2> QED BY <2>1, <2>2 DEF appliedIds
<1>5. UNCHANGED <<staging, manifest>>
  BY DEF AppendLedger
<1> QED BY <1>2, <1>3, <1>4, <1>5 DEF Store!Record

\* Every other step is invisible in the store.
LEMMA OtherStepsStutter ==
  ASSUME [Next]_vars, ~OverwriteStaging, ~AppendLedger, ~WriteManifest,
         ~ \E d \in Partitions : LoadDay(d)
  PROVE  UNCHANGED <<staging, manifest, ledger>>
BY DEF Next, vars, lake, job, bounds, IngestLabels, Schedule, Clear, MarkIndexed, Start, Rebaseline,
   TaskCrashes, JobStep, BuildIndex, IndexRaises, DetectBaseline, DetectCompare, AppendHistory,
   DetectDone, RestateNothing, RestatePlan, SnapshotBefore, SnapshotAfter, RefreshIndex, RestateDone

LEMMA StoreStep == IInv /\ [Next]_vars => [Store!Next]_Store!vars
<1> SUFFICES ASSUME IInv, [Next]_vars PROVE [Store!Next]_Store!vars
  OBVIOUS
<1>0. TypeOK /\ RestateInv /\ TypeOK' /\ (at # "idle" => ds \in KDays)
  BY TypeStep DEF IInv, TypeOK, Idle
<1>1. CASE OverwriteStaging
  BY <1>0, <1>1, StageRelabels DEF OverwriteStaging, Store!Next
<1>2. CASE AppendLedger
  BY <1>0, <1>2, LedgerRecords DEF AppendLedger, Store!Next
<1>3. CASE WriteManifest
  <2>1. ds \in KDays
    BY <1>0, <1>3 DEF WriteManifest
  <2>2. manifest' \in [KDays -> SUBSET Store!Change]
    BY <1>0 DEF TypeOK, Change, Store!Change, Label, Known
  <2>3. \A e \in KDays \ {ds} : manifest'[e] = manifest[e]
    BY <1>0, <1>3 DEF WriteManifest, TypeOK
  <2>4. UNCHANGED <<staging, appliedIds>>
    BY <1>3 DEF WriteManifest, appliedIds
  <2>5. Store!List(ds)
    BY <2>2, <2>3, <2>4 DEF Store!List
  <2> QED BY <2>1, <2>5 DEF Store!Next
<1>4. ASSUME NEW d \in Partitions, LoadDay(d) PROVE [Store!Next]_Store!vars
  <2>1. staging' \in [Txns -> Store!Row]
    BY <1>0 DEF TypeOK, Row, Label, Known, Store!Row
  <2>2. \A t \in Txns : staging[t] # Absent => staging'[t] = staging[t]
    BY <1>0, <1>4 DEF LoadDay, RestateInv, ChangesWellFormed
  <2>3. UNCHANGED <<manifest, appliedIds>>
    BY <1>4 DEF LoadDay, appliedIds
  <2> QED BY <2>1, <2>2, <2>3 DEF Store!Reveal, Store!Next
<1>5. CASE /\ ~OverwriteStaging /\ ~AppendLedger /\ ~WriteManifest
           /\ ~ \E d \in Partitions : LoadDay(d)
  <2>1. UNCHANGED <<staging, manifest, ledger>>
    BY <1>5, OtherStepsStutter
  <2> QED BY <2>1 DEF Store!vars, appliedIds
<1> QED BY <1>1, <1>2, <1>3, <1>4, <1>5

\* Refinement: every behaviour of the pipeline is, in staging, manifest and ledger, a
\* behaviour of the store.
THEOREM ImplementsStore == Spec => StoreSpec
<1>1. Init => Store!Init
  BY StoreInit
<1>2. IInv /\ [Next]_vars => [Store!Next]_Store!vars
  BY StoreStep
<1> QED BY <1>1, <1>2, Inductive, PTL DEF Spec, StoreSpec, Store!Spec
-----------------------------------------------------------------------------
(* Labels are known *)

AllKnown == RawLabels \subseteq {"Yes", "No"}

ChangesKnown ==
  /\ \A c \in changed \cup impact : c.new \in Known
  /\ \A d \in KDays : \A c \in manifest[d] : c.new \in Known

LEMMA CastIsKnown ==
  ASSUME AllKnown, TypeOK, NEW t \in Txns, raw[t] # Absent
  PROVE  CastLabel(raw[t]) \in Known
<1>1. raw[t] \in {"Yes", "No"}
  BY DEF TypeOK, AllKnown
<1> QED BY <1>1 DEF CastLabel, Known

LEMMA DetectedAreKnown ==
  ASSUME AllKnown, TypeOK
  PROVE  \A c \in DetectedChanges : c.new \in Known
BY CastIsKnown DEF DetectedChanges, IsChanged

LEMMA ManifestMovesOnlyThere ==
  ASSUME [Next]_vars, manifest' # manifest
  PROVE  WriteManifest
BY DEF Next, vars, lake, job, bounds, IngestLabels, LoadDay, Schedule, Clear, MarkIndexed, Start,
   Rebaseline, TaskCrashes, JobStep, BuildIndex, IndexRaises, DetectBaseline, DetectCompare,
   AppendHistory, DetectDone, RestateNothing, RestatePlan, SnapshotBefore, SnapshotAfter,
   OverwriteStaging, RefreshIndex, AppendLedger, RestateDone

LEMMA ChangedMovesOnlyThere ==
  ASSUME [Next]_vars, ~DetectCompare
  PROVE  /\ changed' = changed \/ changed' = {}
         /\ impact' = impact \/ impact' = {}
BY DEF Next, vars, lake, job, bounds, IngestLabels, LoadDay, Schedule, Clear, MarkIndexed, Start,
   Rebaseline, TaskCrashes, FailTask, EndRun, JobStep, BuildIndex, IndexRaises, DetectBaseline,
   WriteManifest, AppendHistory, DetectDone, RestateNothing, RestatePlan, SnapshotBefore,
   SnapshotAfter, OverwriteStaging, RefreshIndex, AppendLedger, RestateDone

LEMMA KnownStep ==
  ASSUME AllKnown, TypeOK, ChangesKnown, [Next]_vars
  PROVE  ChangesKnown'
<1>1. \A c \in changed' \cup impact' : c.new \in Known
  <2>1. CASE DetectCompare
    BY <2>1, DetectedAreKnown DEF DetectCompare
  <2>2. CASE ~DetectCompare
    <3>1. (changed' = changed \/ changed' = {}) /\ (impact' = impact \/ impact' = {})
      BY <2>2, ChangedMovesOnlyThere
    <3> QED BY <3>1 DEF ChangesKnown
  <2> QED BY <2>1, <2>2
<1>2. \A d \in KDays : \A c \in manifest'[d] : c.new \in Known
  <2>1. CASE WriteManifest
    <3>1. manifest' = IF impact = {} THEN manifest ELSE [manifest EXCEPT ![ds] = impact]
      BY <2>1 DEF WriteManifest
    <3>3. \A d \in KDays : manifest'[d] = manifest[d] \/ manifest'[d] = impact
      BY <3>1 DEF TypeOK
    <3> QED BY <3>3 DEF ChangesKnown
  <2>2. CASE ~WriteManifest
    BY <2>2, ManifestMovesOnlyThere DEF ChangesKnown
  <2> QED BY <2>1, <2>2
<1> QED BY <1>1, <1>2 DEF ChangesKnown

LEMMA KnownInit == Init => ChangesKnown
BY DEF Init, ChangesKnown

\* Where every label of the source is known, staging has the label of a change when the change
\* becomes APPLIED, whatever crashes, retries and operators.
THEOREM AppliedIsStaged == ASSUME AllKnown PROVE Spec => AppliedMeansStaged
<1> DEFINE Staged == \A c \in todo : ledger'[Id(ds, c)] # ledger[Id(ds, c)] => staging[c.txn] = c.new
<1>1. ASSUME IInv, ChangesKnown, [Next]_vars PROVE Staged
  <2> SUFFICES ASSUME NEW c \in todo, ledger'[Id(ds, c)] # ledger[Id(ds, c)]
               PROVE  staging[c.txn] = c.new
    OBVIOUS
  <2>1. AppendLedger
    BY <1>1, LedgerMovesOnlyThere
  <2>2. at = "ledger" /\ c \in Change /\ ds \in KDays /\ TypeOK /\ RestateInv
    BY <1>1, <2>1 DEF AppendLedger, IInv, TypeOK, Idle
  <2>3. PICK d \in PartChanges : Id(ds, d) = Id(ds, c)
    <3>1. Id(ds, c) \in ChangeId
      BY <2>2 DEF Id, ChangeId, Change
    <3> QED BY <2>1, <3>1 DEF AppendLedger
  <2>4. c \in PartChanges
    BY <2>3 DEF PartChanges, Id
  <2>5. c.new \in Known
    BY <1>1, <2>2 DEF RestateInv, TodoOpen, ChangesKnown
  <2>6. staging = Restated
    BY <2>2 DEF RestateInv, ReportsFirst
  <2> QED BY <2>2, <2>4, <2>5, <2>6, RestatedIsNew DEF Restated, Change
<1>2. IInv /\ ChangesKnown /\ [Next]_vars => [Staged]_vars
  BY <1>1
<1>3. IInv /\ ChangesKnown /\ [Next]_vars => ChangesKnown'
  BY KnownStep DEF IInv
<1> QED BY <1>2, <1>3, KnownInit, Inductive, PTL DEF AppliedMeansStaged, Spec
-----------------------------------------------------------------------------
(* Recording and listing *)

ImpactListed ==
  /\ impact # {} => at \in {"manifest", "history", "detected"}
  /\ at \in {"history", "detected"} => impact \subseteq manifest[ds]

LEMMA HistoryMovesOnlyThere ==
  ASSUME [Next]_vars, history' # history
  PROVE  AppendHistory \/ DetectBaseline \/ \E d \in KDays : Rebaseline(d)
BY DEF Next, vars, lake, job, bounds, IngestLabels, LoadDay, Schedule, Clear, MarkIndexed, Start,
   TaskCrashes, JobStep, BuildIndex, IndexRaises, DetectCompare, WriteManifest, DetectDone,
   RestateNothing, RestatePlan, SnapshotBefore, SnapshotAfter, OverwriteStaging, RefreshIndex,
   AppendLedger, RestateDone

\* Comparing sets the impact, the manifest takes it, and every other step that moves the
\* run on has none.
LEMMA ImpactStep == TypeOK /\ ImpactListed /\ [Next]_vars => ImpactListed'
<1> SUFFICES ASSUME TypeOK, ImpactListed, [Next]_vars PROVE ImpactListed'
  OBVIOUS
<1>1. CASE WriteManifest
  <2>1. ds \in KDays
    BY <1>1 DEF WriteManifest, TypeOK, Idle
  <2>2. impact # {} => manifest'[ds] = impact
    BY <1>1, <2>1 DEF WriteManifest, TypeOK
  <2> QED BY <1>1, <2>2 DEF WriteManifest, ImpactListed
<1>2. CASE UNCHANGED <<at, ds, impact, manifest>>
  BY <1>2 DEF ImpactListed
<1>3. CASE impact' = {}
  BY <1>3 DEF ImpactListed
<1>4. CASE DetectCompare \/ AppendHistory
  BY <1>4 DEF DetectCompare, AppendHistory, ImpactListed
<1>5. CASE \/ RestatePlan \/ SnapshotBefore \/ SnapshotAfter \/ OverwriteStaging
           \/ RefreshIndex \/ AppendLedger
  BY <1>5 DEF RestatePlan, SnapshotBefore, SnapshotAfter, OverwriteStaging, RefreshIndex,
     AppendLedger, ImpactListed
<1>6. CASE DetectBaseline
  BY <1>6 DEF DetectBaseline, ImpactListed
<1>7. \/ WriteManifest \/ UNCHANGED <<at, ds, impact, manifest>> \/ impact' = {}
      \/ DetectCompare \/ AppendHistory \/ DetectBaseline
      \/ RestatePlan \/ SnapshotBefore \/ SnapshotAfter \/ OverwriteStaging
      \/ RefreshIndex \/ AppendLedger
  BY DEF Next, vars, lake, job, bounds, IngestLabels, LoadDay, Schedule, Clear, MarkIndexed, Start,
     Rebaseline, TaskCrashes, FailTask, EndRun, JobStep, BuildIndex, IndexRaises, DetectDone,
     RestateNothing, RestateDone
<1> QED BY <1>1, <1>2, <1>3, <1>4, <1>5, <1>6, <1>7

LEMMA ImpactInit == Init => ImpactListed
BY DEF Init, ImpactListed

\* However tasks die, are retried and run again, with sources reloaded, days loaded and the
\* index rebuilt at any moment: no label the index could place enters the history ahead of the
\* manifest that lists its change.
THEOREM RecordedAfterListed == Spec => RecordedIsListed
<1> DEFINE Recorded ==
      \A c \in impact' : history'[ds][c.txn] # history[ds][c.txn] => c \in manifest'[ds]
<1>1. ASSUME ImpactListed, [Next]_vars PROVE Recorded
  <2> SUFFICES ASSUME NEW c \in impact', history'[ds][c.txn] # history[ds][c.txn]
               PROVE  c \in manifest'[ds]
    OBVIOUS
  <2>1. AppendHistory \/ DetectBaseline \/ \E d \in KDays : Rebaseline(d)
    BY <1>1, HistoryMovesOnlyThere
  <2>2. AppendHistory
    BY <1>1, <2>1 DEF DetectBaseline, Rebaseline, Idle, job, ImpactListed
  <2> QED BY <1>1, <2>2 DEF AppendHistory, ImpactListed
<1>2. ImpactListed /\ [Next]_vars => [Recorded]_vars
  BY <1>1
<1>3. IInv /\ ImpactListed /\ [Next]_vars => ImpactListed'
  BY ImpactStep DEF IInv
<1> QED BY <1>2, <1>3, ImpactInit, Inductive, PTL DEF RecordedIsListed, Spec
=============================================================================
