----------------------------- MODULE LateLabels -----------------------------
(***************************************************************************)
(* Late-arriving fraud labels: the audit run of one knowledge date (index, *)
(* detect, restate) over the lake tables it reads and writes, with task    *)
(* failures and retries, runs that fail for good, and operators who clear  *)
(* a past run or rewrite the baseline.                                     *)
(*                                                                         *)
(* A table is what its readers can tell apart.  A Spark DataFrame fixes    *)
(* the files it reads when it is created, so what a task computes from     *)
(* them (`changed`, `todo`) is held from that step to the writes; should   *)
(* the files be replaced meanwhile the task fails, which is TaskCrashes.   *)
(***************************************************************************)
EXTENDS Integers

CONSTANTS
  Txns,              \* the transactions whose labels move
  EventDay,          \* EventDay[t]: the partition (event date) of transaction t
  FirstDay, LastDay, \* partitions FirstDay..0 are the history, 1..LastDay the audited days
  RawLabels,         \* the values the source's is_fraud text column takes
  BaselineFirst,     \* the choices for "was --baseline run before the first audit run?"
  IngestDuringRuns,  \* whether raw/fraud_labels may be reloaded while a run is active
  Retries,           \* default_args["retries"] of the DAG
  MaxIngests,        \* bound: label reloads
  MaxCrashes,        \* bound: task crashes
  MaxOps             \* bound: operator interventions

Absent == "absent"                     \* no such row
Label == {"fraud", "legit", "null"}    \* is_fraud: TRUE, FALSE, NULL
Row == Label \cup {Absent}
Known == {"fraud", "legit"}
KDays == 1 .. LastDay
Partitions == FirstDay .. LastDay
HistoryDays == 0 .. LastDay            \* day 0: a baseline from before the first run
ChangeTypes == {"NEW_LABEL", "LABEL_CLEARED", "LABEL_CHANGED"}
Change == [txn : Txns, type : ChangeTypes, new : Label]
ChangeId == KDays \X Txns \X ChangeTypes
Snapshot == [part : Partitions, kd : KDays,
             type : {"AS_PREVIOUSLY_REPORTED", "RESTATED"}, fraud : SUBSET Txns]
Tasks == {"index", "detect", "restate"}
DetectSteps == {"detect", "manifest", "history", "detected"}
RestateSteps == {"restate", "before", "after", "stage", "refresh", "ledger", "applied"}
Steps == {"index"} \cup DetectSteps \cup RestateSteps

ASSUME LateLabelsAssumption ==
  /\ FirstDay \in Int /\ FirstDay <= 0
  /\ LastDay \in Nat
  /\ EventDay \in [Txns -> Partitions]
  /\ RawLabels \subseteq {"Yes", "No", "Blank", "Garbage"}
  /\ BaselineFirst \subseteq BOOLEAN
  /\ IngestDuringRuns \in BOOLEAN
  /\ Retries \in Nat
  /\ MaxIngests \in Nat
  /\ MaxCrashes \in Nat
  /\ MaxOps \in Nat

VARIABLES
  raw,        \* raw/fraud_labels: the source value of each transaction's label row
  loaded,     \* the partitions present in staging.transactions
  staging,    \* staging.transactions.is_fraud
  index,      \* warehouse.transaction_index.is_fraud
  history,    \* fraud_label_history: the newest row of a knowledge date and transaction
  manifest,   \* fraud_label_impact_manifest, by knowledge date
  ledger,     \* applied_change_ledger: number of APPLIED rows of a change_id
  snapshots,  \* daily_fraud_report_snapshots
  at,         \* the step the active run executes next, "idle" when there is none
  ds,         \* its knowledge date, 0 when there is none
  tries,      \* failed attempts of its current task
  changed,    \* detect: the changes the task computed
  impact,     \* detect: those of them whose transaction the index has
  todo,       \* restate: the pending changes the task read
  left,       \* restate: the partitions it has not finished
  runs,       \* outcome of the last run of each knowledge date
  ingests, crashes, ops   \* what the bounds count

lake == <<raw, loaded, staging, index, history, manifest, ledger, snapshots>>
job == <<at, ds, tries, changed, impact, todo, left>>
bounds == <<ingests, crashes, ops>>
vars == <<lake, job, runs, bounds>>
-----------------------------------------------------------------------------
(* Conversions. *)

\* _cast_label, and the cast of the historical enrichment.
CastLabel(r) ==
  CASE r = "Yes" -> "fraud"
    [] r = "No" -> "legit"
    [] OTHER -> "null"

\* The daily enrichment's cast: any text other than YES is FALSE, NULL stays NULL.
DailyLabel(r) ==
  CASE r = "Yes" -> "fraud"
    [] r \in {"No", "Garbage"} -> "legit"
    [] OTHER -> "null"

\* _read_latest_history: the label of the newest knowledge date that has a row.
LatestLabel(t) ==
  LET days == {d \in HistoryDays : history[d][t] # Absent}
  IN  IF days = {} THEN Absent
      ELSE history[CHOOSE d \in days : \A e \in days : e <= d][t]

NoHistory == \A d \in HistoryDays, t \in Txns : history[d][t] = Absent

\* The changed filter of detect_changes, null-safe; rows gone from raw are not seen.
IsChanged(t) ==
  /\ raw[t] # Absent
  /\ LatestLabel(t) \in {Absent, "null"} \/ LatestLabel(t) # CastLabel(raw[t])

Untyped(old, new) == "UNK"
ChangeType(old, new) ==
  CASE old \notin Known /\ new \in Known -> "NEW_LABEL"
    [] old \in Known /\ new \notin Known -> "LABEL_CLEARED"
    [] OTHER -> "LABEL_CHANGED"

\* One row per transaction: raw, the latest history and the index each have one.
DetectedChanges ==
  {[txn |-> t, new |-> CastLabel(raw[t]),
    type |-> ChangeType(LatestLabel(t), CastLabel(raw[t]))] : t \in {u \in Txns : IsChanged(u)}}

\* change_id: the knowledge date, the transaction and the kind of change.
Id(d, c) == <<d, c.txn, c.type>>

BaselineRows == [t \in Txns |-> IF raw[t] = Absent THEN Absent ELSE CastLabel(raw[t])]

\* Dynamic partition overwrite of the history partition d: no rows, no partition replaced.
BaselineHistory(d) ==
  IF \A t \in Txns : raw[t] = Absent THEN history ELSE [history EXCEPT ![d] = BaselineRows]
-----------------------------------------------------------------------------
(* The restatement of one partition. *)

\* The manifest rows of the date whose change_id has no APPLIED row (left_anti).
PendingUnfiltered == manifest[ds]
Pending == {c \in manifest[ds] : ledger[Id(ds, c)] = 0}

\* `for row in partitions`, in ascending order of date.
Current == CHOOSE p \in left : \A q \in left : p <= q
PartChanges == {c \in todo : EventDay[c.txn] = Current}

\* The updates join: a NULL new_is_fraud keeps the label the row has.
RestatedNullsToo(t) ==
  IF \E c \in PartChanges : c.txn = t
  THEN (CHOOSE c \in PartChanges : c.txn = t).new
  ELSE staging[t]
RestatedLabel(t) ==
  IF \E c \in PartChanges : c.txn = t /\ c.new \in Known
  THEN (CHOOSE c \in PartChanges : c.txn = t /\ c.new \in Known).new
  ELSE staging[t]

\* _fraud_report_snapshot of the current partition: the transactions that labels mark.
Report(type, labels) ==
  [part |-> Current, kd |-> ds, type |-> type,
   fraud |-> {t \in Txns : EventDay[t] = Current /\ labels[t] = "fraud"}]
Restated == [t \in Txns |-> RestatedLabel(t)]
-----------------------------------------------------------------------------
Init ==
  /\ raw \in [Txns -> RawLabels \cup {Absent}]
  /\ \E t \in Txns : raw[t] # Absent    \* the source has labels
  /\ loaded = FirstDay .. 0
  \* the full jobs: clean, enrich and index the historical partitions
  /\ staging = [t \in Txns |-> IF EventDay[t] > 0 THEN Absent
                               ELSE IF raw[t] = Absent THEN "null" ELSE CastLabel(raw[t])]
  /\ index = staging
  /\ \E b \in BaselineFirst :
       history = [d \in HistoryDays |-> IF b /\ d = 0 THEN BaselineRows
                                       ELSE [t \in Txns |-> Absent]]
  /\ manifest = [d \in KDays |-> {}]
  /\ ledger = [id \in ChangeId |-> 0]
  /\ snapshots = {}
  /\ at = "idle" /\ ds = 0 /\ tries = 0
  /\ changed = {} /\ impact = {} /\ todo = {} /\ left = {}
  /\ runs = [d \in KDays |-> "none"]
  /\ ingests = 0 /\ crashes = 0 /\ ops = 0

Idle == at = "idle"

(* The rest of the pipeline: fraud_data_pipeline's ingestion and daily load. *)

\* FraudLabelsIngester: the whole table is reloaded; one label moved at the source.
IngestLabels(t, r) ==
  /\ ingests < MaxIngests
  /\ Idle \/ IngestDuringRuns
  /\ r # raw[t]
  /\ raw' = [raw EXCEPT ![t] = r]
  /\ ingests' = ingests + 1
  /\ UNCHANGED <<loaded, staging, index, history, manifest, ledger, snapshots, job, runs,
                 crashes, ops>>

\* clean and enrich write the staging partition of a new day.
LoadDay(d) ==
  /\ d \notin loaded
  /\ loaded' = loaded \cup {d}
  /\ staging' = [t \in Txns |-> IF EventDay[t] # d THEN staging[t]
                                ELSE IF raw[t] = Absent THEN "null" ELSE DailyLabel(raw[t])]
  /\ UNCHANGED <<raw, index, history, manifest, ledger, snapshots, job, runs, bounds>>
-----------------------------------------------------------------------------
(* Runs of the DAG: max_active_runs = 1, so one starts only when none is active. *)

Start(d, step) ==
  /\ Idle
  /\ at' = step /\ ds' = d /\ tries' = 0
  /\ changed' = {} /\ impact' = {} /\ todo' = {} /\ left' = {}
  /\ UNCHANGED lake

\* The scheduler; catchup=False: a date that a later run overtook is never scheduled.
Schedule(d) ==
  /\ \A e \in KDays : e >= d => runs[e] = "none"
  /\ Start(d, "index")
  /\ UNCHANGED <<runs, bounds>>

\* An operator clears a task of a past run, and with it the tasks downstream.
Clear(d, task) ==
  /\ ops < MaxOps
  /\ runs[d] # "none"
  /\ Start(d, task)
  /\ ops' = ops + 1
  /\ UNCHANGED <<runs, ingests, crashes>>

\* detect_fraud_label_changes.py --baseline d, by hand.
Rebaseline(d) ==
  /\ ops < MaxOps
  /\ Idle
  /\ history' = BaselineHistory(d)
  /\ ops' = ops + 1
  /\ UNCHANGED <<raw, loaded, staging, index, manifest, ledger, snapshots, job, runs,
                 ingests, crashes>>

TaskOf(step) ==
  CASE step = "index" -> "index"
    [] step \in DetectSteps -> "detect"
    [] OTHER -> "restate"

\* The run is over; the tasks behind restate do not touch these tables.
EndRun(outcome) ==
  /\ runs' = [runs EXCEPT ![ds] = outcome]
  /\ at' = "idle" /\ ds' = 0 /\ tries' = 0
  /\ changed' = {} /\ impact' = {} /\ todo' = {} /\ left' = {}

\* The current task failed: it starts over, or the run fails with it.
FailTask ==
  IF tries < Retries
  THEN /\ at' = TaskOf(at) /\ tries' = tries + 1
       /\ changed' = {} /\ impact' = {} /\ todo' = {} /\ left' = {}
       /\ UNCHANGED <<ds, runs>>
  ELSE EndRun(TaskOf(at))

\* A task dies before the write of its current step; the writes behind it stay.
TaskCrashes ==
  /\ ~Idle
  /\ crashes < MaxCrashes
  /\ FailTask
  /\ crashes' = crashes + 1
  /\ UNCHANGED <<lake, ingests, ops>>
-----------------------------------------------------------------------------
(* build_transaction_index *)

\* The task, daily mode: build_index_day reads the partition's directory without basePath,
\* where year, month and day are no columns, and then selects them: every attempt raises.
IndexRaises ==
  /\ at = "index"
  /\ FailTask
  /\ UNCHANGED <<lake, bounds>>

\* build_transaction_index.py --full, by hand: what staging has replaces the same partitions
\* of the index.
BuildIndex ==
  /\ index' = [t \in Txns |-> IF staging[t] # Absent THEN staging[t] ELSE index[t]]
  /\ UNCHANGED <<raw, loaded, staging, history, manifest, ledger, snapshots, job, runs, bounds>>

\* The operator marks the failed task as succeeded and the tasks behind it run, the dates in
\* their order.  No run gets beyond its index otherwise, so this is not counted as an
\* intervention; a date behind a later one is (Clear).
MarkIndexed(d) ==
  /\ runs[d] = "index"
  /\ \A e \in KDays : e > d => runs[e] \in {"none", "index"}
  /\ Start(d, "detect")
  /\ UNCHANGED <<runs, bounds>>

(* detect_changes *)

\* No history at all: the task records a baseline, leaves the manifest and succeeds.
DetectBaseline ==
  /\ at = "detect"
  /\ NoHistory
  /\ history' = BaselineHistory(ds)
  /\ at' = "detected"
  /\ UNCHANGED <<raw, loaded, staging, index, manifest, ledger, snapshots, ds, tries, changed,
                 impact, todo, left, runs, bounds>>

DetectCompareHistoryFirst ==
  /\ at = "detect"
  /\ ~NoHistory
  /\ changed' = DetectedChanges
  /\ impact' = {c \in changed' : index[c.txn] # Absent}
  /\ history' = [history EXCEPT ![ds] = [t \in Txns |->
       IF \E c \in DetectedChanges : c.txn = t THEN CastLabel(raw[t]) ELSE @[t]]]
  /\ at' = "manifest"
  /\ UNCHANGED <<raw, loaded, staging, index, manifest, ledger, snapshots, ds, tries, todo,
                 left, runs, bounds>>

DetectCompare ==
  /\ at = "detect"
  /\ ~NoHistory
  /\ changed' = DetectedChanges
  /\ impact' = {c \in changed' : index[c.txn] # Absent}
  /\ at' = "manifest"
  /\ UNCHANGED <<lake, ds, tries, todo, left, runs, bounds>>

\* Dynamic partition overwrite: with no row to write, the date's old rows stay.
WriteManifest ==
  /\ at = "manifest"
  /\ manifest' = IF impact = {} THEN manifest ELSE [manifest EXCEPT ![ds] = impact]
  /\ at' = "history"
  /\ UNCHANGED <<raw, loaded, staging, index, history, ledger, snapshots, ds, tries, changed,
                 impact, todo, left, runs, bounds>>

\* Every changed row is appended, indexed or not; the newest row of a date counts.
AppendHistory ==
  /\ at = "history"
  /\ history' = [history EXCEPT ![ds] = [t \in Txns |->
       IF \E c \in changed : c.txn = t THEN (CHOOSE c \in changed : c.txn = t).new ELSE @[t]]]
  /\ at' = "detected" /\ changed' = {}
  /\ UNCHANGED <<raw, loaded, staging, index, manifest, ledger, snapshots, ds, tries, impact,
                 todo, left, runs, bounds>>

\* The task exits; a worker lost before this still has it retried from the top.
DetectDone ==
  /\ at = "detected"
  /\ at' = "restate" /\ tries' = 0 /\ impact' = {}
  /\ UNCHANGED <<lake, ds, changed, todo, left, runs, bounds>>
-----------------------------------------------------------------------------
(* restate *)

\* No manifest partition, or nothing pending in it: the task and the run succeed.
RestateNothing ==
  /\ at = "restate"
  /\ Pending = {}
  /\ EndRun("done")
  /\ UNCHANGED <<lake, bounds>>

RestatePlan ==
  /\ at = "restate"
  /\ Pending # {}
  /\ todo' = Pending
  /\ left' = {EventDay[c.txn] : c \in Pending}
  /\ at' = "before"
  /\ UNCHANGED <<lake, ds, tries, changed, impact, runs, bounds>>

SnapshotBefore ==
  /\ at = "before"
  /\ snapshots' = snapshots \cup {Report("AS_PREVIOUSLY_REPORTED", staging)}
  /\ at' = "after"
  /\ UNCHANGED <<raw, loaded, staging, index, history, manifest, ledger, ds, tries, changed,
                 impact, todo, left, runs, bounds>>

SnapshotAfterOldLabels ==
  /\ at = "after"
  /\ snapshots' = snapshots \cup {Report("RESTATED", staging)}
  /\ at' = "stage"
  /\ UNCHANGED <<raw, loaded, staging, index, history, manifest, ledger, ds, tries, changed,
                 impact, todo, left, runs, bounds>>

\* The RESTATED report is appended ahead of the partition it reports.
SnapshotAfter ==
  /\ at = "after"
  /\ snapshots' = snapshots \cup {Report("RESTATED", Restated)}
  /\ at' = "stage"
  /\ UNCHANGED <<raw, loaded, staging, index, history, manifest, ledger, ds, tries, changed,
                 impact, todo, left, runs, bounds>>

OverwriteStagingUnchanged ==
  /\ at = "stage"
  /\ at' = "refresh"
  /\ UNCHANGED <<lake, ds, tries, changed, impact, todo, left, runs, bounds>>

OverwriteStaging ==
  /\ at = "stage"
  /\ staging' = Restated
  /\ at' = "refresh"
  /\ UNCHANGED <<raw, loaded, index, history, manifest, ledger, snapshots, ds, tries, changed,
                 impact, todo, left, runs, bounds>>

\* The index partition gets the restated labels, or any exception skips the refresh.
RefreshIndex ==
  /\ at = "refresh"
  /\ \/ index' = [t \in Txns |-> IF EventDay[t] = Current /\ index[t] # Absent
                                 THEN staging[t] ELSE index[t]]
     \/ UNCHANGED index
  /\ at' = "ledger"
  /\ UNCHANGED <<raw, loaded, staging, history, manifest, ledger, snapshots, ds, tries,
                 changed, impact, todo, left, runs, bounds>>

AppendLedgerFirstPartitionOnly ==
  /\ at = "ledger"
  /\ ledger' = [id \in ChangeId |->
                  IF \E c \in PartChanges : Id(ds, c) = id THEN ledger[id] + 1 ELSE ledger[id]]
  /\ left' = {}
  /\ at' = "applied"
  /\ UNCHANGED <<raw, loaded, staging, index, history, manifest, snapshots, ds, tries, changed,
                 impact, todo, runs, bounds>>

\* The APPLIED rows of the partition's changes, then the next partition.
AppendLedger ==
  /\ at = "ledger"
  /\ ledger' = [id \in ChangeId |->
                  IF \E c \in PartChanges : Id(ds, c) = id THEN ledger[id] + 1 ELSE ledger[id]]
  /\ left' = left \ {Current}
  /\ at' = IF left' = {} THEN "applied" ELSE "before"
  /\ UNCHANGED <<raw, loaded, staging, index, history, manifest, snapshots, ds, tries, changed,
                 impact, todo, runs, bounds>>

RestateDone ==
  /\ at = "applied"
  /\ EndRun("done")
  /\ UNCHANGED <<lake, bounds>>
-----------------------------------------------------------------------------
JobStep ==
  \/ IndexRaises
  \/ DetectBaseline \/ DetectCompare \/ WriteManifest \/ AppendHistory \/ DetectDone
  \/ RestateNothing \/ RestatePlan
  \/ SnapshotBefore \/ SnapshotAfter \/ OverwriteStaging \/ RefreshIndex \/ AppendLedger
  \/ RestateDone

Next ==
  \/ \E t \in Txns, r \in RawLabels \cup {Absent} : IngestLabels(t, r)
  \/ \E d \in Partitions : LoadDay(d)
  \/ \E d \in KDays : Schedule(d)
  \/ \E d \in KDays, task \in Tasks : Clear(d, task)
  \/ \E d \in KDays : Rebaseline(d)
  \/ BuildIndex
  \/ \E d \in KDays : MarkIndexed(d)
  \/ TaskCrashes
  \/ JobStep

Spec == Init /\ [][Next]_vars

\* Airflow and Spark drive an active task on; nothing promises a new run or an operator.
FairSpec == Spec /\ WF_vars(JobStep)
-----------------------------------------------------------------------------
(* Properties *)

\* Every variable keeps its type.
TypeOK ==
  /\ raw \in [Txns -> RawLabels \cup {Absent}]
  /\ loaded \subseteq Partitions
  /\ staging \in [Txns -> Row]
  /\ index \in [Txns -> Row]
  /\ history \in [HistoryDays -> [Txns -> Row]]
  /\ manifest \in [KDays -> SUBSET Change]
  /\ ledger \in [ChangeId -> Nat]
  /\ snapshots \subseteq Snapshot
  /\ at \in Steps \cup {"idle"}
  /\ ds \in KDays \cup {0}
  /\ (ds = 0) <=> Idle
  /\ tries \in 0 .. Retries
  /\ changed \subseteq Change
  /\ impact \subseteq Change
  /\ todo \subseteq Change
  /\ left \subseteq Partitions
  /\ runs \in [KDays -> Tasks \cup {"none", "done"}]
  /\ ingests \in 0 .. MaxIngests
  /\ crashes \in 0 .. MaxCrashes
  /\ ops \in 0 .. MaxOps

\* "already-APPLIED change_ids are skipped": whatever crashes, retries and clears happen,
\* the ledger never has two APPLIED rows of one change_id.
LedgerOnce == \A id \in ChangeId : ledger[id] <= 1

\* A change becomes APPLIED only once staging has its label and the RESTATED report of
\* that date and partition, with the figures staging then shows, is on record.
AppliedAfterReported ==
  [][\A c \in todo : ledger'[Id(ds, c)] # ledger[Id(ds, c)] =>
       /\ c.new \in Known => staging[c.txn] = c.new
       /\ Report("RESTATED", staging) \in snapshots
       /\ \E s \in snapshots :
            s.part = Current /\ s.kd = ds /\ s.type = "AS_PREVIOUSLY_REPORTED"]_vars

\* A label that is in staging moves only to the label of a change that the manifest of the
\* active knowledge date lists for the transaction and the ledger does not have.
OnlyListedChangesRestate ==
  [][\A t \in Txns : staging[t] # Absent /\ staging'[t] # staging[t] =>
       /\ ~Idle
       /\ \E c \in manifest[ds] : /\ c.txn = t /\ staging'[t] = c.new /\ c.new \in Known
                                 /\ ledger[Id(ds, c)] = 0]_vars

\* What the history knows and staging does not show is still to be applied: some manifest
\* lists it without an APPLIED row.  (Crashes and failed runs lose no detected change.)
NoDetectedChangeLost ==
  \A t \in Txns :
    staging[t] # Absent /\ LatestLabel(t) \in Known /\ staging[t] # LatestLabel(t) =>
      \E d \in KDays : \E c \in manifest[d] :
        c.txn = t /\ c.new = LatestLabel(t) /\ ledger[Id(d, c)] = 0

\* A label enters the history only once the manifest of the date lists the change, for every
\* transaction the index had when the run compared: a detection that dies between its two
\* writes leaves the change to be detected again, with sources reloaded meanwhile or not.
RecordedIsListed ==
  [][\A c \in impact' : history'[ds][c.txn] # history[ds][c.txn] => c \in manifest'[ds]]_vars

\* A restatement under way: the manifest has one change per transaction and only of
\* transactions in staging; until a partition is finished its changes are listed and not in
\* the ledger; the two reports and the new labels are on record before the step that
\* relies on them.
OnePerTxn(S) == \A c1, c2 \in S : c1.txn = c2.txn => c1 = c2
ChangesWellFormed ==
  /\ OnePerTxn(changed)
  /\ OnePerTxn(impact) /\ \A c \in impact : EventDay[c.txn] \in loaded
  /\ \A t \in Txns : index[t] # Absent \/ staging[t] # Absent => EventDay[t] \in loaded
  /\ \A d \in KDays : OnePerTxn(manifest[d]) /\ \A c \in manifest[d] : EventDay[c.txn] \in loaded
TodoOpen ==
  at \in {"before", "after", "stage", "refresh", "ledger"} =>
    /\ todo \subseteq manifest[ds]
    /\ left # {} /\ left \subseteq {EventDay[c.txn] : c \in todo}
    /\ \A c \in todo : EventDay[c.txn] \in left => ledger[Id(ds, c)] = 0
ReportsFirst ==
  /\ at \in {"after", "stage", "refresh", "ledger"} =>
       \E s \in snapshots : s.part = Current /\ s.kd = ds /\ s.type = "AS_PREVIOUSLY_REPORTED"
  /\ at \in {"stage", "refresh", "ledger"} => Report("RESTATED", Restated) \in snapshots
  /\ at \in {"refresh", "ledger"} => staging = Restated
RestateInv == ChangesWellFormed /\ TodoOpen /\ ReportsFirst

\* A run that has reached its restate task either records every change of its manifest as
\* APPLIED or fails in that task; it never stops half way or ends well with some left.
RestateSettles ==
  \A d \in KDays :
    (ds = d /\ at \in RestateSteps) ~>
      \/ \A c \in manifest[d] : ledger[Id(d, c)] > 0
      \/ runs[d] = "restate" /\ Idle

\* "Update staging.transactions.is_fraud from new_is_fraud": while every label is known, a
\* change that becomes APPLIED is in staging.  (A LABEL_CLEARED change is not.)
AppliedMeansStaged ==
  [][\A c \in todo : ledger'[Id(ds, c)] # ledger[Id(ds, c)] => staging[c.txn] = c.new]_vars
=============================================================================
