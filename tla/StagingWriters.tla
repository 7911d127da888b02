--------------------------- MODULE StagingWriters ---------------------------
(***************************************************************************)
(* Every writer of staging.transactions on one table: the daily runs       *)
(* (clean, enrich), the audit run (restate) and the scripts of the         *)
(* historical backfill.  Each replaces whole partitions by what it         *)
(* computed from files it read before, and no table is locked.             *)
(*                                                                         *)
(* A writer reads and computes in one step and commits in another, with    *)
(* any steps of the others in between.  A file that is replaced between    *)
(* the two and was not read yet fails the attempt, which Fails covers;     *)
(* what was read is committed.  Three variables only observe: `stale`,     *)
(* `overtaken` and `unlabelled`, and `torn` while a script joins labels.   *)
(***************************************************************************)
EXTENDS Integers, FiniteSets

CONSTANTS
  Txns,            \* valid transactions of the source
  EventDay,        \* EventDay[t]: the partition of transaction t
  LastDay,         \* the partitions are 1..LastDay, in the order of their paths
  Loaded,          \* the transactions that are staged and indexed at the start
  FirstLabels,     \* FirstLabels[t]: the label of transaction t at the start, 1 or NoLabel
  YearOf,          \* YearOf[p]: the year of partition p
  BackfillYears,   \* the years the historical enrichment scripts go through
  Batches,         \* the hash batches of enrich_fraud_labels
  BatchOf,         \* BatchOf[t]: pmod(hash(transaction_id), NUM_BATCHES)
  MaxReloads,      \* bound: the number of the last label reload
  MaxAtWork        \* bound: writers at work at one time

Partitions == 1 .. LastDay
Audit == 0
Backfill == -1
Writers == Partitions \cup {Audit, Backfill}    \* the daily run of date d is writer d

\* A label is the number of the reload that brought it.
NoLabel == 0       \* is_fraud is NULL, or there is no row in raw/fraud_labels
NoColumn == -1     \* the row's file has no column is_fraud
Absent == -2       \* no such row
Labels == NoLabel .. MaxReloads
Cells == Absent .. MaxReloads
NoRows == [t \in Txns |-> Absent]

DailySteps == {"clean", "enrich"}
AuditSteps == {"index", "detect", "restate", "partitions", "ledger"}
YearSteps == {"enrich_full_years", "fraud_labels_years"}
ScriptSteps == {"clean_full"} \cup YearSteps

ASSUME StagingWritersAssumption ==
  /\ LastDay \in Nat
  /\ EventDay \in [Txns -> Partitions]
  /\ Loaded \subseteq Txns
  /\ FirstLabels \in [Txns -> {0, 1}]
  /\ YearOf \in [Partitions -> Int]
  /\ BackfillYears \subseteq Nat
  /\ BatchOf \in [Txns -> Batches]
  /\ MaxReloads \in Nat \ {0}
  /\ MaxAtWork \in Nat

VARIABLES
  arrived,    \* raw transactions
  raw,        \* raw/fraud_labels
  reloads,    \* number of the last reload of raw/fraud_labels
  staging,    \* staging.transactions: the label of each row
  described,  \* the partitions of staging whose rows have mcc_description
  indexed,    \* the rows of warehouse.transaction_index
  history,    \* fraud_label_history: the latest label of each transaction
  manifest,   \* fraud_label_impact_manifest: the new label by knowledge date, NoLabel: no row
  applied,    \* applied_change_ledger: the APPLIED transactions by knowledge date
  batched,    \* .tmp/fraud_labels_batched
  at,         \* the step each writer is at
  opened,     \* the partitions each writer has read and not yet committed
  image,      \* the rows it has computed for them
  ds,         \* knowledge date of the last audit run
  left,       \* the partitions that run has yet to restate
  years,      \* the years the backfill script has yet to go through
  batches,    \* the batches it joins
  column,     \* enrich_full: does the schema it reads staging with have is_fraud?
  listed,     \* enrich_full: the partitions whose files it listed at its start;
              \* enrich_fraud_labels: those it is to write with the labels it has joined
  torn,       \* those that others have replaced since
  stale,      \* observed: the open partitions of a writer that others have replaced since
  overtaken,  \* observed: partitions written in spite of that, or from some of their
              \* batches only, and not cleaned since
  unlabelled  \* observed: partitions that lost their labels and were given none since

rows == <<staging, described>>
auditTables == <<indexed, history, manifest, applied>>
tables == <<arrived, raw, reloads, rows, auditTables, batched>>
audit == <<ds, left>>
script == <<years, batches, column>>
listing == <<listed, torn>>
watched == <<stale, overtaken>>
vars == <<tables, at, opened, image, audit, script, listing, watched, unlabelled>>
-----------------------------------------------------------------------------
RowsOf(P) == {t \in Txns : EventDay[t] \in P /\ staging[t] # Absent}
PartitionsOf(Y) == {p \in Partitions : YearOf[p] \in Y}
Image(S, label) == [t \in Txns |-> IF t \in S THEN label[t] ELSE Absent]

\* Without mergeSchema what is read has the columns of its first file in the order of paths.
First(P) == CHOOSE p \in P : RowsOf({p}) # {} /\ \A q \in P : RowsOf({q}) # {} => p <= q

\* Can partition p be read, and with is_fraud?
HasLabels(p) == RowsOf({p}) # {} /\ \A t \in RowsOf({p}) : staging[t] # NoColumn

\* Dynamic partition overwrite: only the partitions with a row to write are replaced.
Overwrite(img) ==
  [t \in Txns |-> IF \E u \in Txns : EventDay[u] = EventDay[t] /\ img[u] # Absent
                  THEN img[t] ELSE staging[t]]
Written(img) == {EventDay[t] : t \in {u \in Txns : img[u] # Absent}}

Begin(w, step) ==
  /\ at[w] = "idle"
  /\ Cardinality({v \in Writers : at[v] # "idle"}) < MaxAtWork
  /\ at' = [at EXCEPT ![w] = step]

\* Writer w reads P and computes img.
Read(w, P, img) ==
  /\ opened[w] = {}
  /\ opened' = [opened EXCEPT ![w] = P]
  /\ image' = [image EXCEPT ![w] = img]

\* The partitions in which the commit of w may take back what others have committed since it
\* read the rows or, for the script that joins labels, since it joined them; or in which it has
\* the rows of some batches only.
JoinsLabels(w) == w = Backfill /\ at[w] = "fraud_labels_years"
TakesBack(w) ==
  Written(image[w]) \cap
    (stale[w] \cup IF ~JoinsLabels(w) THEN {} ELSE IF batches = Batches THEN torn ELSE Partitions)

\* Writer w replaces what it read and goes on to the next step.
Commit(w, next) ==
  /\ opened[w] # {}
  /\ staging' = Overwrite(image[w])
  /\ opened' = [opened EXCEPT ![w] = {}]
  /\ image' = [image EXCEPT ![w] = NoRows]
  /\ at' = [at EXCEPT ![w] = next]
  /\ torn' = IF w = Backfill THEN torn ELSE torn \cup (Written(image[w]) \cap listed)
  /\ listed' = listed
  /\ stale' = [v \in Writers |->
                IF v = w THEN {} ELSE stale[v] \cup (Written(image[w]) \cap opened[v])]
  /\ overtaken' = (IF at[w] \in {"clean", "clean_full"} THEN overtaken \ Written(image[w])
                   ELSE overtaken) \cup TakesBack(w)
-----------------------------------------------------------------------------
Init ==
  /\ arrived = Loaded
  /\ raw = FirstLabels
  /\ reloads = 1
  /\ staging = Image(arrived, raw)
  /\ described = Written(staging)
  /\ indexed = arrived
  /\ history = raw
  /\ manifest = [d \in Partitions |-> [t \in Txns |-> NoLabel]]
  /\ applied = [d \in Partitions |-> {}]
  /\ batched = [t \in Txns |-> NoLabel]
  /\ at = [w \in Writers |-> "idle"]
  /\ opened = [w \in Writers |-> {}]
  /\ image = [w \in Writers |-> NoRows]
  /\ ds = 0
  /\ left = {}
  /\ years = {} /\ batches = {} /\ column = FALSE
  /\ listed = {} /\ torn = {}
  /\ stale = [w \in Writers |-> {}] /\ overtaken = {}
  /\ unlabelled = {}

(* The source and its ingestion *)

\* A transaction of any date reaches raw.
Arrive(t) ==
  /\ t \notin arrived
  /\ arrived' = arrived \cup {t}
  /\ UNCHANGED <<raw, reloads, rows, auditTables, batched, at, opened, image, audit, script,
                 listing, watched, unlabelled>>

\* FraudLabelsIngester replaces the table; one label is new or moved.
Reload(t) ==
  /\ reloads < MaxReloads
  /\ reloads' = reloads + 1
  /\ raw' = [raw EXCEPT ![t] = reloads + 1]
  /\ UNCHANGED <<arrived, rows, auditTables, batched, at, opened, image, audit, script,
                 listing, watched, unlabelled>>
-----------------------------------------------------------------------------
(* The daily run of date d, scheduled or cleared; README.md's rule, not to run both core DAGs
   for one ds at a time, is nobody's to enforce and is not kept here. *)

StartDaily(d) ==
  /\ Begin(d, "clean")
  /\ UNCHANGED <<tables, opened, image, audit, script, listing, watched, unlabelled>>

\* clean_transactions: the rows of raw, with no is_fraud; no raw partition, no attempt.
ReadRaw(d) ==
  /\ at[d] = "clean"
  /\ LET clean == {t \in arrived : EventDay[t] = d}
     IN  /\ clean # {}
         /\ Read(d, {d}, Image(clean, [t \in Txns |-> NoColumn]))
  /\ UNCHANGED <<tables, at, audit, script, listing, watched, unlabelled>>

\* The staging write; a failure behind it has the task cleaned again.
CommitClean(d) ==
  /\ at[d] = "clean"
  /\ \E next \in {"clean", "enrich"} : Commit(d, next)
  /\ unlabelled' = unlabelled \cup {d}
  /\ described' = described \ {d}
  /\ UNCHANGED <<arrived, raw, reloads, auditTables, batched, audit, script>>

\* enrich_transactions: is_fraud is dropped if it is there and joined anew, NULL without a
\* label.  mcc_description is not: where the rows have it already, the joined column of that
\* name is ambiguous and the attempt raises.
ReadStaging(d) ==
  /\ at[d] = "enrich"
  /\ d \notin described
  /\ RowsOf({d}) # {}
  /\ Read(d, {d}, Image(RowsOf({d}), raw))
  /\ UNCHANGED <<tables, at, audit, script, listing, watched, unlabelled>>

\* The count behind the write may fail, and the task starts over on the rows it has enriched.
CommitEnrich(d) ==
  /\ at[d] = "enrich"
  /\ \E next \in {"enrich", "idle"} : Commit(d, next)
  /\ unlabelled' = unlabelled \ {d}
  /\ described' = described \cup {d}
  /\ UNCHANGED <<arrived, raw, reloads, auditTables, batched, audit, script>>
-----------------------------------------------------------------------------
(* The audit run of a knowledge date: one at a time, in order *)

StartAuditNextDay(d) ==
  /\ d > ds
  /\ Begin(Audit, "index")
  /\ ds' = d + 1
  /\ UNCHANGED <<tables, opened, image, left, script, listing, watched, unlabelled>>

StartAudit(d) ==
  /\ d > ds
  /\ Begin(Audit, "index")
  /\ ds' = d
  /\ UNCHANGED <<tables, opened, image, left, script, listing, watched, unlabelled>>

\* An operator clears restate in the last run; older ones are in LateLabels.
ClearRestate ==
  /\ ds # 0
  /\ Begin(Audit, "restate")
  /\ UNCHANGED <<tables, opened, image, audit, script, listing, watched, unlabelled>>

\* build_transaction_index.py --full, by hand, for one of its years: what staging has replaces
\* the same partitions of the index; raises without is_fraud.
BuildIndexYear(y) ==
  /\ LET P == PartitionsOf({y})
     IN  /\ RowsOf(P) # {} /\ HasLabels(First(P))
         /\ indexed' = {t \in indexed : RowsOf({EventDay[t]} \cap P) = {}} \cup RowsOf(P)
  /\ UNCHANGED <<arrived, raw, reloads, rows, history, manifest, applied, batched, at, opened,
                 image, audit, script, listing, watched, unlabelled>>

\* The task itself raises on every attempt (Fails): it selects year, month and day from a
\* partition it read without basePath.  The operator marks it as succeeded.
MarkIndexed ==
  /\ at[Audit] = "index"
  /\ at' = [at EXCEPT ![Audit] = "detect"]
  /\ UNCHANGED <<tables, opened, image, audit, script, listing, watched, unlabelled>>

\* detect_changes: raw against the history; the indexed changes are the date's manifest,
\* which without one stays as it was.
Detect ==
  /\ at[Audit] = "detect"
  /\ LET impact == {t \in indexed : raw[t] # NoLabel /\ raw[t] # history[t]}
     IN  manifest' = IF impact = {} THEN manifest
                     ELSE [manifest EXCEPT ![ds] = [t \in Txns |-> IF t \in impact THEN raw[t]
                                                                  ELSE NoLabel]]
  /\ history' = [t \in Txns |-> IF raw[t] # NoLabel THEN raw[t] ELSE history[t]]
  /\ at' = [at EXCEPT ![Audit] = "restate"]
  /\ UNCHANGED <<arrived, raw, reloads, rows, indexed, applied, batched, opened, image,
                 audit, script, listing, watched, unlabelled>>

Pending == {t \in Txns : manifest[ds][t] # NoLabel /\ t \notin applied[ds]}

PlanRestate ==
  /\ at[Audit] = "restate"
  /\ left' = {EventDay[t] : t \in Pending}
  /\ at' = [at EXCEPT ![Audit] = IF left' = {} THEN "idle" ELSE "partitions"]
  /\ UNCHANGED <<tables, opened, image, ds, script, listing, watched, unlabelled>>

Current == CHOOSE p \in left : \A q \in left : p <= q
PartChanges == {t \in Pending : EventDay[t] = Current}

\* The listed rows get the new label, the others keep theirs; raises without is_fraud.
ReadPartition ==
  /\ at[Audit] = "partitions"
  /\ HasLabels(Current)
  /\ Read(Audit, {Current},
          Image(RowsOf({Current}),
                [t \in Txns |-> IF t \in PartChanges THEN manifest[ds][t] ELSE staging[t]]))
  /\ UNCHANGED <<tables, at, audit, script, listing, watched, unlabelled>>

CommitPartition ==
  /\ at[Audit] = "partitions"
  /\ Commit(Audit, "ledger")
  /\ UNCHANGED <<arrived, raw, reloads, described, auditTables, batched, audit, script,
                 unlabelled>>

AppendLedger ==
  /\ at[Audit] = "ledger"
  /\ applied' = [applied EXCEPT ![ds] = @ \cup PartChanges]
  /\ left' = left \ {Current}
  /\ at' = [at EXCEPT ![Audit] = IF left' = {} THEN "idle" ELSE "partitions"]
  /\ UNCHANGED <<arrived, raw, reloads, rows, indexed, history, manifest, batched, opened,
                 image, ds, script, listing, watched, unlabelled>>
-----------------------------------------------------------------------------
(* The scripts of the historical backfill, run by hand one at a time *)

\* clean_transactions_full: every partition of raw at once.
ReadAllRaw ==
  /\ Begin(Backfill, "clean_full")
  /\ arrived # {}
  /\ Read(Backfill, {EventDay[t] : t \in arrived}, Image(arrived, [t \in Txns |-> NoColumn]))
  /\ UNCHANGED <<tables, audit, script, listing, watched, unlabelled>>

CommitCleanFull ==
  /\ at[Backfill] = "clean_full"
  /\ Commit(Backfill, "idle")
  /\ unlabelled' = unlabelled \cup Written(image[Backfill])
  /\ described' = described \cup Written(image[Backfill])
  /\ UNCHANGED <<arrived, raw, reloads, auditTables, batched, audit, script>>

\* enrich_transactions_full opens all of staging once, before the first year.
OpenStaging ==
  /\ Begin(Backfill, "enrich_full_years")
  /\ RowsOf(Partitions) # {}
  /\ column' = HasLabels(First(Partitions))
  /\ listed' = Written(staging) /\ torn' = {}
  /\ years' = BackfillYears
  /\ UNCHANGED <<tables, opened, image, audit, batches, watched, unlabelled>>

\* The year in turn: `for year in ...`, ascending.
Year == CHOOSE y \in years : \A z \in years : y <= z
YearPartitions == PartitionsOf({Year})

\* The rows of the year that the script can see.
YearRows ==
  RowsOf(IF at[Backfill] = "enrich_full_years" THEN YearPartitions \cap listed
         ELSE YearPartitions)

\* enrich_year adds the MCC and card columns and writes the year back, if the files listed
\* at the start are still there.
ReadYear ==
  /\ at[Backfill] = "enrich_full_years"
  /\ years # {}
  /\ YearRows # {}
  /\ YearPartitions \cap torn = {}
  /\ Read(Backfill, YearPartitions,
          Image(YearRows,
                [t \in Txns |-> IF ~column THEN NoColumn
                                ELSE IF staging[t] = NoColumn THEN NoLabel ELSE staging[t]]))
  /\ UNCHANGED <<tables, at, audit, script, listing, watched, unlabelled>>

MaterializeOnce ==
  /\ Begin(Backfill, "fraud_labels_years")
  /\ batched' = [t \in Txns |-> IF \E u \in Txns : BatchOf[u] = BatchOf[t] /\ batched[u] # NoLabel
                                THEN batched[t] ELSE raw[t]]
  /\ \E ys \in {BackfillYears} \cup {{y} : y \in BackfillYears},
        bs \in {Batches} \cup {{b} : b \in Batches}, skip \in BOOLEAN :
       /\ years' = IF skip THEN {} ELSE ys
       /\ batches' = IF skip THEN {} ELSE bs
  /\ listed' = PartitionsOf(years') /\ torn' = {}
  /\ UNCHANGED <<arrived, raw, reloads, rows, auditTables, opened, image, audit, column,
                 watched, unlabelled>>

\* _materialize_fraud_batches replaces the batches that have a label; with
\* ENRICH_FRAUD_SKIP_WRITE no year is written.
MaterializeBatches ==
  /\ Begin(Backfill, "fraud_labels_years")
  /\ batched' = [t \in Txns |-> IF \E u \in Txns : BatchOf[u] = BatchOf[t] /\ raw[u] # NoLabel
                                THEN raw[t] ELSE batched[t]]
  /\ \E ys \in {BackfillYears} \cup {{y} : y \in BackfillYears},
        bs \in {Batches} \cup {{b} : b \in Batches}, skip \in BOOLEAN :
       /\ years' = IF skip THEN {} ELSE ys
       /\ batches' = IF skip THEN {} ELSE bs
  /\ listed' = PartitionsOf(years') /\ torn' = {}
  /\ UNCHANGED <<arrived, raw, reloads, rows, auditTables, opened, image, audit, column,
                 watched, unlabelled>>

ReadYearLastBatch ==
  /\ at[Backfill] = "fraud_labels_years"
  /\ years # {}
  /\ YearRows # {}
  /\ \A b \in batches : \E t \in Txns : BatchOf[t] = b /\ batched[t] # NoLabel
  /\ \E b \in batches :
       Read(Backfill, YearPartitions, Image({t \in YearRows : BatchOf[t] = b}, batched))
  /\ UNCHANGED <<tables, at, audit, script, listing, watched, unlabelled>>

\* enrich_year_fraud: the rows of the year batch by batch, joined and put together again;
\* a batch that was never written cannot be read.
ReadYearBatches ==
  /\ at[Backfill] = "fraud_labels_years"
  /\ years # {}
  /\ YearRows # {}
  /\ \A b \in batches : \E t \in Txns : BatchOf[t] = b /\ batched[t] # NoLabel
  /\ Read(Backfill, YearPartitions,
          Image({t \in YearRows : BatchOf[t] \in batches}, batched))
  /\ UNCHANGED <<tables, at, audit, script, listing, watched, unlabelled>>

CommitYear ==
  /\ at[Backfill] \in YearSteps
  /\ Commit(Backfill, at[Backfill])
  /\ years' = years \ {Year}
  /\ LET written == Written(image[Backfill])
         labels == at[Backfill] = "fraud_labels_years"
     IN  /\ unlabelled' = IF labels THEN unlabelled \ written
                          ELSE IF column THEN unlabelled ELSE unlabelled \cup written
         /\ described' = IF labels /\ First(YearPartitions) \notin described
                         THEN described \ written ELSE described \cup written
  /\ UNCHANGED <<arrived, raw, reloads, auditTables, batched, audit, batches, column>>

\* A year without rows is passed over.
YearEmpty ==
  /\ at[Backfill] \in YearSteps
  /\ years # {}
  /\ YearRows = {}
  /\ opened[Backfill] = {}
  /\ years' = years \ {Year}
  /\ UNCHANGED <<tables, at, opened, image, audit, batches, column, listing, watched, unlabelled>>

ScriptDone ==
  /\ at[Backfill] \in YearSteps
  /\ years = {}
  /\ at' = [at EXCEPT ![Backfill] = "idle"]
  /\ batches' = {} /\ column' = FALSE /\ listed' = {} /\ torn' = {}
  /\ UNCHANGED <<tables, opened, image, audit, years, watched, unlabelled>>
-----------------------------------------------------------------------------
\* The task a step belongs to starts over.
TaskOf(step) == IF step \in {"partitions", "ledger"} THEN "restate" ELSE step

\* An attempt of w dies, with what it has computed: a lost worker, or a read that raises.
\* The task is tried again or the run is over; nobody retries a script.
Fails(w) ==
  /\ at[w] # "idle"
  /\ at' \in {[at EXCEPT ![w] = "idle"]} \cup
             (IF w = Backfill THEN {} ELSE {[at EXCEPT ![w] = TaskOf(at[w])]})
  /\ opened' = [opened EXCEPT ![w] = {}]
  /\ image' = [image EXCEPT ![w] = NoRows]
  /\ left' = IF w = Audit THEN {} ELSE left
  /\ years' = IF w = Backfill THEN {} ELSE years
  /\ batches' = IF w = Backfill THEN {} ELSE batches
  /\ column' = IF w = Backfill THEN FALSE ELSE column
  /\ listed' = IF w = Backfill THEN {} ELSE listed
  /\ torn' = IF w = Backfill THEN {} ELSE torn
  /\ stale' = [stale EXCEPT ![w] = {}]
  /\ UNCHANGED <<tables, ds, overtaken, unlabelled>>

Daily(d) ==
  StartDaily(d) \/ ReadRaw(d) \/ CommitClean(d) \/ ReadStaging(d) \/ CommitEnrich(d)
AuditRun ==
  \/ \E d \in Partitions : StartAudit(d)
  \/ ClearRestate
  \/ \E y \in {YearOf[p] : p \in Partitions} : BuildIndexYear(y)
  \/ MarkIndexed \/ Detect \/ PlanRestate \/ ReadPartition \/ CommitPartition \/ AppendLedger
BackfillScript ==
  \/ ReadAllRaw \/ CommitCleanFull
  \/ OpenStaging \/ ReadYear \/ MaterializeBatches \/ ReadYearBatches
  \/ CommitYear \/ YearEmpty \/ ScriptDone

Next ==
  \/ \E t \in Txns : Arrive(t) \/ Reload(t)
  \/ \E d \in Partitions : Daily(d)
  \/ AuditRun
  \/ BackfillScript
  \/ \E w \in Writers : Fails(w)

Spec == Init /\ [][Next]_vars
-----------------------------------------------------------------------------
(* Properties *)

\* Every variable keeps its type.
TypeOK ==
  /\ arrived \subseteq Txns
  /\ raw \in [Txns -> Labels]
  /\ reloads \in 1 .. MaxReloads
  /\ staging \in [Txns -> Cells]
  /\ described \subseteq Partitions
  /\ indexed \subseteq Txns
  /\ history \in [Txns -> Labels]
  /\ manifest \in [Partitions -> [Txns -> Labels]]
  /\ applied \in [Partitions -> SUBSET Txns]
  /\ batched \in [Txns -> Labels]
  /\ at \in [Writers -> {"idle"} \cup DailySteps \cup AuditSteps \cup ScriptSteps]
  /\ opened \in [Writers -> SUBSET Partitions]
  /\ image \in [Writers -> [Txns -> Cells]]
  /\ ds \in Partitions \cup {0}
  /\ left \subseteq Partitions
  /\ years \subseteq BackfillYears
  /\ batches \subseteq Batches
  /\ column \in BOOLEAN
  /\ torn \subseteq listed /\ listed \subseteq Partitions
  /\ stale \in [Writers -> SUBSET Partitions]
  /\ overtaken \subseteq Partitions
  /\ unlabelled \subseteq Partitions

\* An APPLIED change lasts: a cleared daily run, another restatement or the backfill takes the
\* row back to an older label only where it commits over what another writer has put there
\* since it read.  (restate skips APPLIED changes and detection compares with the history, so
\* nobody would ever repair it.)
AppliedStays ==
  \A d \in Partitions : \A t \in applied[d] :
    EventDay[t] \notin unlabelled \cup overtaken => staging[t] >= manifest[d][t]

\* No writer of staging drops a row that was there when it read: not the enrichments, which
\* write back what they read, not restate, not the union of the hash batches; only a debug
\* batch does, and a writer whose partition another has replaced since it read it.
RowsKept ==
  [][\A t \in Txns : staging[t] # Absent /\ staging'[t] = Absent =>
       \E w \in Writers : /\ opened[w] # {} /\ opened'[w] = {}
                          /\ \/ EventDay[t] \in stale[w]
                             \/ JoinsLabels(w) /\ batches # Batches]_vars
=============================================================================
