# Verification of the fraud-detection pipeline

TLA+ models of the batch pipeline in `src/`, their TLC configurations and TLAPS proofs.
`PROJECT.json` lists every run, mutant, mapped line, finding, hazard and theorem; this file
explains them.

## 1. The system

A PostgreSQL source is copied into a Parquet lake on HDFS by Spark jobs; three Airflow DAGs
order them, and dbt builds marts on top.

| Part (source) | State it keeps | Operations | Talks to |
|---|---|---|---|
| Ingestion (`ingestion/`) | raw tables, partitioned by event date (labels: one table) | one `run()` per table: full read, overwrite | source DB; cleaning reads raw |
| Quality gate (`quality/checks/run_checks.py`) | none | fails the DAG when raw is empty or has null ids | between ingestion and cleaning |
| Cleaning (`staging/clean_transactions.py`, amount parser) | staging and quarantine partitions of a date | deduplicate, split, two overwrites | reads raw; enrichment, index and reconciliation read staging |
| Enrichment (`staging/enrich_transactions.py`, `enrich_fraud_labels.py`) | the same staging partition | adds MCC, card, label columns | reads raw labels |
| Late labels (`audit/build_transaction_index.py`, `detect_fraud_label_changes.py`, `restate_affected_partitions.py`) | index, label history, impact manifest, applied-change ledger, report snapshots | index, detect, restate for a knowledge date | read raw labels, rewrite staging |
| Reconciliation (`audit/reconcile_batch.py`) | one result row per event date | counts raw, staging, quarantine | a dbt test reads the results |
| Vacuum, compaction (`quality/checks/vacuum_quarantine.py`, `compaction/`) | quarantine; raw | drop resolved rows; rewrite a partition | run beside the other DAGs |
| Warehouse (`warehouse/`) | features, `dim_users` (SCD 2), `dim_cards` | rebuilt per date, merged over itself, or in full | read staging |
| DAGs (`airflow/dags/`) | runs and task instances | schedule, retry, fail; operators clear | start all of the above |
| dbt models | views and marts | rebuilt | read the warehouse |

What is hard here. No table has transactions across writes: a task is a sequence of writes and
can die between any two, and is then retried from its first line on what it already wrote. The
idempotence of a write is that of *dynamic partition overwrite*, which leaves a partition alone
when there is no row for it. A label's journey goes through five tables, with deduplication by a
computed id. The daily DAG runs up to four dates at once, each ingesting the whole source. Every
full read is lazy, so one logical result may be computed twice, and a reader fails when the
files it listed are replaced. Six jobs rewrite partitions of one staging table (clean, enrich,
restate, and three backfill scripts run by hand), each by read, compute, overwrite, and nothing
locks it. Operators clear and repeat past runs in any order.

What makes the parts correct:

* late labels: a detected change is applied exactly once, with its reports before and after; a
  label moves only for a listed change; nothing detected is lost; a restatement that starts is
  finished or its run fails.
* cleaning: no transaction id vanishes between raw and staging plus quarantine.
* reconciliation: the difference it reports is the one between the tables of one moment, although
  it reads three tables one after the other while their writers run.
* vacuum: it removes resolved rows only.
* scheduling: every run ends.
* user dimension: one version of a user at a time; a build sets every user to what staging has; the
  past stays on record.
* features: every transaction of a built date has a row, made of the user's other, earlier
  transactions as they were when its build read them, and of nothing else.
* amount parser: a text gets the amount that every way to read it agrees on, or none.
* staging as a whole: whoever writes a partition keeps the rows it has read there and never takes
  back a label that was applied, unless it writes over what another has put there since its read.
* raw layer: the ranges of the parallel read deliver each row once, and files that are there are
  complete, whoever deletes or replaces them (ingestion, compaction tasks, retries).

## 2. Modules

| Module | Contents |
|---|---|
| `LateLabels` | the audit run (index, detect, restate) with crashes, retries, cleared runs, label reloads, an operator's index; its properties |
| `LabelStore` | abstract specification: what a reader of staging and of the ledger may rely on |
| `LateLabelsStore` | `LateLabels` seen as a `LabelStore` (refinement mapping) |
| `LateLabels_proofs` | TLAPS theorems, the refinement of `LabelStore` among them |
| `DailyBatch` | daily runs of several dates, reconciliation, vacuum; its properties |
| `DailyBatch_proofs` | TLAPS theorems |
| `DimUsers` | builds of the user dimension over its own files; its properties |
| `DimUsers_proofs` | TLAPS theorems |
| `PitFeatures` | window features, daily and full builds side by side, dates cleaned in any order; its properties |
| `PitFeatures_proofs` | TLAPS theorems, after lemmas on sums over finite sets |
| `AmountParser` | `parse_amount` and what cleaning makes of it, next to a reference reading; its properties |
| `AmountParser_proofs` | TLAPS theorems |
| `StagingWriters` | all writers of staging on one table: daily runs, audit run, backfill scripts; its properties |
| `StagingWriters_proofs`, `StagingLabels_proofs` | TLAPS theorems: types and rows, labels |
| `RawLayer` | a raw partition or table: parallel JDBC read, both kinds of overwrite, compaction tasks, a reader; its properties |
| `RawLayer_proofs` | TLAPS theorems |
| `MCLateLabels`, `MCDailyBatch`, `MCStagingWriters`, `MCRawLayer`, `MCDimUsers`, `MCPitFeatures`, `MCAmountParser` | instances for TLC |

### LateLabels and the code

| Variable | Code |
|---|---|
| `raw` | `raw/fraud_labels`: the text of `is_fraud`, `Absent` when there is no row |
| `loaded`, `staging` | partitions of `staging.transactions`, its `is_fraud` |
| `index` | `warehouse.transaction_index` (row present, `is_fraud`) |
| `history[d][t]` | newest row of transaction t in knowledge partition d (rows are appended; only the newest is read) |
| `manifest[d]` | `fraud_label_impact_manifest`, knowledge partition d |
| `ledger[id]` | number of APPLIED rows of a `change_id` |
| `snapshots` | `daily_fraud_report_snapshots`, as the set of transactions marked fraud |
| `at`, `ds`, `tries` | the single active run (`max_active_runs=1`), its date, failed attempts of its task |
| `changed`, `impact`, `todo`, `left` | `changed` and `impact` of `detect_changes`; `pending` and the partition loop of `restate` |
| `runs` | outcome of the last run of a date |

Each write of the code is one action, in the code's order: `DetectCompare` (or
`DetectBaseline` when there is no history), `WriteManifest`, `AppendHistory`, `DetectDone`;
`RestatePlan` (or `RestateNothing`) and per partition `SnapshotBefore`, `SnapshotAfter`,
`OverwriteStaging`, `RefreshIndex`, `AppendLedger`. `TaskCrashes` may come before any of them.
Around the run: `IngestLabels`, `LoadDay`, `Schedule`, `Clear`, `Rebaseline`, and what the failing
index task takes: `BuildIndex`, `MarkIndexed`.

Decisions a reader should know:

* A partition is replaced in one step. The committer's own window (delete, then rename) is not
  modelled.
* What a task computed from a DataFrame is fixed when it opens the files (`changed`, `todo`).
  If the files are replaced before it reads them the task fails; that is a `TaskCrashes`.
* The refresh of the index reads a plan whose source files were just overwritten, and any
  exception is swallowed (`restate_affected_partitions.py:186`); `RefreshIndex` may do nothing.
* The daily index task raises on every attempt (`IndexRaises`): `build_index_day` reads a partition's
  directory without `basePath`, so `year`, `month` and `day` are no columns, and then selects them
  (`build_transaction_index.py:79`, lines 44-46). No run gets beyond its index by itself. What is
  behind it runs when an operator marks the failed task as succeeded (`MarkIndexed`, for the dates in
  their order, as often as there are dates) or clears a later task (`Clear`, which `MaxOps` counts and
  which takes the dates in any order).
* The index itself comes from `build_transaction_index.py --full`, at the start and by hand at any
  moment (`BuildIndex`), which reads the table by its root and so has the columns.
* `detect_changes` joins its changes with the index when it compares (`impact`); the index may be
  rebuilt between that and its two writes.
* `Init`: the source has at least one label; the historical partitions `FirstDay..0` are loaded,
  enriched and indexed by the one-shot jobs, with or without a baseline.
* An operator rewrites the baseline by hand only while no run is active. Tasks behind `restate`
  touch none of these tables and are left out, so the run ends with `restate`.
* `LoadDay` is the first load of a date. Loading a date again while the audit run restates it is
  the subject of `StagingWriters`.

### DailyBatch and the code

`raw`, `staging`, `quarantine` map an event date to its rows; an empty set is a partition that
does not exist, since a dynamic overwrite never leaves an empty one. `at[d]` is the next step of
the daily run of date d: `Extract`, `Load` (`ingest_all`), `Validate`, `OpenRaw`,
`WriteStaging`, `CountQuarantine`, `WriteQuarantine` (`clean_transactions`), `Enrich`. `torn[d]`
says that another ingestion replaced the raw files of d after its cleaning opened them: the
remaining evaluations of that cleaning then fail (`ReadRaises`). `rec` is the single
reconciliation task: `ReconcileStart`, `ReconcileRaw`, `ReconcileStaging`,
`ReconcileQuarantine`; `rec.moved` has the tables that were replaced since it opened them. A raw
read of replaced files fails the task, one of staging or quarantine counts as zero, as the code's
`except Exception` makes it. `vac` is the vacuum: `VacuumRead` reads the whole table and drops the
resolved rows, `VacuumWrite` overwrites the partitions that have a row left with what was read, and
`VacuumFails` covers a crash and a read of files that are gone.

* Runs, reconciliation and vacuum overlap in any way. The compaction DAG, which has the vacuum, and the
  audit DAG, which has the reconciliation, both start at `0 3 * * *`; daily runs overlap up to
  `max_active_runs`.
* `reviewed` and `reverted` are history variables for the properties: the rows resolved since the last
  cleaning, and the dates whose quarantine a vacuum has put back to what it was before a cleaning.
* `VacuumWrite` commits all partitions at once; the counts of the vacuum change nothing.
* A row is abstract: `Id`, `DayOf`, `LoadedAt` and membership in `Valid` are all that the code's
  control depends on. `Valid` stands for the amount parser and `_build_is_valid`. A transaction
  keeps its event date.
* Deduplication is a choice among newest rows, and is made again at every evaluation
  (`Deduplicated`): `row_number` over equal `_loaded_at` has no defined order, and
  `raw_transactions` has no unique key (`01_schema.sql:20-38`).
* `enrich_transactions` joins on keys made unique, so it keeps the rows of the partition; its
  count after the write reads replaced files and may fail (`EnrichCountFails`). The next attempt
  reads the enriched partition (`enriched`), whose `mcc_description` makes the column joined in
  `enrich_transactions.py:80-85` ambiguous: it raises (`ReadRaises`), until the date is cleaned
  again.
* Resolving a quarantined row is external: nothing under `src/` does it. The age of a
  resolution is left out; resolved rows are those beyond the retention.
* `validate_raw`'s null-id and MCC checks are left out.

### StagingWriters and the code

The composition of the daily runs, the audit run and the backfill scripts on `staging.transactions`.
`LateLabels` and `DailyBatch` have every write of their runs; here each of them is reduced to what
it reads and what it commits to staging.

| Variable | Code |
|---|---|
| `staging[t]` | the row of t: no row (`Absent`), no column `is_fraud` (`NoColumn`), NULL (`NoLabel`), or the number of the label reload its label came with |
| `described` | partitions whose files have `mcc_description`; `enrich_transactions` raises on them |
| `indexed`, `history`, `manifest`, `applied` | the audit tables, as in `LateLabels` |
| `batched` | `.tmp/fraud_labels_batched`, the labels that `enrich_fraud_labels` materialised |
| `at`, `opened`, `image` | the step of each writer, the partitions it has read, the rows it is about to write |
| `ds`, `left` | the audit run |
| `years`, `batches`, `column`, `listed`, `torn` | a backfill script: years to go, debug batches, the schema and files seen at its start |
| `stale`, `overtaken`, `unlabelled` | no code: observers, for the properties |

A writer is the daily run of a date (`clean`, `enrich`), the audit run, or the one backfill script
that is under way. `Read` is the read and everything computed from it, `Commit` the overwrite; `Fails`
drops an attempt at any point and stands for a crash as well as for a read of replaced files.

* A label is the number of its reload: whether a later commit takes a row back to an older label is
  then a comparison. Labels are never withdrawn, so a reload adds or moves one.
* Writers overlap in any way: a partition may be read, then written by another, then committed by the
  first. `stale[w]` has the partitions that others have replaced since w read them; `overtaken` those
  that were committed in spite of it (`TakesBack`), until they are cleaned again. A script that joins
  labels has read them at its start, so all its years count from there (`JoinsLabels`).
* `clean` leaves `is_fraud` out, so a partition that is cleaned and not enriched has no column: the
  index and `restate` raise on it (`HasLabels`). Such partitions are `unlabelled`.
* The daily index task raises on every attempt (`Fails`), as in `LateLabels`; `BuildIndexYear` is
  `build_transaction_index.py --full`, by hand, one of its years at a time, `MarkIndexed` the operator
  who lets the run go on.
* `enrich_transactions_full` reads staging once before its first year, with the schema of the first
  file (there is no `mergeSchema`) and the files of that moment (`column`, `listed`, `torn`).
* `detect_changes` is one step and only the latest `restate` is cleared: crashes inside and older
  dates are in `LateLabels`. Rows stay valid once they are.
* `MaterializeBatches` chooses the year, the batch and the skip switch of the environment variables in
  every combination: the skip switch is optional (`enrich_fraud_labels.py:11`), so a debug batch may be
  written back without the others.
* README.md:146 says not to run both DAGs for one `ds` at a time. Nothing enforces it and the model does
  not keep it.

### RawLayer and the code

One unit of the raw layer: a partition of `raw/transactions`, or a table without partitions such as
`raw/fraud_labels` (`partitioned`). `GetBounds`, `ReadSlice` and `WriteRaw` are `_get_bounds`, the
queries of the parallel read, each in its own database transaction, and `_write`. The compaction
tasks all run `compactor.py` on yesterday's transactions (`ListPartition`, `CountRows`,
`DeletePartition`), whatever their names say; `CompactionFails` is the failed task and its retry.
`OpenRaw`, `StageRows` and `ReaderFails` are a downstream task.

* Spark's part is external and stated by name: the ranges (`SliceCount`, `Boundary`, `InSlice`), and
  that an overwrite which is not dynamic deletes the path before its plan runs. `compact_day` writes
  without `partitionBy`, so its overwrite is not dynamic although the session asks for it. Nothing of
  its plan is cached; after the deletion the write can only fail.
* `Numeric` is the column that is sliced, `REPLACE(id, '-', '0')`, which drops the sign that the bounds
  keep. The open first and last ranges make up for it.
* `_write` counts before it writes, a second read of the source that changes nothing and is left out.
* An ingestion and a compaction task may overlap in any way; overlapping ingestions are in
  `DailyBatch`. Other partitions are not touched by a run on this one.

### DimUsers and the code

`dim` is the set of versions in `dim_users`, `staging` the row of each user. A build takes the
time and opens both tables (`BuildStarts`), and then either loads everything (`FirstLoad`) or merges:
`CountMerge` executes the plan for the counts of lines 150-153 (`result_df`), `DeleteOld` is the
overwrite's deletion of the files, and behind it only `BuildFails` is left. The sets `new`, `changed`,
`rows_to_close`, `unchanged_rows` and `new_rows` are those of `build_dim_users`.

* The write is a full overwrite (the table has no partitions, so it is not dynamic) of the path that
  its lazy plan reads. Spark deletes the files before it executes the plan, nothing is cached, and a
  read of the deleted files raises: a merge never writes. `RawLayer` models the same construct in
  `compact_day`. A missing table makes the next build a first load.
* `AsOfUnique` and `CurrentIsStaged` are therefore about `result_df` too, what the merge logic found and
  would write.
* `staging` may be replaced while a build is at work, which fails it (`torn`).
* The columns of `CHANGE_DETECT_COLS` are one abstract value that may be NULL. The clock counts
  builds: two builds never start at one time and only one runs, since no DAG has the builder and
  people start it.
* `dropDuplicates` is left out: `clean_users` leaves one row per user. A user whose birth month
  was corrected has one in each cohort partition until the old cohort is written again.

### PitFeatures and the code

`Frame` and `RowsBefore` are the `rangeBetween` and `rowsBetween` frames of
`_apply_pit_features`, `PitRow` its columns (a ratio is a pair, the counts and sums have the
current row taken off as in the code), `DaysRead` the date filter of the daily build.
`features[d]` is a partition of `feat_fraud_features`. A time is a number; `Hour`, `DayLength`
and `Lookback` stand for 3600, 86400 and 7, the code's two ways of saying a week
(604800 seconds, seven days back) being `Lookback * DayLength` and `Lookback`.

A build is the daily one of a date or the full one. `BuildReads` lists the files of its plan,
`BuildWrites` is the overwrite, `BuildFails` a failure in between or within the commit, which may then
have replaced some dates and removed one. Builds and cleanings (`LoadDay`) overlap in any way: the
daily DAG runs four dates side by side with catchup, and a cleared date is cleaned again, with other
rows. `reading[b].since` and `built[d]` are history: the dates that changed since the read, and how far
back a date was read.

* The files of the plan are listed once; a later read of a file that is gone fails the build.
* The session's time zone has no daylight saving, so a day has `DayLength` seconds.
* Decimal rounding, `is_fraud` and the flags that depend on one row are left out.

### AmountParser and the code

A text is a record: how many digits it has, its marks (dot, comma, space) with the number of
digits to the right of each, its signs, and where its currency stands. No way to read a text
changes its digits, only where the decimal point is, so a number is the digits before the point
and behind it. `Suggested` is the classification of `parse_amount`, `IsFloat` what Python's
`float()` accepts of the text it is given, `AsDecimal` the cast to `DECIMAL(18,2)`. The actions are
the steps of `clean_transactions` that use the amount, in its order. `Readings` does not use the
parser: it reads the text under each convention (point or comma before the decimals; point, comma,
space or nothing between groups of three; no decimals in VND).

* Digits are not zero, so an amount that rounds to zero or has leading zeros is not in the model;
  neither is the carry of a rounding. Exponents, `nan` and underscores, which `float()` accepts,
  are left out.
* The constant `Valid` of `DailyBatch` stands for the rows that this module stages.

## 3. Abstract specification

`LabelStore` has three variables (`label`, `listed`, `applied`) and four actions: labels appear
once, a list is replaced, open changes take effect together, and open changes that have taken
effect become applied. `LateLabelsStore` maps staging, manifest and the ids with a ledger row to
them; `StoreSpec` is checked by run `rerun` and proved as `ImplementsStore`.

## 4. Runs

Passing:

| Run | Shows | Instance |
|---|---|---|
| `rerun` | type, `LedgerOnce`, `RestateInv`, `AppliedAfterReported`, `OnlyListedChangesRestate`, `RecordedIsListed`; `LabelStore` is implemented (`StoreSpec`) | 1 knowledge date, 2 transactions (a historical and a new date), labels Yes/No/Blank, labels reloaded and the index rebuilt during runs, 1 crash, 1 operator action |
| `days` | `NoDetectedChangeLost`, `RestateSettles`, `AppliedMeansStaged` | 2 dates, marked as indexed in their order, 2 historical partitions, 2 reloads between runs, 2 crashes (enough to use up the one retry), no other operator action |
| `batch` | type, `NothingVanishes`, `ReconcileTruthful`, `RunsEnd` | 2 dates whose runs overlap (each ingests the first date), 3 rows: one, its correction, another that may come late; 1 retry; 3 events among changes of the source, crashes, cleared runs, resolutions, reconciliations and vacuums |
| `writers` | type, `AppliedStays`, `RowsKept` | 1 partition, 2 transactions in a hash batch each, one of them late; daily run, audit run and script, any two at work at a time, overlap without restriction; a year without rows before the year of the partition; debug batches written or not; 1 further reload; any writer fails anywhere |
| `raw` | type, `ReadOnce`, `RawComplete`, `StagedComplete` | 4 rows (a negative id, one far above, a NULL one), 3 ranges, 2 daily tasks and 1 tier task with 1 retry, both kinds of table, 1 change of the source, 1 ingestion that dies |
| `versions` | type, `AsOfUnique`, `CurrentIsStaged` | 2 users, values x, y and NULL, users absent from staging, 3 builds, any of which may fail anywhere |
| `windows` | type, `VelocityOfOthers`, `AverageOfPast` | 3 dates, a look-back of 1 day, 3 cleanings in any order with any of the date's rows, 2 builds at work at a time; 5 rows: two of one second, a refund, one corrected to another user and second, one exactly the look-back before another |
| `amounts` | type, `NeverGuesses`, `OneReadingIsStaged`, `RefundIsNegative` | every placement of up to 3 marks in 4, 5 or 8 digits with a minus sign, VND or not; every wording (signs, parentheses, symbol, code) of up to 2 marks in 0 or 4 digits; 7 integer digits instead of 16 |

Violations, each a statement of the repository that the code does not keep (section 6):
`retry`, `vacuum`, `history`, `compacted`.

Why the bounds are enough. Two transactions give both relations the code distinguishes: the same
partition or not, restated first or second. Two partitions are the least with a partition
loop that can be interrupted. `Retries = 1` is the audit DAG's value, so one crash exercises the
retry and two the failed run; the daily DAG has two retries and is checked with one, which only
makes failing easier. One crash per run of `rerun` reaches every gap between two writes. Two dates
are the least on which one ingestion touches another's partition; the second has no rows of its own,
so that everything happens to the first. Three events are the least for a reconciliation of what a
resolution and a vacuum have left, or for a vacuum, a late row and the cleaning of it. One
partition of staging is enough for a writer to go over another's commit, which is what `writers` is
about; that many partitions and years, and more
writers at work than two (`MaxAtWork`), behave alike is part of the theorems. The late
transaction is the row there is to lose, and two reloads are the least with a label to lose. The year
without rows leaves the script waiting with what it has listed or materialised, as a long earlier year
does. Three cleanings have a build read a date, its look-back and a change of either.

Where a run narrows the environment, it is a constant of the module and visible in the configuration:
`days` has labels that are all known, a baseline, no reload during a run and no operator but the one who
marks the index task. Section 6 says what happens without. No other passing run does; where the code does
not keep a property under some circumstance, the property names it: `NothingVanishes` a vacuum that wrote
back an older quarantine, `ReconcileTruthful` staging replaced under the reconciliation and ingestions that
bring ids, `AppliedStays` and `RowsKept` commits over what another writer has put there and
debug batches, the features dates that changed since they were read. What is excepted does occur
(section 6). The rows of one transaction in `batch` differ in their load times.

Two daily tasks are the least that can delete under each other, one tier task the least that finds
what they left; three ranges have a first, a last and one between them. Three builds of the user
dimension are a first load, a merge that fails and the first load after it; two users are the least of
which one changes. Eight digits are the least with two groups, a leading one and a decimal, four the
least with an ambiguous separator.

Deadlock is not checked: when the bounds are used up, or nobody starts a run, the system stops.

## 5. Fairness

`LateLabels!FairSpec` (run `days`) is weak fairness of `JobStep`, `DailyBatch!FairSpec` (run `batch`)
of each date's `RunStep`: Airflow keeps an active task running, and retries or fails it. Nothing is assumed
fair about operators, the source, ingestion of labels, crashes or the creation of runs.
A crash may still come first each time, up to the bound.

## 6. Findings

Each is the counterexample of a run; `PROJECT.json` quotes the statement it contradicts.

* `retry`: an unknown label compares as changed each time; a retried detection replaces the
  manifest by that one row and the real change of the first attempt is lost.
* `vacuum`: a vacuum writes the quarantine it has read over a partition that a cleaning has replaced
  since, and an unresolved row is gone. The trace: the vacuum reads, a late row is ingested and its date
  cleared and cleaned, the vacuum writes.
* `history`: the second build of the user dimension, the first merge, deletes the files its own plan reads
  and fails. Nothing is left, and the next build starts the history anew.
* `compacted`: a compaction deletes the partition it is about to read, fails, and its retry takes the
  missing partition for nothing to do and succeeds. `RawComplete` and `StagedComplete` hold all the
  same: a reader finds all of the partition or fails.

Limits of the code that the models contain, and that no run states:

* a retry of `restate` behind the staging write records the restated figures as
  `AS_PREVIOUSLY_REPORTED` (`SnapshotBefore` reads staging anew);
* the dbt test `unexplained_difference = 0` fails, with a difference that is true, after a resolved row is
  vacuumed; when raw has rows that arrived after the cleaning; when a date that is cleaned again without an
  invalid row keeps its old quarantine partition; when of overlapping ingestions the older read is written
  last; and, with a difference that is not, when the quarantine is replaced under the reconciliation, which
  then counts no quarantined rows;
* `enrich_transactions` behind its own write never succeeds again on that partition
  (`mcc_description` is ambiguous), though its docstring calls it idempotent: a failed count fails the
  run, and the date has to be cleaned again;
* the daily index task raises on every attempt, so the audit DAG never gets to its detection unless somebody
  builds the index with `--full` and marks the task as succeeded. Marking the dates out of their order
  loses changes, as clearing them does;
* README.md's rule not to run the daily and the audit DAG for one `ds` is too weak: the audit run of a
  later date restates older partitions. A restatement that read a partition before a late row was cleaned
  into it drops the row (`RowsKept` excepts it as `stale`);
* `enrich_transactions_full` or a cleared daily run beside a restatement writes the label of before the
  restatement back (`AppliedStays` excepts it as `overtaken`). The change is APPLIED and is never applied
  again;
* a debug batch of `enrich_fraud_labels` without the skip switch leaves the rows of that batch only;
* `clean_transactions_full` removes the labels of all dates, and no target of the Makefile runs
  `enrich_fraud_labels`, which alone restores them; `enrich_transactions_full` removes the column from
  every partition if the first one lacks it;
* `restate` and the index raise on a partition that was cleaned and not enriched since;
* rows with a date that does not parse go to a default partition that no daily run reads
  (`jdbc_ingester.py:179`);
* a `LABEL_CLEARED` change is recorded as APPLIED and staging keeps the label (`days` with the
  label Blank violates `AppliedMeansStaged`);
* clearing a date detects it again and replaces its manifest, with the changes not yet applied
  (`days` with an operator action violates `NoDetectedChangeLost`);
* two changes of one kind for one transaction and date share a `change_id`, so the second, which
  takes a cleared run to detect, counts as applied and never reaches staging;
* restating an older date after a newer one brings the older label back;
* a change of a transaction that is not indexed reaches the label history but no manifest;
* every ingestion rewrites the raw partitions of all dates it has rows of, which tears the
  cleaning of other dates;
* a quarantine partition whose rows are all resolved is never removed;
* of a valid and an invalid row of one transaction with one load time, both may be kept, or neither
  (`NoneVanishes` assumes that there are none);
* of overlapping ingestions the older read may be written last, and raw lacks the newest rows until the
  next ingestion;
* features stay as they are when a date they look back to is staged, or cleaned again, after they were read
  (the daily DAG runs four dates side by side, and nothing builds them again);
* the ratio of the daily build averages over the last seven days, that of the full build over
  everything;
* the anti-join that keeps the unchanged rows of the user dimension is on the user alone: a merge would drop
  the versions of a user that were closed before its second change. This is latent, as no merge completes;
* an amount in parentheses with a minus sign, or with two, is parsed to a positive one, since
  `float()` takes the second sign (`RefundIsNegative` asks for one sign at most);
* texts that no convention writes are parsed nevertheless: `1,23,4` is 1234, `12,34.5` is 1234.5
  (`NeverGuesses` speaks of texts with a reading);
* `0.125`, and anything else with one separator and three digits behind it, is quarantined as
  ambiguous although one reading may be left (`OneReadingIsStaged` excepts it);
* an amount beyond `DECIMAL(18,2)` is quarantined with its format, CLEAN say, as the reason.

## 7. Proofs

All theorems hold for every value of the constants, under the assumptions named in the modules.

`LateLabels_proofs`:

* `TypeCorrect`: `Spec => []TypeOK`.
* `RestateInvariant`, `LedgerAtMostOnce`: `Spec => []RestateInv`, `Spec => []LedgerOnce`. The
  inductive invariant is `TypeOK /\ RestateInv /\ LedgerOnce`. `LedgerOnce` alone is not
  inductive: `AppendLedger` adds a row for each change of the current partition, so one must know
  that these changes have none. `TodoOpen` says so for every partition that is not finished, and
  `ReportsFirst` records which writes precede the ledger's. `ChangesWellFormed` (one change per
  transaction) makes the `CHOOSE` of a new label unique.
* `AppliedOnlyAfterReport`, `OnlyListedRestated`: action properties that follow from the
  invariant step by step. `Current`, the least partition left, exists because partitions are
  integers above `FirstDay` (well-foundedness of `<` on the naturals).
* `AppliedIsStaged`: `Spec => AppliedMeansStaged`, assuming that the source's labels are all `Yes` or
  `No` (`AllKnown`); then no change lists a NULL label (`ChangesKnown`).
* `RecordedAfterListed`: `Spec => RecordedIsListed`, without an assumption. The two writes of `detect_changes`
  are steps of their own, with reloads, rebuilt indexes and a crash between them. `ImpactListed` says that
  at the second write the manifest of the date is what the run found in the index; a detection that dies
  before it has written no history and finds the changes again.
* `ImplementsStore`: `Spec => StoreSpec`. Initial states map to initial states; each action is a
  `Reveal`, `List`, `Relabel`, `Record` or a stutter of the store.

`DailyBatch_proofs`:

* `BatchTypeCorrect`: `Spec => []TypeOK`.
* `NoneVanishes`: `Spec => []NothingVanishes`, assuming only that no transaction has a valid and an invalid
  row of one load time (`TiesAgree`), for any number of overlapping runs, corrections, resolutions and
  vacuums. `NothingVanishes` speaks of cleaned dates, so `KeptInv` says what the steps before have kept:
  between the staging and the quarantine write, staging holds the valid newest rows of raw unless raw was
  torn since. Each write evaluates the deduplication anew, and picks anew among rows of one load time; by
  `OneSplit` the valid rows of one evaluation and the invalid rows of another are still those of a single
  one. `ImageInv` is about what a vacuum has read and will write back: in a partition that nobody has
  replaced since it lacks the resolved rows only.
* `DifferenceIsTrue`: `Spec => ReconcileTruthful`, without an assumption. The three counts are taken in three
  steps; `CountInv` says that the staging count is still that of the table unless staging has been replaced
  since. That raw ids minus accepted minus quarantined rows is the difference of two sets is a lemma on
  cardinalities (`CountsDiffer`): a deduplication has one row per id, and staging and quarantine are
  disjoint.

`DimUsers_proofs`: `DimTypeCorrect`, and `OneVersionAtATime`: `Spec => []AsOfUnique`. The
invariant `DimInv` says that the versions of a user do not overlap and that none begins or was
closed after the clock; for the versions that a build has opened, after the clock before it.
Without the latter a version could be closed at the time it began. `StagedIsCurrent`
(`Spec => CurrentIsStaged`) is about the steps that find what to write: a user of staging is new, changed,
or has its current version among the unchanged rows, and by `DimInv` (one current version of a user) a
user whose current version is staged is not changed. `OpenedInv` has the opened rows of staging be those
of now unless they were replaced.

`StagingWriters_proofs`:

* `WritersTypeCorrect`: `Spec => []TypeOK`. `Dated` (an audit run under way has a date) is needed to know
  what the manifest of its date is.
* `NoRowDropped`: `Spec => RowsKept`, without an assumption. A commit writes what was read steps before, so the
  invariant `RowsInv` is about what is in between: in the partitions a writer has open and nobody has replaced
  since, its rows contain every staged one (`Good`), except for a debug batch; staged rows come from raw
  (`StagedArrived`), so that a cleaning has them all.

`StagingLabels_proofs`: `AppliedLabelsStay`, `Spec => []AppliedStays`, without an assumption.
`AppliedStays` is about the end of a chain, and `LabelsInv` follows the label along it: the audit tables
list older reloads than raw has and newer ones than earlier dates have (`LedgerInv`); a label is settled
from the staging write of `restate` on, before its ledger row (`OpenInv`, `KnownInv`); staging, the rows
any writer is about to write into a partition that nobody has replaced, and the materialised batches of a
backfill are not behind what is settled (`LabelsShown`).

`RawLayer_proofs`, assuming that the rows are finitely many (the bounds are a minimum and a maximum):

* `RawTypeCorrect`: `Spec => []TypeOK`.
* `EachRowReadOnce`: `Spec => []ReadOnce`. The boundaries ascend, so a number is in one range
  (`OneSlice`); the first range is open below and has the NULL ids, the last is open above.
* `FilesComplete`, `StagedIsComplete`: `Spec => []RawComplete`, `Spec => []StagedComplete`. The invariant
  adds that the finished slices have the steady rows of their ranges (`SlicesDone`) and that what a
  reader has opened and can still read is the complete files (`OpenComplete`).

`PitFeatures_proofs`, for finitely many transactions and a look-back of at least a day:

* `PitTypeCorrect`: `Spec => []TypeOK`. A count is a frame's less one; it is not negative because the row
  is in its own frame, also in those days that the daily build reads.
* `NeverInItsOwnWindow`, `AverageIsOfPast`: `Spec => []VelocityOfOthers`, `Spec => []AverageOfPast`, for dates
  cleaned in any order and any number of times and any overlap of builds. `PitInv` says of what a build has
  read (`ReadingInv`), and of what is stored (`BuiltInv`), that on the dates that did not change since it is
  what staging has; `OneInv`, that staging has one row of an id on a date. `FrameOfRead` shows that the days read
  contain the frames, which is about whole days against seconds. The sums are folds over sets, whose value
  does not depend on the order of summation (`TotalIsSum`, `SumExists`, `TotalWithout`); for want of induction
  they are proved by a least counterexample.

`AmountParser_proofs`, for texts with any number of digits and marks (`Null` must be none of the other
values):

* `AmountTypeCorrect`: `Spec => []TypeOK`.
* `ParserNeverGuesses`, `ReadTextsAreStaged`: `Spec => []NeverGuesses`, `Spec => []OneReadingIsStaged`. The lemma
  both rest on is `TakesTheReading`: if a convention reads a text with d decimals, and `Suggested` does not
  find it ambiguous, then the decimal point that it suggests is a mark with d digits behind it, or there is
  none and d = 0. `ReadingForm` says which marks a text with a reading has, `SuggestedCases` what the
  classification makes of them. `RowInv` ties a row's columns to the result of `parse_amount`.
* `RefundsAreNegative`: `Spec => []RefundIsNegative`.

Only model-checked are the liveness properties `RestateSettles` and `RunsEnd` (fairness is out of the
prover's reach) and `NoDetectedChangeLost`, which holds only where labels are known and operators keep to the
dates' order (run `days`); the runs that expect a violation have no theorem, as their properties are false.
Every other property of a passing run is stated by a theorem.

## 8. Not modelled, and what is left

Left for proofs: the part of `RunsEnd` and `RestateSettles` that needs no fairness, namely that every
step of a run moves it on or uses up an attempt, so that only finitely many are left.

Left out for good: the dbt views (stateless SQL), the card dimension and the users, cards and
MCC cleaning (snapshot replacements that repeat what `DailyBatch` models), the monthly compaction
(`compact_month` has no caller), the demo script (one execution of `LateLabels`), containers, Hive DDL
and configuration.
