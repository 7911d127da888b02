----------------------------- MODULE DailyBatch -----------------------------
(***************************************************************************)
(* Transactions from the source to staging and quarantine: up to           *)
(* MaxActiveRuns daily runs side by side (ingest_all, validate_raw,        *)
(* clean_transactions, enrich_transactions), the reconciliation task of    *)
(* the audit pipeline, and the vacuum of the compaction pipeline.          *)
(*                                                                         *)
(* A partition is the set of its rows.  A write to a table replaces the    *)
(* partitions it has rows for (dynamic partition overwrite), so a          *)
(* partition exists iff it is not empty.  A Spark job that opened a        *)
(* partition fails when another one replaces its files before it has read  *)
(* them: `torn` for a cleaning.  Nothing keeps the runs, the               *)
(* reconciliation and the vacuum apart.                                    *)
(***************************************************************************)
EXTENDS Integers, FiniteSets

CONSTANTS
  LastDay,         \* the event dates are 1..LastDay
  Rows,            \* the rows the source's raw_transactions can have
  Id,              \* Id[r]: the transaction id of row r; no constraint makes it unique
  DayOf,           \* DayOf[r]: its event date
  LoadedAt,        \* LoadedAt[r]: its _loaded_at
  Valid,           \* the rows that clean_transactions finds valid
  AtFirst,         \* what the source may hold at first: sets of rows
  Corrections,     \* <<r, q>>: the source may replace row r with row q
  Retries,         \* default_args["retries"] of the daily DAG
  MaxActiveRuns,   \* its max_active_runs
  MaxEvents        \* bound: changes of the source, task crashes, cleared runs, resolved rows,
                   \* reconciliations and vacuums together

Days == 1 .. LastDay
CleanSteps == {"clean", "stage", "count", "quarantine"}
RunSteps == {"extract", "load", "validate", "enrich"} \cup CleanSteps
RecSteps == {"raw", "staging", "quarantine"}

ASSUME DailyBatchAssumption ==
  /\ LastDay \in Nat
  /\ IsFiniteSet(Rows)
  /\ DOMAIN Id = Rows
  /\ DayOf \in [Rows -> Days]
  /\ LoadedAt \in [Rows -> Nat]
  /\ Valid \subseteq Rows
  /\ AtFirst \subseteq SUBSET Rows
  /\ Corrections \subseteq Rows \X Rows
  /\ Retries \in Nat /\ MaxActiveRuns \in Nat
  /\ MaxEvents \in Nat

VARIABLES
  source,      \* raw_transactions of the source database
  raw, staging, quarantine,   \* the lake's partitions, by event date
  enriched,    \* the dates whose staging rows have the columns of enrich_transactions
  resolved,    \* the quarantined rows marked as resolved, longer than the retention ago
  result,      \* batch_reconciliation_results: the unexplained_difference of a date's row
  at,          \* what the daily run of a date does next; "none", "done" or "failed"
  tries,       \* failed attempts of its current task
  input,       \* what its ingestion has read from the source
  torn,        \* raw files of the date were replaced since its cleaning opened them
  rec,         \* the reconciliation: its next step, date, counts, and the tables whose
               \* partition was replaced since it opened it
  vac,         \* the vacuum: whether it runs, the rows it has read to keep, and the
               \* partitions replaced since it read them
  reviewed,    \* history: the rows resolved since a cleaning last wrote the quarantine
  reverted,    \* history: the dates where a vacuum has since written back what it had read
               \* before the partition was replaced
  events       \* what MaxEvents bounds

lake == <<raw, staging, enriched, quarantine, resolved, reviewed, reverted>>
job == <<at, tries, input, torn>>
vars == <<source, lake, result, job, rec, vac, events>>
-----------------------------------------------------------------------------
NoRec == [at |-> "idle", day |-> 0, distinct |-> 0, accepted |-> 0, moved |-> {}]
NoVac == [open |-> FALSE, keep |-> [d \in Days |-> {}], stale |-> {}]

Active == {d \in Days : at[d] \in RunSteps}
OfDay(S, d) == {r \in S : DayOf[r] = d}

\* row_number() = 1 over (transaction_id, _loaded_at desc).  Among rows loaded at the same
\* time the pick is arbitrary, and made anew whenever the plan is evaluated.
Deduplicated(S) ==
  {D \in SUBSET S :
     /\ \A r, q \in D : Id[r] = Id[q] => r = q
     /\ \A r \in S : \E q \in D : Id[q] = Id[r] /\ LoadedAt[q] >= LoadedAt[r]}

\* raw_count - duplicate_count
AllRows(S) == Cardinality(S)
DistinctIds(S) == Cardinality(S) - (Cardinality(S) - Cardinality({Id[r] : r \in S}))

\* Dynamic partition overwrite of one partition.
Overwritten(old, new) == IF new = {} THEN old ELSE new

\* The tables the reconciliation has opened, the one it counts next the last.
Opened ==
  CASE rec.at = "idle" -> {}
    [] rec.at = "raw" -> {"raw"}
    [] rec.at = "staging" -> {"raw", "staging"}
    [] OTHER -> RecSteps

\* The files of a table's partitions are replaced, under the reconciliation and the vacuum.
MovesRec(table, days) ==
  rec' = IF table \in Opened /\ rec.day \in days THEN [rec EXCEPT !.moved = @ \cup {table}] ELSE rec
Replaces(table, days) ==
  /\ MovesRec(table, days)
  /\ vac' = IF table = "quarantine" /\ vac.open THEN [vac EXCEPT !.stale = @ \cup days] ELSE vac
-----------------------------------------------------------------------------
Init ==
  /\ source \in AtFirst
  /\ raw = [d \in Days |-> {}] /\ staging = raw /\ quarantine = raw
  /\ resolved = raw /\ reviewed = raw /\ reverted = {}
  /\ result = raw /\ enriched = {}
  /\ at = [d \in Days |-> "none"]
  /\ tries = [d \in Days |-> 0]
  /\ input = [d \in Days |-> {}]
  /\ torn = [d \in Days |-> FALSE]
  /\ rec = NoRec /\ vac = NoVac
  /\ events = 0

Event == events < MaxEvents /\ events' = events + 1

(* The source database *)

SourceInserts(r) ==
  /\ Event
  /\ r \notin source
  /\ source' = source \cup {r}
  /\ UNCHANGED <<lake, result, job, rec, vac>>

SourceCorrects(r, q) ==
  /\ Event
  /\ r \in source /\ q \notin source
  /\ source' = (source \ {r}) \cup {q}
  /\ UNCHANGED <<lake, result, job, rec, vac>>

(* Runs of the daily DAG *)

\* catchup: the runs of the dates are created in order.
Schedule(d) ==
  /\ at[d] = "none" /\ \A e \in Days : e < d => at[e] # "none"
  /\ Cardinality(Active) < MaxActiveRuns
  /\ at' = [at EXCEPT ![d] = "extract"]
  /\ UNCHANGED <<source, lake, result, tries, input, torn, rec, vac, events>>

\* An operator clears a finished run, from the ingestion or from the cleaning on.
Clear(d, step) ==
  /\ Event
  /\ at[d] \in {"done", "failed"}
  /\ Cardinality(Active) < MaxActiveRuns
  /\ at' = [at EXCEPT ![d] = step]
  /\ tries' = [tries EXCEPT ![d] = 0]
  /\ UNCHANGED <<source, lake, result, input, torn, rec, vac>>

TaskOf(step) ==
  CASE step \in {"extract", "load"} -> "extract"
    [] step \in CleanSteps -> "clean"
    [] OTHER -> step

\* The task is retried from its start, until its retries are used up.
FailTaskForever(d) ==
  /\ at' = [at EXCEPT ![d] = TaskOf(@)]
  /\ input' = [input EXCEPT ![d] = {}]
  /\ UNCHANGED tries
FailTask(d) ==
  /\ at' = [at EXCEPT ![d] = IF tries[d] < Retries THEN TaskOf(@) ELSE "failed"]
  /\ tries' = [tries EXCEPT ![d] = IF @ < Retries THEN @ + 1 ELSE 0]
  /\ input' = [input EXCEPT ![d] = {}]

TaskCrashes(d) ==
  /\ d \in Active
  /\ Event
  /\ FailTask(d)
  /\ UNCHANGED <<source, lake, result, torn, rec, vac>>

NextStep(d, step) == at' = [at EXCEPT ![d] = step] /\ UNCHANGED tries
NextTask(d, step) ==
  /\ at' = [at EXCEPT ![d] = step]
  /\ tries' = [tries EXCEPT ![d] = 0]

(* ingest_all *)

Extract(d) ==
  /\ at[d] = "extract"
  /\ input' = [input EXCEPT ![d] = source]
  /\ NextStep(d, "load")
  /\ UNCHANGED <<source, lake, result, torn, rec, vac, events>>

\* The whole table is written: the partition of every event date it has rows of.
Load(d) ==
  /\ at[d] = "load"
  /\ LET days == {DayOf[r] : r \in input[d]}
     IN  /\ raw' = [e \in Days |-> Overwritten(raw[e], OfDay(input[d], e))]
         /\ torn' = [e \in Days |-> torn[e] \/ e \in days]
         /\ Replaces("raw", days)
  /\ input' = [input EXCEPT ![d] = {}]
  /\ NextTask(d, "validate")
  /\ UNCHANGED <<source, staging, enriched, quarantine, resolved, reviewed, reverted, result,
                 events>>

(* validate_raw; a missing partition fails the check. *)

Validate(d) ==
  /\ at[d] = "validate"
  /\ raw[d] # {}
  /\ NextTask(d, "clean")
  /\ UNCHANGED <<source, lake, result, input, torn, rec, vac, events>>

(* clean_transactions *)

OpenRaw(d) ==
  /\ at[d] = "clean"
  /\ raw[d] # {}
  /\ torn' = [torn EXCEPT ![d] = FALSE]
  /\ NextStep(d, "stage")
  /\ UNCHANGED <<source, lake, result, input, rec, vac, events>>

WriteStagingUnfiltered(d) ==
  /\ at[d] = "stage"
  /\ ~torn[d]
  /\ \E D \in Deduplicated(raw[d]) :
       /\ staging' = [staging EXCEPT ![d] = Overwritten(@, D)]
       /\ enriched' = IF D = {} THEN enriched ELSE enriched \ {d}
       /\ Replaces("staging", IF D = {} THEN {} ELSE {d})
  /\ NextStep(d, "count")
  /\ UNCHANGED <<source, raw, quarantine, resolved, reviewed, reverted, result, input, torn,
                 events>>
WriteStaging(d) ==
  /\ at[d] = "stage"
  /\ ~torn[d]
  /\ \E D \in Deduplicated(raw[d]) :
       /\ staging' = [staging EXCEPT ![d] = Overwritten(@, D \cap Valid)]
       /\ enriched' = IF D \cap Valid = {} THEN enriched ELSE enriched \ {d}
       /\ Replaces("staging", IF D \cap Valid = {} THEN {} ELSE {d})
  /\ NextStep(d, "count")
  /\ UNCHANGED <<source, raw, quarantine, resolved, reviewed, reverted, result, input, torn,
                 events>>

\* `if quarantine_count > 0`
CountQuarantineSkips(d) ==
  /\ at[d] = "count"
  /\ ~torn[d]
  /\ NextTask(d, "enrich")
  /\ UNCHANGED <<source, lake, result, input, torn, rec, vac, events>>
CountQuarantine(d) ==
  /\ at[d] = "count"
  /\ ~torn[d]
  /\ \E D \in Deduplicated(raw[d]) :
       IF D \ Valid = {} THEN NextTask(d, "enrich") ELSE NextStep(d, "quarantine")
  /\ UNCHANGED <<source, lake, result, input, torn, rec, vac, events>>

\* The rows arrive unresolved, those of an earlier cleaning that were resolved too.
WriteQuarantine(d) ==
  /\ at[d] = "quarantine"
  /\ ~torn[d]
  /\ \E D \in Deduplicated(raw[d]) :
       /\ quarantine' = [quarantine EXCEPT ![d] = Overwritten(@, D \ Valid)]
       /\ IF D \ Valid = {}
          THEN UNCHANGED <<resolved, reviewed, reverted>> /\ Replaces("quarantine", {})
          ELSE /\ resolved' = [resolved EXCEPT ![d] = {}]
               /\ reviewed' = [reviewed EXCEPT ![d] = {}]
               /\ reverted' = reverted \ {d}
               /\ Replaces("quarantine", {d})
  /\ NextTask(d, "enrich")
  /\ UNCHANGED <<source, raw, staging, enriched, result, input, torn, events>>

(* enrich_transactions: left joins on unique keys, so the partition keeps its rows.  Rows
   that have mcc_description already cannot be joined: the name is ambiguous. *)

WriteEnriched(d) ==
  /\ at[d] = "enrich"
  /\ staging[d] # {} /\ d \notin enriched
  /\ enriched' = enriched \cup {d}
  /\ Replaces("staging", {d})

Enrich(d) ==
  /\ WriteEnriched(d)
  /\ NextTask(d, "done")
  /\ UNCHANGED <<source, raw, staging, quarantine, resolved, reviewed, reverted, result, input,
                 torn, events>>

\* The count behind its write reads the files that the write has just replaced.
EnrichCountFails(d) ==
  /\ WriteEnriched(d)
  /\ FailTask(d)
  /\ UNCHANGED <<source, raw, staging, quarantine, resolved, reviewed, reverted, result, torn,
                 events>>

\* A partition that a task reads is missing, was replaced while the task read it, or is
\* enriched already.
ReadRaises(d) ==
  /\ \/ at[d] \in {"validate", "clean"} /\ raw[d] = {}
     \/ at[d] \in {"stage", "count", "quarantine"} /\ torn[d]
     \/ at[d] = "enrich" /\ (staging[d] = {} \/ d \in enriched)
  /\ FailTask(d)
  /\ UNCHANGED <<source, lake, result, torn, rec, vac, events>>
-----------------------------------------------------------------------------
(* reconcile_batch: three tables, opened and counted one after the other. *)

ReconcileStart(d) ==
  /\ Event
  /\ rec.at = "idle"
  /\ raw[d] # {}
  /\ rec' = [NoRec EXCEPT !.at = "raw", !.day = d]
  /\ UNCHANGED <<source, lake, result, job, vac>>

ReconcileRaw ==
  /\ rec.at = "raw"
  /\ "raw" \notin rec.moved
  /\ rec' = [rec EXCEPT !.at = "staging", !.distinct = DistinctIds(raw[rec.day])]
  /\ UNCHANGED <<source, lake, result, job, vac, events>>

\* Nothing catches the exception of the raw read: the task fails.
ReconcileRaises ==
  /\ rec.at = "raw"
  /\ "raw" \in rec.moved
  /\ rec' = NoRec
  /\ UNCHANGED <<source, lake, result, job, vac, events>>

\* `except Exception`: no partition, or files that are gone, count as no rows.
Counted(partition) == IF rec.at \in rec.moved THEN 0 ELSE Cardinality(partition)

ReconcileStagingValidOnly ==
  /\ rec.at = "staging"
  /\ rec' = [rec EXCEPT !.at = "quarantine",
                        !.accepted = Counted(staging[rec.day] \cap raw[rec.day])]
  /\ UNCHANGED <<source, lake, result, job, vac, events>>
ReconcileStaging ==
  /\ rec.at = "staging"
  /\ rec' = [rec EXCEPT !.at = "quarantine", !.accepted = Counted(staging[rec.day])]
  /\ UNCHANGED <<source, lake, result, job, vac, events>>

ReconcileQuarantine ==
  /\ rec.at = "quarantine"
  /\ result' = [result EXCEPT ![rec.day] =
                  {rec.distinct - rec.accepted - Counted(quarantine[rec.day])}]
  /\ rec' = NoRec
  /\ UNCHANGED <<source, lake, job, vac, events>>

(* The quarantine is reviewed by hand, and vacuumed. *)

\* A partition is rewritten with one more row marked.
Resolve(d, r) ==
  /\ Event
  /\ r \in quarantine[d] \ resolved[d]
  /\ resolved' = [resolved EXCEPT ![d] = @ \cup {r}]
  /\ reviewed' = [reviewed EXCEPT ![d] = @ \cup {r}]
  /\ Replaces("quarantine", {d})
  /\ UNCHANGED <<source, raw, staging, enriched, quarantine, reverted, result, job>>

\* vacuum_quarantine: the table is read, the rows that are not resolved are kept.
VacuumRead ==
  /\ Event
  /\ ~vac.open
  /\ \E d \in Days : quarantine[d] # {}
  /\ vac' = [open |-> TRUE, keep |-> [d \in Days |-> quarantine[d] \ resolved[d]], stale |-> {}]
  /\ UNCHANGED <<source, lake, result, job, rec>>

\* They are written back, partition by partition: also over what others have written since.
VacuumWrite ==
  /\ vac.open
  /\ LET days == {d \in Days : vac.keep[d] # {}}
     IN  /\ quarantine' = [d \in Days |-> Overwritten(quarantine[d], vac.keep[d])]
         /\ resolved' = [d \in Days |-> IF d \in days THEN {} ELSE resolved[d]]
         /\ reverted' = reverted \cup (days \cap vac.stale)
         /\ MovesRec("quarantine", days)
  /\ vac' = NoVac
  /\ UNCHANGED <<source, raw, staging, enriched, reviewed, result, job, events>>

\* It crashes, or finds files gone that it had listed.
VacuumFails ==
  /\ vac.open
  /\ vac' = NoVac
  /\ UNCHANGED <<source, lake, result, job, rec, events>>
-----------------------------------------------------------------------------
RunStep(d) ==
  \/ Extract(d) \/ Load(d) \/ Validate(d)
  \/ OpenRaw(d) \/ WriteStaging(d) \/ CountQuarantine(d) \/ WriteQuarantine(d)
  \/ Enrich(d) \/ EnrichCountFails(d) \/ ReadRaises(d)

Next ==
  \/ \E r \in Rows : SourceInserts(r)
  \/ \E c \in Corrections : SourceCorrects(c[1], c[2])
  \/ \E d \in Days : Schedule(d) \/ TaskCrashes(d) \/ RunStep(d) \/ ReconcileStart(d)
  \/ \E d \in Days, step \in {"extract", "clean"} : Clear(d, step)
  \/ ReconcileRaw \/ ReconcileRaises \/ ReconcileStaging \/ ReconcileQuarantine
  \/ \E d \in Days, r \in Rows : Resolve(d, r)
  \/ VacuumRead \/ VacuumWrite \/ VacuumFails

Spec == Init /\ [][Next]_vars

\* Airflow drives every active run on; nothing promises a new run or a reconciliation.
FairSpec == Spec /\ \A d \in Days : WF_vars(RunStep(d))
-----------------------------------------------------------------------------
(* Properties *)

\* Every variable keeps its type: staging holds valid rows and the quarantine invalid ones
\* only, and only quarantined rows are resolved.
TypeOK ==
  /\ source \subseteq Rows
  /\ raw \in [Days -> SUBSET Rows]
  /\ staging \in [Days -> SUBSET Valid] /\ enriched \subseteq Days
  /\ quarantine \in [Days -> SUBSET (Rows \ Valid)]
  /\ resolved \in [Days -> SUBSET Rows] /\ \A d \in Days : resolved[d] \subseteq quarantine[d]
  /\ reviewed \in [Days -> SUBSET Rows] /\ reverted \subseteq Days
  /\ DOMAIN result = Days /\ \A d \in Days : result[d] \subseteq Int
  /\ at \in [Days -> RunSteps \cup {"none", "done", "failed"}]
  /\ tries \in [Days -> 0 .. Retries]
  /\ input \in [Days -> SUBSET Rows]
  /\ torn \in [Days -> BOOLEAN]
  /\ rec \in [at : RecSteps \cup {"idle"}, day : Days \cup {0}, distinct : Nat,
              accepted : Nat, moved : SUBSET RecSteps]
  /\ rec.at = "idle" \/ rec.day \in Days
  /\ vac \in [open : BOOLEAN, keep : [Days -> SUBSET (Rows \ Valid)], stale : SUBSET Days]
  /\ events \in 0 .. MaxEvents

\* The raw rows of the date are those its last cleaning read.
CleanedAsIs(d) == at[d] \in {"enrich", "done"} /\ ~torn[d]

\* No transaction vanishes: once a date is cleaned, each transaction id of its raw
\* partition has its newest row in staging or in the quarantine, or that row was resolved
\* there, whatever crashes, retries, ingestions of other runs and vacuums happened on the
\* way.  Not when a vacuum wrote back what it had read before the date was cleaned again.
NothingVanishes ==
  \A d \in Days : CleanedAsIs(d) /\ d \notin reverted =>
    \E D \in Deduplicated(raw[d]) :
      /\ D \cap Valid \subseteq staging[d]
      /\ D \ Valid \subseteq quarantine[d] \cup reviewed[d]

\* "Keep: not resolved, or just resolved": a write of the vacuum removes no other row.
VacuumKeepsUnresolved ==
  [][vac.open /\ ~vac'.open =>
       \A d \in Days : quarantine[d] \ resolved[d] \subseteq quarantine'[d]]_vars

\* The difference that the reconciliation writes, from counts taken one after the other among
\* runs, ingestions and vacuums, is that of the tables of now: the newest rows that are in
\* neither table, less what either holds beyond them.  The rows of a quarantine replaced
\* under it count as missing.  Not when staging was replaced under it, which the README
\* forbids, or an ingestion has since changed the number of ids.
ReconcileTruthful ==
  [][/\ rec.at = "quarantine" /\ rec'.at = "idle"
     /\ "staging" \notin rec.moved /\ rec.distinct = DistinctIds(raw[rec.day])
     => \E D \in Deduplicated(raw[rec.day]) :
          LET kept == staging[rec.day] \cup quarantine[rec.day]
              unread == IF "quarantine" \in rec.moved THEN quarantine[rec.day] ELSE {}
          IN  result'[rec.day] =
                {Cardinality(D \ kept) - Cardinality(kept \ D) + Cardinality(unread)}]_vars

\* Every daily run ends, also when the ingestions of the others tear its cleaning.
RunsEnd == \A d \in Days : at[d] \in RunSteps ~> at[d] \in {"done", "failed"}
=============================================================================
