------------------------------ MODULE RawLayer ------------------------------
(***************************************************************************)
(* One unit of the raw layer that is overwritten as a whole: a partition   *)
(* of raw transactions, or a table without partitions such as              *)
(* raw/fraud_labels.  The parallel JDBC read fills it from a source that   *)
(* goes on changing, the tasks of the compaction DAG rewrite it in place,  *)
(* and a downstream task reads it.                                         *)
(*                                                                         *)
(* Spark decides what an overwrite does to a reader of the old files, its  *)
(* own plan included.  A dynamic partition overwrite replaces them at the  *)
(* end.  Any other overwrite deletes them before its plan runs.            *)
(***************************************************************************)
EXTENDS Integers, FiniteSets

CONSTANTS
  Rows,            \* the rows the source may have, finitely many
  IdOf,            \* IdOf[r]: column id as a number
  NullIds,         \* the rows whose id is NULL; their number counts for nothing
  FirstRows,       \* the rows of the source at the start
  NumPartitions,   \* parallel_read: num_partitions
  DailyTasks,      \* the tasks of the DAG's group daily_compact
  TierTasks,       \* those of monthly_tier: the same job once more
  Retries,         \* default_args["retries"] of the compaction DAG
  MaxChanges,      \* bound: changes of the source
  MaxCrashes       \* bound: tasks that die for no reason of their own

Tasks == DailyTasks \cup TierTasks
Slices == 1 .. NumPartitions

ASSUME RawLayerAssumption ==
  /\ IsFiniteSet(Rows)
  /\ IdOf \in [Rows -> Int]
  /\ NullIds \subseteq Rows
  /\ FirstRows \subseteq Rows
  /\ NumPartitions \in Nat \ {0}
  /\ DailyTasks \cap TierTasks = {}
  /\ Retries \in Nat
  /\ MaxChanges \in Nat
  /\ MaxCrashes \in Nat

VARIABLES
  source,       \* the source table
  partitioned,  \* is this a partition that _write overwrites dynamically?
  files,        \* the rows in its files, {} when there are none
  ing,          \* the ingestion: "idle", "delete", "slices"
  lower, upper, \* the bounds it has queried
  unread,       \* the slices it has yet to read
  got,          \* the rows it has read, each with its slice
  task,         \* the state of each compaction task
  tries,        \* its failed attempts
  torn,         \* has somebody else removed the files it listed?
  reader,       \* the downstream task: "idle", "open"
  opened,       \* the rows of the files it listed
  readerTorn,   \* have they been removed?
  staged,       \* the ids it put into staging
  changes, crashes,   \* what the bounds count
  \* observed, not part of the code:
  steady,       \* rows in the source since the ingestion queried its bounds
  kept,         \* ids the last finished ingestion had to deliver
  owed,         \* `kept` when the downstream task listed its files
  promised      \* `owed` of the task that wrote staging

ingestion == <<ing, lower, upper, unread, got, steady>>
compaction == <<task, tries, torn>>
downstream == <<reader, opened, readerTorn, owed, staged, promised>>
vars == <<source, partitioned, files, ingestion, compaction, downstream, kept, changes, crashes>>
-----------------------------------------------------------------------------
Ids(S) == {<<r \in NullIds, IF r \in NullIds THEN 0 ELSE IdOf[r]>> : r \in S}

Least(S) == CHOOSE n \in S : \A m \in S : n <= m
Greatest(S) == CHOOSE n \in S : \A m \in S : m <= n

\* The bounds: MIN and MAX of the ids; no id at all counts as 0, and so does an upper 0 as 1.
Numbers(S) == {IdOf[r] : r \in S \ NullIds}
LowerBound(S) == IF Numbers(S) = {} THEN 0 ELSE Least(Numbers(S))
UpperBound(S) == IF Numbers(S) = {} \/ Greatest(Numbers(S)) = 0 THEN 1 ELSE Greatest(Numbers(S))

\* The column Spark slices by: REPLACE(id, '-', '0') drops the sign.
Numeric(r) == IF IdOf[r] < 0 THEN -IdOf[r] ELSE IdOf[r]

\* Spark's ranges: no more of them than numbers between the bounds.
SliceCount == IF upper - lower < NumPartitions THEN upper - lower ELSE NumPartitions
SlicesRead == IF SliceCount <= 1 THEN {1} ELSE 1 .. SliceCount
Boundary(i) == lower + i * ((upper - lower) \div SliceCount)

\* The ranges as read_source's docstring has them: closed at both ends.
InSliceClosed(r, i) ==
  /\ r \notin NullIds
  /\ Numeric(r) >= IF i = 1 THEN lower ELSE Boundary(i - 1)
  /\ IF i < SliceCount THEN Numeric(r) < Boundary(i) ELSE Numeric(r) <= upper

\* The first range is open below and has the NULLs, the last one is open above.
InSlice(r, i) ==
  \/ SliceCount <= 1
  \/ r \in NullIds /\ i = 1
  \/ /\ r \notin NullIds
     /\ i > 1 => Numeric(r) >= Boundary(i - 1)
     /\ i < SliceCount => Numeric(r) < Boundary(i)

RowsRead == {r \in Rows : \E i \in Slices : <<r, i>> \in got}

\* The files are removed: who has listed them and not read them cannot any more.
Reading == {"listed", "counted"}
TearReaders == readerTorn' = (reader = "open" \/ readerTorn)
TearTasks(others) == torn' = [c \in Tasks |-> torn[c] \/ (c \in others /\ task[c] \in Reading)]
-----------------------------------------------------------------------------
Init ==
  /\ source = FirstRows
  /\ partitioned \in BOOLEAN
  /\ files = {}
  /\ ing = "idle" /\ lower = 0 /\ upper = 1 /\ unread = {} /\ got = {} /\ steady = {}
  /\ task = [c \in Tasks |-> "none"]
  /\ tries = [c \in Tasks |-> 0]
  /\ torn = [c \in Tasks |-> FALSE]
  /\ reader = "idle" /\ opened = {} /\ readerTorn = FALSE
  /\ staged = {} /\ kept = {} /\ owed = {} /\ promised = {}
  /\ changes = 0 /\ crashes = 0

\* The operational database goes on.
SourceChanges(r) ==
  /\ changes < MaxChanges
  /\ changes' = changes + 1
  /\ source' = IF r \in source THEN source \ {r} ELSE source \cup {r}
  /\ steady' = steady \ {r}
  /\ UNCHANGED <<partitioned, files, ing, lower, upper, unread, got, compaction, downstream,
                 kept, crashes>>
-----------------------------------------------------------------------------
(* The ingestion: read_source, then _write; its extra count is left out *)

GetBounds ==
  /\ ing = "idle"
  /\ lower' = LowerBound(source) /\ upper' = UpperBound(source)
  /\ unread' = SlicesRead'
  /\ got' = {}
  /\ ing' = IF partitioned THEN "slices" ELSE "delete"
  /\ steady' = source
  /\ UNCHANGED <<source, partitioned, files, compaction, downstream, kept, changes, crashes>>

\* A table without partitions is deleted before it is read from the source.
DeleteTable ==
  /\ ing = "delete"
  /\ files' = {}
  /\ TearReaders
  /\ ing' = "slices"
  /\ UNCHANGED <<source, partitioned, lower, upper, unread, got, steady, compaction, reader,
                 opened, owed, staged, promised, kept, changes, crashes>>

\* The slices are read in any order, each in a transaction of its own.
ReadSlice(i) ==
  /\ ing = "slices"
  /\ i \in unread
  /\ unread' = unread \ {i}
  /\ got' = got \cup {<<r, i>> : r \in {q \in source : InSlice(q, i)}}
  /\ UNCHANGED <<source, partitioned, files, ing, lower, upper, steady, compaction,
                 downstream, kept, changes, crashes>>

WriteRawOfSlicesSoFar ==
  /\ ing = "slices"
  /\ got # {}
  /\ files' = RowsRead
  /\ kept' = Ids(steady)
  /\ TearReaders
  /\ TearTasks(Tasks)
  /\ ing' = "idle" /\ lower' = 0 /\ upper' = 1 /\ unread' = {} /\ got' = {} /\ steady' = {}
  /\ UNCHANGED <<source, partitioned, task, tries, reader, opened, owed, staged,
                 promised, changes, crashes>>

\* The commit; a partition for which no row was read stays as it was.
WriteRaw ==
  /\ ing = "slices"
  /\ unread = {}
  /\ IF RowsRead = {}
     THEN UNCHANGED <<files, readerTorn, torn>>
     ELSE files' = RowsRead /\ TearReaders /\ TearTasks(Tasks)
  /\ kept' = Ids(steady)
  /\ ing' = "idle" /\ lower' = 0 /\ upper' = 1 /\ unread' = {} /\ got' = {} /\ steady' = {}
  /\ UNCHANGED <<source, partitioned, task, tries, reader, opened, owed, staged,
                 promised, changes, crashes>>

IngestionDies ==
  /\ ing # "idle"
  /\ crashes < MaxCrashes
  /\ crashes' = crashes + 1
  /\ ing' = "idle" /\ lower' = 0 /\ upper' = 1 /\ unread' = {} /\ got' = {} /\ steady' = {}
  /\ UNCHANGED <<source, partitioned, files, compaction, downstream, kept, changes>>
-----------------------------------------------------------------------------
(* The compaction DAG: every task is compactor.py, on yesterday's partition *)

\* A new run, once the last one is over.
TriggerCompaction ==
  /\ partitioned
  /\ \A c \in Tasks : task[c] \in {"none", "success", "failed"}
  /\ task' = [c \in Tasks |-> IF c \in DailyTasks THEN "queued" ELSE "none"]
  /\ tries' = [c \in Tasks |-> 0]
  /\ UNCHANGED <<source, partitioned, files, ingestion, torn, downstream, kept,
                 changes, crashes>>

\* daily_group >> monthly_check >> monthly_group; the check returns a value and skips nothing.
TriggerTier ==
  /\ \A c \in DailyTasks : task[c] = "success"
  /\ \A c \in TierTasks : task[c] = "none"
  /\ TierTasks # {}
  /\ task' = [c \in Tasks |-> IF c \in TierTasks THEN "queued" ELSE task[c]]
  /\ UNCHANGED <<source, partitioned, files, ingestion, tries, torn, downstream, kept,
                 changes, crashes>>

\* compact_day lists the files; without a partition it is "skipped" and succeeds.
ListPartition(c) ==
  /\ task[c] = "queued"
  /\ task' = [task EXCEPT ![c] = IF files = {} THEN "success" ELSE "listed"]
  /\ UNCHANGED <<source, partitioned, files, ingestion, tries, torn, downstream, kept,
                 changes, crashes>>

\* df.count() reads them all, if they are still there.
CountRows(c) ==
  /\ task[c] = "listed"
  /\ ~torn[c]
  /\ task' = [task EXCEPT ![c] = "counted"]
  /\ UNCHANGED <<source, partitioned, files, ingestion, tries, torn, downstream, kept,
                 changes, crashes>>

\* The deduplicated rows are written with mode("overwrite") to the path of the partition,
\* without partitionBy: first of all whatever is there goes.
DeletePartition(c) ==
  /\ task[c] = "counted"
  /\ files' = {}
  /\ TearReaders
  /\ TearTasks(Tasks \ {c})
  /\ task' = [task EXCEPT ![c] = "deleted"]
  /\ UNCHANGED <<source, partitioned, ingestion, tries, reader, opened, owed, staged,
                 promised, kept, changes, crashes>>

CompactionRetriesForever(c) ==
  /\ torn[c] \/ task[c] = "deleted"
  /\ task' = [task EXCEPT ![c] = "queued"]
  /\ tries' = [tries EXCEPT ![c] = @ + 1]
  /\ torn' = [torn EXCEPT ![c] = FALSE]
  /\ UNCHANGED <<source, partitioned, files, ingestion, downstream, kept, changes, crashes>>

\* The read of a removed file raises, and the task is retried once.  The write that follows
\* the deletion always ends so: nothing of its plan is cached, it has to read the files that
\* it has just deleted.
CompactionFails(c) ==
  /\ torn[c] \/ task[c] = "deleted"
  /\ task' = [task EXCEPT ![c] = IF tries[c] < Retries THEN "queued" ELSE "failed"]
  /\ tries' = [tries EXCEPT ![c] = IF @ < Retries THEN @ + 1 ELSE @]
  /\ torn' = [torn EXCEPT ![c] = FALSE]
  /\ UNCHANGED <<source, partitioned, files, ingestion, downstream, kept, changes, crashes>>
-----------------------------------------------------------------------------
(* A downstream task, clean_transactions say *)

\* No files, no attempt.
OpenRaw ==
  /\ reader = "idle"
  /\ files # {}
  /\ reader' = "open" /\ opened' = files /\ readerTorn' = FALSE /\ owed' = kept
  /\ UNCHANGED <<source, partitioned, files, ingestion, compaction, staged, promised, kept,
                 changes, crashes>>

StageIgnoringMissingFiles ==
  /\ reader = "open"
  /\ staged' = Ids(files)
  /\ promised' = owed
  /\ reader' = "idle" /\ opened' = {} /\ readerTorn' = FALSE /\ owed' = {}
  /\ UNCHANGED <<source, partitioned, files, ingestion, compaction, kept, changes, crashes>>

\* The deduplicated rows of the files it listed.
StageRows ==
  /\ reader = "open"
  /\ ~readerTorn
  /\ staged' = Ids(opened)
  /\ promised' = owed
  /\ reader' = "idle" /\ opened' = {} /\ readerTorn' = FALSE /\ owed' = {}
  /\ UNCHANGED <<source, partitioned, files, ingestion, compaction, kept, changes, crashes>>

ReaderFails ==
  /\ reader = "open"
  /\ readerTorn
  /\ reader' = "idle" /\ opened' = {} /\ readerTorn' = FALSE /\ owed' = {}
  /\ UNCHANGED <<source, partitioned, files, ingestion, compaction, staged, promised, kept,
                 changes, crashes>>
-----------------------------------------------------------------------------
Ingestion == GetBounds \/ DeleteTable \/ (\E i \in Slices : ReadSlice(i)) \/ WriteRaw \/ IngestionDies
Compaction ==
  \/ TriggerCompaction \/ TriggerTier
  \/ \E c \in Tasks : \/ ListPartition(c) \/ CountRows(c) \/ DeletePartition(c)
                      \/ CompactionFails(c)
Downstream == OpenRaw \/ StageRows \/ ReaderFails

Next ==
  \/ \E r \in Rows : SourceChanges(r)
  \/ Ingestion
  \/ Compaction
  \/ Downstream

Spec == Init /\ [][Next]_vars
-----------------------------------------------------------------------------
(* Properties *)

IdPairs == Ids(Rows)

\* Every variable keeps its type.
TypeOK ==
  /\ source \subseteq Rows /\ files \subseteq Rows /\ steady \subseteq source
  /\ partitioned \in BOOLEAN
  /\ ing \in {"idle", "delete", "slices"}
  /\ lower \in Int /\ upper \in Int /\ lower <= upper
  /\ unread \subseteq Slices
  /\ got \subseteq Rows \X Slices
  /\ task \in [Tasks -> {"none", "queued", "listed", "counted", "deleted", "success", "failed"}]
  /\ tries \in [Tasks -> 0 .. Retries]
  /\ torn \in [Tasks -> BOOLEAN]
  /\ reader \in {"idle", "open"}
  /\ opened \subseteq Rows
  /\ readerTorn \in BOOLEAN
  /\ staged \subseteq IdPairs /\ kept \subseteq IdPairs
  /\ owed \subseteq IdPairs /\ promised \subseteq IdPairs
  /\ changes \in 0 .. MaxChanges
  /\ crashes \in 0 .. MaxCrashes

\* The ranges of the parallel read leave no gap and do not overlap, whatever the ids are and
\* whatever is inserted after the bounds were queried: a row that is in the source all the
\* while is read by exactly one slice.
ReadOnce ==
  ing = "slices" /\ unread = {} =>
    \A r \in steady : Cardinality({i \in Slices : <<r, i>> \in got}) = 1

\* Where there are raw files at all they have every id of the last ingestion, however the
\* compaction tasks, their retries and the next ingestion overwrite each other.
RawComplete == files # {} => kept \subseteq Ids(files)

\* What a downstream task stages has every id of the ingestion it read, though the files may
\* be deleted or replaced under it at any time: it gets all of them or fails.
StagedComplete == promised \subseteq staged

\* "atomic": when a compaction run has succeeded, the partition still has every id that was
\* ingested.
CompactionKeepsRows ==
  (\A c \in DailyTasks : task[c] = "success") => kept \subseteq Ids(files)
=============================================================================
