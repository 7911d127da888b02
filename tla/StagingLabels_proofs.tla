-------------------------- MODULE StagingLabels_proofs --------------------------
(***************************************************************************)
(* That a writer of staging.transactions takes an applied label back only  *)
(* where it commits over what another has written since it read: for any   *)
(* transactions, partitions, years, batches, labels and reloads.           *)
(***************************************************************************)
EXTENDS StagingWriters_proofs

(* The tables of the audit run *)

Listed(d, t) == manifest[d][t] # NoLabel

\* Labels are numbered by their reload, and detection lists what raw has.
ListedIsOld ==
  \A t \in Txns : raw[t] <= reloads /\ \A d \in Partitions : manifest[d][t] <= raw[t]

\* Knowledge dates that are not run yet have nothing, and a later date lists newer labels.
NothingAhead ==
  \A d \in Partitions : d > ds => applied[d] = {} /\ \A t \in Txns : ~Listed(d, t)
LaterIsNewer ==
  \A d \in Partitions : \A t \in Txns :
    d < ds /\ Listed(ds, t) => manifest[d][t] <= manifest[ds][t]

\* Detection rewrites the manifest only of a date that has applied nothing.
FreshRun == at[Audit] \in {"index", "detect"} => applied[ds] = {}

AppliedListed == \A d \in Partitions : \A t \in applied[d] : Listed(d, t)

LedgerInv ==
  /\ ListedIsOld /\ NothingAhead /\ LaterIsNewer
  /\ FreshRun /\ AppliedListed

LEMMA LedgerInit == Init => LedgerInv
<1> SUFFICES ASSUME Init PROVE LedgerInv
  OBVIOUS
<1>1. /\ \A d \in Partitions : applied[d] = {} /\ \A t \in Txns : manifest[d][t] = NoLabel
      /\ ds = 0 /\ reloads = 1 /\ raw = FirstLabels /\ indexed = arrived
  BY DEF Init
<1>2. at[Audit] = "idle"
  BY WriterFacts DEF Init
<1>3. \A t \in Txns : raw[t] \in {0, 1}
  BY <1>1, StagingWritersAssumption
<1>4. ListedIsOld
  <2> SUFFICES ASSUME NEW t \in Txns
               PROVE  raw[t] <= reloads /\ \A d \in Partitions : manifest[d][t] <= raw[t]
    BY DEF ListedIsOld
  <2>1. raw[t] \in {0, 1} /\ reloads = 1 /\ \A d \in Partitions : manifest[d][t] = 0
    BY <1>1, <1>3 DEF NoLabel
  <2> QED BY <2>1
<1>5. LaterIsNewer
  BY <1>1, WriterFacts DEF LaterIsNewer, Partitions
<1> QED BY <1>1, <1>2, <1>4, <1>5
        DEF LedgerInv, NothingAhead, Listed, FreshRun, AppliedListed

\* Steps that leave the audit run's tables alone.
LEMMA LedgerSame ==
  ASSUME LedgerInv, UNCHANGED <<raw, reloads, manifest, applied, ds>>,
         at'[Audit] \in {"index", "detect"} => at[Audit] \in {"index", "detect"}
  PROVE  LedgerInv'
<1>1. (ListedIsOld /\ NothingAhead /\ LaterIsNewer)'
  BY DEF LedgerInv, ListedIsOld, NothingAhead, LaterIsNewer, Listed
<1>2. (FreshRun /\ AppliedListed)'
  BY DEF LedgerInv, FreshRun, AppliedListed, Listed
<1> QED BY <1>1, <1>2 DEF LedgerInv

LEMMA LedgerReload ==
  ASSUME TypeOK, LedgerInv, NEW t \in Txns, Reload(t)
  PROVE  LedgerInv'
<1>1. \A u \in Txns : raw'[u] = raw[u] \/ raw'[u] = reloads + 1
  BY DEF Reload, TypeOK
<1>2. \A u \in Txns : raw[u] \in Nat /\ \A d \in Partitions : manifest[d][u] \in Nat
  BY StagingWritersAssumption DEF TypeOK, Labels, NoLabel
<1>3. reloads' = reloads + 1 /\ manifest' = manifest /\ reloads \in Nat
  BY DEF Reload, auditTables, TypeOK
<1>4. ListedIsOld'
  BY <1>1, <1>2, <1>3 DEF LedgerInv, ListedIsOld
<1>5. (NothingAhead /\ LaterIsNewer /\ FreshRun /\ AppliedListed)'
  BY DEF Reload, auditTables, audit, LedgerInv, NothingAhead, LaterIsNewer, FreshRun,
         AppliedListed, Listed
<1> QED BY <1>4, <1>5 DEF LedgerInv

LEMMA LedgerStart ==
  ASSUME TypeOK, LedgerInv, NEW d \in Partitions, StartAudit(d)
  PROVE  LedgerInv'
<1>1. /\ d > ds /\ ds' = d /\ ds \in Int /\ d \in Int
      /\ UNCHANGED <<raw, reloads, indexed, manifest, applied, staging>>
  BY WriterFacts DEF StartAudit, tables, auditTables, rows, TypeOK
<1>2. applied[d] = {} /\ \A t \in Txns : ~Listed(d, t)
  BY <1>1 DEF LedgerInv, NothingAhead
<1>3. NothingAhead'
  <2> SUFFICES ASSUME NEW e \in Partitions, e > d
               PROVE  applied[e] = {} /\ \A t \in Txns : ~Listed(e, t)
    BY <1>1 DEF NothingAhead, Listed
  <2>1. e \in Int /\ e > ds
    BY <1>1, WriterFacts
  <2> QED BY <2>1 DEF LedgerInv, NothingAhead
<1>4. (LaterIsNewer /\ FreshRun)'
  BY <1>1, <1>2 DEF LaterIsNewer, FreshRun, Listed
<1> QED BY <1>1, <1>3, <1>4 DEF LedgerInv, ListedIsOld, AppliedListed, Listed

LEMMA LedgerDetect ==
  ASSUME TypeOK, Dated, LedgerInv, Detect
  PROVE  LedgerInv'
<1> DEFINE impact == {t \in indexed : raw[t] # NoLabel /\ raw[t] # history[t]}
           new == [t \in Txns |-> IF t \in impact THEN raw[t] ELSE NoLabel]
<1>0. ds \in Partitions /\ at[Audit] = "detect" /\ Partitions \subseteq Int
  BY WriterFacts DEF Dated, Detect
<1>1. /\ UNCHANGED <<raw, reloads, indexed, applied, ds>>
      /\ at'[Audit] = "restate"
  BY WriterFacts DEF Detect, rows, audit, TypeOK
<1>2. manifest' = IF impact = {} THEN manifest ELSE [manifest EXCEPT ![ds] = new]
  BY DEF Detect
<1>3. \A t \in Txns : /\ raw[t] \in Nat /\ new[t] \in {raw[t], NoLabel} /\ NoLabel = 0
                      /\ new[t] # NoLabel => new[t] = raw[t] /\ t \in indexed
  BY StagingWritersAssumption DEF TypeOK, Labels, NoLabel
<1>4. \A d \in Partitions : d # ds => manifest'[d] = manifest[d]
  <2> HIDE DEF new, impact
  <2> QED BY <1>2 DEF TypeOK
<1>5. manifest'[ds] = manifest[ds] \/ manifest'[ds] = new
  <2> HIDE DEF new, impact
  <2> QED BY <1>0, <1>2 DEF TypeOK
<1> HIDE DEF new, impact
<1>6. \A t \in Txns : raw[t] <= reloads /\ \A d \in Partitions : manifest[d][t] <= raw[t]
  BY DEF LedgerInv, ListedIsOld
<1>7. ListedIsOld'
  BY <1>1, <1>3, <1>4, <1>5, <1>6 DEF ListedIsOld
<1>8. NothingAhead'
  BY <1>0, <1>1, <1>4 DEF LedgerInv, NothingAhead, Listed
<1>9. LaterIsNewer'
  <2> SUFFICES ASSUME NEW d \in Partitions, NEW t \in Txns, d < ds, manifest'[ds][t] # NoLabel
               PROVE  manifest'[d][t] <= manifest'[ds][t]
    BY <1>1 DEF LaterIsNewer, Listed
  <2>1. manifest'[d] = manifest[d]
    BY <1>0, <1>4
  <2>2. CASE manifest'[ds] = manifest[ds]
    BY <2>1, <2>2 DEF LedgerInv, LaterIsNewer, Listed
  <2>3. CASE manifest'[ds] = new
    BY <1>3, <1>6, <2>1, <2>3
  <2> QED BY <1>5, <2>2, <2>3
<1>10. FreshRun'
  BY <1>1 DEF FreshRun
<1>11. AppliedListed'
  <2>1. applied[ds] = {}
    BY <1>0 DEF LedgerInv, FreshRun
  <2> QED BY <1>1, <1>4, <2>1 DEF LedgerInv, AppliedListed, Listed
<1> QED BY <1>7, <1>8, <1>9, <1>10, <1>11 DEF LedgerInv

LEMMA LedgerAppend ==
  ASSUME TypeOK, Dated, LedgerInv, AppendLedger
  PROVE  LedgerInv'
<1>0. ds \in Partitions
  BY DEF Dated, AppendLedger
<1>1. /\ UNCHANGED <<raw, reloads, indexed, manifest, ds, staging>>
      /\ at'[Audit] \in {"idle", "partitions"}
      /\ applied' = [applied EXCEPT ![ds] = @ \cup PartChanges]
  BY WriterFacts DEF AppendLedger, rows, TypeOK
<1>2. \A t \in PartChanges : Listed(ds, t)
  BY DEF PartChanges, Pending, Listed
<1>3. \A d \in Partitions : applied'[d] = applied[d] \/ (d = ds /\ applied'[d] = applied[d] \cup PartChanges)
  BY <1>0, <1>1 DEF TypeOK
<1>4. AppliedListed'
  BY <1>1, <1>2, <1>3 DEF LedgerInv, AppliedListed, Listed
<1>5. NothingAhead'
  BY <1>1, <1>3, WriterFacts DEF LedgerInv, NothingAhead, Listed
<1> QED BY <1>1, <1>4, <1>5 DEF LedgerInv, ListedIsOld, LaterIsNewer, FreshRun, Listed

LEMMA LedgerStep ==
  ASSUME TypeOK, Dated, LedgerInv, [Next]_vars
  PROVE  LedgerInv'
<1>0. /\ at \in [Writers -> Steps] /\ Partitions \subseteq Writers /\ Audit \notin Partitions
      /\ Audit \in Writers /\ Backfill \in Writers /\ Audit # Backfill
  BY WriterFacts DEF TypeOK, Steps
<1>1. ASSUME NEW t \in Txns, Arrive(t) PROVE LedgerInv'
  BY <1>1, LedgerSame DEF Arrive, auditTables, audit
<1>2. ASSUME NEW t \in Txns, Reload(t) PROVE LedgerInv'
  BY <1>2, LedgerReload
<1>3. ASSUME NEW d \in Partitions, Daily(d) PROVE LedgerInv'
  <2>1. UNCHANGED <<raw, reloads, manifest, applied, ds>> /\ at'[Audit] = at[Audit]
    BY <1>0, <1>3 DEF Daily, StartDaily, ReadRaw, CommitClean, ReadStaging, CommitEnrich, Begin,
                      Commit, tables, auditTables, audit
  <2> QED BY <2>1, LedgerSame
<1>4. ASSUME NEW d \in Partitions, StartAudit(d) PROVE LedgerInv'
  BY <1>4, LedgerStart
<1>5. CASE ClearRestate \/ PlanRestate \/ ReadPartition \/ CommitPartition
  <2>1. UNCHANGED <<raw, reloads, manifest, applied, ds>>
    BY <1>5 DEF ClearRestate, PlanRestate, ReadPartition, CommitPartition, tables, auditTables, audit
  <2>2. at'[Audit] \notin {"index", "detect"}
    BY <1>0, <1>5 DEF ClearRestate, PlanRestate, ReadPartition, CommitPartition, Begin, Commit
  <2> QED BY <2>1, <2>2, LedgerSame
<1>6. CASE (\E y : BuildIndexYear(y)) \/ MarkIndexed
  <2>1. UNCHANGED <<raw, reloads, manifest, applied, ds>>
    BY <1>6 DEF BuildIndexYear, MarkIndexed, tables, auditTables, audit
  <2>2. at'[Audit] \in {"index", "detect"} => at[Audit] \in {"index", "detect"}
    BY <1>0, <1>6 DEF BuildIndexYear, MarkIndexed
  <2> QED BY <2>1, <2>2, LedgerSame
<1>7. CASE Detect
  BY <1>7, LedgerDetect
<1>8. CASE AppendLedger
  BY <1>8, LedgerAppend
<1>9. CASE BackfillScript
  <2>1. UNCHANGED <<raw, reloads, manifest, applied, ds>> /\ at'[Audit] = at[Audit]
    BY <1>0, <1>9 DEF BackfillScript, ReadAllRaw, CommitCleanFull, OpenStaging, ReadYear,
                      MaterializeBatches, ReadYearBatches, CommitYear, YearEmpty, ScriptDone, Begin,
                      Commit, tables, auditTables, audit
  <2> QED BY <2>1, LedgerSame
<1>10. ASSUME NEW w \in Writers, Fails(w) PROVE LedgerInv'
  <2>1. UNCHANGED <<raw, reloads, manifest, applied, ds>>
    BY <1>10 DEF Fails, tables, auditTables
  <2>2. at'[Audit] \in {"index", "detect"} => at[Audit] \in {"index", "detect"}
    BY <1>0, <1>10 DEF Fails, TaskOf
  <2> QED BY <2>1, <2>2, LedgerSame
<1>11. CASE UNCHANGED vars
  BY <1>11, LedgerSame DEF vars, tables, auditTables, audit
<1> QED BY <1>1, <1>2, <1>3, <1>4, <1>5, <1>6, <1>7, <1>8, <1>9, <1>10, <1>11 DEF Next, AuditRun
-----------------------------------------------------------------------------
(* What a writer has open *)

Reading ==
  {"clean", "enrich", "partitions", "clean_full", "enrich_full_years", "fraud_labels_years"}

\* A writer has partitions open in a step that reads; a daily run then replaces its own
\* partition, restate brings the listed labels of the rows it has, a script is at one of its
\* years, and the one that joins labels sees every partition it has yet to write replaced.
WriterOpen(w) ==
  /\ opened[w] # {} => at[w] \in Reading
  /\ w \in Partitions => opened[w] = {} \/ Written(image[w]) = {w}
  /\ w = Audit /\ opened[w] # {} =>
       /\ at[w] = "partitions" /\ Written(image[w]) = {Current}
       /\ \A t \in PartChanges : image[w][t] \in {manifest[ds][t], Absent}
  /\ w = Backfill /\ at[w] \in YearSteps => opened[w] \subseteq PartitionsOf(years)
  /\ w = Backfill /\ at[w] = "fraud_labels_years" => PartitionsOf(years) \subseteq listed

OpenInv == \A w \in Writers : WriterOpen(w)

\* A step of another writer leaves all of this alone, and remembers what it replaces.
Spares(w) ==
  /\ opened'[w] = opened[w] /\ image'[w] = image[w] /\ at'[w] = at[w]
  /\ stale[w] \subseteq stale'[w]
  /\ w = Audit => UNCHANGED <<manifest, applied, ds, left>>
  /\ w = Backfill => UNCHANGED <<years, batches, column, batched, listed>>
  /\ w = Backfill => torn \subseteq torn'

LEMMA SparesOpen ==
  ASSUME NEW w \in Writers, WriterOpen(w), Spares(w)
  PROVE  WriterOpen(w)'
<1>1. (opened[w] # {} => at[w] \in Reading)'
  BY DEF WriterOpen, Spares
<1>2. (w \in Partitions => opened[w] = {} \/ Written(image[w]) = {w})'
  BY DEF WriterOpen, Spares, Written
<1>3. (w = Audit /\ opened[w] # {} =>
         /\ at[w] = "partitions" /\ Written(image[w]) = {Current}
         /\ \A t \in PartChanges : image[w][t] \in {manifest[ds][t], Absent})'
  BY DEF WriterOpen, Spares, PartChanges, Pending, Current, Written
<1>4. (w = Backfill /\ at[w] \in YearSteps => opened[w] \subseteq PartitionsOf(years))'
  BY DEF WriterOpen, Spares, PartitionsOf
<1>5. (w = Backfill /\ at[w] = "fraud_labels_years" => PartitionsOf(years) \subseteq listed)'
  BY DEF WriterOpen, Spares, PartitionsOf
<1> QED BY <1>1, <1>2, <1>3, <1>4, <1>5 DEF WriterOpen

LEMMA ClosedOpen ==
  ASSUME NEW w \in Writers, opened'[w] = {},
         w = Backfill => (at[w] = "fraud_labels_years" => PartitionsOf(years) \subseteq listed)'
  PROVE  WriterOpen(w)'
BY DEF WriterOpen

LEMMA SourceSpares ==
  ASSUME NEW t \in Txns, Arrive(t) \/ Reload(t), NEW w \in Writers
  PROVE  Spares(w)
BY DEF Arrive, Reload, Spares, auditTables, audit, script, listing, watched

LEMMA DailySpares ==
  ASSUME TypeOK, NEW d \in Partitions, Daily(d), NEW w \in Writers \ {d}
  PROVE  Spares(w)
<1>1. opened'[w] = opened[w] /\ image'[w] = image[w] /\ at'[w] = at[w]
  BY DEF TypeOK, Daily, StartDaily, ReadRaw, CommitClean, ReadStaging, CommitEnrich, Begin, Read,
         Commit
<1>2. UNCHANGED <<manifest, applied, ds, left, years, batches, column, batched>>
  BY DEF Daily, StartDaily, ReadRaw, CommitClean, ReadStaging, CommitEnrich, tables, auditTables,
         audit, script
<1>3. stale[w] \subseteq stale'[w] /\ listed' = listed /\ torn \subseteq torn'
  BY DEF TypeOK, Daily, StartDaily, ReadRaw, CommitClean, ReadStaging, CommitEnrich, Commit, watched,
         listing
<1> QED BY <1>1, <1>2, <1>3 DEF Spares

LEMMA AuditSpares ==
  ASSUME TypeOK, AuditRun, NEW w \in Writers \ {Audit}
  PROVE  Spares(w)
<1>1. opened'[w] = opened[w] /\ image'[w] = image[w] /\ at'[w] = at[w]
  BY DEF TypeOK, AuditRun, StartAudit, ClearRestate, BuildIndexYear, MarkIndexed, Detect,
         PlanRestate, ReadPartition, CommitPartition, AppendLedger, Begin, Read, Commit
<1>2. UNCHANGED <<years, batches, column, batched>>
  BY DEF AuditRun, StartAudit, ClearRestate, BuildIndexYear, MarkIndexed, Detect, PlanRestate,
         ReadPartition, CommitPartition, AppendLedger, tables, script
<1>3. stale[w] \subseteq stale'[w] /\ listed' = listed /\ torn \subseteq torn'
  <2>1. CASE CommitPartition
    BY <2>1 DEF TypeOK, CommitPartition, Commit
  <2>2. CASE ~CommitPartition
    <3>1. UNCHANGED <<stale, listed, torn>>
      BY <2>2 DEF AuditRun, StartAudit, ClearRestate, BuildIndexYear, MarkIndexed, Detect,
                  PlanRestate, ReadPartition, AppendLedger, watched, listing
    <3> QED BY <3>1
  <2> QED BY <2>1, <2>2
<1> QED BY <1>1, <1>2, <1>3 DEF Spares

LEMMA ScriptSpares ==
  ASSUME TypeOK, BackfillScript, NEW w \in Writers \ {Backfill}
  PROVE  Spares(w)
<1>1. opened'[w] = opened[w] /\ image'[w] = image[w] /\ at'[w] = at[w]
  BY DEF TypeOK, BackfillScript, ReadAllRaw, CommitCleanFull, OpenStaging, ReadYear,
         MaterializeBatches, ReadYearBatches, CommitYear, YearEmpty, ScriptDone, Begin, Read, Commit
<1>2. UNCHANGED <<manifest, applied, ds, left>>
  BY DEF BackfillScript, ReadAllRaw, CommitCleanFull, OpenStaging, ReadYear, MaterializeBatches,
         ReadYearBatches, CommitYear, YearEmpty, ScriptDone, tables, auditTables, audit
<1>3. stale[w] \subseteq stale'[w]
  BY DEF TypeOK, BackfillScript, ReadAllRaw, CommitCleanFull, OpenStaging, ReadYear,
         MaterializeBatches, ReadYearBatches, CommitYear, YearEmpty, ScriptDone, Commit, watched
<1> QED BY <1>1, <1>2, <1>3 DEF Spares

LEMMA FailsSpares ==
  ASSUME TypeOK, NEW v \in Writers, Fails(v), NEW w \in Writers \ {v}
  PROVE  Spares(w)
<1>1. opened'[w] = opened[w] /\ image'[w] = image[w] /\ at'[w] = at[w] /\ stale'[w] = stale[w]
  BY DEF TypeOK, Fails
<1>2. UNCHANGED <<manifest, applied, ds, batched>>
  BY DEF Fails, tables, auditTables
<1>3. w = Audit => left' = left
  BY DEF Fails
<1>4. w = Backfill => UNCHANGED <<years, batches, column, listed, torn>>
  BY DEF Fails
<1> QED BY <1>1, <1>2, <1>3, <1>4 DEF Spares

LEMMA DailyOpen ==
  ASSUME TypeOK, OpenInv, NEW d \in Partitions, Daily(d)
  PROVE  WriterOpen(d)'
<1>0. /\ d \in Writers /\ d # Audit /\ d # Backfill /\ WriterOpen(d)
      /\ at \in [Writers -> Steps] /\ opened \in [Writers -> SUBSET Partitions]
  BY WriterFacts DEF OpenInv, TypeOK, Steps
<1>1. CASE StartDaily(d)
  <2>1. opened' = opened /\ opened[d] = {}
    BY <1>0, <1>1 DEF StartDaily, Begin, WriterOpen, Reading
  <2> QED BY <1>0, <2>1, ClosedOpen
<1>2. CASE ReadRaw(d)
  <2> DEFINE clean == {t \in arrived : EventDay[t] = d}
  <2>1. /\ image'[d] = Image(clean, [t \in Txns |-> NoColumn]) /\ opened'[d] = {d}
        /\ at'[d] = "clean" /\ clean # {}
    BY <1>0, <1>2 DEF ReadRaw, Read, TypeOK
  <2>2. Written(image'[d]) = {EventDay[t] : t \in clean}
    <3>1. clean \in SUBSET Txns /\ \A t \in clean : [u \in Txns |-> NoColumn][t] # Absent
      BY CellFacts DEF TypeOK
    <3> HIDE DEF clean
    <3> QED BY <2>1, <3>1, ImageFacts
  <2>3. Written(image'[d]) = {d}
    BY <2>1, <2>2
  <2> QED BY <1>0, <2>1, <2>3 DEF WriterOpen, Reading, Written
<1>3. CASE ReadStaging(d)
  <2>1. /\ image'[d] = Image(RowsOf({d}), raw) /\ opened'[d] = {d}
        /\ at'[d] = "enrich" /\ RowsOf({d}) # {}
    BY <1>0, <1>3 DEF ReadStaging, Read, TypeOK
  <2>2. RowsOf({d}) \in SUBSET Txns /\ \A t \in RowsOf({d}) : raw[t] # Absent /\ EventDay[t] = d
    BY CellFacts DEF RowsOf, TypeOK
  <2>3. Written(image'[d]) = {EventDay[t] : t \in RowsOf({d})}
    BY <2>1, <2>2, ImageFacts
  <2>4. Written(image'[d]) = {d}
    BY <2>1, <2>2, <2>3
  <2> QED BY <1>0, <2>1, <2>4 DEF WriterOpen, Reading, Written
<1>4. CASE CommitClean(d) \/ CommitEnrich(d)
  <2>1. opened'[d] = {}
    BY <1>0, <1>4 DEF CommitClean, CommitEnrich, Commit
  <2> QED BY <1>0, <2>1, ClosedOpen
<1> QED BY <1>1, <1>2, <1>3, <1>4 DEF Daily

LEMMA AuditOpen ==
  ASSUME TypeOK, OpenInv, Dated, AuditRun
  PROVE  WriterOpen(Audit)'
<1>0. /\ Audit \in Writers /\ Audit \notin Partitions /\ Audit # Backfill /\ WriterOpen(Audit)
      /\ at \in [Writers -> Steps] /\ opened \in [Writers -> SUBSET Partitions]
  BY WriterFacts DEF OpenInv, TypeOK, Steps
<1>1. CASE \/ \E d \in Partitions : StartAudit(d)
           \/ ClearRestate \/ MarkIndexed \/ Detect \/ PlanRestate \/ AppendLedger
  <2>1. opened' = opened /\ at[Audit] \notin Reading
    BY <1>0, <1>1 DEF StartAudit, ClearRestate, MarkIndexed, Detect, PlanRestate, AppendLedger,
                      Begin, Reading
  <2>2. opened'[Audit] = {}
    BY <1>0, <2>1 DEF WriterOpen
  <2> QED BY <1>0, <2>2, ClosedOpen
<1>2. CASE ReadPartition
  <2> DEFINE label == [t \in Txns |-> IF t \in PartChanges THEN manifest[ds][t] ELSE staging[t]]
  <2>1. image'[Audit] = Image(RowsOf({Current}), label) /\ at'[Audit] = "partitions"
    BY <1>0, <1>2 DEF ReadPartition, Read, TypeOK
  <2>2. UNCHANGED <<manifest, applied, ds, left>>
    BY <1>2 DEF ReadPartition, tables, auditTables, audit
  <2>3. ds \in Partitions /\ RowsOf({Current}) # {}
    BY <1>2 DEF ReadPartition, Dated, HasLabels
  <2>4. \A t \in PartChanges : image'[Audit][t] \in {manifest[ds][t], Absent}
    BY <2>1 DEF Image, PartChanges, Pending
  <2>5. PartChanges' = PartChanges /\ Current' = Current
    BY <2>2 DEF PartChanges, Pending, Current
  <2>6. Written(image'[Audit]) = {EventDay[t] : t \in RowsOf({Current})}
    <3>1. RowsOf({Current}) \in SUBSET Txns /\ \A t \in RowsOf({Current}) : label[t] # Absent
      BY <2>3, CellFacts DEF RowsOf, TypeOK
    <3> HIDE DEF label
    <3> QED BY <2>1, <3>1, ImageFacts
  <2>7. Written(image'[Audit]) = {Current}
    BY <2>3, <2>6 DEF RowsOf
  <2> QED BY <1>0, <2>1, <2>2, <2>4, <2>5, <2>7 DEF WriterOpen, Reading, Written
<1>3. CASE CommitPartition
  <2>1. opened'[Audit] = {}
    BY <1>0, <1>3 DEF CommitPartition, Commit
  <2> QED BY <1>0, <2>1, ClosedOpen
<1>4. CASE \E y : BuildIndexYear(y)
  <2>1. UNCHANGED <<opened, image, at, manifest, applied, ds, left, stale>>
    BY <1>4 DEF BuildIndexYear, audit, watched
  <2> QED BY <1>0, <2>1, SparesOpen DEF Spares
<1> QED BY <1>1, <1>2, <1>3, <1>4 DEF AuditRun

LEMMA ScriptOpen ==
  ASSUME TypeOK, OpenInv, BackfillScript
  PROVE  WriterOpen(Backfill)'
<1>0. /\ Backfill \in Writers /\ Backfill \notin Partitions /\ Audit # Backfill /\ WriterOpen(Backfill)
      /\ at \in [Writers -> Steps] /\ opened \in [Writers -> SUBSET Partitions]
  BY WriterFacts DEF OpenInv, TypeOK, Steps
<1>1. CASE OpenStaging \/ MaterializeBatches
  <2>1. opened' = opened /\ at[Backfill] = "idle"
    BY <1>1 DEF OpenStaging, MaterializeBatches, Begin
  <2>2. opened'[Backfill] = {}
    BY <1>0, <2>1 DEF WriterOpen, Reading
  <2>3. (at[Backfill] = "fraud_labels_years" => PartitionsOf(years) \subseteq listed)'
    BY <1>0, <1>1 DEF OpenStaging, MaterializeBatches, Begin, PartitionsOf
  <2> QED BY <1>0, <2>2, <2>3, ClosedOpen
<1>2. CASE ReadAllRaw
  <2>1. at'[Backfill] = "clean_full"
    BY <1>0, <1>2 DEF ReadAllRaw, Begin
  <2> QED BY <1>0, <2>1 DEF WriterOpen, Reading, YearSteps
<1>3. CASE ReadYear \/ ReadYearBatches
  <2>1. /\ opened'[Backfill] = YearPartitions /\ at' = at /\ years' = years /\ years # {}
        /\ listed' = listed
    BY <1>0, <1>3 DEF ReadYear, ReadYearBatches, Read, script, listing
  <2>2. YearPartitions \subseteq PartitionsOf(years)
    BY <2>1, YearIsAhead DEF YearPartitions, PartitionsOf
  <2>3. at[Backfill] \in Reading
    BY <1>3 DEF ReadYear, ReadYearBatches, Reading
  <2> QED BY <1>0, <2>1, <2>2, <2>3 DEF WriterOpen, PartitionsOf
<1>4. CASE CommitCleanFull
  <2>1. opened'[Backfill] = {} /\ at'[Backfill] = "idle"
    BY <1>0, <1>4 DEF CommitCleanFull, Commit
  <2> QED BY <1>0, <2>1, ClosedOpen
<1>5. CASE CommitYear \/ YearEmpty
  <2>1. opened'[Backfill] = {} /\ at' = at /\ years' \subseteq years /\ listed' = listed
    BY <1>0, <1>5 DEF CommitYear, YearEmpty, Commit, listing
  <2>2. (at[Backfill] = "fraud_labels_years" => PartitionsOf(years) \subseteq listed)'
    BY <1>0, <2>1 DEF WriterOpen, PartitionsOf
  <2> QED BY <1>0, <2>1, <2>2, ClosedOpen
<1>6. CASE ScriptDone
  <2>1. opened' = opened /\ opened[Backfill] \subseteq PartitionsOf({}) /\ at'[Backfill] = "idle"
    BY <1>0, <1>6 DEF ScriptDone, WriterOpen
  <2>2. opened'[Backfill] = {}
    BY <2>1 DEF PartitionsOf
  <2> QED BY <1>0, <2>1, <2>2, ClosedOpen
<1> QED BY <1>1, <1>2, <1>3, <1>4, <1>5, <1>6 DEF BackfillScript

LEMMA OpenStep ==
  ASSUME TypeOK, Dated, OpenInv, [Next]_vars
  PROVE  OpenInv'
<1>0. Partitions \subseteq Writers /\ Audit \in Writers /\ Backfill \in Writers
  BY WriterFacts
<1>1. SUFFICES ASSUME NEW w \in Writers PROVE WriterOpen(w)'
  BY DEF OpenInv
<1>2. WriterOpen(w)
  BY DEF OpenInv
<1>3. ASSUME Spares(w) PROVE WriterOpen(w)'
  BY <1>2, <1>3, SparesOpen
<1>4. ASSUME NEW t \in Txns, Arrive(t) \/ Reload(t) PROVE WriterOpen(w)'
  BY <1>3, <1>4, SourceSpares
<1>5. ASSUME NEW d \in Partitions, Daily(d) PROVE WriterOpen(w)'
  <2>1. CASE w = d
    BY <1>5, <2>1, DailyOpen
  <2>2. CASE w # d
    BY <1>3, <1>5, <2>2, DailySpares
  <2> QED BY <2>1, <2>2
<1>6. CASE AuditRun
  <2>1. CASE w = Audit
    BY <1>6, <2>1, AuditOpen
  <2>2. CASE w # Audit
    BY <1>3, <1>6, <2>2, AuditSpares
  <2> QED BY <2>1, <2>2
<1>7. CASE BackfillScript
  <2>1. CASE w = Backfill
    BY <1>7, <2>1, ScriptOpen
  <2>2. CASE w # Backfill
    BY <1>3, <1>7, <2>2, ScriptSpares
  <2> QED BY <2>1, <2>2
<1>8. ASSUME NEW v \in Writers, Fails(v) PROVE WriterOpen(w)'
  <2>1. CASE w = v
    <3>1. opened'[w] = {} /\ (w = Backfill => at'[w] = "idle")
      BY <1>8, <2>1 DEF Fails, TypeOK
    <3> QED BY <3>1, ClosedOpen
  <2>2. CASE w # v
    BY <1>3, <1>8, <2>2, FailsSpares
  <2> QED BY <2>1, <2>2
<1>9. CASE UNCHANGED vars
  BY <1>3, <1>9 DEF Spares, vars, tables, auditTables, audit, script, listing, watched
<1> QED BY <1>4, <1>5, <1>6, <1>7, <1>8, <1>9 DEF Next
-----------------------------------------------------------------------------
(* The rows that are indexed or listed *)

Known(t) == t \in indexed \/ \E d \in Partitions : Listed(d, t)

\* A cleaning has all of them in the partitions nobody has replaced since it read.
CleansKnown(w) ==
  at[w] \in {"clean", "clean_full"} =>
    \A t \in Txns : Known(t) /\ EventDay[t] \in Written(image[w]) \ stale[w] => image[w][t] # Absent

\* They have arrived, and are staged unless their partition is overtaken.
KnownInv ==
  /\ \A t \in Txns : Known(t) => t \in arrived /\ (staging[t] # Absent \/ EventDay[t] \in overtaken)
  /\ \A w \in Writers : CleansKnown(w)

LEMMA ClosedWritten ==
  ASSUME RowsInv, NEW w \in Writers
  PROVE  Written(image[w]) \subseteq opened[w] /\ (opened[w] = {} => Written(image[w]) = {})
BY DEF RowsInv, Good, Written

\* Only staged rows are indexed, and only indexed rows are listed.
LEMMA KnownStays ==
  ASSUME TypeOK, Dated, [Next]_vars, NEW t \in Txns, Known(t)', ~Known(t)
  PROVE  staging[t] # Absent /\ UNCHANGED <<staging, arrived, overtaken>>
<1>1. CASE indexed' = indexed /\ manifest' = manifest
  BY <1>1 DEF Known, Listed
<1>2. CASE Detect
  <2> DEFINE impact == {u \in indexed : raw[u] # NoLabel /\ raw[u] # history[u]}
             new == [u \in Txns |-> IF u \in impact THEN raw[u] ELSE NoLabel]
  <2>1. manifest' = (IF impact = {} THEN manifest ELSE [manifest EXCEPT ![ds] = new])
        /\ indexed' = indexed
    BY <1>2 DEF Detect
  <2>2. new[t] # NoLabel => t \in indexed
    OBVIOUS
  <2>3. \A d \in Partitions : manifest'[d] \in {manifest[d], new}
    <3> HIDE DEF new, impact
    <3> QED BY <2>1 DEF TypeOK
  <2> HIDE DEF new
  <2> QED BY <2>1, <2>2, <2>3 DEF Known, Listed
<1>3. CASE \E y : BuildIndexYear(y)
  BY <1>3 DEF BuildIndexYear, Known, Listed, RowsOf, rows, watched
<1>4. CASE ~Detect /\ ~(\E y : BuildIndexYear(y)) /\ Next
  <2>1. CASE \E u \in Txns : Arrive(u) \/ Reload(u)
    BY <1>1, <2>1 DEF Arrive, Reload, auditTables
  <2>2. CASE \E d \in Partitions : Daily(d)
    BY <1>1, <2>2 DEF Daily, StartDaily, ReadRaw, CommitClean, ReadStaging, CommitEnrich, tables,
                      auditTables
  <2>3. CASE AuditRun
    BY <1>1, <1>4, <2>3 DEF AuditRun, StartAudit, ClearRestate, MarkIndexed, PlanRestate,
                            ReadPartition, CommitPartition, AppendLedger, tables, auditTables
  <2>4. CASE BackfillScript
    BY <1>1, <2>4 DEF BackfillScript, ReadAllRaw, CommitCleanFull, OpenStaging, ReadYear,
                      MaterializeBatches, ReadYearBatches, CommitYear, YearEmpty, ScriptDone, tables,
                      auditTables
  <2>5. CASE \E w \in Writers : Fails(w)
    BY <1>1, <2>5 DEF Fails, tables, auditTables
  <2> QED BY <1>4, <2>1, <2>2, <2>3, <2>4, <2>5 DEF Next
<1> QED BY <1>1, <1>2, <1>3, <1>4 DEF vars, tables, auditTables

LEMMA KnownRows ==
  ASSUME TypeOK, Dated, RowsInv, KnownInv, [Next]_vars, NEW t \in Txns, Known(t)'
  PROVE  t \in arrived' /\ (staging'[t] # Absent \/ EventDay[t] \in overtaken')
<1>1. Quiet \/ \E w \in Writers : Reads(w) \/ Commits(w) \/ Drops(w)
  BY StepKinds
<1>2. arrived \subseteq arrived'
  BY <1>1 DEF Quiet, Reads, Commits, Drops
<1>3. CASE ~Known(t)
  BY <1>2, <1>3, KnownStays DEF RowsInv, StagedArrived
<1>4. CASE Known(t)
  <2>1. t \in arrived /\ (staging[t] # Absent \/ EventDay[t] \in overtaken)
    BY <1>4 DEF KnownInv
  <2>2. CASE Quiet \/ \E w \in Writers : Reads(w) \/ Drops(w)
    BY <1>2, <2>1, <2>2 DEF Quiet, Reads, Drops, watched
  <2>3. ASSUME NEW w \in Writers, Commits(w), EventDay[t] \notin overtaken'
        PROVE  staging'[t] # Absent
    <3>1. /\ staging' = Overwrite(image[w])
          /\ overtaken' = (IF at[w] \in {"clean", "clean_full"} THEN overtaken \ Written(image[w])
                           ELSE overtaken) \cup TakesBack(w)
      BY <2>3 DEF Commits, Commit
    <3>2. staging'[t] = IF EventDay[t] \in Written(image[w]) THEN image[w][t] ELSE staging[t]
      BY <3>1, OverwriteFacts
    <3>3. CASE EventDay[t] \notin Written(image[w])
      BY <2>1, <2>3, <3>1, <3>2, <3>3
    <3>4. CASE EventDay[t] \in Written(image[w])
      <4>1. EventDay[t] \notin stale[w] /\ ~Partial(w)
        BY <2>3, <3>1, <3>4, StagingWritersAssumption DEF TakesBack, Partial
      <4>2. CASE at[w] \in {"clean", "clean_full"}
        BY <1>4, <3>2, <3>4, <4>1, <4>2 DEF KnownInv, CleansKnown
      <4>3. CASE at[w] \notin {"clean", "clean_full"}
        <5>1. staging[t] # Absent
          BY <2>1, <2>3, <3>1, <4>3
        <5> QED BY <3>2, <3>4, <4>1, <5>1 DEF RowsInv, Good
      <4> QED BY <4>2, <4>3
    <3> QED BY <3>3, <3>4
  <2> QED BY <1>1, <1>2, <2>1, <2>2, <2>3
<1> QED BY <1>3, <1>4

\* What others do leaves the rows of a cleaning known.
LEMMA CleansSpared ==
  ASSUME TypeOK, Dated, RowsInv, KnownInv, [Next]_vars, NEW w \in Writers, Spares(w)
  PROVE  CleansKnown(w)'
<1> SUFFICES ASSUME at[w] \in {"clean", "clean_full"}, NEW t \in Txns, Known(t)',
                    EventDay[t] \in Written(image[w]) \ stale'[w]
             PROVE  image[w][t] # Absent
  BY DEF CleansKnown, Spares, Written
<1>1. EventDay[t] \in Written(image[w]) \ stale[w]
  BY DEF Spares
<1>2. CASE Known(t)
  BY <1>1, <1>2 DEF KnownInv, CleansKnown
<1>3. CASE ~Known(t)
  <2>1. staging[t] # Absent
    BY <1>3, KnownStays
  <2>2. ~Partial(w)
    BY DEF Partial, JoinsLabels
  <2> QED BY <1>1, <2>1, <2>2 DEF RowsInv, Good
<1> QED BY <1>2, <1>3

LEMMA CleansOther ==
  ASSUME NEW w, at'[w] \notin {"clean", "clean_full"}
  PROVE  CleansKnown(w)'
BY DEF CleansKnown

LEMMA CleansClosed ==
  ASSUME RowsInv', NEW w \in Writers, opened'[w] = {}
  PROVE  CleansKnown(w)'
<1>1. \A t \in Txns : image'[w][t] = Absent
  BY DEF RowsInv, Good
<1> QED BY <1>1 DEF CleansKnown, Written

LEMMA CleansStep ==
  ASSUME TypeOK, Dated, RowsInv, RowsInv', OpenInv, KnownInv, [Next]_vars, NEW w \in Writers
  PROVE  CleansKnown(w)'
<1>0. /\ at \in [Writers -> Steps] /\ opened \in [Writers -> SUBSET Partitions]
      /\ Partitions \subseteq Writers /\ Audit \notin Partitions /\ Backfill \notin Partitions
      /\ Audit \in Writers /\ Backfill \in Writers /\ Audit # Backfill
  BY WriterFacts DEF TypeOK, Steps
<1>1. ASSUME Spares(w) PROVE CleansKnown(w)'
  BY <1>1, CleansSpared
<1>2. at[w] = "idle" => opened[w] = {}
  BY DEF OpenInv, WriterOpen, Reading
<1>3. \A t \in Txns : Known(t)' => t \in arrived'
  BY KnownRows
<1>4. ASSUME NEW t \in Txns, Arrive(t) \/ Reload(t) PROVE CleansKnown(w)'
  BY <1>1, <1>4, SourceSpares
<1>5. ASSUME NEW d \in Partitions, Daily(d), w = d PROVE CleansKnown(w)'
  <2>1. CASE StartDaily(d)
    <3>1. opened'[w] = {}
      BY <1>2, <1>5, <2>1 DEF StartDaily, Begin
    <3> QED BY <3>1, CleansClosed
  <2>2. CASE ReadRaw(d)
    <3>1. image'[w] = Image({t \in arrived : EventDay[t] = d}, [t \in Txns |-> NoColumn])
          /\ arrived' = arrived
      BY <1>5, <2>2 DEF ReadRaw, Read, TypeOK, tables
    <3>2. \A t \in Txns : EventDay[t] \in Written(image'[w]) => EventDay[t] = d
      BY <3>1 DEF Written, Image
    <3> QED BY <1>3, <3>1, <3>2, CellFacts DEF CleansKnown, Image, Written
  <2>3. CASE CommitClean(d) \/ CommitEnrich(d)
    <3>1. opened'[w] = {}
      BY <1>0, <1>5, <2>3 DEF CommitClean, CommitEnrich, Commit
    <3> QED BY <3>1, CleansClosed
  <2>4. CASE ReadStaging(d)
    <3>1. at'[w] = "enrich"
      BY <1>5, <2>4 DEF ReadStaging
    <3> QED BY <3>1, CleansOther
  <2> QED BY <1>5, <2>1, <2>2, <2>3, <2>4 DEF Daily
<1>6. ASSUME NEW d \in Partitions, Daily(d) PROVE CleansKnown(w)'
  <2>1. CASE w # d
    BY <1>1, <1>6, <2>1, DailySpares
  <2> QED BY <1>5, <1>6, <2>1
<1>7. CASE AuditRun
  <2>1. CASE w # Audit
    BY <1>1, <1>7, <2>1, AuditSpares
  <2>2. CASE w = Audit /\ \E y : BuildIndexYear(y)
    <3>1. Spares(w)
      BY <2>2, <1>0 DEF Spares, BuildIndexYear, audit, watched
    <3> QED BY <1>1, <3>1
  <2>3. CASE w = Audit /\ ~\E y : BuildIndexYear(y)
    <3>1. at'[w] \notin {"clean", "clean_full"}
      BY <1>0, <1>7, <2>3 DEF AuditRun, StartAudit, ClearRestate, MarkIndexed, Detect, PlanRestate,
                              ReadPartition, CommitPartition, AppendLedger, Begin, Commit
    <3> QED BY <3>1, CleansOther
  <2> QED BY <2>1, <2>2, <2>3
<1>8. CASE BackfillScript
  <2>1. CASE w # Backfill
    BY <1>1, <1>8, <2>1, ScriptSpares
  <2>2. CASE w = Backfill /\ ReadAllRaw
    <3>1. image'[w] = Image(arrived, [t \in Txns |-> NoColumn]) /\ arrived' = arrived
      BY <1>0, <2>2 DEF ReadAllRaw, Read, TypeOK, tables
    <3> QED BY <1>3, <3>1, CellFacts DEF CleansKnown, Image
  <2>3. CASE w = Backfill /\ (CommitCleanFull \/ CommitYear)
    <3>1. opened'[w] = {}
      BY <1>0, <2>3 DEF CommitCleanFull, CommitYear, Commit
    <3> QED BY <3>1, CleansClosed
  <2>4. CASE w = Backfill /\ ~ReadAllRaw /\ ~CommitCleanFull /\ ~CommitYear
    <3>1. at'[w] \notin {"clean", "clean_full"}
      BY <1>0, <1>8, <2>4 DEF BackfillScript, OpenStaging, ReadYear, MaterializeBatches,
                              ReadYearBatches, YearEmpty, ScriptDone, Begin, YearSteps
    <3> QED BY <3>1, CleansOther
  <2> QED BY <2>1, <2>2, <2>3, <2>4
<1>9. ASSUME NEW v \in Writers, Fails(v) PROVE CleansKnown(w)'
  <2>1. CASE w # v
    BY <1>1, <1>9, <2>1, FailsSpares
  <2>2. CASE w = v
    <3>1. opened'[w] = {}
      BY <1>0, <1>9, <2>2 DEF Fails
    <3> QED BY <3>1, CleansClosed
  <2> QED BY <2>1, <2>2
<1>10. CASE UNCHANGED vars
  BY <1>1, <1>10 DEF Spares, vars, tables, auditTables, audit, script, listing, watched
<1> QED BY <1>4, <1>6, <1>7, <1>8, <1>9, <1>10 DEF Next

LEMMA KnownStep ==
  ASSUME TypeOK, Dated, RowsInv, RowsInv', OpenInv, KnownInv, [Next]_vars
  PROVE  KnownInv'
BY KnownRows, CleansStep DEF KnownInv

LEMMA KnownInit == Init => KnownInv
<1> SUFFICES ASSUME Init PROVE KnownInv
  OBVIOUS
<1>1. /\ \A w \in Writers : at[w] = "idle"
      /\ \A d \in Partitions : \A t \in Txns : manifest[d][t] = NoLabel
      /\ indexed = arrived /\ raw = FirstLabels
  BY DEF Init
<1>2. \A t \in Txns : raw[t] \in {0, 1}
  BY <1>1, StagingWritersAssumption
<1>3. \A t \in Txns : Known(t) => t \in arrived
  BY <1>1 DEF Known, Listed
<1>4. \A t \in arrived : t \in Txns => staging[t] # Absent
  BY <1>2 DEF Init, Image, Absent
<1> QED BY <1>1, <1>3, <1>4 DEF KnownInv, CleansKnown
-----------------------------------------------------------------------------
(* Labels that are settled: applied, or written by restate and about to be *)

Settled(d, t) == t \in applied[d] \/ (d = ds /\ at[Audit] = "ledger" /\ t \in PartChanges)

\* A settled label is in staging, unless the partition's labels are gone and not joined again
\* or a writer has taken others' rows back there.
SettledShown ==
  \A d \in Partitions, t \in Txns :
    Settled(d, t) /\ EventDay[t] \notin unlabelled \cup overtaken => staging[t] >= manifest[d][t]

\* Writers that join labels anew, and those that keep the labels they read.
Joins(w) == at[w] \in {"enrich", "fraud_labels_years"}
KeepsLabels(w) ==
  at[w] = "partitions" \/ (w = Backfill /\ at[w] = "enrich_full_years" /\ column)

\* What a writer is about to write has the settled labels, except where it takes back.
Sound(w) ==
  \A d \in Partitions, t \in Txns :
    /\ Settled(d, t)
    /\ EventDay[t] \in Written(image[w]) \ (TakesBack(w) \cup overtaken)
    /\ Joins(w) \/ (KeepsLabels(w) /\ EventDay[t] \notin unlabelled)
    => image[w][t] >= manifest[d][t]

\* The hash batches have the settled labels of the partitions that are to be joined with them
\* and that nobody has replaced since.
BatchesSound ==
  at[Backfill] = "fraud_labels_years" =>
    \A d \in Partitions, t \in Txns :
      Settled(d, t) /\ EventDay[t] \in PartitionsOf(years) \ torn => batched[t] >= manifest[d][t]

LabelsShown ==
  /\ SettledShown
  /\ \A w \in Writers : Sound(w)
  /\ BatchesSound

LEMMA SettledListed ==
  ASSUME TypeOK, Dated, LedgerInv, KnownInv
  PROVE  \A d \in Partitions, t \in Txns : Settled(d, t) =>
           /\ manifest[d][t] \in Nat \ {0} /\ raw[t] \in Nat /\ raw[t] >= manifest[d][t]
           /\ EventDay[t] \notin overtaken => staging[t] # Absent
           /\ Listed(d, t)
<1> TAKE d \in Partitions, t \in Txns
<1> HAVE Settled(d, t)
<1>1. Listed(d, t)
  BY DEF Settled, LedgerInv, AppliedListed, Listed, PartChanges, Pending
<1>2. manifest[d][t] \in Nat /\ raw[t] \in Nat
  BY StagingWritersAssumption DEF TypeOK, Labels, NoLabel
<1>3. EventDay[t] \notin overtaken => staging[t] # Absent
  BY <1>1 DEF KnownInv, Known
<1> QED BY <1>1, <1>2, <1>3 DEF Listed, NoLabel, LedgerInv, ListedIsOld

\* A step that touches staging, its observations and what is settled in partitions W alone.
Touches(W) ==
  /\ \A d \in Partitions, t \in Txns : Settled(d, t)' =>
       manifest'[d][t] = manifest[d][t] /\ (Settled(d, t) \/ EventDay[t] \in W)
  /\ \A p \in Partitions \ W : /\ p \in unlabelled' <=> p \in unlabelled
                               /\ p \in overtaken' <=> p \in overtaken
  /\ \A t \in Txns : EventDay[t] \notin W => staging'[t] = staging[t]

\* The writers that have W open or listed are to know that w has replaced it.
Marks(w, W) ==
  /\ \A v \in Writers \ {w} : W \cap opened[v] \subseteq stale'[v]
  /\ w # Backfill => W \cap listed \subseteq torn'

LEMMA ShownStep ==
  ASSUME SettledShown, NEW W, Touches(W),
         \A d \in Partitions, t \in Txns :
           Settled(d, t)' /\ EventDay[t] \in W /\ EventDay[t] \notin (unlabelled \cup overtaken)'
             => staging'[t] >= manifest[d][t]
  PROVE  SettledShown'
<1> SUFFICES ASSUME NEW d \in Partitions, NEW t \in Txns, Settled(d, t)',
                    EventDay[t] \notin (unlabelled \cup overtaken)'
             PROVE  staging'[t] >= manifest'[d][t]
  BY DEF SettledShown
<1>1. EventDay[t] \in Partitions
  BY StagingWritersAssumption
<1> QED BY <1>1 DEF Touches, SettledShown

LEMMA SoundSpared ==
  ASSUME NEW w \in Writers, Spares(w), Sound(w), NEW W, Touches(W),
         W \cap Written(image[w]) \subseteq stale'[w]
  PROVE  Sound(w)'
<1> SUFFICES ASSUME NEW d \in Partitions, NEW t \in Txns, Settled(d, t)',
                    EventDay[t] \in Written(image'[w]) \ (TakesBack(w) \cup overtaken)',
                    Joins(w)' \/ (KeepsLabels(w)' /\ EventDay[t] \notin unlabelled')
             PROVE  image'[w][t] >= manifest'[d][t]
  BY DEF Sound, Written
<1>1. image'[w] = image[w] /\ at'[w] = at[w]
  BY DEF Spares
<1>2. /\ EventDay[t] \in Partitions
      /\ EventDay[t] \in Written(image[w]) \ TakesBack(w) /\ EventDay[t] \notin stale'[w]
  <2>1. EventDay[t] \in Partitions /\ EventDay[t] \in Written(image[w])
    BY <1>1, StagingWritersAssumption
  <2>2. (TakesBack(w))' = Written(image[w]) \cap (stale'[w] \cup
           IF ~JoinsLabels(w) THEN {} ELSE IF batches' = Batches THEN torn' ELSE Partitions)
    BY <1>1 DEF TakesBack, JoinsLabels, Written
  <2>3. EventDay[t] \notin (TakesBack(w))'
    OBVIOUS
  <2> QED BY <2>1, <2>2, <2>3 DEF TakesBack, JoinsLabels, Spares
<1>3. /\ Settled(d, t) /\ manifest'[d][t] = manifest[d][t]
      /\ EventDay[t] \in unlabelled' <=> EventDay[t] \in unlabelled
      /\ EventDay[t] \notin overtaken
  BY <1>2 DEF Touches
<1>4. Joins(w) \/ (KeepsLabels(w) /\ EventDay[t] \notin unlabelled)
  BY <1>1, <1>3 DEF Joins, KeepsLabels, Spares
<1> QED BY <1>1, <1>2, <1>3, <1>4 DEF Sound

LEMMA SoundEmpty ==
  ASSUME NEW w \in Writers, Written(image'[w]) = {}
  PROVE  Sound(w)'
BY DEF Sound, Written

LEMMA CommitWrites ==
  ASSUME TypeOK, NEW w \in Writers, NEW next, Commit(w, next)
  PROVE  /\ \A t \in Txns : staging'[t] = IF EventDay[t] \in Written(image[w]) THEN image[w][t]
                                          ELSE staging[t]
         /\ Written(image'[w]) = {} /\ opened[w] # {}
         /\ Marks(w, Written(image[w]))
         /\ overtaken' = (IF at[w] \in {"clean", "clean_full"} THEN overtaken \ Written(image[w])
                          ELSE overtaken) \cup TakesBack(w)
         /\ TakesBack(w) \subseteq Written(image[w])
<1>1. staging' = Overwrite(image[w]) /\ opened[w] # {}
  BY DEF Commit
<1>2. image'[w] = NoRows
  BY DEF Commit, TypeOK
<1>3. Marks(w, Written(image[w]))
  BY DEF Marks, Commit
<1>4. /\ overtaken' = (IF at[w] \in {"clean", "clean_full"} THEN overtaken \ Written(image[w])
                       ELSE overtaken) \cup TakesBack(w)
      /\ TakesBack(w) \subseteq Written(image[w])
  BY DEF Commit, TakesBack
<1> QED BY <1>1, <1>2, <1>3, <1>4, OverwriteFacts DEF Written, NoRows

\* Only the audit run settles labels.
LEMMA SettledSame ==
  ASSUME Spares(Audit)
  PROVE  /\ \A d \in Partitions, t \in Txns : Settled(d, t)' <=> Settled(d, t)
         /\ manifest' = manifest
BY DEF Spares, Settled, PartChanges, Pending, Current

LEMMA TouchesNothing ==
  ASSUME Spares(Audit), UNCHANGED <<staging, unlabelled, overtaken>>
  PROVE  Touches({})
BY SettledSame DEF Touches

\* What a step of writer w has to see to: its own partitions.
LEMMA OwnerStep ==
  ASSUME TypeOK, RowsInv, OpenInv, LabelsShown, NEW w \in Writers,
         \A v \in Writers \ {w} : Spares(v), NEW W, Touches(W), Marks(w, W),
         \A d \in Partitions, t \in Txns :
           Settled(d, t)' /\ EventDay[t] \in W /\ EventDay[t] \notin (unlabelled \cup overtaken)'
             => staging'[t] >= manifest[d][t],
         Sound(w)', w = Backfill => BatchesSound'
  PROVE  LabelsShown'
<1>1. SettledShown'
  BY ShownStep DEF LabelsShown
<1>2. ASSUME NEW v \in Writers PROVE Sound(v)'
  <2>1. CASE v = w
    BY <2>1
  <2>2. CASE v # w
    <3>1. W \cap Written(image[v]) \subseteq stale'[v]
      BY <2>2, ClosedWritten DEF Marks
    <3> QED BY <2>2, <3>1, SoundSpared DEF LabelsShown
  <2> QED BY <2>1, <2>2
<1>3. BatchesSound'
  <2>1. CASE w = Backfill
    BY <2>1
  <2>2. CASE w # Backfill
    <3>1. Spares(Backfill)
      BY <2>2, WriterFacts
    <3>2. SUFFICES ASSUME at[Backfill] = "fraud_labels_years", NEW d \in Partitions, NEW t \in Txns,
                          Settled(d, t)', EventDay[t] \in PartitionsOf(years) \ torn'
                   PROVE  batched[t] >= manifest'[d][t]
      BY <3>1, WriterFacts DEF BatchesSound, Spares, PartitionsOf
    <3>3. EventDay[t] \in listed /\ EventDay[t] \notin torn
      BY <3>1, <3>2, WriterFacts DEF OpenInv, WriterOpen, Spares
    <3>4. EventDay[t] \notin W
      BY <2>2, <3>2, <3>3 DEF Marks
    <3>5. Settled(d, t) /\ manifest'[d][t] = manifest[d][t]
      BY <3>2, <3>4 DEF Touches
    <3> QED BY <3>2, <3>3, <3>5 DEF LabelsShown, BatchesSound
  <2> QED BY <2>1, <2>2
<1> QED BY <1>1, <1>2, <1>3 DEF LabelsShown

\* The same for a step that commits nothing and settles nothing.
LEMMA CalmStep ==
  ASSUME TypeOK, RowsInv, OpenInv, LabelsShown, NEW w \in Writers,
         \A v \in Writers \ {w} : Spares(v), Touches({}), Sound(w)',
         w = Backfill => BatchesSound'
  PROVE  LabelsShown'
<1> DEFINE W == {}
<1>1. /\ Marks(w, W)
      /\ \A d \in Partitions, t \in Txns :
           Settled(d, t)' /\ EventDay[t] \in W /\ EventDay[t] \notin (unlabelled \cup overtaken)'
             => staging'[t] >= manifest[d][t]
  BY DEF Marks
<1>2. Touches(W)
  OBVIOUS
<1> HIDE DEF W
<1> QED BY <1>1, <1>2, OwnerStep
-----------------------------------------------------------------------------
(* The steps *)

LEMMA ShownSource ==
  ASSUME TypeOK, RowsInv, OpenInv, LabelsShown, NEW t \in Txns, Arrive(t) \/ Reload(t)
  PROVE  LabelsShown'
<1>1. \A v \in Writers : Spares(v)
  BY SourceSpares
<1>2. Touches({})
  BY <1>1, TouchesNothing, WriterFacts DEF Arrive, Reload, rows, watched
<1>3. Sound(Audit)'
  BY <1>1, <1>2, SoundSpared, WriterFacts DEF LabelsShown
<1> QED BY <1>1, <1>2, <1>3, CalmStep, WriterFacts

LEMMA ShownDaily ==
  ASSUME TypeOK, Dated, RowsInv, LedgerInv, OpenInv, KnownInv, LabelsShown,
         NEW d \in Partitions, Daily(d)
  PROVE  LabelsShown'
<1>0. /\ d \in Writers /\ d # Audit /\ d # Backfill /\ WriterOpen(d) /\ Audit \in Writers
      /\ at \in [Writers -> Steps] /\ opened \in [Writers -> SUBSET Partitions]
  BY WriterFacts DEF OpenInv, TypeOK, Steps
<1>1. \A v \in Writers \ {d} : Spares(v)
  BY DailySpares
<1>2. Spares(Audit)
  BY <1>0, <1>1
<1>3. CASE StartDaily(d) \/ ReadRaw(d)
  <2>1. UNCHANGED <<staging, unlabelled, overtaken>>
    BY <1>3 DEF StartDaily, ReadRaw, tables, rows, watched
  <2>2. at'[d] = "clean"
    BY <1>0, <1>3 DEF StartDaily, ReadRaw, Begin
  <2>3. Sound(d)'
    BY <1>0, <2>2 DEF Sound, Joins, KeepsLabels
  <2> QED BY <1>0, <1>1, <1>2, <2>1, <2>3, TouchesNothing, CalmStep
<1>4. CASE ReadStaging(d)
  <2>1. UNCHANGED <<staging, unlabelled, overtaken>>
    BY <1>4 DEF ReadStaging, tables, rows, watched
  <2>2. image'[d] = Image(RowsOf({d}), raw)
    BY <1>0, <1>4 DEF ReadStaging, Read, TypeOK
  <2>3. Sound(d)'
    <3> SUFFICES ASSUME NEW e \in Partitions, NEW t \in Txns, Settled(e, t)',
                        EventDay[t] \in Written(image'[d]), EventDay[t] \notin overtaken
                 PROVE  image'[d][t] >= manifest'[e][t]
      BY <2>1 DEF Sound, Written
    <3>1. Settled(e, t) /\ manifest' = manifest
      BY <1>2, SettledSame
    <3>2. raw[t] >= manifest[e][t] /\ staging[t] # Absent
      BY <3>1, SettledListed
    <3>3. EventDay[t] = d
      BY <2>2 DEF Written, Image, RowsOf
    <3>4. t \in RowsOf({d})
      BY <3>2, <3>3 DEF RowsOf
    <3> QED BY <2>2, <3>1, <3>2, <3>4 DEF Image
  <2> QED BY <1>0, <1>1, <1>2, <2>1, <2>3, TouchesNothing, CalmStep
<1>5. CASE CommitClean(d) \/ CommitEnrich(d)
  <2> DEFINE W == Written(image[d])
  <2>1. PICK next : Commit(d, next)
    BY <1>5 DEF CommitClean, CommitEnrich
  <2>2. /\ \A t \in Txns : staging'[t] = IF EventDay[t] \in W THEN image[d][t] ELSE staging[t]
        /\ Written(image'[d]) = {} /\ opened[d] # {} /\ Marks(d, W)
        /\ overtaken' = (IF at[d] \in {"clean", "clean_full"} THEN overtaken \ W ELSE overtaken)
                          \cup TakesBack(d)
        /\ TakesBack(d) \subseteq W
    BY <1>0, <2>1, CommitWrites
  <2>3. W = {d}
    BY <1>0, <2>2 DEF WriterOpen
  <2>4. unlabelled' = unlabelled \cup {d} \/ unlabelled' = unlabelled \ {d}
    BY <1>5 DEF CommitClean, CommitEnrich
  <2>5. Touches(W)
    <3> HIDE DEF W
    <3> QED BY <1>2, <2>2, <2>3, <2>4, SettledSame DEF Touches
  <2>7. Sound(d)'
    BY <1>0, <2>2, SoundEmpty
  <2>8. ASSUME NEW e \in Partitions, NEW t \in Txns, Settled(e, t)', EventDay[t] \in W,
               EventDay[t] \notin (unlabelled \cup overtaken)'
        PROVE  staging'[t] >= manifest[e][t]
    <3>1. CommitEnrich(d)
      BY <1>5, <2>3, <2>8 DEF CommitClean
    <3>2. /\ Settled(e, t) /\ Joins(d) /\ EventDay[t] \notin TakesBack(d)
          /\ EventDay[t] \notin overtaken
      BY <1>2, <2>2, <2>8, <3>1, SettledSame DEF CommitEnrich, Joins
    <3>3. image[d][t] >= manifest[e][t]
      BY <1>0, <2>8, <3>2 DEF LabelsShown, Sound
    <3> QED BY <2>2, <2>8, <3>3
  <2> HIDE DEF W
  <2> QED BY <1>0, <1>1, <2>2, <2>5, <2>7, <2>8, OwnerStep
<1> QED BY <1>3, <1>4, <1>5 DEF Daily

LEMMA ShownAudit ==
  ASSUME TypeOK, Dated, RowsInv, LedgerInv, OpenInv, KnownInv, LabelsShown, AuditRun
  PROVE  LabelsShown'
<1>0. /\ Audit \in Writers /\ Audit # Backfill /\ WriterOpen(Audit)
      /\ at \in [Writers -> Steps] /\ opened \in [Writers -> SUBSET Partitions]
  BY WriterFacts DEF OpenInv, TypeOK, Steps
<1>1. \A v \in Writers \ {Audit} : Spares(v)
  BY AuditSpares
<1>2. CASE \/ \E d \in Partitions : StartAudit(d)
           \/ ClearRestate \/ MarkIndexed \/ Detect \/ PlanRestate \/ AppendLedger
  <2>1. /\ image' = image /\ UNCHANGED <<staging, unlabelled, overtaken>>
        /\ at[Audit] \notin Reading
    BY <1>0, <1>2 DEF StartAudit, ClearRestate, MarkIndexed, Detect, PlanRestate, AppendLedger, Begin,
                      Reading, tables, rows, watched
  <2>2. Sound(Audit)'
    BY <1>0, <2>1, ClosedWritten, SoundEmpty DEF WriterOpen
  <2>3. at'[Audit] # "ledger"
    BY <1>0, <1>2 DEF StartAudit, ClearRestate, MarkIndexed, Detect, PlanRestate, AppendLedger, Begin
  <2>4. \A d \in Partitions, t \in Txns : Settled(d, t)' => t \in applied'[d]
    BY <2>3 DEF Settled
  <2>5. \A d \in Partitions, t \in Txns :
          t \in applied'[d] => manifest'[d][t] = manifest[d][t] /\ Settled(d, t)
    <3>1. CASE Detect
      <4>1. applied' = applied /\ applied[ds] = {}
        BY <3>1 DEF Detect, LedgerInv, FreshRun
      <4>2. \A d \in Partitions : d # ds => manifest'[d] = manifest[d]
        BY <3>1 DEF Detect, TypeOK
      <4> QED BY <4>1, <4>2 DEF Settled
    <3>2. CASE AppendLedger
      BY <3>2 DEF AppendLedger, Settled, TypeOK
    <3>3. CASE (\E d \in Partitions : StartAudit(d)) \/ ClearRestate \/ MarkIndexed \/ PlanRestate
      BY <3>3 DEF StartAudit, ClearRestate, MarkIndexed, PlanRestate, tables, auditTables, Settled
    <3> QED BY <1>2, <3>1, <3>2, <3>3
  <2>6. Touches({})
    BY <2>1, <2>4, <2>5 DEF Touches
  <2> QED BY <1>0, <1>1, <2>2, <2>6, CalmStep
<1>3. CASE ReadPartition
  <2> DEFINE label == [t \in Txns |-> IF t \in PartChanges THEN manifest[ds][t] ELSE staging[t]]
  <2>1. image'[Audit] = Image(RowsOf({Current}), label)
    BY <1>0, <1>3 DEF ReadPartition, Read, TypeOK
  <2>2. /\ UNCHANGED <<staging, unlabelled, overtaken, manifest, applied, ds, left>>
        /\ at' = at /\ at[Audit] = "partitions" /\ ds \in Partitions
    BY <1>3 DEF ReadPartition, tables, rows, auditTables, audit, watched, Dated
  <2>3. \A d \in Partitions, t \in Txns :
          Settled(d, t)' => t \in applied[d] /\ Settled(d, t) /\ manifest' = manifest
    BY <2>2 DEF Settled
  <2>4. Touches({})
    BY <2>2, <2>3 DEF Touches
  <2>5. Sound(Audit)'
    <3> SUFFICES ASSUME NEW d \in Partitions, NEW t \in Txns, Settled(d, t)',
                        EventDay[t] \in Written(image'[Audit]),
                        EventDay[t] \notin unlabelled \cup overtaken
                 PROVE  image'[Audit][t] >= manifest[d][t]
      BY <2>2 DEF Sound, Written, Joins
    <3>1. t \in applied[d] /\ Settled(d, t)
      BY <2>3
    <3>2. staging[t] # Absent /\ Listed(d, t)
      BY <3>1, SettledListed
    <3>3. EventDay[t] = Current
      BY <2>1 DEF Written, Image, RowsOf
    <3>4. image'[Audit][t] = IF t \in PartChanges THEN manifest[ds][t] ELSE staging[t]
      BY <2>1, <3>2, <3>3 DEF Image, RowsOf
    <3>5. staging[t] >= manifest[d][t]
      BY <3>1 DEF LabelsShown, SettledShown
    <3>6. t \in PartChanges => manifest[ds][t] >= manifest[d][t]
      <4>1. d <= ds /\ d \in Int /\ ds \in Int
        BY <2>2, <3>1, WriterFacts DEF LedgerInv, NothingAhead
      <4>2. t \in PartChanges => Listed(ds, t)
        BY DEF PartChanges, Pending, Listed
      <4>3. manifest[d][t] \in Int /\ manifest[ds][t] \in Int
        BY <2>2 DEF TypeOK, Labels
      <4> QED BY <4>1, <4>2, <4>3 DEF LedgerInv, LaterIsNewer
    <3> QED BY <3>4, <3>5, <3>6
  <2> QED BY <1>0, <1>1, <2>4, <2>5, CalmStep
<1>4. CASE CommitPartition
  <2> DEFINE W == Written(image[Audit])
  <2>1. Commit(Audit, "ledger") /\ UNCHANGED <<unlabelled, manifest, applied, ds, left>>
    BY <1>4 DEF CommitPartition, auditTables, audit
  <2>2. /\ \A t \in Txns : staging'[t] = IF EventDay[t] \in W THEN image[Audit][t] ELSE staging[t]
        /\ Written(image'[Audit]) = {} /\ opened[Audit] # {} /\ Marks(Audit, W)
        /\ overtaken' = (IF at[Audit] \in {"clean", "clean_full"} THEN overtaken \ W ELSE overtaken)
                          \cup TakesBack(Audit)
        /\ TakesBack(Audit) \subseteq W
    BY <1>0, <2>1, CommitWrites
  <2>3. /\ at[Audit] = "partitions" /\ ds \in Partitions /\ W = {Current}
        /\ \A t \in PartChanges : image[Audit][t] \in {manifest[ds][t], Absent}
    BY <1>0, <1>4, <2>2 DEF WriterOpen, CommitPartition, Dated
  <2>4. \A t \in PartChanges : EventDay[t] \in W /\ t \in Txns
    BY <2>3 DEF PartChanges, Pending
  <2>5. PartChanges' = PartChanges
    BY <2>1 DEF PartChanges, Pending, Current
  <2>6. \A d \in Partitions, t \in Txns :
          Settled(d, t)' => t \in applied[d] \/ (d = ds /\ t \in PartChanges)
    BY <2>1, <2>5 DEF Settled
  <2>7. Touches(W)
    <3>1. \A d \in Partitions, t \in Txns : Settled(d, t)' =>
            manifest'[d][t] = manifest[d][t] /\ (Settled(d, t) \/ EventDay[t] \in W)
      <4> HIDE DEF W
      <4> QED BY <2>1, <2>4, <2>6 DEF Settled
    <3> HIDE DEF W
    <3> QED BY <2>1, <2>2, <3>1 DEF Touches
  <2>9. Sound(Audit)'
    BY <1>0, <2>2, SoundEmpty
  <2>10. ASSUME NEW d \in Partitions, NEW t \in Txns, Settled(d, t)', EventDay[t] \in W,
                EventDay[t] \notin (unlabelled \cup overtaken)'
         PROVE  staging'[t] >= manifest[d][t]
    <3>1. /\ staging'[t] = image[Audit][t]
          /\ EventDay[t] \notin TakesBack(Audit) /\ EventDay[t] \notin overtaken
      BY <2>2, <2>3, <2>10
    <3>2. CASE d = ds /\ t \in PartChanges
      <4>1. manifest[ds][t] \in Int
        BY <2>3 DEF TypeOK, Labels
      <4>2. Known(t)
        BY <2>3, <3>2 DEF PartChanges, Pending, Known, Listed
      <4>3. staging[t] # Absent
        BY <3>1, <4>2 DEF KnownInv
      <4>4. EventDay[t] \notin stale[Audit] /\ ~Partial(Audit)
        BY <1>0, <2>10, <3>1 DEF TakesBack, Partial, JoinsLabels
      <4>5. image[Audit][t] # Absent
        BY <1>0, <2>10, <4>3, <4>4 DEF RowsInv, Good
      <4> QED BY <2>3, <3>1, <3>2, <4>1, <4>5
    <3>3. CASE t \in applied[d]
      <4>1. Settled(d, t) /\ KeepsLabels(Audit) /\ EventDay[t] \notin unlabelled
        BY <2>1, <2>3, <2>10, <3>3 DEF Settled, KeepsLabels
      <4> QED BY <1>0, <2>10, <3>1, <4>1 DEF LabelsShown, Sound
    <3> QED BY <2>6, <2>10, <3>2, <3>3
  <2> HIDE DEF W
  <2> QED BY <1>0, <1>1, <2>2, <2>7, <2>9, <2>10, OwnerStep
<1>5. CASE \E y : BuildIndexYear(y)
  <2>1. Spares(Audit) /\ UNCHANGED <<staging, unlabelled, overtaken>>
    BY <1>0, <1>5 DEF Spares, BuildIndexYear, rows, audit, watched
  <2>2. Touches({})
    BY <2>1, TouchesNothing
  <2>3. Sound(Audit)'
    BY <1>0, <2>1, <2>2, SoundSpared DEF LabelsShown
  <2> QED BY <1>0, <1>1, <2>2, <2>3, CalmStep
<1> QED BY <1>2, <1>3, <1>4, <1>5 DEF AuditRun

LEMMA ShownScript ==
  ASSUME TypeOK, Dated, RowsInv, RowsInv', LedgerInv, OpenInv, KnownInv, LabelsShown,
         BackfillScript
  PROVE  LabelsShown'
<1>0. /\ Backfill \in Writers /\ Audit # Backfill /\ WriterOpen(Backfill)
      /\ at \in [Writers -> Steps] /\ opened \in [Writers -> SUBSET Partitions]
  BY WriterFacts DEF OpenInv, TypeOK, Steps
<1>1. \A v \in Writers \ {Backfill} : Spares(v)
  BY ScriptSpares
<1>2. Spares(Audit)
  BY <1>0, <1>1, WriterFacts
<1>3. ASSUME UNCHANGED <<batched, at>>, years' \subseteq years, torn \subseteq torn'
      PROVE  BatchesSound'
  <2>1. SUFFICES ASSUME at[Backfill] = "fraud_labels_years", NEW d \in Partitions, NEW t \in Txns,
                        Settled(d, t)', EventDay[t] \in PartitionsOf(years') \ torn'
                 PROVE  batched[t] >= manifest'[d][t]
    BY <1>3 DEF BatchesSound, PartitionsOf
  <2>2. EventDay[t] \in PartitionsOf(years) \ torn
    BY <1>3, <2>1 DEF PartitionsOf
  <2> QED BY <1>2, <2>1, <2>2, SettledSame DEF LabelsShown, BatchesSound
<1>4. ASSUME at'[Backfill] # "fraud_labels_years" PROVE BatchesSound'
  BY <1>4 DEF BatchesSound
<1>5. CASE ReadAllRaw
  <2>1. UNCHANGED <<staging, unlabelled, overtaken>> /\ at'[Backfill] = "clean_full"
    BY <1>0, <1>5 DEF ReadAllRaw, Begin, tables, rows, watched
  <2>2. Sound(Backfill)'
    BY <2>1 DEF Sound, Joins, KeepsLabels
  <2> QED BY <1>0, <1>1, <1>2, <1>4, <2>1, <2>2, TouchesNothing, CalmStep
<1>6. CASE OpenStaging \/ MaterializeBatches \/ YearEmpty \/ ScriptDone
  <2>1. UNCHANGED <<staging, unlabelled, overtaken>> /\ image' = image
    BY <1>6 DEF OpenStaging, MaterializeBatches, YearEmpty, ScriptDone, tables, rows, watched
  <2>2. opened[Backfill] = {}
    BY <1>0, <1>6 DEF OpenStaging, MaterializeBatches, YearEmpty, ScriptDone, Begin, WriterOpen,
                      Reading, PartitionsOf
  <2>3. Sound(Backfill)'
    BY <1>0, <2>1, <2>2, ClosedWritten, SoundEmpty
  <2>4. BatchesSound'
    <3>1. CASE YearEmpty
      BY <1>3, <3>1 DEF YearEmpty, tables, listing
    <3>2. CASE OpenStaging \/ ScriptDone
      <4>1. at'[Backfill] # "fraud_labels_years"
        BY <1>0, <3>2 DEF OpenStaging, ScriptDone, Begin
      <4> QED BY <1>4, <4>1
    <3>3. CASE MaterializeBatches
      <4>1. batched' = [t \in Txns |->
              IF \E u \in Txns : BatchOf[u] = BatchOf[t] /\ raw[u] # NoLabel THEN raw[t]
              ELSE batched[t]]
        BY <3>3 DEF MaterializeBatches
      <4>2. \A d \in Partitions, t \in Txns : Settled(d, t)' =>
              raw[t] >= manifest[d][t] /\ raw[t] # NoLabel
        BY <1>2, SettledSame, SettledListed DEF NoLabel
      <4>3. \A d \in Partitions, t \in Txns : Settled(d, t)' => batched'[t] >= manifest[d][t]
        BY <4>1, <4>2
      <4> QED BY <1>2, <4>3, SettledSame DEF BatchesSound
    <3> QED BY <1>6, <3>1, <3>2, <3>3
  <2> QED BY <1>0, <1>1, <1>2, <2>1, <2>3, <2>4, TouchesNothing, CalmStep
<1>7. CASE ReadYear \/ ReadYearBatches
  <2>1. UNCHANGED <<staging, unlabelled, overtaken, stale, batched, at, years, batches, column,
                    torn>>
    BY <1>7 DEF ReadYear, ReadYearBatches, tables, rows, script, listing, watched
  <2>2. opened'[Backfill] = YearPartitions /\ YearPartitions \subseteq PartitionsOf(years)
    BY <1>0, <1>7, YearIsAhead DEF ReadYear, ReadYearBatches, Read, YearPartitions, PartitionsOf
  <2>3. Sound(Backfill)'
    <3> SUFFICES ASSUME NEW d \in Partitions, NEW t \in Txns, Settled(d, t)',
                        EventDay[t] \in Written(image'[Backfill]),
                        EventDay[t] \notin (TakesBack(Backfill))', EventDay[t] \notin overtaken,
                        \/ at[Backfill] = "fraud_labels_years"
                        \/ /\ at[Backfill] = "enrich_full_years" /\ column
                           /\ EventDay[t] \notin unlabelled
                 PROVE  image'[Backfill][t] >= manifest'[d][t]
      BY <1>0, <1>7, <2>1 DEF Sound, Written, Joins, KeepsLabels, ReadYear, ReadYearBatches
    <3>1. Settled(d, t) /\ manifest' = manifest
      BY <1>2, SettledSame
    <3>2. manifest[d][t] \in Nat \ {0} /\ staging[t] # Absent
      BY <3>1, SettledListed
    <3>7. /\ EventDay[t] \notin stale'[Backfill] /\ ~(Partial(Backfill))'
          /\ at[Backfill] = "fraud_labels_years" => EventDay[t] \notin torn
      <4>1. (TakesBack(Backfill))' = Written(image'[Backfill]) \cap (stale'[Backfill] \cup
               IF at'[Backfill] # "fraud_labels_years" THEN {}
               ELSE IF batches' = Batches THEN torn' ELSE Partitions)
        BY DEF TakesBack, JoinsLabels, Written
      <4>2. EventDay[t] \in Partitions
        BY StagingWritersAssumption
      <4> QED BY <2>1, <4>1, <4>2 DEF Partial, JoinsLabels
    <3>3. image'[Backfill][t] # Absent
      BY <1>0, <2>1, <3>2, <3>7 DEF RowsInv, Good
    <3>4. EventDay[t] \in PartitionsOf(years)
      BY <1>0, <2>2, ClosedWritten DEF RowsInv, Good, Written
    <3>5. CASE ReadYear
      <4> DEFINE label == [u \in Txns |-> IF ~column THEN NoColumn
                            ELSE IF staging[u] = NoColumn THEN NoLabel ELSE staging[u]]
      <4>1. image'[Backfill] = Image(YearRows, label) /\ column /\ EventDay[t] \notin unlabelled
        BY <1>0, <3>5 DEF ReadYear, Read, TypeOK
      <4>2. staging[t] >= manifest[d][t]
        BY <3>1, <4>1 DEF LabelsShown, SettledShown
      <4>3. staging[t] # NoColumn
        BY <3>2, <4>2 DEF NoColumn
      <4>4. image'[Backfill][t] = staging[t]
        BY <3>3, <4>1, <4>3 DEF Image
      <4> QED BY <3>1, <4>2, <4>4
    <3>6. CASE ReadYearBatches
      <4>1. /\ image'[Backfill] = Image({u \in YearRows : BatchOf[u] \in batches}, batched)
            /\ at[Backfill] = "fraud_labels_years"
        BY <1>0, <3>6 DEF ReadYearBatches, Read, TypeOK
      <4>2. image'[Backfill][t] = batched[t]
        BY <3>3, <4>1 DEF Image
      <4> QED BY <3>1, <3>4, <3>7, <4>1, <4>2 DEF LabelsShown, BatchesSound
    <3> QED BY <1>7, <3>5, <3>6
  <2> QED BY <1>0, <1>1, <1>2, <1>3, <2>1, <2>3, TouchesNothing, CalmStep
<1>8. CASE CommitCleanFull \/ CommitYear
  <2> DEFINE W == Written(image[Backfill])
  <2>1. PICK next : Commit(Backfill, next)
    BY <1>8 DEF CommitCleanFull, CommitYear
  <2>2. /\ \A t \in Txns : staging'[t] = IF EventDay[t] \in W THEN image[Backfill][t] ELSE staging[t]
        /\ Written(image'[Backfill]) = {} /\ opened[Backfill] # {} /\ Marks(Backfill, W)
        /\ overtaken' = (IF at[Backfill] \in {"clean", "clean_full"} THEN overtaken \ W
                         ELSE overtaken) \cup TakesBack(Backfill)
        /\ TakesBack(Backfill) \subseteq W
    BY <1>0, <2>1, CommitWrites
  <2>3. \/ unlabelled' = unlabelled \cup W
        \/ /\ at[Backfill] = "fraud_labels_years"
           /\ unlabelled' = unlabelled \ W
        \/ /\ at[Backfill] = "enrich_full_years" /\ column
           /\ unlabelled' = unlabelled
    BY <1>8 DEF CommitCleanFull, CommitYear, YearSteps
  <2>4. Touches(W)
    <3> HIDE DEF W
    <3> QED BY <1>2, <2>2, <2>3, SettledSame DEF Touches
  <2>6. Sound(Backfill)'
    BY <1>0, <2>2, SoundEmpty
  <2>7. BatchesSound'
    <3>1. CASE CommitCleanFull
      <4>1. at'[Backfill] # "fraud_labels_years"
        BY <1>0, <3>1 DEF CommitCleanFull, Commit
      <4> QED BY <1>4, <4>1
    <3>2. CASE CommitYear
      <4>1. batched' = batched /\ at' = at /\ years' \subseteq years /\ torn' = torn
        BY <1>0, <3>2 DEF CommitYear, Commit
      <4> QED BY <1>3, <4>1
    <3> QED BY <1>8, <3>1, <3>2
  <2>8. ASSUME NEW d \in Partitions, NEW t \in Txns, Settled(d, t)', EventDay[t] \in W,
               EventDay[t] \notin (unlabelled \cup overtaken)'
        PROVE  staging'[t] >= manifest[d][t]
    <3>1. Settled(d, t)
      BY <1>2, <2>8, SettledSame
    <3>2. /\ Joins(Backfill) \/ (KeepsLabels(Backfill) /\ EventDay[t] \notin unlabelled)
          /\ at[Backfill] \notin {"clean", "clean_full"}
      BY <2>3, <2>8 DEF Joins, KeepsLabels
    <3>4. EventDay[t] \notin TakesBack(Backfill) /\ EventDay[t] \notin overtaken
      BY <2>2, <2>8, <3>2
    <3>3. image[Backfill][t] >= manifest[d][t]
      BY <1>0, <2>8, <3>1, <3>2, <3>4 DEF LabelsShown, Sound
    <3> QED BY <2>2, <2>8, <3>3
  <2> HIDE DEF W
  <2> QED BY <1>0, <1>1, <2>2, <2>4, <2>6, <2>7, <2>8, OwnerStep
<1> QED BY <1>5, <1>6, <1>7, <1>8 DEF BackfillScript

LEMMA ShownFails ==
  ASSUME TypeOK, RowsInv, OpenInv, LabelsShown, NEW w \in Writers, Fails(w)
  PROVE  LabelsShown'
<1>0. at \in [Writers -> Steps] /\ Audit \in Writers /\ Backfill \in Writers
  BY WriterFacts DEF TypeOK, Steps
<1>1. \A v \in Writers \ {w} : Spares(v)
  BY FailsSpares
<1>2. UNCHANGED <<staging, unlabelled, overtaken, manifest, applied>> /\ image'[w] = NoRows
  BY DEF Fails, tables, rows, auditTables, TypeOK
<1>3. Touches({})
  <2>1. CASE w = Audit
    <3>1. at'[Audit] # "ledger"
      BY <1>0, <2>1 DEF Fails, TaskOf
    <3> QED BY <1>2, <3>1 DEF Touches, Settled
  <2>2. CASE w # Audit
    BY <1>0, <1>1, <1>2, <2>2, TouchesNothing
  <2> QED BY <2>1, <2>2
<1>4. Sound(w)'
  BY <1>2, SoundEmpty DEF Written, NoRows
<1>5. w = Backfill => BatchesSound'
  BY <1>0 DEF Fails, BatchesSound
<1> QED BY <1>1, <1>3, <1>4, <1>5, CalmStep

LabelsInv == LedgerInv /\ OpenInv /\ KnownInv /\ LabelsShown

LEMMA LabelsInit == Init => LabelsInv
<1> SUFFICES ASSUME Init PROVE LabelsInv
  OBVIOUS
<1>1. /\ \A w \in Writers : opened[w] = {} /\ image[w] = NoRows /\ at[w] = "idle"
      /\ \A d \in Partitions : applied[d] = {}
  BY DEF Init
<1>2. at[Audit] = "idle" /\ at[Backfill] = "idle"
  BY <1>1, WriterFacts
<1>3. OpenInv
  BY <1>1 DEF OpenInv, WriterOpen, YearSteps
<1>4. \A d \in Partitions, t \in Txns : ~Settled(d, t)
  BY <1>1, <1>2 DEF Settled
<1> QED BY <1>3, <1>4, LedgerInit, KnownInit DEF LabelsInv, LabelsShown, SettledShown, Sound, BatchesSound

LEMMA LabelsStep ==
  ASSUME TypeOK, Dated, RowsInv, RowsInv', LabelsInv, [Next]_vars
  PROVE  LabelsInv'
<1>1. LedgerInv' /\ OpenInv' /\ KnownInv'
  BY LedgerStep, OpenStep, KnownStep DEF LabelsInv
<1>2. CASE UNCHANGED vars
  <2>1. \A v \in Writers : Spares(v)
    BY <1>2 DEF Spares, vars, tables, auditTables, audit, script, listing, watched
  <2>2. Touches({})
    BY <1>2, <2>1, TouchesNothing, WriterFacts DEF vars, tables, rows, watched
  <2>3. Sound(Audit)'
    BY <2>1, <2>2, SoundSpared, WriterFacts DEF LabelsInv, LabelsShown
  <2>4. LabelsShown'
    BY <2>1, <2>2, <2>3, CalmStep, WriterFacts DEF LabelsInv
  <2> QED BY <1>1, <2>4 DEF LabelsInv
<1>3. CASE Next
  <2>1. LabelsShown'
    BY <1>3, ShownSource, ShownDaily, ShownAudit, ShownScript, ShownFails DEF LabelsInv, Next
  <2> QED BY <1>1, <2>1 DEF LabelsInv
<1> QED BY <1>2, <1>3

\* However the daily runs, audit runs and backfill scripts overlap, follow one another, fail or
\* are cleared, a row with an APPLIED change goes back to an older label only where a writer
\* commits over what another has put there since it read: for any transactions, dates, years,
\* hash batches and labels, and any number of reloads.
THEOREM AppliedLabelsStay == Spec => []AppliedStays
<1>1. TypeOK /\ LabelsInv => AppliedStays
  BY DEF TypeOK, LabelsInv, LabelsShown, SettledShown, Settled, AppliedStays
<1>2. TypeOK /\ Dated /\ RowsInv /\ [Next]_vars => RowsInv'
  BY RowsStep
<1>3. TypeOK /\ Dated /\ RowsInv /\ LabelsInv /\ [Next]_vars => LabelsInv'
  BY <1>2, LabelsStep
<1> QED BY <1>1, <1>2, <1>3, RowsInit, LabelsInit, Typed, PTL DEF Spec
=================================================================================
