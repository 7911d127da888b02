------------------------ MODULE StagingWriters_proofs ------------------------
(***************************************************************************)
(* What StagingWriters promises for any transactions, partitions, years,   *)
(* batches and reloads: types, and that a row is dropped only by a writer  *)
(* whose partition another has replaced since it read it, or by a debug    *)
(* batch.                                                                  *)
(***************************************************************************)
EXTENDS StagingWriters, WellFoundedInduction, TLAPS

Steps == {"idle"} \cup DailySteps \cup AuditSteps \cup ScriptSteps

LEMMA WriterFacts ==
  /\ Partitions \subseteq Writers /\ Partitions \subseteq Nat
  /\ Audit \in Writers /\ Audit \notin Partitions
  /\ Backfill \in Writers /\ Backfill \notin Partitions /\ Backfill # Audit
BY StagingWritersAssumption DEF Partitions, Writers, Audit, Backfill

LEMMA CellFacts ==
  /\ Labels \subseteq Cells /\ NoLabel \in Labels
  /\ NoColumn \in Cells /\ Absent \in Cells /\ Absent \notin Labels /\ NoColumn # Absent
  /\ NoColumn \notin Labels /\ Cells \subseteq Int
BY StagingWritersAssumption DEF Labels, Cells, NoLabel, NoColumn, Absent

\* A non-empty set of naturals has a least element.
LEMMA LeastExists ==
  ASSUME NEW S \in SUBSET Nat, S # {}
  PROVE  \E m \in S : \A n \in S : m <= n
<1>1. IsWellFoundedOn(OpToRel(<, Nat), Nat)
  BY NatLessThanWellFounded
<1>2. PICK m \in S : \A n \in S : ~ (<<n, m>> \in OpToRel(<, Nat))
  BY <1>1, WFMin
<1>3. \A n \in S : ~(n < m)
  BY <1>2 DEF OpToRel
<1> QED BY <1>3

LEMMA CurrentIsLeft == TypeOK /\ left # {} => Current \in left
<1> SUFFICES ASSUME TypeOK, left # {} PROVE Current \in left
  OBVIOUS
<1>1. left \in SUBSET Nat
  BY WriterFacts DEF TypeOK
<1> QED BY <1>1, LeastExists DEF Current

LEMMA YearIsAhead == TypeOK /\ years # {} => Year \in years
<1> SUFFICES ASSUME TypeOK, years # {} PROVE Year \in years
  OBVIOUS
<1>1. years \in SUBSET Nat
  BY StagingWritersAssumption DEF TypeOK
<1> QED BY <1>1, LeastExists DEF Year
-----------------------------------------------------------------------------
(* Types *)

\* An audit run that is under way has a knowledge date.
Dated == at[Audit] # "idle" => ds \in Partitions

LEMMA ImageType ==
  ASSUME NEW S, NEW label, \A t \in Txns : t \in S => label[t] \in Cells
  PROVE  Image(S, label) \in [Txns -> Cells]
BY CellFacts DEF Image

LEMMA NoRowsType == NoRows \in [Txns -> Cells]
BY CellFacts DEF NoRows

LEMMA WrittenType == \A img : Written(img) \subseteq Partitions
BY StagingWritersAssumption DEF Written

LEMMA ReadType ==
  ASSUME TypeOK, NEW w \in Writers, NEW P, NEW img, Read(w, P, img),
         P \subseteq Partitions, img \in [Txns -> Cells]
  PROVE  opened' \in [Writers -> SUBSET Partitions] /\ image' \in [Writers -> [Txns -> Cells]]
BY DEF Read, TypeOK

LEMMA CommitType ==
  ASSUME TypeOK, NEW w \in Writers, NEW next \in Steps, Commit(w, next)
  PROVE  /\ staging' \in [Txns -> Cells]
         /\ opened' \in [Writers -> SUBSET Partitions]
         /\ image' \in [Writers -> [Txns -> Cells]]
         /\ at' \in [Writers -> Steps]
         /\ torn' \subseteq listed' /\ listed' \subseteq Partitions
         /\ stale' \in [Writers -> SUBSET Partitions] /\ overtaken' \subseteq Partitions
<1>1. image[w] \in [Txns -> Cells] /\ staging \in [Txns -> Cells]
  BY DEF TypeOK
<1>2. staging' \in [Txns -> Cells]
  BY <1>1 DEF Commit, Overwrite
<1>3. opened' \in [Writers -> SUBSET Partitions]
  BY DEF Commit, TypeOK
<1>4. image' \in [Writers -> [Txns -> Cells]]
  BY NoRowsType DEF Commit, TypeOK
<1>5. at' \in [Writers -> Steps]
  BY DEF Commit, TypeOK, Steps
<1>6. torn' \subseteq listed' /\ listed' \subseteq Partitions
  BY DEF Commit, TypeOK
<1>7. stale' \in [Writers -> SUBSET Partitions] /\ overtaken' \subseteq Partitions
  BY WrittenType DEF Commit, TypeOK, TakesBack
<1> QED BY <1>2, <1>3, <1>4, <1>5, <1>6, <1>7

LEMMA BeginType ==
  ASSUME TypeOK, NEW w \in Writers, NEW step \in Steps, Begin(w, step)
  PROVE  at' \in [Writers -> Steps]
BY DEF Begin, TypeOK, Steps

LEMMA TypeInit == Init => TypeOK
<1> SUFFICES ASSUME Init PROVE TypeOK
  OBVIOUS
<1>1. FirstLabels \in [Txns -> Labels]
  BY StagingWritersAssumption DEF Labels, NoLabel
<1>2. staging \in [Txns -> Cells]
  BY <1>1, ImageType, CellFacts DEF Init
<1>3. described \subseteq Partitions
  BY WrittenType DEF Init
<1>4. image \in [Writers -> [Txns -> Cells]]
  BY NoRowsType DEF Init
<1>5. manifest \in [Partitions -> [Txns -> Labels]] /\ batched \in [Txns -> Labels]
  BY CellFacts DEF Init
<1>6. at \in [Writers -> Steps] /\ opened \in [Writers -> SUBSET Partitions]
  BY DEF Init, Steps
<1>7. reloads \in 1 .. MaxReloads /\ arrived \subseteq Txns
  BY StagingWritersAssumption DEF Init
<1> QED BY <1>1, <1>2, <1>3, <1>4, <1>5, <1>6, <1>7 DEF Init, TypeOK, Steps

LEMMA TypeSource ==
  ASSUME TypeOK, NEW t \in Txns, Arrive(t) \/ Reload(t)
  PROVE  TypeOK'
<1>1. CASE Arrive(t)
  BY <1>1 DEF Arrive, TypeOK, rows, auditTables, audit, script, listing, watched
<1>2. CASE Reload(t)
  <2>1. reloads' \in 1 .. MaxReloads /\ raw' \in [Txns -> Labels]
    BY <1>2, StagingWritersAssumption DEF Reload, TypeOK, Labels, NoLabel
  <2> QED BY <1>2, <2>1 DEF Reload, TypeOK, rows, auditTables, audit, script, listing, watched
<1> QED BY <1>1, <1>2

LEMMA TypeDaily ==
  ASSUME TypeOK, NEW d \in Partitions, Daily(d)
  PROVE  TypeOK'
<1>0. d \in Writers
  BY WriterFacts
<1>1. CASE StartDaily(d)
  <2>1. at' \in [Writers -> Steps]
    BY <1>0, <1>1, BeginType DEF StartDaily, Steps, DailySteps
  <2> QED BY <1>1, <2>1 DEF StartDaily, TypeOK, Steps, tables, rows, auditTables, audit, script,
                            listing, watched
<1>2. CASE ReadRaw(d)
  <2> DEFINE img == Image({t \in arrived : EventDay[t] = d}, [t \in Txns |-> NoColumn])
  <2>1. img \in [Txns -> Cells] /\ Read(d, {d}, img)
    BY <1>2, ImageType, CellFacts DEF ReadRaw
  <2>2. opened' \in [Writers -> SUBSET Partitions] /\ image' \in [Writers -> [Txns -> Cells]]
    BY <1>0, <2>1, ReadType
  <2> QED BY <1>2, <2>2 DEF ReadRaw, TypeOK, tables, rows, auditTables, audit, script, listing, watched
<1>3. CASE CommitClean(d)
  <2>1. PICK next \in {"clean", "enrich"} : Commit(d, next)
    BY <1>3 DEF CommitClean
  <2>2. next \in Steps
    BY <2>1 DEF Steps, DailySteps
  <2>3. /\ staging' \in [Txns -> Cells]
        /\ opened' \in [Writers -> SUBSET Partitions]
        /\ image' \in [Writers -> [Txns -> Cells]]
        /\ at' \in [Writers -> Steps]
        /\ torn' \subseteq listed' /\ listed' \subseteq Partitions
        /\ stale' \in [Writers -> SUBSET Partitions] /\ overtaken' \subseteq Partitions
    BY <1>0, <2>1, <2>2, CommitType
  <2> QED BY <1>3, <2>3 DEF CommitClean, TypeOK, Steps, auditTables, audit, script
<1>4. CASE ReadStaging(d)
  <2>1. Image(RowsOf({d}), raw) \in [Txns -> Cells]
    BY ImageType, CellFacts DEF TypeOK
  <2>2. opened' \in [Writers -> SUBSET Partitions] /\ image' \in [Writers -> [Txns -> Cells]]
    BY <1>0, <1>4, <2>1, ReadType DEF ReadStaging
  <2> QED BY <1>4, <2>2 DEF ReadStaging, TypeOK, tables, rows, auditTables, audit, script, listing, watched
<1>5. CASE CommitEnrich(d)
  <2>1. PICK next \in {"enrich", "idle"} : Commit(d, next)
    BY <1>5 DEF CommitEnrich
  <2>2. next \in Steps
    BY <2>1 DEF Steps, DailySteps
  <2>3. /\ staging' \in [Txns -> Cells]
        /\ opened' \in [Writers -> SUBSET Partitions]
        /\ image' \in [Writers -> [Txns -> Cells]]
        /\ at' \in [Writers -> Steps]
        /\ torn' \subseteq listed' /\ listed' \subseteq Partitions
        /\ stale' \in [Writers -> SUBSET Partitions] /\ overtaken' \subseteq Partitions
    BY <1>0, <2>1, <2>2, CommitType
  <2> QED BY <1>5, <2>3 DEF CommitEnrich, TypeOK, Steps, auditTables, audit, script
<1> QED BY <1>1, <1>2, <1>3, <1>4, <1>5 DEF Daily

LEMMA TypeAudit ==
  ASSUME TypeOK, Dated, AuditRun
  PROVE  TypeOK'
<1>0. Audit \in Writers
  BY WriterFacts
<1>1. ASSUME NEW d \in Partitions, StartAudit(d) PROVE TypeOK'
  <2>1. at' \in [Writers -> Steps]
    BY <1>0, <1>1, BeginType DEF StartAudit, Steps, AuditSteps
  <2> QED BY <1>1, <2>1 DEF StartAudit, TypeOK, Steps, tables, rows, auditTables, script, listing, watched
<1>2. CASE ClearRestate
  <2>1. at' \in [Writers -> Steps]
    BY <1>0, <1>2, BeginType DEF ClearRestate, Steps, AuditSteps
  <2> QED BY <1>2, <2>1 DEF ClearRestate, TypeOK, Steps, tables, rows, auditTables, audit, script,
                            listing, watched
<1>3. ASSUME NEW y, BuildIndexYear(y) PROVE TypeOK'
  <2>1. indexed' \subseteq Txns
    BY <1>3 DEF BuildIndexYear, TypeOK, RowsOf
  <2> QED BY <1>3, <2>1 DEF BuildIndexYear, TypeOK, rows, audit, script, listing, watched
<1>9. CASE MarkIndexed
  <2>1. at' \in [Writers -> Steps]
    BY <1>0, <1>9 DEF MarkIndexed, TypeOK, Steps, AuditSteps
  <2> QED BY <1>9, <2>1 DEF MarkIndexed, TypeOK, Steps, tables, rows, auditTables, audit, script,
                            listing, watched
<1>4. CASE Detect
  <2>1. at' \in [Writers -> Steps]
    BY <1>0, <1>4 DEF Detect, TypeOK, Steps, AuditSteps
  <2>2. history' \in [Txns -> Labels]
    BY <1>4 DEF Detect, TypeOK
  <2>3. manifest' \in [Partitions -> [Txns -> Labels]]
    <3> DEFINE impact == {t \in indexed : raw[t] # NoLabel /\ raw[t] # history[t]}
               new == [t \in Txns |-> IF t \in impact THEN raw[t] ELSE NoLabel]
    <3>1. new \in [Txns -> Labels]
      BY CellFacts DEF TypeOK
    <3>2. manifest' = IF impact = {} THEN manifest ELSE [manifest EXCEPT ![ds] = new]
      BY <1>4 DEF Detect
    <3> HIDE DEF new, impact
    <3> QED BY <3>1, <3>2 DEF TypeOK
  <2> QED BY <1>4, <2>1, <2>2, <2>3 DEF Detect, TypeOK, Steps, rows, audit, script, listing, watched
<1>5. CASE PlanRestate
  <2>1. at' \in [Writers -> Steps]
    BY <1>0, <1>5 DEF PlanRestate, TypeOK, Steps, AuditSteps
  <2>2. left' \subseteq Partitions
    BY <1>5, StagingWritersAssumption DEF PlanRestate, Pending
  <2> QED BY <1>5, <2>1, <2>2 DEF PlanRestate, TypeOK, Steps, tables, rows, auditTables, script,
                                  listing, watched
<1>6. CASE ReadPartition
  <2>1. PICK img : /\ Read(Audit, {Current}, img)
                   /\ img = Image(RowsOf({Current}),
                        [t \in Txns |-> IF t \in PartChanges THEN manifest[ds][t] ELSE staging[t]])
    BY <1>6 DEF ReadPartition
  <2>2. ds \in Partitions
    BY <1>6 DEF ReadPartition, Dated
  <2>3. \A t \in Txns : manifest[ds][t] \in Cells /\ staging[t] \in Cells
    BY <2>2, CellFacts DEF TypeOK
  <2>4. img \in [Txns -> Cells]
    BY <2>1, <2>3, ImageType
  <2>5. {Current} \subseteq Partitions
    BY <2>1, <1>6, StagingWritersAssumption DEF ReadPartition, HasLabels, RowsOf
  <2>6. opened' \in [Writers -> SUBSET Partitions] /\ image' \in [Writers -> [Txns -> Cells]]
    BY <1>0, <2>1, <2>4, <2>5, ReadType
  <2> QED BY <1>6, <2>6 DEF ReadPartition, TypeOK, tables, rows, auditTables, audit, script, listing, watched
<1>7. CASE CommitPartition
  <2>1. "ledger" \in Steps
    BY DEF Steps, AuditSteps
  <2>2. /\ staging' \in [Txns -> Cells]
        /\ opened' \in [Writers -> SUBSET Partitions]
        /\ image' \in [Writers -> [Txns -> Cells]]
        /\ at' \in [Writers -> Steps]
        /\ torn' \subseteq listed' /\ listed' \subseteq Partitions
        /\ stale' \in [Writers -> SUBSET Partitions] /\ overtaken' \subseteq Partitions
    BY <1>0, <1>7, <2>1, CommitType DEF CommitPartition
  <2> QED BY <1>7, <2>2 DEF CommitPartition, TypeOK, Steps, auditTables, audit, script
<1>8. CASE AppendLedger
  <2>1. at' \in [Writers -> Steps]
    BY <1>0, <1>8 DEF AppendLedger, TypeOK, Steps, AuditSteps
  <2>2. applied' \in [Partitions -> SUBSET Txns]
    BY <1>8 DEF AppendLedger, TypeOK, PartChanges, Pending
  <2> QED BY <1>8, <2>1, <2>2 DEF AppendLedger, TypeOK, Steps, rows, script, listing, watched
<1> QED BY <1>1, <1>2, <1>3, <1>4, <1>5, <1>6, <1>7, <1>8, <1>9 DEF AuditRun

LEMMA TypeScript ==
  ASSUME TypeOK, BackfillScript
  PROVE  TypeOK'
<1>0. Backfill \in Writers /\ at[Backfill] \in Steps
  BY WriterFacts DEF TypeOK, Steps
<1>1. CASE ReadAllRaw
  <2> DEFINE img == Image(arrived, [t \in Txns |-> NoColumn])
             P == {EventDay[t] : t \in arrived}
  <2>1. img \in [Txns -> Cells] /\ P \subseteq Partitions
    BY ImageType, CellFacts, StagingWritersAssumption DEF TypeOK
  <2>2. Read(Backfill, P, img) /\ Begin(Backfill, "clean_full")
    BY <1>1 DEF ReadAllRaw
  <2>3. opened' \in [Writers -> SUBSET Partitions] /\ image' \in [Writers -> [Txns -> Cells]]
    <3> HIDE DEF img, P
    <3> QED BY <1>0, <2>1, <2>2, ReadType
  <2>4. at' \in [Writers -> Steps]
    BY <1>0, <2>2, BeginType DEF Steps, ScriptSteps
  <2> QED BY <1>1, <2>3, <2>4 DEF ReadAllRaw, TypeOK, Steps, tables, rows, auditTables, audit,
                                  script, listing, watched
<1>2. CASE CommitCleanFull
  <2>1. "idle" \in Steps
    BY DEF Steps
  <2>2. /\ staging' \in [Txns -> Cells]
        /\ opened' \in [Writers -> SUBSET Partitions]
        /\ image' \in [Writers -> [Txns -> Cells]]
        /\ at' \in [Writers -> Steps]
        /\ torn' \subseteq listed' /\ listed' \subseteq Partitions
        /\ stale' \in [Writers -> SUBSET Partitions] /\ overtaken' \subseteq Partitions
    BY <1>0, <1>2, <2>1, CommitType DEF CommitCleanFull
  <2>3. unlabelled' \subseteq Partitions /\ described' \subseteq Partitions
    BY <1>2, WrittenType DEF CommitCleanFull, TypeOK
  <2> QED BY <1>2, <2>2, <2>3 DEF CommitCleanFull, TypeOK, Steps, auditTables, audit, script
<1>3. CASE OpenStaging
  <2>1. at' \in [Writers -> Steps]
    BY <1>0, <1>3, BeginType DEF OpenStaging, Steps, ScriptSteps, YearSteps
  <2>2. column' \in BOOLEAN
    BY <1>3 DEF OpenStaging, HasLabels
  <2>3. torn' \subseteq listed' /\ listed' \subseteq Partitions /\ years' \subseteq BackfillYears
    BY <1>3, WrittenType DEF OpenStaging
  <2> QED BY <1>3, <2>1, <2>2, <2>3 DEF OpenStaging, TypeOK, Steps, tables, rows, auditTables, audit,
                                        watched
<1>4. CASE ReadYear
  <2> DEFINE label == [t \in Txns |-> IF ~column THEN NoColumn
                                     ELSE IF staging[t] = NoColumn THEN NoLabel ELSE staging[t]]
  <2>1. \A t \in Txns : label[t] \in Cells
    BY CellFacts DEF TypeOK
  <2>2. Image(YearRows, label) \in [Txns -> Cells]
    <3> HIDE DEF label
    <3> QED BY <2>1, ImageType
  <2>3. YearPartitions \subseteq Partitions
    BY DEF YearPartitions, PartitionsOf
  <2>4. Read(Backfill, YearPartitions, Image(YearRows, label))
    BY <1>4 DEF ReadYear
  <2>5. opened' \in [Writers -> SUBSET Partitions] /\ image' \in [Writers -> [Txns -> Cells]]
    <3> HIDE DEF label
    <3> QED BY <1>0, <2>2, <2>3, <2>4, ReadType
  <2> QED BY <1>4, <2>5 DEF ReadYear, TypeOK, tables, rows, auditTables, audit, script, listing, watched
<1>5. CASE MaterializeBatches
  <2>1. at' \in [Writers -> Steps]
    BY <1>0, <1>5, BeginType DEF MaterializeBatches, Steps, ScriptSteps, YearSteps
  <2>2. batched' \in [Txns -> Labels]
    BY <1>5 DEF MaterializeBatches, TypeOK
  <2>3. /\ years' \subseteq BackfillYears /\ batches' \subseteq Batches
        /\ torn' \subseteq listed' /\ listed' \subseteq Partitions
    BY <1>5 DEF MaterializeBatches, PartitionsOf
  <2> QED BY <1>5, <2>1, <2>2, <2>3 DEF MaterializeBatches, TypeOK, Steps, rows, auditTables, audit,
                                        listing, watched
<1>6. CASE ReadYearBatches
  <2>1. Image({t \in YearRows : BatchOf[t] \in batches}, batched) \in [Txns -> Cells]
    BY ImageType, CellFacts DEF TypeOK
  <2>2. YearPartitions \subseteq Partitions
    BY DEF YearPartitions, PartitionsOf
  <2>3. opened' \in [Writers -> SUBSET Partitions] /\ image' \in [Writers -> [Txns -> Cells]]
    BY <1>0, <1>6, <2>1, <2>2, ReadType DEF ReadYearBatches
  <2> QED BY <1>6, <2>3 DEF ReadYearBatches, TypeOK, tables, rows, auditTables, audit, script, listing, watched
<1>7. CASE CommitYear
  <2>1. /\ staging' \in [Txns -> Cells]
        /\ opened' \in [Writers -> SUBSET Partitions]
        /\ image' \in [Writers -> [Txns -> Cells]]
        /\ at' \in [Writers -> Steps]
        /\ torn' \subseteq listed' /\ listed' \subseteq Partitions
        /\ stale' \in [Writers -> SUBSET Partitions] /\ overtaken' \subseteq Partitions
    BY <1>0, <1>7, CommitType DEF CommitYear
  <2>2. unlabelled' \subseteq Partitions /\ described' \subseteq Partitions
    BY <1>7, WrittenType DEF CommitYear, TypeOK
  <2> QED BY <1>7, <2>1, <2>2 DEF CommitYear, TypeOK, Steps, auditTables, audit
<1>8. CASE YearEmpty
  BY <1>8 DEF YearEmpty, TypeOK, tables, rows, auditTables, audit, listing, watched
<1>9. CASE ScriptDone
  <2>1. at' \in [Writers -> Steps]
    BY <1>0, <1>9 DEF ScriptDone, TypeOK, Steps
  <2> QED BY <1>9, <2>1 DEF ScriptDone, TypeOK, Steps, tables, rows, auditTables, audit, watched
<1> QED BY <1>1, <1>2, <1>3, <1>4, <1>5, <1>6, <1>7, <1>8, <1>9 DEF BackfillScript

LEMMA TypeFails ==
  ASSUME TypeOK, NEW w \in Writers, Fails(w)
  PROVE  TypeOK'
<1>1. at' \in [Writers -> Steps]
  BY DEF Fails, TypeOK, Steps, AuditSteps, TaskOf
<1>2. image' \in [Writers -> [Txns -> Cells]] /\ opened' \in [Writers -> SUBSET Partitions]
  BY NoRowsType DEF Fails, TypeOK
<1> QED BY <1>1, <1>2 DEF Fails, TypeOK, Steps, tables, rows, auditTables

LEMMA DatedStep == TypeOK /\ Dated /\ [Next]_vars => Dated'
<1> SUFFICES ASSUME TypeOK, Dated, [Next]_vars PROVE Dated'
  OBVIOUS
<1>0. at \in [Writers -> Steps] /\ Audit \in Writers /\ Audit \notin Partitions /\ Audit # Backfill
  BY WriterFacts DEF TypeOK, Steps
<1>1. CASE UNCHANGED <<at, ds>>
  BY <1>1 DEF Dated
<1>2. ASSUME NEW t \in Txns, Arrive(t) \/ Reload(t) PROVE Dated'
  BY <1>1, <1>2 DEF Arrive, Reload, audit
<1>3. ASSUME NEW d \in Partitions, Daily(d) PROVE Dated'
  BY <1>0, <1>3 DEF Dated, Daily, StartDaily, ReadRaw, CommitClean, ReadStaging, CommitEnrich, Begin,
                    Commit, audit
<1>4. CASE AuditRun
  BY <1>0, <1>4 DEF Dated, AuditRun, StartAudit, ClearRestate, BuildIndexYear, MarkIndexed, Detect,
                    PlanRestate, ReadPartition, CommitPartition, AppendLedger, Begin, Commit, TypeOK, audit
<1>5. CASE BackfillScript
  BY <1>0, <1>5 DEF Dated, BackfillScript, ReadAllRaw, CommitCleanFull, OpenStaging, ReadYear,
                    MaterializeBatches, ReadYearBatches, CommitYear, YearEmpty, ScriptDone, Begin,
                    Commit, audit
<1>6. ASSUME NEW w \in Writers, Fails(w) PROVE Dated'
  BY <1>0, <1>6 DEF Dated, Fails
<1>7. CASE UNCHANGED vars
  BY <1>1, <1>7 DEF vars, audit
<1> QED BY <1>2, <1>3, <1>4, <1>5, <1>6, <1>7 DEF Next

LEMMA TypeStep == TypeOK /\ Dated /\ [Next]_vars => TypeOK'
<1> SUFFICES ASSUME TypeOK, Dated, [Next]_vars PROVE TypeOK'
  OBVIOUS
<1>1. CASE UNCHANGED vars
  BY <1>1 DEF vars, TypeOK, tables, rows, auditTables, audit, script, listing, watched
<1> QED BY <1>1, TypeSource, TypeDaily, TypeAudit, TypeScript, TypeFails DEF Next

LEMMA Typed == Spec => [](TypeOK /\ Dated)
<1>1. Init => TypeOK /\ Dated
  BY TypeInit, WriterFacts DEF Init, Dated
<1> QED BY <1>1, TypeStep, DatedStep, PTL DEF Spec

\* Every variable of StagingWriters keeps its type; of the audit run one has to know that it
\* has a date whenever it is under way.
THEOREM WritersTypeCorrect == Spec => []TypeOK
BY Typed, PTL
-----------------------------------------------------------------------------
(* No row is dropped *)

\* A debug run of enrich_fraud_labels has the rows of some batches only.
Partial(w) == JoinsLabels(w) /\ batches # Batches

\* A writer's rows are raw rows of the partitions it has open, and all that these have in
\* staging, for the partitions it is going to replace and nobody has replaced since it read.
Good(P, img, replaced, partial) ==
  \A t \in Txns :
    /\ img[t] # Absent => EventDay[t] \in P /\ t \in arrived
    /\ EventDay[t] \in Written(img) \ replaced /\ staging[t] # Absent /\ ~partial => img[t] # Absent

StagedArrived == \A t \in Txns : staging[t] # Absent => t \in arrived

\* A script has partitions open only while it cleans or is at one of its years.
ScriptOpens ==
  opened[Backfill] # {} =>
    at[Backfill] = "clean_full" \/ (at[Backfill] \in YearSteps /\ years # {})

RowsInv ==
  /\ \A w \in Writers : Good(opened[w], image[w], stale[w], Partial(w))
  /\ StagedArrived
  /\ ScriptOpens

LEMMA OverwriteFacts ==
  \A img : \A t \in Txns :
    Overwrite(img)[t] = IF EventDay[t] \in Written(img) THEN img[t] ELSE staging[t]
BY DEF Overwrite, Written

\* The four things a step can do to staging and the writers' rows.
SameScript == at'[Backfill] = at[Backfill] /\ batches' = batches
Quiet ==
  /\ UNCHANGED <<staging, opened, image, watched>> /\ arrived \subseteq arrived'
  /\ SameScript \/ opened[Backfill] = {}
Reads(w) ==
  /\ \E P, img, partial : /\ Read(w, P, img) /\ Good(P, img, {}, partial)
                          /\ partial => Partial(w)'
  /\ UNCHANGED <<staging, arrived, watched>>
  /\ w # Backfill => SameScript
Commits(w) ==
  /\ \E next : Commit(w, next)
  /\ UNCHANGED arrived
  /\ w # Backfill => SameScript
Drops(w) ==
  /\ opened' = [opened EXCEPT ![w] = {}]
  /\ image' = [image EXCEPT ![w] = NoRows]
  /\ stale' = [stale EXCEPT ![w] = {}]
  /\ UNCHANGED <<staging, arrived, overtaken>>
  /\ w # Backfill => SameScript

AllGood == \A w \in Writers : Good(opened[w], image[w], stale[w], Partial(w))

\* What another writer may do to the rows of w: replace partitions it has open.
LEMMA GoodSpared ==
  ASSUME TypeOK, NEW w \in Writers, Good(opened[w], image[w], stale[w], Partial(w)),
         opened'[w] = opened[w], image'[w] = image[w], stale[w] \subseteq stale'[w],
         w = Backfill => SameScript \/ opened[w] = {}, arrived \subseteq arrived',
         \A t \in Txns : staging'[t] = staging[t]
                         \/ (EventDay[t] \in opened[w] => EventDay[t] \in stale'[w])
  PROVE  Good(opened[w], image[w], stale[w], Partial(w))'
<1>1. \A t \in Txns : image[w][t] # Absent => EventDay[t] \in opened[w] /\ t \in arrived
  BY DEF Good
<1>2. Written(image[w]) \subseteq opened[w]
  BY <1>1 DEF Written
<1>3. opened[w] # {} => (Partial(w) <=> Partial(w)')
  BY DEF Partial, JoinsLabels, SameScript
<1>4. ASSUME NEW t \in Txns, EventDay[t] \in Written(image[w]) \ stale'[w], staging'[t] # Absent,
             ~Partial(w)'
      PROVE  image[w][t] # Absent
  <2>1. EventDay[t] \in opened[w] /\ ~Partial(w) /\ EventDay[t] \in Written(image[w]) \ stale[w]
    BY <1>2, <1>3, <1>4
  <2>2. staging[t] # Absent
    BY <1>4, <2>1
  <2> QED BY <2>1, <2>2 DEF Good
<1> QED BY <1>1, <1>4 DEF Good, Written

LEMMA QuietStep ==
  ASSUME TypeOK, RowsInv, Quiet
  PROVE  AllGood' /\ StagedArrived'
<1>1. StagedArrived'
  BY DEF RowsInv, Quiet, StagedArrived
<1>2. ASSUME NEW w \in Writers PROVE Good(opened[w], image[w], stale[w], Partial(w))'
  <2>1. Good(opened[w], image[w], stale[w], Partial(w))
    BY DEF RowsInv
  <2>2. /\ opened'[w] = opened[w] /\ image'[w] = image[w] /\ stale[w] \subseteq stale'[w]
        /\ w = Backfill => SameScript \/ opened[w] = {}
        /\ arrived \subseteq arrived' /\ staging' = staging
    BY DEF Quiet, watched
  <2> QED BY <2>1, <2>2, GoodSpared
<1> QED BY <1>1, <1>2 DEF AllGood

LEMMA ReadStep ==
  ASSUME TypeOK, RowsInv, NEW w \in Writers, Reads(w)
  PROVE  AllGood' /\ StagedArrived'
<1>1. PICK P, img, partial : /\ Read(w, P, img) /\ Good(P, img, {}, partial)
                             /\ partial => Partial(w)'
  BY DEF Reads
<1>2. staging' = staging /\ arrived' = arrived /\ stale' = stale /\ (w # Backfill => SameScript)
  BY DEF Reads, watched
<1>3. StagedArrived'
  BY <1>2 DEF RowsInv, StagedArrived
<1>4. ASSUME NEW v \in Writers PROVE Good(opened[v], image[v], stale[v], Partial(v))'
  <2>1. CASE v = w
    <3>1. opened'[v] = P /\ image'[v] = img
      BY <1>1, <2>1 DEF Read, TypeOK
    <3> QED BY <1>1, <1>2, <2>1, <3>1 DEF Good, Written
  <2>2. CASE v # w
    <3>1. opened'[v] = opened[v] /\ image'[v] = image[v] /\ (v = Backfill => SameScript)
      BY <1>1, <1>2, <2>2 DEF Read, TypeOK
    <3>2. Good(opened[v], image[v], stale[v], Partial(v))
      BY DEF RowsInv
    <3> QED BY <1>2, <3>1, <3>2, GoodSpared
  <2> QED BY <2>1, <2>2
<1> QED BY <1>3, <1>4 DEF AllGood

LEMMA NoRowsGood ==
  \A P, replaced, partial : Good(P, NoRows, replaced, partial) /\ Good(P, NoRows, replaced, partial)'
BY DEF Good, NoRows, Written

LEMMA DropStep ==
  ASSUME TypeOK, RowsInv, NEW w \in Writers, Drops(w)
  PROVE  AllGood' /\ StagedArrived'
<1>1. staging' = staging /\ arrived' = arrived /\ (w # Backfill => SameScript)
  BY DEF Drops
<1>2. StagedArrived'
  BY <1>1 DEF RowsInv, StagedArrived
<1>3. ASSUME NEW v \in Writers PROVE Good(opened[v], image[v], stale[v], Partial(v))'
  <2>1. CASE v = w
    <3>1. image'[v] = NoRows
      BY <2>1 DEF Drops, TypeOK
    <3> QED BY <3>1, NoRowsGood DEF Good, Written
  <2>2. CASE v # w
    <3>1. /\ opened'[v] = opened[v] /\ image'[v] = image[v] /\ stale'[v] = stale[v]
          /\ v = Backfill => SameScript
      BY <1>1, <2>2 DEF Drops, TypeOK
    <3>2. Good(opened[v], image[v], stale[v], Partial(v))
      BY DEF RowsInv
    <3> QED BY <1>1, <3>1, <3>2, GoodSpared
  <2> QED BY <2>1, <2>2
<1> QED BY <1>2, <1>3 DEF AllGood

\* The row t is dropped by a writer whose partition was replaced since it read it, or by a debug
\* batch.
Excused(t) ==
  \E w \in Writers : /\ opened[w] # {} /\ opened'[w] = {}
                     /\ EventDay[t] \in stale[w] \/ Partial(w)

LEMMA CommitStep ==
  ASSUME TypeOK, RowsInv, NEW w \in Writers, Commits(w)
  PROVE  /\ AllGood'
         /\ StagedArrived'
         /\ \A t \in Txns : staging[t] # Absent /\ staging'[t] = Absent => Excused(t)
<1>1. /\ staging' = Overwrite(image[w]) /\ arrived' = arrived /\ opened[w] # {}
      /\ opened' = [opened EXCEPT ![w] = {}] /\ image' = [image EXCEPT ![w] = NoRows]
      /\ w # Backfill => SameScript
      /\ stale' = [v \in Writers |->
           IF v = w THEN {} ELSE stale[v] \cup (Written(image[w]) \cap opened[v])]
  BY DEF Commits, Commit
<1>2. \A t \in Txns :
        staging'[t] = IF EventDay[t] \in Written(image[w]) THEN image[w][t] ELSE staging[t]
  BY <1>1, OverwriteFacts
<1>3. Good(opened[w], image[w], stale[w], Partial(w))
  BY DEF RowsInv
<1>4. StagedArrived'
  BY <1>1, <1>2, <1>3 DEF RowsInv, StagedArrived, Good
<1>5. ASSUME NEW v \in Writers PROVE Good(opened[v], image[v], stale[v], Partial(v))'
  <2>1. CASE v = w
    <3>1. image'[v] = NoRows
      BY <1>1, <2>1 DEF TypeOK
    <3> QED BY <3>1, NoRowsGood DEF Good, Written
  <2>2. CASE v # w
    <3>1. /\ opened'[v] = opened[v] /\ image'[v] = image[v] /\ (v = Backfill => SameScript)
          /\ stale'[v] = stale[v] \cup (Written(image[w]) \cap opened[v])
      BY <1>1, <2>2 DEF TypeOK
    <3>2. Good(opened[v], image[v], stale[v], Partial(v))
      BY DEF RowsInv
    <3>3. \A t \in Txns : staging'[t] = staging[t]
                          \/ (EventDay[t] \in opened[v] => EventDay[t] \in stale'[v])
      BY <1>2, <3>1
    <3>4. stale[v] \subseteq stale'[v] /\ arrived \subseteq arrived'
      BY <1>1, <3>1
    <3> QED BY <3>1, <3>2, <3>3, <3>4, GoodSpared
  <2> QED BY <2>1, <2>2
<1>6. ASSUME NEW t \in Txns, staging[t] # Absent, staging'[t] = Absent PROVE Excused(t)
  <2>1. EventDay[t] \in Written(image[w]) /\ image[w][t] = Absent
    BY <1>2, <1>6
  <2>2. EventDay[t] \in stale[w] \/ Partial(w)
    BY <1>3, <1>6, <2>1 DEF Good
  <2>3. opened'[w] = {}
    BY <1>1 DEF TypeOK
  <2> QED BY <1>1, <2>2, <2>3 DEF Excused
<1> QED BY <1>4, <1>5, <1>6 DEF AllGood

LEMMA ScriptOpensStep ==
  ASSUME TypeOK, ScriptOpens, [Next]_vars
  PROVE  ScriptOpens'
<1>0. /\ at \in [Writers -> Steps] /\ opened \in [Writers -> SUBSET Partitions]
      /\ Partitions \subseteq Writers /\ Backfill \notin Partitions
      /\ Audit \in Writers /\ Backfill \in Writers /\ Audit # Backfill
  BY WriterFacts DEF TypeOK, Steps
<1>1. ASSUME UNCHANGED <<years, opened[Backfill], at[Backfill]>> PROVE ScriptOpens'
  BY <1>1 DEF ScriptOpens
<1>2. ASSUME NEW t \in Txns, Arrive(t) \/ Reload(t) PROVE ScriptOpens'
  BY <1>1, <1>2 DEF Arrive, Reload, script
<1>3. ASSUME NEW d \in Partitions, Daily(d) PROVE ScriptOpens'
  <2>1. UNCHANGED <<years, opened[Backfill], at[Backfill]>>
    BY <1>0, <1>3 DEF Daily, StartDaily, ReadRaw, CommitClean, ReadStaging, CommitEnrich, Begin, Read,
                      Commit, script
  <2> QED BY <1>1, <2>1
<1>4. CASE AuditRun
  <2>1. UNCHANGED <<years, opened[Backfill], at[Backfill]>>
    BY <1>0, <1>4 DEF AuditRun, StartAudit, ClearRestate, BuildIndexYear, MarkIndexed, Detect,
                      PlanRestate, ReadPartition, CommitPartition, AppendLedger, Begin, Read, Commit,
                      script
  <2> QED BY <1>1, <2>1
<1>5. CASE ReadAllRaw
  <2>1. at'[Backfill] = "clean_full"
    BY <1>0, <1>5 DEF ReadAllRaw, Begin
  <2> QED BY <2>1 DEF ScriptOpens
<1>6. CASE CommitCleanFull \/ CommitYear \/ YearEmpty
  <2>1. opened'[Backfill] = {}
    BY <1>0, <1>6 DEF CommitCleanFull, CommitYear, YearEmpty, Commit
  <2> QED BY <2>1 DEF ScriptOpens
<1>7. CASE OpenStaging \/ MaterializeBatches \/ ScriptDone
  <2>1. opened[Backfill] = {}
    BY <1>7 DEF ScriptOpens, OpenStaging, MaterializeBatches, ScriptDone, Begin, YearSteps
  <2>2. opened'[Backfill] = {}
    BY <1>7, <2>1 DEF OpenStaging, MaterializeBatches, ScriptDone
  <2> QED BY <2>2 DEF ScriptOpens
<1>8. CASE ReadYear \/ ReadYearBatches
  <2>1. at' = at /\ at[Backfill] \in YearSteps /\ years' = years /\ years # {}
    BY <1>8 DEF ReadYear, ReadYearBatches, YearSteps, script
  <2> QED BY <2>1 DEF ScriptOpens
<1>9. ASSUME NEW w \in Writers, Fails(w) PROVE ScriptOpens'
  <2>1. CASE w = Backfill
    <3>1. opened'[Backfill] = {}
      BY <1>0, <1>9, <2>1 DEF Fails
    <3> QED BY <3>1 DEF ScriptOpens
  <2>2. CASE w # Backfill
    <3>1. UNCHANGED <<years, opened[Backfill], at[Backfill]>>
      BY <1>0, <1>9, <2>2 DEF Fails
    <3> QED BY <1>1, <3>1
  <2> QED BY <2>1, <2>2
<1>10. CASE UNCHANGED vars
  BY <1>1, <1>10 DEF vars, script
<1> QED BY <1>2, <1>3, <1>4, <1>5, <1>6, <1>7, <1>8, <1>9, <1>10 DEF Next, BackfillScript

LEMMA ImageFacts ==
  ASSUME NEW S \in SUBSET Txns, NEW label, \A t \in S : label[t] # Absent
  PROVE  /\ \A t \in Txns : Image(S, label)[t] # Absent <=> t \in S
         /\ Written(Image(S, label)) = {EventDay[t] : t \in S}
<1>1. \A t \in Txns : Image(S, label)[t] # Absent <=> t \in S
  BY DEF Image
<1> QED BY <1>1 DEF Written

\* The rows of whole partitions are good.
LEMMA GoodRows ==
  ASSUME StagedArrived, NEW S \in SUBSET arrived, arrived \subseteq Txns, NEW P,
         NEW label, \A t \in S : EventDay[t] \in P /\ label[t] # Absent,
         \A t, u \in Txns : staging[t] # Absent /\ u \in S /\ EventDay[t] = EventDay[u] => t \in S
  PROVE  Good(P, Image(S, label), {}, FALSE)
<1>1. /\ \A t \in Txns : Image(S, label)[t] # Absent <=> t \in S
      /\ Written(Image(S, label)) = {EventDay[t] : t \in S}
  BY ImageFacts
<1> QED BY <1>1 DEF Good

\* The rows of some batches only.
LEMMA PartialRows ==
  ASSUME NEW S \in SUBSET arrived, arrived \subseteq Txns, NEW P,
         NEW label, \A t \in S : EventDay[t] \in P
  PROVE  Good(P, Image(S, label), {}, TRUE)
BY DEF Good, Image

GoodRead(w) ==
  \E P, img, partial : Read(w, P, img) /\ Good(P, img, {}, partial) /\ (partial => Partial(w)')

LEMMA ReadsKind ==
  ASSUME TypeOK, Dated, RowsInv, NEW w \in Writers,
         \/ \E d \in Partitions : w = d /\ (ReadRaw(d) \/ ReadStaging(d))
         \/ w = Audit /\ ReadPartition
         \/ w = Backfill /\ (ReadAllRaw \/ ReadYear \/ ReadYearBatches)
  PROVE  GoodRead(w)
<1>0. StagedArrived /\ arrived \subseteq Txns
  BY DEF RowsInv, TypeOK
<1>1. \A t \in Txns : /\ raw[t] # Absent /\ batched[t] # Absent
                      /\ \A d \in Partitions : manifest[d][t] # Absent
  BY CellFacts DEF TypeOK
<1>2. ASSUME NEW d \in Partitions, w = d, ReadRaw(d)
      PROVE  GoodRead(w)
  <2> DEFINE S == {t \in arrived : EventDay[t] = d}
             label == [t \in Txns |-> NoColumn]
  <2>1. Read(w, {d}, Image(S, label))
    BY <1>2 DEF ReadRaw
  <2>2. /\ S \in SUBSET arrived /\ \A t \in S : EventDay[t] \in {d} /\ label[t] # Absent
        /\ \A t, u \in Txns : staging[t] # Absent /\ u \in S /\ EventDay[t] = EventDay[u] => t \in S
    BY <1>0, CellFacts DEF StagedArrived
  <2>3. Good({d}, Image(S, label), {}, FALSE)
    <3> HIDE DEF S, label
    <3> QED BY <1>0, <2>2, GoodRows
  <2> QED BY <2>1, <2>3 DEF GoodRead
<1>3. ASSUME NEW d \in Partitions, w = d, ReadStaging(d)
      PROVE  GoodRead(w)
  <2>1. /\ RowsOf({d}) \in SUBSET arrived /\ \A t \in RowsOf({d}) : EventDay[t] \in {d} /\ raw[t] # Absent
        /\ \A t, u \in Txns : staging[t] # Absent /\ u \in RowsOf({d}) /\ EventDay[t] = EventDay[u]
             => t \in RowsOf({d})
    BY <1>0, <1>1 DEF StagedArrived, RowsOf
  <2>2. Good({d}, Image(RowsOf({d}), raw), {}, FALSE)
    BY <1>0, <2>1, GoodRows
  <2> QED BY <1>3, <2>2 DEF ReadStaging, GoodRead
<1>4. ASSUME w = Audit, ReadPartition
      PROVE  GoodRead(w)
  <2> DEFINE S == RowsOf({Current})
             label == [t \in Txns |-> IF t \in PartChanges THEN manifest[ds][t] ELSE staging[t]]
  <2>1. Read(w, {Current}, Image(S, label))
    BY <1>4 DEF ReadPartition
  <2>2. ds \in Partitions
    BY <1>4 DEF ReadPartition, Dated
  <2>3. /\ S \in SUBSET arrived /\ \A t \in S : EventDay[t] \in {Current} /\ label[t] # Absent
        /\ \A t, u \in Txns : staging[t] # Absent /\ u \in S /\ EventDay[t] = EventDay[u] => t \in S
    BY <1>0, <1>1, <2>2 DEF StagedArrived, RowsOf
  <2>4. Good({Current}, Image(S, label), {}, FALSE)
    <3> HIDE DEF S, label
    <3> QED BY <1>0, <2>3, GoodRows
  <2> QED BY <2>1, <2>4 DEF GoodRead
<1>5. ASSUME w = Backfill, ReadAllRaw
      PROVE  GoodRead(w)
  <2> DEFINE P == {EventDay[t] : t \in arrived}
             label == [t \in Txns |-> NoColumn]
  <2>1. Read(w, P, Image(arrived, label))
    BY <1>5 DEF ReadAllRaw
  <2>2. /\ arrived \in SUBSET arrived /\ \A t \in arrived : EventDay[t] \in P /\ label[t] # Absent
        /\ \A t, u \in Txns : staging[t] # Absent /\ u \in arrived /\ EventDay[t] = EventDay[u]
             => t \in arrived
    BY <1>0, CellFacts DEF StagedArrived
  <2>3. Good(P, Image(arrived, label), {}, FALSE)
    <3> HIDE DEF P, label
    <3> QED BY <1>0, <2>2, GoodRows
  <2> QED BY <2>1, <2>3 DEF GoodRead
<1>6. ASSUME w = Backfill, ReadYear
      PROVE  GoodRead(w)
  <2> DEFINE label == [t \in Txns |-> IF ~column THEN NoColumn
                                     ELSE IF staging[t] = NoColumn THEN NoLabel ELSE staging[t]]
  <2>1. Read(w, YearPartitions, Image(YearRows, label))
    BY <1>6 DEF ReadYear
  <2>2. /\ YearRows \in SUBSET arrived
        /\ \A t \in YearRows : EventDay[t] \in YearPartitions /\ label[t] # Absent
        /\ \A t, u \in Txns : staging[t] # Absent /\ u \in YearRows /\ EventDay[t] = EventDay[u]
             => t \in YearRows
    BY <1>0, CellFacts DEF StagedArrived, YearRows, RowsOf
  <2>3. Good(YearPartitions, Image(YearRows, label), {}, FALSE)
    <3> HIDE DEF label
    <3> QED BY <1>0, <2>2, GoodRows
  <2> QED BY <2>1, <2>3 DEF GoodRead
<1>7. ASSUME w = Backfill, ReadYearBatches
      PROVE  GoodRead(w)
  <2> DEFINE S == {t \in YearRows : BatchOf[t] \in batches}
  <2>1. Read(w, YearPartitions, Image(S, batched))
    BY <1>7 DEF ReadYearBatches
  <2>2. YearRows \in SUBSET arrived /\ \A t \in YearRows : EventDay[t] \in YearPartitions
    BY <1>0 DEF StagedArrived, YearRows, RowsOf
  <2>3. CASE batches = Batches
    <3>1. S = YearRows
      BY <2>3, StagingWritersAssumption DEF YearRows, RowsOf
    <3>2. /\ \A t \in YearRows : batched[t] # Absent
          /\ \A t, u \in Txns : staging[t] # Absent /\ u \in YearRows /\ EventDay[t] = EventDay[u]
               => t \in YearRows
      BY <1>1 DEF YearRows, RowsOf
    <3>3. Good(YearPartitions, Image(YearRows, batched), {}, FALSE)
      BY <1>0, <2>2, <3>2, GoodRows
    <3> QED BY <2>1, <3>1, <3>3 DEF GoodRead
  <2>4. CASE batches # Batches
    <3>1. Good(YearPartitions, Image(S, batched), {}, TRUE)
      BY <1>0, <2>2, PartialRows
    <3>2. Partial(w)'
      BY <1>7, <2>4 DEF ReadYearBatches, Partial, JoinsLabels, script
    <3> QED BY <2>1, <3>1, <3>2 DEF GoodRead
  <2> QED BY <2>3, <2>4
<1> QED BY <1>2, <1>3, <1>4, <1>5, <1>6, <1>7

LEMMA StepKinds ==
  ASSUME TypeOK, Dated, RowsInv, [Next]_vars
  PROVE  Quiet \/ \E w \in Writers : Reads(w) \/ Commits(w) \/ Drops(w)
<1>0. /\ at \in [Writers -> Steps] /\ Partitions \subseteq Writers /\ Backfill \notin Partitions
      /\ Audit \in Writers /\ Backfill \in Writers /\ Audit # Backfill
  BY WriterFacts DEF TypeOK, Steps
<1>1. CASE \/ \E t \in Txns : Arrive(t) \/ Reload(t)
           \/ \E d \in Partitions : StartDaily(d) \/ StartAudit(d)
           \/ ClearRestate \/ (\E y : BuildIndexYear(y)) \/ MarkIndexed
           \/ Detect \/ PlanRestate \/ AppendLedger
           \/ YearEmpty \/ UNCHANGED vars
  <2>1. UNCHANGED <<staging, opened, image, watched>> /\ arrived \subseteq arrived'
    BY <1>1 DEF Arrive, Reload, StartDaily, StartAudit, ClearRestate, BuildIndexYear, MarkIndexed,
                Detect, PlanRestate, AppendLedger, YearEmpty, vars, tables, rows, watched
  <2>2. SameScript
    BY <1>0, <1>1 DEF SameScript, Arrive, Reload, StartDaily, StartAudit, ClearRestate,
                      BuildIndexYear, MarkIndexed, Detect, PlanRestate, AppendLedger, YearEmpty,
                      Begin, vars, script
  <2> QED BY <2>1, <2>2 DEF Quiet
<1>2. CASE OpenStaging \/ MaterializeBatches \/ ScriptDone
  <2>1. UNCHANGED <<staging, opened, image, watched>> /\ arrived \subseteq arrived'
    BY <1>2 DEF OpenStaging, MaterializeBatches, ScriptDone, tables, rows, watched
  <2>2. opened[Backfill] = {}
    BY <1>2 DEF RowsInv, ScriptOpens, OpenStaging, MaterializeBatches, ScriptDone, Begin, YearSteps
  <2> QED BY <2>1, <2>2 DEF Quiet
<1>3. ASSUME NEW d \in Partitions, ReadRaw(d) \/ ReadStaging(d) PROVE Reads(d)
  <2>1. GoodRead(d)
    BY <1>0, <1>3, ReadsKind
  <2> QED BY <1>3, <2>1 DEF Reads, GoodRead, ReadRaw, ReadStaging, SameScript, tables, rows, script,
                            watched
<1>4. CASE ReadPartition
  <2>1. GoodRead(Audit)
    BY <1>0, <1>4, ReadsKind
  <2>2. Reads(Audit)
    BY <1>4, <2>1 DEF Reads, GoodRead, ReadPartition, SameScript, tables, rows, script, watched
  <2> QED BY <1>0, <2>2
<1>5. CASE ReadAllRaw \/ ReadYear \/ ReadYearBatches
  <2>1. GoodRead(Backfill)
    BY <1>0, <1>5, ReadsKind
  <2>2. Reads(Backfill)
    BY <1>5, <2>1 DEF Reads, GoodRead, ReadAllRaw, ReadYear, ReadYearBatches, tables, rows, watched
  <2> QED BY <1>0, <2>2
<1>6. ASSUME NEW d \in Partitions, CommitClean(d) \/ CommitEnrich(d) PROVE Commits(d)
  BY <1>0, <1>6 DEF Commits, CommitClean, CommitEnrich, Commit, SameScript, script
<1>7. CASE CommitPartition
  <2>1. Commits(Audit)
    BY <1>0, <1>7 DEF Commits, CommitPartition, Commit, SameScript, script
  <2> QED BY <1>0, <2>1
<1>8. CASE CommitCleanFull \/ CommitYear
  <2>1. Commits(Backfill)
    BY <1>8 DEF Commits, CommitCleanFull, CommitYear
  <2> QED BY <1>0, <2>1
<1>9. ASSUME NEW w \in Writers, Fails(w) PROVE Drops(w)
  BY <1>0, <1>9 DEF Drops, Fails, SameScript, tables, rows
<1> QED BY <1>0, <1>1, <1>2, <1>3, <1>4, <1>5, <1>6, <1>7, <1>8, <1>9
        DEF Next, Daily, AuditRun, BackfillScript

LEMMA RowsInit == Init => RowsInv
<1> SUFFICES ASSUME Init PROVE RowsInv
  OBVIOUS
<1>1. Backfill \in Writers /\ \A w \in Writers : opened[w] = {} /\ image[w] = NoRows
  BY WriterFacts DEF Init
<1>2. \A w \in Writers : Good(opened[w], image[w], stale[w], Partial(w))
  BY <1>1, NoRowsGood
<1>3. StagedArrived
  BY DEF Init, Image, StagedArrived
<1> QED BY <1>1, <1>2, <1>3 DEF RowsInv, ScriptOpens

LEMMA RowsStep ==
  ASSUME TypeOK, Dated, RowsInv, [Next]_vars
  PROVE  RowsInv' /\ \A t \in Txns : staging[t] # Absent /\ staging'[t] = Absent => Excused(t)
<1>1. ScriptOpens'
  BY ScriptOpensStep DEF RowsInv
<1>2. Quiet \/ \E w \in Writers : Reads(w) \/ Commits(w) \/ Drops(w)
  BY StepKinds
<1>3. CASE Quiet
  BY <1>1, <1>3, QuietStep DEF RowsInv, AllGood, Quiet
<1>4. ASSUME NEW w \in Writers, Reads(w)
      PROVE  RowsInv' /\ \A t \in Txns : staging[t] # Absent /\ staging'[t] = Absent => Excused(t)
  BY <1>1, <1>4, ReadStep DEF RowsInv, AllGood, Reads
<1>5. ASSUME NEW w \in Writers, Commits(w)
      PROVE  RowsInv' /\ \A t \in Txns : staging[t] # Absent /\ staging'[t] = Absent => Excused(t)
  BY <1>1, <1>5, CommitStep DEF RowsInv, AllGood
<1>6. ASSUME NEW w \in Writers, Drops(w)
      PROVE  RowsInv' /\ \A t \in Txns : staging[t] # Absent /\ staging'[t] = Absent => Excused(t)
  BY <1>1, <1>6, DropStep DEF RowsInv, AllGood, Drops
<1> QED BY <1>2, <1>3, <1>4, <1>5, <1>6

\* However the daily runs, the audit run and the backfill scripts overlap, fail or are cleared,
\* a row of staging is dropped only by a writer whose partition another has replaced since it
\* read it, or by a debug batch: for any transactions, dates, years and hash batches.
THEOREM NoRowDropped == Spec => RowsKept
<1>1. TypeOK /\ Dated /\ RowsInv /\ [Next]_vars
        => /\ RowsInv'
           /\ [\A t \in Txns : staging[t] # Absent /\ staging'[t] = Absent =>
                 \E w \in Writers : /\ opened[w] # {} /\ opened'[w] = {}
                                    /\ \/ EventDay[t] \in stale[w]
                                       \/ JoinsLabels(w) /\ batches # Batches]_vars
  BY RowsStep DEF Excused, Partial
<1> QED BY <1>1, RowsInit, Typed, PTL DEF Spec, RowsKept
=============================================================================
