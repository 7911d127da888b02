-------------------------- MODULE DailyBatch_proofs --------------------------
(***************************************************************************)
(* What DailyBatch promises for every source, number of dates, number of   *)
(* simultaneous runs and every bound: types, that cleaning a date loses no *)
(* transaction, and that the reconciliation finds what the tables have.    *)
(***************************************************************************)
EXTENDS DailyBatch, FiniteSetTheorems, TLAPS

\* Rows of a transaction that were loaded at one time are all valid or all invalid.
TiesAgree == \A r, q \in Rows :
  Id[r] = Id[q] /\ LoadedAt[r] = LoadedAt[q] => (r \in Valid <=> q \in Valid)
-----------------------------------------------------------------------------
(* Sets of rows *)

LEMMA FiniteRows ==
  ASSUME NEW S \in SUBSET Rows
  PROVE  IsFiniteSet(S) /\ Cardinality(S) \in Nat
BY DailyBatchAssumption, FS_Subset, FS_CardinalityType

LEMMA DistinctIdsType ==
  ASSUME NEW S \in SUBSET Rows
  PROVE  DistinctIds(S) \in Nat
<1> DEFINE ids == {Id[r] : r \in S}
<1>1. IsFiniteSet(S) /\ Cardinality(S) \in Nat
  BY FiniteRows
<1>2. IsFiniteSet(ids)
  <2>1. [r \in S |-> Id[r]] \in Surjection(S, ids)
    BY DEF Surjection
  <2> QED BY <1>1, <2>1, FS_Surjection
<1>3. Cardinality(ids) \in Nat
  BY <1>2, FS_CardinalityType
<1> QED
  <2> HIDE DEF ids
  <2>1. Cardinality(S) - (Cardinality(S) - Cardinality(ids)) = Cardinality(ids)
    BY <1>1, <1>3
  <2> QED BY <1>3, <2>1 DEF DistinctIds, ids

\* Whenever the newest rows are computed, they are of the same load times.
LEMMA NewestAgree ==
  ASSUME NEW S \in SUBSET Rows, NEW A \in Deduplicated(S), NEW B \in Deduplicated(S), NEW r \in A
  PROVE  \E q \in B : Id[q] = Id[r] /\ LoadedAt[q] = LoadedAt[r]
<1>1. r \in S
  BY DEF Deduplicated
<1>2. PICK q \in B : Id[q] = Id[r] /\ LoadedAt[q] >= LoadedAt[r]
  BY <1>1 DEF Deduplicated
<1>3. q \in S
  BY DEF Deduplicated
<1>4. PICK p \in A : Id[p] = Id[q] /\ LoadedAt[p] >= LoadedAt[q]
  BY <1>3 DEF Deduplicated
<1>5. p = r
  BY <1>2, <1>4 DEF Deduplicated
<1>6. LoadedAt[q] = LoadedAt[r]
  BY <1>1, <1>2, <1>3, <1>4, <1>5, DailyBatchAssumption
<1> QED BY <1>2, <1>6

\* M has the valid rows of D and the invalid rows of E.
IsSplit(M, D, E) == M \cap Valid = D \cap Valid /\ M \ Valid = E \ Valid

\* Each write evaluates the deduplication anew.  The valid rows of one evaluation and the
\* invalid rows of another are those of a third, as no transaction changes sides between them.
LEMMA OneSplit ==
  ASSUME TiesAgree, NEW S \in SUBSET Rows,
         NEW D \in Deduplicated(S), NEW E \in Deduplicated(S)
  PROVE  /\ \E M \in Deduplicated(S) : IsSplit(M, D, E)
         /\ E \ Valid = {} => D \ Valid = {}
<1> DEFINE M == (D \cap Valid) \cup (E \ Valid)
<1>1. D \in SUBSET S /\ E \in SUBSET S
  BY DEF Deduplicated
<1>2. ASSUME NEW r \in D
      PROVE  \E q \in E : Id[q] = Id[r] /\ LoadedAt[q] = LoadedAt[r] /\ (q \in Valid <=> r \in Valid)
  <2>1. PICK q \in E : Id[q] = Id[r] /\ LoadedAt[q] = LoadedAt[r]
    BY NewestAgree
  <2>2. q \in Rows /\ r \in Rows
    BY <1>1
  <2> QED BY <2>1, <2>2 DEF TiesAgree
<1>3. ASSUME NEW r \in M, NEW q \in M, Id[r] = Id[q] PROVE r = q
  <2>1. ASSUME NEW x \in D \cap Valid, NEW y \in E \ Valid, Id[x] = Id[y] PROVE FALSE
    <3>1. PICK z \in E : Id[z] = Id[x] /\ z \in Valid
      BY <1>2, <2>1
    <3>2. z = y
      BY <2>1, <3>1 DEF Deduplicated
    <3> QED BY <3>1, <3>2
  <2> QED BY <1>3, <2>1 DEF Deduplicated
<1>4. ASSUME NEW r \in S PROVE \E q \in M : Id[q] = Id[r] /\ LoadedAt[q] >= LoadedAt[r]
  <2>1. PICK q \in D : Id[q] = Id[r] /\ LoadedAt[q] >= LoadedAt[r]
    BY DEF Deduplicated
  <2>2. CASE q \in Valid
    BY <2>1, <2>2
  <2>3. CASE q \notin Valid
    BY <1>2, <2>1, <2>3
  <2> QED BY <2>2, <2>3
<1>5. M \in Deduplicated(S)
  BY <1>1, <1>3, <1>4 DEF Deduplicated
<1>6. IsSplit(M, D, E)
  BY DEF IsSplit
<1> QED BY <1>2, <1>5, <1>6
-----------------------------------------------------------------------------
(* Types *)

\* What the helpers of a run's actions leave well typed.
RunType ==
  /\ at \in [Days -> RunSteps \cup {"none", "done", "failed"}]
  /\ tries \in [Days -> 0 .. Retries]
RecType ==
  /\ rec \in [at : RecSteps \cup {"idle"}, day : Days \cup {0}, distinct : Nat,
              accepted : Nat, moved : SUBSET RecSteps]
  /\ rec.at = "idle" \/ rec.day \in Days
VacType == vac \in [open : BOOLEAN, keep : [Days -> SUBSET (Rows \ Valid)], stale : SUBSET Days]

LEMMA NextStepType ==
  ASSUME RunType, NEW d \in Days, NEW step \in RunSteps \cup {"done"}, NextStep(d, step)
  PROVE  RunType'
BY DEF RunType, NextStep

LEMMA NextTaskType ==
  ASSUME RunType, NEW d \in Days, NEW step \in RunSteps \cup {"done"}, NextTask(d, step)
  PROVE  RunType'
BY DailyBatchAssumption DEF RunType, NextTask

LEMMA TaskOfType ==
  \A step \in RunSteps :
    /\ TaskOf(step) \in RunSteps
    /\ \/ TaskOf(step) \in {"extract", "clean", "validate"}
       \/ TaskOf(step) = "enrich" /\ step = "enrich"
BY DEF TaskOf, RunSteps, CleanSteps

LEMMA FailTaskType ==
  ASSUME RunType, NEW d \in Active, FailTask(d)
  PROVE  RunType'
<1>1. d \in Days /\ TaskOf(at[d]) \in RunSteps
  BY TaskOfType DEF Active
<1>2. at' \in [Days -> RunSteps \cup {"none", "done", "failed"}]
  BY <1>1 DEF RunType, FailTask
<1>3. tries' \in [Days -> 0 .. Retries]
  BY <1>1, DailyBatchAssumption DEF RunType, FailTask
<1> QED BY <1>2, <1>3 DEF RunType

LEMMA MovesRecType ==
  ASSUME RecType, NEW table \in RecSteps, NEW days, MovesRec(table, days)
  PROVE  RecType'
BY DEF RecType, MovesRec

LEMMA ReplacesType ==
  ASSUME RecType, VacType, NEW table \in RecSteps, NEW days \in SUBSET Days, Replaces(table, days)
  PROVE  RecType' /\ VacType'
BY MovesRecType DEF VacType, Replaces

LEMMA InitType == Init => TypeOK
BY DailyBatchAssumption DEF Init, TypeOK, NoRec, NoVac

LEMMA NextType == TypeOK /\ [Next]_vars => TypeOK'
<1> SUFFICES ASSUME TypeOK, [Next]_vars PROVE TypeOK'
  OBVIOUS
<1> USE DailyBatchAssumption
<1>0. RunType /\ RecType /\ VacType /\ RecSteps = {"raw", "staging", "quarantine"}
  BY DEF TypeOK, RunType, RecType, VacType, RecSteps
<1>1. CASE \E r \in Rows : SourceInserts(r)
  BY <1>1 DEF SourceInserts, Event, TypeOK, lake, job
<1>2. CASE \E c \in Corrections : SourceCorrects(c[1], c[2])
  <2>1. PICK c \in Corrections : SourceCorrects(c[1], c[2])
    BY <1>2
  <2>2. c[2] \in Rows
    OBVIOUS
  <2> QED BY <2>1, <2>2 DEF SourceCorrects, Event, TypeOK, lake, job
<1>3. ASSUME NEW d \in Days, Schedule(d) PROVE TypeOK'
  BY <1>3 DEF Schedule, TypeOK, lake, RunSteps
<1>4. ASSUME NEW d \in Days, NEW step \in {"extract", "clean"}, Clear(d, step) PROVE TypeOK'
  BY <1>4 DEF Clear, Event, TypeOK, lake, RunSteps, CleanSteps
<1>5. ASSUME NEW d \in Days, TaskCrashes(d) PROVE TypeOK'
  <2>1. RunType'
    BY <1>0, <1>5, FailTaskType DEF TaskCrashes
  <2> QED BY <1>5, <2>1 DEF TaskCrashes, Event, FailTask, TypeOK, RunType, lake
<1>6. ASSUME NEW d \in Days, Extract(d) PROVE TypeOK'
  <2>1. RunType'
    BY <1>0, <1>6, NextStepType DEF Extract, RunSteps
  <2> QED BY <1>6, <2>1 DEF Extract, TypeOK, RunType, lake
<1>7. ASSUME NEW d \in Days, Load(d) PROVE TypeOK'
  <2>1. RunType'
    BY <1>0, <1>7, NextTaskType DEF Load, RunSteps
  <2>3. RecType' /\ VacType'
    <3>1. {DayOf[r] : r \in input[d]} \in SUBSET Days
      BY DEF TypeOK
    <3> QED BY <1>0, <1>7, <3>1, ReplacesType DEF Load
  <2>2. raw' \in [Days -> SUBSET Rows]
    BY <1>7 DEF Load, TypeOK, Overwritten, OfDay
  <2> QED BY <1>7, <2>1, <2>2, <2>3 DEF Load, TypeOK, RunType, RecType, VacType
<1>8. ASSUME NEW d \in Days, Validate(d) PROVE TypeOK'
  <2>1. RunType'
    BY <1>0, <1>8, NextTaskType DEF Validate, RunSteps, CleanSteps
  <2> QED BY <1>8, <2>1 DEF Validate, TypeOK, RunType, lake
<1>9. ASSUME NEW d \in Days, OpenRaw(d) PROVE TypeOK'
  <2>1. RunType'
    BY <1>0, <1>9, NextStepType DEF OpenRaw, RunSteps, CleanSteps
  <2> QED BY <1>9, <2>1 DEF OpenRaw, TypeOK, RunType, lake
<1>10. ASSUME NEW d \in Days, WriteStaging(d) PROVE TypeOK'
  <2>1. RunType' /\ RecType' /\ VacType'
    BY <1>0, <1>10, NextStepType, ReplacesType DEF WriteStaging, RunSteps, CleanSteps
  <2>2. staging' \in [Days -> SUBSET Valid]
    BY <1>10 DEF WriteStaging, TypeOK, Overwritten
  <2> QED BY <1>10, <2>1, <2>2 DEF WriteStaging, TypeOK, RunType, RecType, VacType
<1>11. ASSUME NEW d \in Days, CountQuarantine(d) PROVE TypeOK'
  <2>1. RunType'
    BY <1>0, <1>11, NextStepType, NextTaskType DEF CountQuarantine, RunSteps, CleanSteps
  <2> QED BY <1>11, <2>1 DEF CountQuarantine, TypeOK, RunType, lake
<1>12. ASSUME NEW d \in Days, WriteQuarantine(d) PROVE TypeOK'
  <2>1. PICK D \in Deduplicated(raw[d]) :
          /\ quarantine' = [quarantine EXCEPT ![d] = Overwritten(@, D \ Valid)]
          /\ IF D \ Valid = {}
             THEN UNCHANGED <<resolved, reviewed, reverted>> /\ Replaces("quarantine", {})
             ELSE /\ resolved' = [resolved EXCEPT ![d] = {}]
                  /\ reviewed' = [reviewed EXCEPT ![d] = {}]
                  /\ reverted' = reverted \ {d}
                  /\ Replaces("quarantine", {d})
    BY <1>12 DEF WriteQuarantine
  <2>2. RunType'
    BY <1>0, <1>12, NextTaskType DEF WriteQuarantine, RunSteps
  <2>3. RecType' /\ VacType'
    BY <1>0, <2>1, ReplacesType
  <2>4. D \ Valid \in SUBSET (Rows \ Valid)
    BY DEF Deduplicated, TypeOK
  <2>5. quarantine' \in [Days -> SUBSET (Rows \ Valid)]
    BY <2>1, <2>4 DEF TypeOK, Overwritten
  <2>6. resolved' \in [Days -> SUBSET Rows] /\ \A e \in Days : resolved'[e] \subseteq quarantine'[e]
    BY <2>1 DEF TypeOK, Overwritten
  <2>7. reviewed' \in [Days -> SUBSET Rows] /\ reverted' \subseteq Days
    BY <2>1 DEF TypeOK
  <2> QED BY <1>12, <2>2, <2>3, <2>5, <2>6, <2>7
             DEF WriteQuarantine, TypeOK, RunType, RecType, VacType
<1>13. ASSUME NEW d \in Days, Enrich(d) PROVE TypeOK'
  <2>1. RunType' /\ RecType' /\ VacType'
    BY <1>0, <1>13, NextTaskType, ReplacesType DEF Enrich, WriteEnriched
  <2> QED BY <1>13, <2>1 DEF Enrich, WriteEnriched, TypeOK, RunType, RecType, VacType
<1>14. ASSUME NEW d \in Days, EnrichCountFails(d) PROVE TypeOK'
  <2>1. RunType' /\ RecType' /\ VacType'
    BY <1>0, <1>14, FailTaskType, ReplacesType DEF EnrichCountFails, WriteEnriched, Active, RunSteps
  <2> QED BY <1>14, <2>1 DEF EnrichCountFails, WriteEnriched, FailTask, TypeOK, RunType, RecType,
                         VacType
<1>15. ASSUME NEW d \in Days, ReadRaises(d) PROVE TypeOK'
  <2>1. d \in Active
    BY <1>15 DEF ReadRaises, Active, RunSteps, CleanSteps
  <2>2. RunType'
    BY <1>0, <1>15, <2>1, FailTaskType DEF ReadRaises
  <2> QED BY <1>15, <2>2 DEF ReadRaises, FailTask, TypeOK, RunType, lake
<1>16. ASSUME NEW d \in Days, ReconcileStart(d) PROVE TypeOK'
  <2>1. RecType'
    BY <1>0, <1>16 DEF ReconcileStart, RecType, NoRec
  <2> QED BY <1>16, <2>1 DEF ReconcileStart, Event, TypeOK, RecType, lake, job
<1>17. CASE ReconcileRaw
  <2>1. rec.day \in Days
    BY <1>17 DEF ReconcileRaw, TypeOK
  <2>2. DistinctIds(raw[rec.day]) \in Nat
    BY <2>1, DistinctIdsType DEF TypeOK
  <2> QED BY <1>17, <2>1, <2>2 DEF ReconcileRaw, TypeOK, RecSteps, lake, job
<1>18. CASE ReconcileRaises
  BY <1>18 DEF ReconcileRaises, TypeOK, NoRec, lake, job
<1>19. CASE ReconcileStaging
  <2>1. rec.day \in Days
    BY <1>19 DEF ReconcileStaging, TypeOK
  <2>2. Counted(staging[rec.day]) \in Nat
    BY <2>1, FiniteRows DEF Counted, TypeOK
  <2> QED BY <1>19, <2>1, <2>2 DEF ReconcileStaging, TypeOK, RecSteps, lake, job
<1>20. CASE ReconcileQuarantine
  <2>1. rec.day \in Days
    BY <1>20 DEF ReconcileQuarantine, TypeOK
  <2>2. Counted(quarantine[rec.day]) \in Nat
    BY <2>1, FiniteRows DEF Counted, TypeOK
  <2>3. rec.distinct - rec.accepted - Counted(quarantine[rec.day]) \in Int
    BY <2>2 DEF TypeOK
  <2>4. DOMAIN result' = Days /\ \A d \in Days : result'[d] \subseteq Int
    BY <1>20, <2>1, <2>3 DEF ReconcileQuarantine, TypeOK
  <2> QED BY <1>20, <2>4 DEF ReconcileQuarantine, TypeOK, NoRec, lake, job
<1>21. ASSUME NEW d \in Days, NEW r \in Rows, Resolve(d, r) PROVE TypeOK'
  <2>1. /\ resolved' \in [Days -> SUBSET Rows] /\ reviewed' \in [Days -> SUBSET Rows]
        /\ \A e \in Days : resolved'[e] \subseteq quarantine[e]
    BY <1>21 DEF Resolve, TypeOK
  <2>2. RecType' /\ VacType'
    BY <1>0, <1>21, ReplacesType DEF Resolve
  <2> QED BY <1>21, <2>1, <2>2 DEF Resolve, Event, TypeOK, RecType, VacType, job
<1>22. CASE VacuumRead
  BY <1>22 DEF VacuumRead, Event, TypeOK, lake, job
<1>23. CASE VacuumWrite
  <2> DEFINE days == {d \in Days : vac.keep[d] # {}}
  <2>1. /\ quarantine' = [d \in Days |-> Overwritten(quarantine[d], vac.keep[d])]
        /\ resolved' = [d \in Days |-> IF d \in days THEN {} ELSE resolved[d]]
        /\ reverted' = reverted \cup (days \cap vac.stale)
        /\ MovesRec("quarantine", days)
    BY <1>23 DEF VacuumWrite
  <2>2. RecType'
    BY <1>0, <2>1, MovesRecType
  <2>3. quarantine' \in [Days -> SUBSET (Rows \ Valid)]
    BY <2>1 DEF TypeOK, Overwritten
  <2>4. resolved' \in [Days -> SUBSET Rows] /\ \A d \in Days : resolved'[d] \subseteq quarantine'[d]
    BY <2>1 DEF TypeOK, Overwritten
  <2> QED BY <1>23, <2>1, <2>2, <2>3, <2>4 DEF VacuumWrite, NoVac, TypeOK, RecType, job
<1>24. CASE VacuumFails
  BY <1>24 DEF VacuumFails, NoVac, TypeOK, lake, job
<1>25. CASE UNCHANGED vars
  BY <1>25 DEF TypeOK, vars, lake, job
<1> QED
  BY <1>1, <1>2, <1>3, <1>4, <1>5, <1>6, <1>7, <1>8, <1>9, <1>10, <1>11, <1>12, <1>13, <1>14,
     <1>15, <1>16, <1>17, <1>18, <1>19, <1>20, <1>21, <1>22, <1>23, <1>24, <1>25 DEF Next, RunStep

\* Types, for every source, number of dates and bound: the type invariant of the daily runs,
\* the reconciliation and the vacuum, among it that only quarantined rows are resolved.
THEOREM BatchTypeCorrect == Spec => []TypeOK
BY InitType, NextType, PTL DEF Spec
-----------------------------------------------------------------------------
(* No transaction vanishes *)

\* The rows that the last cleaning of the date had to keep, and has kept so far.
Staged(d) == \E D \in Deduplicated(raw[d]) : D \cap Valid \subseteq staging[d]
Kept(d) == \E D \in Deduplicated(raw[d]) :
             /\ D \cap Valid \subseteq staging[d]
             /\ D \ Valid \subseteq quarantine[d] \cup reviewed[d]
KeptSoFar(d) ==
  /\ at[d] \in {"count", "quarantine"} /\ ~torn[d] => Staged(d)
  /\ CleanedAsIs(d) /\ d \notin reverted => Kept(d)

\* NothingVanishes speaks of cleaned dates only: what the steps before have done must be
\* carried along.
KeptInv == \A d \in Days : KeptSoFar(d)

\* What the vacuum is about to write back lacks resolved rows only, where nobody has written
\* the partition since it read it.
ImageInv ==
  /\ \A d \in Days : resolved[d] \subseteq reviewed[d]
  /\ vac.open => \A d \in Days \ vac.stale : quarantine[d] \subseteq vac.keep[d] \cup reviewed[d]

Same(d) ==
  /\ at'[d] = at[d] /\ torn'[d] = torn[d] /\ raw'[d] = raw[d]
  /\ staging'[d] = staging[d] /\ quarantine'[d] = quarantine[d]
  /\ reviewed'[d] = reviewed[d] /\ (d \in reverted' <=> d \in reverted)

LEMMA SameKeeps ==
  ASSUME NEW d \in Days, KeptSoFar(d), Same(d)
  PROVE  KeptSoFar(d)'
BY DEF KeptSoFar, Same, Staged, Kept, CleanedAsIs

LEMMA InitImage == Init => ImageInv
BY DEF Init, ImageInv, NoVac

LEMMA NextImage == TypeOK /\ ImageInv /\ [Next]_vars => ImageInv'
<1> SUFFICES ASSUME TypeOK, ImageInv, [Next]_vars PROVE ImageInv'
  OBVIOUS
<1>0. ASSUME UNCHANGED <<quarantine, resolved, reviewed, vac>> PROVE ImageInv'
  BY <1>0 DEF ImageInv
<1>1. ASSUME NEW d \in Days, NEW table \in {"raw", "staging"}, NEW days, Replaces(table, days)
      PROVE  vac' = vac
  BY <1>1 DEF Replaces
<1>2. ASSUME NEW d \in Days, WriteQuarantine(d) PROVE ImageInv'
  <2>1. PICK D \in Deduplicated(raw[d]) :
          /\ quarantine' = [quarantine EXCEPT ![d] = Overwritten(@, D \ Valid)]
          /\ IF D \ Valid = {}
             THEN UNCHANGED <<resolved, reviewed, reverted>> /\ Replaces("quarantine", {})
             ELSE /\ resolved' = [resolved EXCEPT ![d] = {}]
                  /\ reviewed' = [reviewed EXCEPT ![d] = {}]
                  /\ reverted' = reverted \ {d}
                  /\ Replaces("quarantine", {d})
    BY <1>2 DEF WriteQuarantine
  <2>2. CASE D \ Valid = {}
    <3>1. vac'.open = vac.open /\ vac'.keep = vac.keep /\ vac'.stale = vac.stale
      BY <2>1, <2>2 DEF Replaces, TypeOK
    <3> QED BY <2>1, <2>2, <3>1 DEF ImageInv, Overwritten, TypeOK
  <2>3. CASE D \ Valid # {}
    <3>1. /\ vac'.open = vac.open /\ vac'.keep = vac.keep
          /\ vac.open => vac'.stale = vac.stale \cup {d}
      BY <2>1, <2>3 DEF Replaces, TypeOK
    <3> QED BY <2>1, <2>3, <3>1 DEF ImageInv, TypeOK
  <2> QED BY <2>2, <2>3
<1>3. ASSUME NEW d \in Days, NEW r \in Rows, Resolve(d, r) PROVE ImageInv'
  <2>1. vac'.open = vac.open /\ vac'.keep = vac.keep /\ vac.stale \subseteq vac'.stale
    BY <1>3 DEF Resolve, Replaces, TypeOK
  <2>2. \A e \in Days : resolved'[e] \subseteq reviewed'[e] /\ reviewed[e] \subseteq reviewed'[e]
    BY <1>3 DEF Resolve, ImageInv, TypeOK
  <2> QED BY <1>3, <2>1, <2>2 DEF Resolve, ImageInv
<1>4. CASE VacuumRead
  BY <1>4 DEF VacuumRead, ImageInv, lake
<1>5. CASE VacuumWrite
  <2>1. ~vac'.open
    BY <1>5 DEF VacuumWrite, NoVac
  <2>2. \A d \in Days : resolved'[d] \subseteq resolved[d]
    BY <1>5 DEF VacuumWrite
  <2> QED BY <1>5, <2>1, <2>2 DEF VacuumWrite, ImageInv
<1>6. CASE VacuumFails
  BY <1>6 DEF VacuumFails, NoVac, ImageInv, lake
<1>7. ASSUME NEW d \in Days, Load(d) \/ WriteStaging(d) \/ Enrich(d) \/ EnrichCountFails(d)
      PROVE  ImageInv'
  BY <1>0, <1>1, <1>7 DEF Load, WriteStaging, Enrich, EnrichCountFails, WriteEnriched
<1>8. ASSUME NEW d \in Days,
             \/ Schedule(d) \/ TaskCrashes(d) \/ Extract(d) \/ Validate(d) \/ OpenRaw(d)
             \/ CountQuarantine(d) \/ ReadRaises(d) \/ ReconcileStart(d)
      PROVE  ImageInv'
  BY <1>0, <1>8 DEF Schedule, TaskCrashes, Extract, Validate, OpenRaw, CountQuarantine, ReadRaises,
                    ReconcileStart, lake
<1>9. CASE ReconcileRaw \/ ReconcileRaises \/ ReconcileStaging \/ ReconcileQuarantine
  BY <1>0, <1>9 DEF ReconcileRaw, ReconcileRaises, ReconcileStaging, ReconcileQuarantine, lake
<1>10. CASE \/ \E r \in Rows : SourceInserts(r)
            \/ \E c \in Corrections : SourceCorrects(c[1], c[2])
            \/ \E d \in Days, step \in {"extract", "clean"} : Clear(d, step)
            \/ UNCHANGED vars
  BY <1>0, <1>10 DEF SourceInserts, SourceCorrects, Clear, vars, lake
<1> QED
  BY <1>2, <1>3, <1>4, <1>5, <1>6, <1>7, <1>8, <1>9, <1>10 DEF Next, RunStep

\* Where a failed task goes back to claims no more than the step that failed.
LEMMA FailTaskKeeps ==
  ASSUME TypeOK, NEW d \in Active, FailTask(d), KeptSoFar(d), UNCHANGED torn,
         raw'[d] = raw[d], staging'[d] = staging[d], quarantine'[d] = quarantine[d],
         UNCHANGED <<reviewed, reverted>>
  PROVE  KeptSoFar(d)' /\ \A e \in Days \ {d} : at'[e] = at[e]
<1>1. d \in Days /\ at \in [Days -> RunSteps \cup {"none", "done", "failed"}]
  BY DEF Active, TypeOK
<1>2. at'[d] \in {TaskOf(at[d]), "failed"} /\ \A e \in Days \ {d} : at'[e] = at[e]
  BY <1>1 DEF FailTask
<1>3. at[d] \in RunSteps
  BY DEF Active
<1>4. \/ TaskOf(at[d]) \in {"extract", "clean", "validate"}
      \/ TaskOf(at[d]) = "enrich" /\ at[d] = "enrich"
  BY <1>3, TaskOfType
<1>5. CASE at'[d] \in {"extract", "clean", "validate", "failed"}
  BY <1>2, <1>5 DEF KeptSoFar, CleanedAsIs
<1>6. CASE at'[d] = "enrich" /\ at[d] = "enrich"
  BY <1>2, <1>6 DEF KeptSoFar, CleanedAsIs, Staged, Kept
<1> QED BY <1>2, <1>4, <1>5, <1>6

LEMMA InitKept == Init => KeptInv
BY DEF Init, KeptInv, KeptSoFar, CleanedAsIs

LEMMA NextKept ==
  ASSUME TiesAgree
  PROVE  TypeOK /\ ImageInv /\ KeptInv /\ [Next]_vars => KeptInv'
<1> SUFFICES ASSUME TypeOK, ImageInv, KeptInv, [Next]_vars PROVE KeptInv'
  OBVIOUS
<1>0. ASSUME \A e \in Days : Same(e) PROVE KeptInv'
  BY <1>0, SameKeeps DEF KeptInv
<1>d. ASSUME NEW d \in Days, \A e \in Days \ {d} : Same(e), KeptSoFar(d)'
      PROVE  KeptInv'
  BY <1>d, SameKeeps DEF KeptInv
<1>1. CASE \E r \in Rows : SourceInserts(r)
  BY <1>0, <1>1 DEF SourceInserts, Same, lake, job
<1>2. CASE \E c \in Corrections : SourceCorrects(c[1], c[2])
  BY <1>0, <1>2 DEF SourceCorrects, Same, lake, job
<1>3. ASSUME NEW d \in Days, Schedule(d) PROVE KeptInv'
  BY <1>3, <1>d DEF Schedule, Same, lake, TypeOK, KeptInv, KeptSoFar, CleanedAsIs
<1>4. ASSUME NEW d \in Days, NEW step \in {"extract", "clean"}, Clear(d, step) PROVE KeptInv'
  BY <1>4, <1>d DEF Clear, Same, lake, TypeOK, KeptInv, KeptSoFar, CleanedAsIs
<1>5. ASSUME NEW d \in Days, TaskCrashes(d) PROVE KeptInv'
  <2>1. KeptSoFar(d)' /\ \A e \in Days \ {d} : at'[e] = at[e]
    BY <1>5, FailTaskKeeps DEF TaskCrashes, lake, KeptInv
  <2> QED BY <1>5, <1>d, <2>1 DEF TaskCrashes, Same, lake, KeptInv
<1>6. ASSUME NEW d \in Days, Extract(d) PROVE KeptInv'
  BY <1>6, <1>d DEF Extract, NextStep, Same, lake, TypeOK, KeptInv, KeptSoFar, CleanedAsIs
<1>7. ASSUME NEW d \in Days, Load(d) PROVE KeptInv'
  <2>1. at'[d] = "validate" /\ \A e \in Days \ {d} : at'[e] = at[e]
    BY <1>7 DEF Load, NextTask, TypeOK
  <2>2. KeptSoFar(d)'
    BY <2>1 DEF KeptSoFar, CleanedAsIs
  <2>3. ASSUME NEW e \in Days \ {d} PROVE KeptSoFar(e)'
    <3>1. CASE OfDay(input[d], e) = {}
      <4>1. e \notin {DayOf[r] : r \in input[d]}
        BY <3>1 DEF OfDay
      <4>2. Same(e)
        BY <1>7, <2>1, <3>1, <4>1 DEF Load, Same, Overwritten, TypeOK
      <4> QED BY <4>2, SameKeeps DEF KeptInv
    <3>2. CASE OfDay(input[d], e) # {}
      <4>1. torn'[e]
        BY <1>7, <3>2 DEF Load, OfDay
      <4> QED BY <4>1 DEF KeptSoFar, CleanedAsIs
    <3> QED BY <3>1, <3>2
  <2> QED BY <1>7, <2>2, <2>3 DEF Load, KeptInv
<1>8. ASSUME NEW d \in Days, Validate(d) PROVE KeptInv'
  BY <1>8, <1>d DEF Validate, NextTask, Same, lake, TypeOK, KeptInv, KeptSoFar, CleanedAsIs
<1>9. ASSUME NEW d \in Days, OpenRaw(d) PROVE KeptInv'
  BY <1>9, <1>d DEF OpenRaw, NextStep, Same, lake, TypeOK, KeptInv, KeptSoFar, CleanedAsIs
<1>10. ASSUME NEW d \in Days, WriteStaging(d) PROVE KeptInv'
  <2>1. PICK D \in Deduplicated(raw[d]) :
          staging' = [staging EXCEPT ![d] = Overwritten(@, D \cap Valid)]
    BY <1>10 DEF WriteStaging
  <2>2. D \cap Valid \subseteq staging'[d]
    BY <2>1 DEF TypeOK, Overwritten
  <2>3. Staged(d)'
    BY <1>10, <2>2 DEF Staged, WriteStaging
  <2>4. at'[d] = "count" /\ \A e \in Days \ {d} : Same(e)
    BY <1>10, <2>1 DEF WriteStaging, NextStep, Same, TypeOK
  <2>5. KeptSoFar(d)'
    BY <2>3, <2>4 DEF KeptSoFar, CleanedAsIs
  <2> QED BY <1>10, <1>d, <2>4, <2>5 DEF WriteStaging, KeptInv
<1>11. ASSUME NEW d \in Days, CountQuarantine(d) PROVE KeptInv'
  <2>1. PICK S \in Deduplicated(raw[d]) : S \cap Valid \subseteq staging[d]
    BY <1>11 DEF CountQuarantine, KeptInv, KeptSoFar, Staged
  <2>2. PICK D \in Deduplicated(raw[d]) :
          IF D \ Valid = {} THEN NextTask(d, "enrich") ELSE NextStep(d, "quarantine")
    BY <1>11 DEF CountQuarantine
  <2>3. D \ Valid = {} => S \ Valid = {}
    <3>1. raw[d] \in SUBSET Rows
      BY DEF TypeOK
    <3>2. S \in Deduplicated(raw[d]) /\ D \in Deduplicated(raw[d])
      BY <2>1, <2>2
    <3> QED BY <3>1, <3>2, OneSplit
  <2>4. \A e \in Days \ {d} : Same(e)
    BY <1>11, <2>2 DEF CountQuarantine, NextStep, NextTask, Same, lake, TypeOK
  <2>5. CASE D \ Valid = {}
    <3>1. Kept(d)' /\ at'[d] = "enrich"
      BY <1>11, <2>1, <2>2, <2>3, <2>5 DEF CountQuarantine, NextTask, Kept, lake, TypeOK
    <3>2. KeptSoFar(d)'
      BY <3>1 DEF KeptSoFar
    <3> QED BY <1>11, <1>d, <2>4, <3>2 DEF CountQuarantine, lake, KeptInv
  <2>6. CASE D \ Valid # {}
    <3>1. Staged(d)' /\ at'[d] = "quarantine"
      BY <1>11, <2>1, <2>2, <2>6 DEF CountQuarantine, NextStep, Staged, lake, TypeOK
    <3>2. KeptSoFar(d)'
      BY <3>1 DEF KeptSoFar, CleanedAsIs
    <3> QED BY <1>11, <1>d, <2>4, <3>2 DEF CountQuarantine, lake, KeptInv
  <2> QED BY <2>5, <2>6
<1>12. ASSUME NEW d \in Days, WriteQuarantine(d) PROVE KeptInv'
  <2>1. PICK S \in Deduplicated(raw[d]) : S \cap Valid \subseteq staging[d]
    BY <1>12 DEF WriteQuarantine, KeptInv, KeptSoFar, Staged
  <2>2. PICK D \in Deduplicated(raw[d]) :
          /\ quarantine' = [quarantine EXCEPT ![d] = Overwritten(@, D \ Valid)]
          /\ IF D \ Valid = {}
             THEN UNCHANGED <<resolved, reviewed, reverted>> /\ Replaces("quarantine", {})
             ELSE /\ resolved' = [resolved EXCEPT ![d] = {}]
                  /\ reviewed' = [reviewed EXCEPT ![d] = {}]
                  /\ reverted' = reverted \ {d}
                  /\ Replaces("quarantine", {d})
    BY <1>12 DEF WriteQuarantine
  <2>3. PICK M \in Deduplicated(raw[d]) : IsSplit(M, S, D)
    <3>1. raw[d] \in SUBSET Rows
      BY DEF TypeOK
    <3>2. S \in Deduplicated(raw[d]) /\ D \in Deduplicated(raw[d])
      BY <2>1, <2>2
    <3> QED BY <3>1, <3>2, OneSplit
  <2>4. D \ Valid \subseteq quarantine'[d]
    BY <2>2 DEF TypeOK, Overwritten
  <2>5. Kept(d)'
    BY <1>12, <2>1, <2>3, <2>4 DEF WriteQuarantine, IsSplit, Kept
  <2>6. at'[d] = "enrich" /\ \A e \in Days \ {d} : Same(e)
    BY <1>12, <2>2 DEF WriteQuarantine, NextTask, Same, TypeOK
  <2>7. KeptSoFar(d)'
    BY <2>5, <2>6 DEF KeptSoFar
  <2> QED BY <1>d, <2>6, <2>7
<1>13. ASSUME NEW d \in Days, Enrich(d) PROVE KeptInv'
  <2>1. at'[d] = "done" /\ \A e \in Days \ {d} : Same(e)
    BY <1>13 DEF Enrich, NextTask, Same, TypeOK
  <2>2. KeptSoFar(d)'
    BY <1>13, <2>1 DEF Enrich, WriteEnriched, KeptInv, KeptSoFar, CleanedAsIs, Kept
  <2> QED BY <1>13, <1>d, <2>1, <2>2 DEF Enrich, KeptInv
<1>14. ASSUME NEW d \in Days, EnrichCountFails(d) PROVE KeptInv'
  <2>1. d \in Active
    BY <1>14 DEF EnrichCountFails, WriteEnriched, Active, RunSteps
  <2>2. KeptSoFar(d)' /\ \A e \in Days \ {d} : at'[e] = at[e]
    BY <1>14, <2>1, FailTaskKeeps DEF EnrichCountFails, KeptInv
  <2> QED BY <1>14, <1>d, <2>2 DEF EnrichCountFails, Same, KeptInv
<1>15. ASSUME NEW d \in Days, ReadRaises(d) PROVE KeptInv'
  <2>1. d \in Active
    BY <1>15 DEF ReadRaises, Active, RunSteps, CleanSteps
  <2>2. KeptSoFar(d)' /\ \A e \in Days \ {d} : at'[e] = at[e]
    BY <1>15, <2>1, FailTaskKeeps DEF ReadRaises, lake, KeptInv
  <2> QED BY <1>15, <1>d, <2>2 DEF ReadRaises, Same, lake, KeptInv
<1>16. CASE \E d \in Days : ReconcileStart(d)
  BY <1>0, <1>16 DEF ReconcileStart, Same, lake, job
<1>17. CASE ReconcileRaw \/ ReconcileRaises \/ ReconcileStaging \/ ReconcileQuarantine
  BY <1>0, <1>17 DEF ReconcileRaw, ReconcileRaises, ReconcileStaging, ReconcileQuarantine,
                     Same, lake, job
<1>18. ASSUME NEW d \in Days, NEW r \in Rows, Resolve(d, r) PROVE KeptInv'
  <2>1. reviewed[d] \subseteq reviewed'[d] /\ \A e \in Days \ {d} : Same(e)
    BY <1>18 DEF Resolve, Same, job, TypeOK
  <2>2. Kept(d) => Kept(d)'
    BY <1>18, <2>1 DEF Resolve, Kept
  <2>3. KeptSoFar(d)'
    BY <1>18, <2>2 DEF Resolve, KeptInv, KeptSoFar, CleanedAsIs, Staged, job
  <2> QED BY <1>d, <2>1, <2>3
<1>19. CASE VacuumWrite
  <2>1. ASSUME NEW d \in Days, vac.keep[d] = {} PROVE KeptSoFar(d)'
    <3>1. quarantine'[d] = quarantine[d] /\ (d \in reverted' <=> d \in reverted)
      BY <1>19, <2>1 DEF VacuumWrite, Overwritten
    <3> QED BY <1>19, <3>1, SameKeeps DEF VacuumWrite, Same, job, KeptInv
  <2>2. ASSUME NEW d \in Days, vac.keep[d] # {}, d \in vac.stale PROVE KeptSoFar(d)'
    <3>1. d \in reverted'
      BY <1>19, <2>2 DEF VacuumWrite
    <3> QED BY <1>19, <3>1 DEF VacuumWrite, KeptInv, KeptSoFar, Staged, job
  <2>3. ASSUME NEW d \in Days, vac.keep[d] # {}, d \notin vac.stale PROVE KeptSoFar(d)'
    <3>1. quarantine'[d] = vac.keep[d] /\ (d \in reverted' <=> d \in reverted)
      BY <1>19, <2>3 DEF VacuumWrite, Overwritten
    <3>2. quarantine[d] \cup reviewed[d] \subseteq quarantine'[d] \cup reviewed[d]
      BY <1>19, <2>3, <3>1 DEF VacuumWrite, ImageInv
    <3>3. Kept(d) => Kept(d)'
      BY <1>19, <3>2 DEF VacuumWrite, Kept
    <3> QED BY <1>19, <3>1, <3>3 DEF VacuumWrite, KeptInv, KeptSoFar, CleanedAsIs, Staged, job
  <2> QED BY <2>1, <2>2, <2>3 DEF KeptInv
<1>20. CASE VacuumRead \/ VacuumFails
  BY <1>0, <1>20 DEF VacuumRead, VacuumFails, Same, lake, job
<1>21. CASE UNCHANGED vars
  BY <1>0, <1>21 DEF vars, Same, lake, job
<1> QED
  BY <1>1, <1>2, <1>3, <1>4, <1>5, <1>6, <1>7, <1>8, <1>9, <1>10, <1>11, <1>12, <1>13, <1>14,
     <1>15, <1>16, <1>17, <1>18, <1>19, <1>20, <1>21 DEF Next, RunStep

\* While no transaction has a valid and an invalid row of one load time, cleaning loses no
\* transaction: for every source, every number of dates and of simultaneous runs, and whatever
\* is retried, cleared, torn, corrected, resolved or vacuumed meanwhile, up to what a vacuum
\* writes back over a partition that was replaced after it had read it.
THEOREM NoneVanishes ==
  ASSUME TiesAgree
  PROVE  Spec => []NothingVanishes
<1>1. KeptInv => NothingVanishes
  BY DEF KeptInv, KeptSoFar, Kept, NothingVanishes
<1>2. TypeOK /\ ImageInv /\ KeptInv /\ [Next]_vars => KeptInv'
  BY NextKept
<1> QED BY <1>1, <1>2, InitType, NextType, InitImage, NextImage, InitKept, PTL DEF Spec
-----------------------------------------------------------------------------
(* The reconciliation *)

\* Every set of rows has its newest ones: each id keeps a row that no other row of it beats.
LEMMA NewestExists ==
  ASSUME NEW T \in SUBSET Rows, T # {}
  PROVE  \E q \in T : \A p \in T : LoadedAt[q] >= LoadedAt[p]
<1> DEFINE above(q) == {p \in T : LoadedAt[p] > LoadedAt[q]}
           counts == {Cardinality(above(q)) : q \in T}
<1>1. ASSUME NEW q \in T
      PROVE  IsFiniteSet(above(q)) /\ Cardinality(above(q)) \in Nat
  BY FiniteRows
<1>2. counts \in SUBSET Nat /\ counts # {}
  BY <1>1
<1>3. PICK n \in counts : \A m \in counts : ~(<<m, n>> \in OpToRel(<, Nat))
  <2> HIDE DEF counts
  <2> QED BY <1>2, NatLessThanWellFounded, WFMin
<1>4. PICK q \in T : n = Cardinality(above(q))
  OBVIOUS
<1>5. ASSUME NEW p \in T, LoadedAt[p] > LoadedAt[q] PROVE FALSE
  <2>1. LoadedAt[p] \in Nat /\ LoadedAt[q] \in Nat
    BY DailyBatchAssumption
  <2>2. above(p) \subseteq above(q) /\ p \in above(q) /\ p \notin above(p)
    BY <1>5, <2>1, DailyBatchAssumption
  <2>3. Cardinality(above(p)) < Cardinality(above(q))
    <3> HIDE DEF above
    <3> QED BY <1>1, <2>2, FS_Subset
  <2>4. Cardinality(above(p)) \in counts /\ Cardinality(above(p)) \in Nat /\ n \in Nat
    BY <1>1, <1>2
  <2> QED BY <1>3, <1>4, <2>3, <2>4 DEF OpToRel
<1> QED BY <1>5, DailyBatchAssumption

LEMMA DeduplicatedExists ==
  ASSUME NEW S \in SUBSET Rows
  PROVE  \E D \in Deduplicated(S) : TRUE
<1> DEFINE rowsOf(i) == {r \in S : Id[r] = i}
           newest(i) == CHOOSE q \in rowsOf(i) : \A p \in rowsOf(i) : LoadedAt[q] >= LoadedAt[p]
           D == {newest(Id[r]) : r \in S}
<1>1. ASSUME NEW r \in S
      PROVE  /\ newest(Id[r]) \in rowsOf(Id[r])
             /\ \A p \in rowsOf(Id[r]) : LoadedAt[newest(Id[r])] >= LoadedAt[p]
  <2>1. rowsOf(Id[r]) \in SUBSET Rows /\ rowsOf(Id[r]) # {}
    OBVIOUS
  <2>2. \E q \in rowsOf(Id[r]) : \A p \in rowsOf(Id[r]) : LoadedAt[q] >= LoadedAt[p]
    <3> HIDE DEF rowsOf
    <3> QED BY <2>1, NewestExists
  <2> QED BY <2>2
<1>2. ASSUME NEW r \in S
      PROVE  /\ newest(Id[r]) \in S /\ Id[newest(Id[r])] = Id[r]
             /\ LoadedAt[newest(Id[r])] >= LoadedAt[r]
  BY <1>1
<1>3. D \in SUBSET S
  <2> HIDE DEF newest
  <2> QED BY <1>2
<1>4. \A r, q \in D : Id[r] = Id[q] => r = q
  <2> HIDE DEF newest
  <2> QED BY <1>2
<1>5. \A r \in S : \E q \in D : Id[q] = Id[r] /\ LoadedAt[q] >= LoadedAt[r]
  <2> HIDE DEF newest
  <2> QED BY <1>2
<1> QED BY <1>3, <1>4, <1>5 DEF Deduplicated

\* As many newest rows as ids: what the reconciliation counts in the raw partition.
LEMMA OneRowPerId ==
  ASSUME NEW S \in SUBSET Rows, NEW D \in Deduplicated(S)
  PROVE  DistinctIds(S) = Cardinality(D)
<1> DEFINE ids == {Id[r] : r \in S}
           f == [r \in D |-> Id[r]]
<1>1. D \in SUBSET S
  BY DEF Deduplicated
<1>2. f \in Bijection(D, ids)
  <2>1. f \in [D -> ids]
    BY <1>1
  <2>2. \A r, q \in D : f[r] = f[q] => r = q
    BY DEF Deduplicated
  <2>3. \A i \in ids : \E r \in D : f[r] = i
    BY DEF Deduplicated
  <2> QED BY <2>1, <2>2, <2>3 DEF Bijection, Injection, Surjection, IsInjective
<1>3. IsFiniteSet(D) /\ Cardinality(D) \in Nat /\ Cardinality(S) \in Nat
  BY <1>1, FiniteRows
<1>4. Cardinality(ids) = Cardinality(D)
  <2> HIDE DEF ids, f
  <2>1. ExistsBijection(D, ids)
    BY <1>2 DEF ExistsBijection
  <2> QED BY <1>3, <2>1, FS_Bijection
<1> QED
  <2> HIDE DEF ids
  <2>1. Cardinality(S) - (Cardinality(S) - Cardinality(ids)) = Cardinality(D)
    BY <1>3, <1>4
  <2> QED BY <2>1 DEF DistinctIds, ids

\* What was counted in staging is what staging has, unless it was replaced since.
CountInv ==
  rec.at = "quarantine" /\ "staging" \notin rec.moved => rec.accepted = Cardinality(staging[rec.day])

\* A step that leaves the reconciliation alone, or breaks it where it replaces files.
LeavesCounts ==
  /\ rec'.at = rec.at /\ rec'.day = rec.day /\ rec'.accepted = rec.accepted
  /\ rec.moved \subseteq rec'.moved
  /\ rec.at = "quarantine" => "staging" \in rec'.moved \/ staging'[rec.day] = staging[rec.day]

LEMMA LeavesCountsKeeps == CountInv /\ LeavesCounts => CountInv'
BY DEF CountInv, LeavesCounts

LEMMA InitCount == Init => CountInv
BY DEF Init, NoRec, CountInv

LEMMA MovesRecCounts ==
  ASSUME TypeOK, NEW table, NEW days, MovesRec(table, days)
  PROVE  /\ rec'.at = rec.at /\ rec'.day = rec.day /\ rec'.accepted = rec.accepted
         /\ rec.moved \subseteq rec'.moved
         /\ table \in Opened /\ rec.day \in days => table \in rec'.moved
BY DEF TypeOK, MovesRec

LEMMA NextCount == TypeOK /\ CountInv /\ [Next]_vars => CountInv'
<1> SUFFICES ASSUME TypeOK, CountInv, [Next]_vars PROVE CountInv'
  OBVIOUS
<1>0. ASSUME UNCHANGED <<staging, rec>> PROVE CountInv'
  BY <1>0 DEF CountInv
<1>1. ASSUME NEW table, NEW days, MovesRec(table, days), UNCHANGED staging PROVE CountInv'
  BY <1>1, MovesRecCounts, LeavesCountsKeeps DEF LeavesCounts
<1>2. ASSUME NEW d \in Days, WriteStaging(d) PROVE CountInv'
  <2>1. PICK D \in Deduplicated(raw[d]) :
          /\ staging' = [staging EXCEPT ![d] = Overwritten(@, D \cap Valid)]
          /\ Replaces("staging", IF D \cap Valid = {} THEN {} ELSE {d})
    BY <1>2 DEF WriteStaging
  <2>2. MovesRec("staging", IF D \cap Valid = {} THEN {} ELSE {d})
    BY <2>1 DEF Replaces
  <2>3. rec.at = "quarantine" => "staging" \in Opened /\ rec.day \in Days
    BY DEF Opened, RecSteps, TypeOK
  <2>4. rec.at = "quarantine" => "staging" \in rec'.moved \/ staging'[rec.day] = staging[rec.day]
    <3>1. CASE D \cap Valid = {} \/ rec.day # d
      BY <2>1, <2>3, <3>1 DEF Overwritten, TypeOK
    <3>2. CASE D \cap Valid # {} /\ rec.day = d
      BY <2>2, <2>3, <3>2, MovesRecCounts
    <3> QED BY <3>1, <3>2
  <2> QED BY <2>2, <2>4, MovesRecCounts, LeavesCountsKeeps DEF LeavesCounts
<1>3. ASSUME NEW d \in Days, Load(d) \/ WriteQuarantine(d) \/ Enrich(d) \/ EnrichCountFails(d)
      PROVE  CountInv'
  BY <1>1, <1>3 DEF Load, WriteQuarantine, Enrich, EnrichCountFails, WriteEnriched, Replaces
<1>4. ASSUME NEW d \in Days,
             \/ Schedule(d) \/ TaskCrashes(d) \/ Extract(d) \/ Validate(d) \/ OpenRaw(d)
             \/ CountQuarantine(d) \/ ReadRaises(d)
      PROVE  CountInv'
  BY <1>0, <1>4 DEF Schedule, TaskCrashes, Extract, Validate, OpenRaw, CountQuarantine, ReadRaises,
                    lake
<1>5. CASE \E d \in Days : ReconcileStart(d)
  BY <1>5 DEF ReconcileStart, NoRec, CountInv
<1>6. CASE ReconcileRaw
  BY <1>6 DEF ReconcileRaw, CountInv, TypeOK
<1>7. CASE ReconcileRaises \/ ReconcileQuarantine
  BY <1>7 DEF ReconcileRaises, ReconcileQuarantine, NoRec, CountInv
<1>8. CASE ReconcileStaging
  <2>1. /\ rec'.at = "quarantine" /\ rec'.day = rec.day /\ rec'.moved = rec.moved
        /\ rec'.accepted = Counted(staging[rec.day])
    BY <1>8 DEF ReconcileStaging, TypeOK
  <2>2. rec.at = "staging" /\ UNCHANGED staging
    BY <1>8 DEF ReconcileStaging, lake
  <2> QED BY <2>1, <2>2 DEF CountInv, Counted
<1>9. CASE \E d \in Days, r \in Rows : Resolve(d, r)
  BY <1>1, <1>9 DEF Resolve, Replaces
<1>10. CASE VacuumWrite
  BY <1>1, <1>10 DEF VacuumWrite
<1>11. CASE VacuumRead \/ VacuumFails
  BY <1>0, <1>11 DEF VacuumRead, VacuumFails, lake
<1>12. CASE \/ \E r \in Rows : SourceInserts(r)
            \/ \E c \in Corrections : SourceCorrects(c[1], c[2])
            \/ \E d \in Days, step \in {"extract", "clean"} : Clear(d, step)
            \/ UNCHANGED vars
  BY <1>0, <1>12 DEF SourceInserts, SourceCorrects, Clear, vars, lake
<1> QED
  BY <1>2, <1>3, <1>4, <1>5, <1>6, <1>7, <1>8, <1>9, <1>10, <1>11, <1>12 DEF Next, RunStep

\* The difference of the counts: staging and the quarantine share no row, and D has a row per id.
LEMMA CountsDiffer ==
  ASSUME NEW D \in SUBSET Rows, NEW A \in SUBSET Valid, NEW B \in SUBSET (Rows \ Valid)
  PROVE  Cardinality(D) - Cardinality(A) - Cardinality(B)
           = Cardinality(D \ (A \cup B)) - Cardinality((A \cup B) \ D)
<1> DEFINE K == A \cup B
<1>1. A \in SUBSET Rows /\ B \in SUBSET Rows /\ K \in SUBSET Rows
  BY DailyBatchAssumption
<1>2. \A S \in SUBSET Rows : IsFiniteSet(S) /\ Cardinality(S) \in Nat
  BY FiniteRows
<1>3. Cardinality(K) = Cardinality(A) + Cardinality(B)
  <2>1. A \cap B = {}
    OBVIOUS
  <2>2. Cardinality(A \cap B) = 0
    BY <2>1, FS_EmptySet
  <2>3. Cardinality(K) = Cardinality(A) + Cardinality(B) - Cardinality(A \cap B)
    BY <1>1, <1>2, FS_Union
  <2> QED BY <1>1, <1>2, <2>2, <2>3
<1>4. Cardinality(D \ K) = Cardinality(D) - Cardinality(D \cap K)
  BY <1>2, FS_Difference
<1>5. Cardinality(K \ D) = Cardinality(K) - Cardinality(K \cap D)
  BY <1>1, <1>2, FS_Difference
<1>6. D \cap K = K \cap D /\ D \cap K \in SUBSET Rows
  OBVIOUS
<1> HIDE DEF K
<1>7. Cardinality(D) - Cardinality(K) = Cardinality(D \ K) - Cardinality(K \ D)
  <2>1. /\ Cardinality(D) \in Int /\ Cardinality(K) \in Int
        /\ Cardinality(D \cap K) \in Int
    BY <1>1, <1>2, <1>6
  <2>2. Cardinality(K \ D) = Cardinality(K) - Cardinality(D \cap K)
    BY <1>5, <1>6
  <2> QED BY <1>4, <2>1, <2>2
<1>8. Cardinality(D) - Cardinality(A) - Cardinality(B) = Cardinality(D \ K) - Cardinality(K \ D)
  BY <1>1, <1>2, <1>3, <1>7
<1> QED BY <1>8 DEF K

\* The write of the reconciliation is the one step that ends it so.
LEMMA ReconcileEnds ==
  ASSUME TypeOK, [Next]_vars, rec.at = "quarantine", rec'.at = "idle"
  PROVE  ReconcileQuarantine
<1>1. rec' # rec
  OBVIOUS
<1>2. \A table, days : ~MovesRec(table, days)
  BY MovesRecCounts
<1> QED
  BY <1>1, <1>2 DEF Next, vars, SourceInserts, SourceCorrects, Schedule, TaskCrashes, RunStep,
     Extract, Load, Validate, OpenRaw, WriteStaging, CountQuarantine, WriteQuarantine, Enrich,
     EnrichCountFails, WriteEnriched, ReadRaises, ReconcileStart, Clear, ReconcileRaw,
     ReconcileRaises, ReconcileStaging, Resolve, Replaces, VacuumRead, VacuumWrite, VacuumFails

\* Whatever runs, ingestions and vacuums replace while the reconciliation counts one table
\* after the other, the difference it writes is the one the three tables then have, as long as
\* staging was not replaced under it and raw has as many ids as it counted; an unreadable
\* quarantine only adds to it.  For every number of dates and of runs, and every source.
THEOREM DifferenceIsTrue == Spec => ReconcileTruthful
<1> DEFINE d == rec.day
           kept == staging[d] \cup quarantine[d]
           unread == IF "quarantine" \in rec.moved THEN quarantine[d] ELSE {}
           Ends == /\ rec.at = "quarantine" /\ rec'.at = "idle"
                   /\ "staging" \notin rec.moved /\ rec.distinct = DistinctIds(raw[d])
           Finds == \E D \in Deduplicated(raw[d]) :
                      result'[d] =
                        {Cardinality(D \ kept) - Cardinality(kept \ D) + Cardinality(unread)}
<1>1. TypeOK /\ CountInv /\ [Next]_vars => [Ends => Finds]_vars
  <2> SUFFICES ASSUME TypeOK, CountInv, [Next]_vars, Ends PROVE Finds
    OBVIOUS
  <2>1. d \in Days /\ ReconcileQuarantine
    BY ReconcileEnds DEF TypeOK
  <2>2. /\ raw[d] \in SUBSET Rows /\ staging[d] \in SUBSET Valid
        /\ quarantine[d] \in SUBSET (Rows \ Valid)
    BY <2>1 DEF TypeOK
  <2>3. PICK D \in Deduplicated(raw[d]) : TRUE
    BY <2>2, DeduplicatedExists
  <2>4. D \in SUBSET Rows /\ DistinctIds(raw[d]) = Cardinality(D)
    BY <2>2, OneRowPerId DEF Deduplicated
  <2>5. rec.distinct = Cardinality(D) /\ rec.accepted = Cardinality(staging[d])
    BY <2>4 DEF CountInv
  <2>6. Cardinality(D) - Cardinality(staging[d]) - Cardinality(quarantine[d])
          = Cardinality(D \ kept) - Cardinality(kept \ D)
    BY <2>2, <2>4, CountsDiffer
  <2>7. result'[d] = {rec.distinct - rec.accepted - Counted(quarantine[d])}
    BY <2>1 DEF ReconcileQuarantine, TypeOK
  <2>8. /\ Cardinality(D) \in Nat /\ Cardinality(staging[d]) \in Nat
        /\ Cardinality(quarantine[d]) \in Nat
        /\ Cardinality(D \ kept) \in Nat /\ Cardinality(kept \ D) \in Nat
    <3>1. D \ kept \in SUBSET Rows /\ kept \ D \in SUBSET Rows /\ staging[d] \in SUBSET Rows
      BY <2>2, <2>4, DailyBatchAssumption
    <3> QED BY <2>2, <2>4, <3>1, FiniteRows
  <2>9. Cardinality(unread) = Cardinality(quarantine[d]) - Counted(quarantine[d])
    <3>1. CASE "quarantine" \in rec.moved
      BY <2>8, <3>1 DEF Counted
    <3>2. CASE "quarantine" \notin rec.moved
      BY <2>8, <3>2, FS_EmptySet DEF Counted
    <3> QED BY <3>1, <3>2
  <2>10. Counted(quarantine[d]) \in Nat
    BY <2>8 DEF Counted
  <2>11. result'[d] = {Cardinality(D \ kept) - Cardinality(kept \ D) + Cardinality(unread)}
    <3> HIDE DEF kept, unread
    <3> QED BY <2>5, <2>6, <2>7, <2>8, <2>9, <2>10
  <2> QED BY <2>11
<1> QED BY <1>1, InitType, NextType, InitCount, NextCount, PTL DEF Spec, ReconcileTruthful
=============================================================================
