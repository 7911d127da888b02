--------------------------- MODULE RawLayer_proofs ---------------------------
(***************************************************************************)
(* What RawLayer promises for every table, every number of ranges and any  *)
(* compaction tasks: types, that the parallel read delivers each steady    *)
(* row once, and that files and what is staged from them are complete.     *)
(***************************************************************************)
EXTENDS RawLayer, FiniteSetTheorems, WellFoundedInduction, TLAPS

(* The bounds *)

\* Of finitely many elements one has the least number: the one with the fewest below.
LEMMA LeastExists ==
  ASSUME NEW S, IsFiniteSet(S), S # {}, NEW f \in [S -> Int]
  PROVE  \E a \in S : \A b \in S : f[a] <= f[b]
<1> DEFINE Below(a) == {b \in S : f[b] < f[a]}
           T == {Cardinality(Below(a)) : a \in S}
<1>1. \A a \in S : IsFiniteSet(Below(a)) /\ Cardinality(Below(a)) \in Nat
  <2> TAKE a \in S
  <2>1. Below(a) \in SUBSET S
    OBVIOUS
  <2>2. IsFiniteSet(Below(a))
    BY <2>1, FS_Subset
  <2> QED BY <2>2, FS_CardinalityType
<1>2. T \subseteq Nat /\ T # {}
  BY <1>1
<1>3. IsWellFoundedOn(OpToRel(<, Nat), Nat)
  BY NatLessThanWellFounded
<1>4. PICK m \in T : \A n \in T : ~ (<<n, m>> \in OpToRel(<, Nat))
  <2> HIDE DEF T
  <2> QED BY <1>2, <1>3, WFMin
<1>5. \A n \in T : ~(n < m)
  <2> HIDE DEF T
  <2> QED BY <1>2, <1>4 DEF OpToRel
<1>6. PICK a \in S : m = Cardinality(Below(a))
  BY <1>4
<1>7. ASSUME NEW b \in S, ~(f[a] <= f[b]) PROVE FALSE
  <2>1. f[b] < f[a]
    BY <1>7
  <2>2. Below(b) \in SUBSET Below(a)
    BY <2>1
  <2>3. b \in Below(a) /\ b \notin Below(b)
    BY <2>1
  <2>4. /\ Cardinality(Below(b)) <= Cardinality(Below(a))
        /\ Cardinality(Below(a)) = Cardinality(Below(b)) => Below(a) = Below(b)
    <3> HIDE DEF Below
    <3> QED BY <1>1, <2>2, FS_Subset
  <2>5. Cardinality(Below(b)) < Cardinality(Below(a))
    <3> HIDE DEF Below
    <3> QED BY <1>1, <2>3, <2>4
  <2> QED BY <1>5, <1>6, <2>5
<1> QED BY <1>7

\* Whatever the table holds, the bounds are numbers in order.
LEMMA BoundsOrdered ==
  ASSUME NEW S \in SUBSET Rows
  PROVE  /\ LowerBound(S) \in Int /\ UpperBound(S) \in Int
         /\ LowerBound(S) <= UpperBound(S)
<1>1. CASE Numbers(S) = {}
  BY <1>1 DEF LowerBound, UpperBound
<1>2. CASE Numbers(S) # {}
  <2> DEFINE R == S \ NullIds
             up == [r \in R |-> IdOf[r]]
             down == [r \in R |-> -IdOf[r]]
  <2>1. R \in SUBSET Rows /\ R # {} /\ IsFiniteSet(R)
    BY <1>2, RawLayerAssumption, FS_Subset DEF Numbers
  <2>2. up \in [R -> Int] /\ down \in [R -> Int]
    BY RawLayerAssumption
  <2>3. \E a \in R : \A b \in R : up[a] <= up[b]
    <3> HIDE DEF up, down, R
    <3> QED BY <2>1, <2>2, LeastExists
  <2>4. \E a \in R : \A b \in R : down[a] <= down[b]
    <3> HIDE DEF up, down, R
    <3> QED BY <2>1, <2>2, LeastExists
  <2>5. Numbers(S) \subseteq Int
    BY RawLayerAssumption DEF Numbers
  <2>6. \E n \in Numbers(S) : \A m \in Numbers(S) : n <= m
    BY <2>3, RawLayerAssumption DEF Numbers
  <2>7. \E n \in Numbers(S) : \A m \in Numbers(S) : m <= n
    BY <2>4, RawLayerAssumption DEF Numbers
  <2>8. Least(Numbers(S)) \in Numbers(S) /\ \A m \in Numbers(S) : Least(Numbers(S)) <= m
    BY <2>6 DEF Least
  <2>9. Greatest(Numbers(S)) \in Numbers(S)
    BY <2>7 DEF Greatest
  <2> QED BY <1>2, <2>5, <2>8, <2>9 DEF LowerBound, UpperBound
<1> QED BY <1>1, <1>2
-----------------------------------------------------------------------------
(* The ranges *)

LEMMA CountInRange ==
  ASSUME NEW l \in Int, NEW u \in Int, NEW n,
         n = IF u - l < NumPartitions THEN u - l ELSE NumPartitions
  PROVE  (IF n <= 1 THEN {1} ELSE 1 .. n) \subseteq Slices
BY RawLayerAssumption DEF Slices

LEMMA SlicesInRange ==
  lower \in Int /\ upper \in Int => SlicesRead \subseteq Slices
BY CountInRange DEF SlicesRead, SliceCount

LEMMA NextSlicesInRange ==
  ASSUME lower' \in Int, upper' \in Int PROVE SlicesRead' \subseteq Slices
<1>1. SliceCount' = IF upper' - lower' < NumPartitions THEN upper' - lower' ELSE NumPartitions
  BY DEF SliceCount
<1>2. SlicesRead' = IF SliceCount' <= 1 THEN {1} ELSE 1 .. SliceCount'
  BY DEF SlicesRead
<1> QED BY <1>1, <1>2, CountInRange

LEMMA QuotientNat ==
  ASSUME NEW n \in Nat, NEW k \in Nat \ {0}
  PROVE  n \div k \in Nat
OBVIOUS

LEMMA StepsMonotone ==
  ASSUME NEW i \in Int, NEW j \in Int, NEW s \in Nat, i <= j
  PROVE  i * s <= j * s
OBVIOUS

\* The boundaries go up, so that a number is in exactly one range.
LEMMA OneSlice ==
  ASSUME lower \in Int, upper \in Int, lower <= upper, NEW r \in Rows
  PROVE  \E i \in SlicesRead : InSlice(r, i) /\ \A j \in SlicesRead : InSlice(r, j) => j = i
<1>1. SliceCount \in Nat /\ SliceCount <= upper - lower
  BY RawLayerAssumption DEF SliceCount
<1>2. CASE SliceCount <= 1
  BY <1>2 DEF SlicesRead, InSlice
<1>3. CASE ~(SliceCount <= 1) /\ r \in NullIds
  BY <1>1, <1>3 DEF SlicesRead, InSlice
<1>4. CASE ~(SliceCount <= 1) /\ r \notin NullIds
  <2> DEFINE k == SliceCount
             s == (upper - lower) \div k
             x == Numeric(r)
             T == {j \in 1 .. k : j = k \/ x < Boundary(j)}
             id == [j \in T |-> j]
  <2>1. k \in Nat /\ 1 < k /\ SlicesRead = 1 .. k
    BY <1>1, <1>4 DEF SlicesRead
  <2>2. s \in Nat
    <3>1. upper - lower \in Nat /\ k \in Nat \ {0}
      BY <2>1
    <3> HIDE DEF k
    <3> QED BY <3>1, QuotientNat
  <2>3. x \in Int
    BY RawLayerAssumption DEF Numeric
  <2>4. \A j \in Int : Boundary(j) = lower + j * s /\ Boundary(j) \in Int
    <3> SUFFICES ASSUME NEW j \in Int PROVE lower + j * s \in Int
      BY DEF Boundary
    <3> HIDE DEF s
    <3> QED BY <2>2
  <2>5. \A i, j \in Int : i <= j => Boundary(i) <= Boundary(j)
    <3> TAKE i, j \in Int
    <3> HAVE i <= j
    <3> HIDE DEF s
    <3>1. i * s <= j * s /\ i * s \in Int /\ j * s \in Int
      BY <2>2, StepsMonotone
    <3> QED BY <2>4, <3>1
  <2>6. \A j : InSlice(r, j) <=> /\ j > 1 => x >= Boundary(j - 1)
                                 /\ j < k => x < Boundary(j)
    BY <1>4 DEF InSlice
  <2> HIDE DEF k, s, x
  <2>7. IsFiniteSet(T) /\ T # {} /\ id \in [T -> Int]
    <3>1. T \in SUBSET (1 .. k) /\ k \in T
      BY <2>1
    <3>2. IsFiniteSet(1 .. k)
      BY <2>1, FS_Interval
    <3> QED BY <3>1, <3>2, FS_Subset
  <2>8. PICK i \in T : \A j \in T : i <= j
    <3>1. \E i \in T : \A j \in T : id[i] <= id[j]
      <4> HIDE DEF T, id
      <4> QED BY <2>7, LeastExists
    <3> QED BY <3>1
  <2>9. i \in 1 .. k /\ (i < k => x < Boundary(i))
    BY <2>1, <2>8
  <2>10. i > 1 => x >= Boundary(i - 1)
    <3> SUFFICES ASSUME i > 1 PROVE x >= Boundary(i - 1)
      OBVIOUS
    <3>1. i - 1 \in 1 .. k /\ i - 1 # k /\ i - 1 \notin T
      BY <2>1, <2>8, <2>9
    <3>2. Boundary(i - 1) \in Int
      BY <2>4, <3>1
    <3> QED BY <2>3, <3>1, <3>2
  <2>11. ASSUME NEW j \in 1 .. k, InSlice(r, j) PROVE j = i
    <3>1. j \in T
      BY <2>1, <2>6, <2>11
    <3>2. i <= j
      BY <2>8, <3>1
    <3>3. ASSUME i < j PROVE FALSE
      <4>1. x >= Boundary(j - 1)
        BY <2>1, <2>6, <2>9, <2>11, <3>3
      <4>2. Boundary(i) <= Boundary(j - 1)
        BY <2>5, <2>9, <3>3
      <4>3. x < Boundary(i)
        BY <2>1, <2>9, <3>3
      <4>4. Boundary(i) \in Int /\ Boundary(j - 1) \in Int
        BY <2>4, <2>9
      <4> QED BY <2>3, <4>1, <4>2, <4>3, <4>4
    <3> QED BY <2>1, <2>9, <3>2, <3>3
  <2>12. InSlice(r, i)
    BY <2>6, <2>9, <2>10
  <2> HIDE DEF T
  <2> QED BY <2>1, <2>9, <2>11, <2>12
<1> QED BY <1>2, <1>3, <1>4
-----------------------------------------------------------------------------
(* Types *)

\* Every variable keeps its type, whatever fails and overlaps.
LEMMA TypeInit == Init => TypeOK
<1> SUFFICES ASSUME Init PROVE TypeOK
  OBVIOUS
<1>1. /\ source \subseteq Rows /\ files \subseteq Rows /\ steady \subseteq source
      /\ lower \in Int /\ upper \in Int /\ lower <= upper
      /\ unread \subseteq Slices /\ got \subseteq Rows \X Slices /\ opened \subseteq Rows
  BY RawLayerAssumption DEF Init
<1>2. /\ task \in [Tasks -> {"none", "queued", "listed", "counted", "deleted", "success", "failed"}]
      /\ tries \in [Tasks -> 0 .. Retries] /\ torn \in [Tasks -> BOOLEAN]
  BY RawLayerAssumption DEF Init
<1>3. changes \in 0 .. MaxChanges /\ crashes \in 0 .. MaxCrashes
  BY RawLayerAssumption DEF Init
<1> QED BY <1>1, <1>2, <1>3 DEF Init, TypeOK

LEMMA TypeIngestion == TypeOK /\ Ingestion => TypeOK'
<1> SUFFICES ASSUME TypeOK, Ingestion PROVE TypeOK'
  OBVIOUS
<1>1. CASE GetBounds
  <2>1. lower' \in Int /\ upper' \in Int /\ lower' <= upper'
    BY <1>1, BoundsOrdered DEF GetBounds, TypeOK
  <2>2. unread' \subseteq Slices
    BY <1>1, <2>1, NextSlicesInRange DEF GetBounds
  <2>3. ing' \in {"idle", "delete", "slices"}
    BY <1>1 DEF GetBounds
  <2> QED BY <1>1, <2>1, <2>2, <2>3 DEF GetBounds, TypeOK, compaction, downstream
<1>2. CASE DeleteTable
  <2>1. readerTorn' \in BOOLEAN
    BY <1>2 DEF DeleteTable, TearReaders
  <2> QED BY <1>2, <2>1 DEF DeleteTable, TypeOK, compaction
<1>3. ASSUME NEW i \in Slices, ReadSlice(i) PROVE TypeOK'
  <2>1. got' \subseteq Rows \X Slices
    BY <1>3 DEF ReadSlice, TypeOK
  <2> QED BY <1>3, <2>1 DEF ReadSlice, TypeOK, compaction, downstream
<1>4. CASE WriteRaw
  <2>1. files' \subseteq Rows
    BY <1>4 DEF WriteRaw, TypeOK, RowsRead
  <2>2. readerTorn' \in BOOLEAN
    BY <1>4 DEF WriteRaw, TypeOK, TearReaders
  <2>3. torn' \in [Tasks -> BOOLEAN]
    BY <1>4 DEF WriteRaw, TypeOK, TearTasks
  <2>4. kept' \subseteq IdPairs
    BY <1>4 DEF WriteRaw, TypeOK, IdPairs, Ids
  <2> QED BY <1>4, <2>1, <2>2, <2>3, <2>4 DEF WriteRaw, TypeOK
<1>5. CASE IngestionDies
  <2>1. crashes' \in 0 .. MaxCrashes
    BY <1>5, RawLayerAssumption DEF IngestionDies, TypeOK
  <2> QED BY <1>5, <2>1 DEF IngestionDies, TypeOK, compaction, downstream
<1> QED BY <1>1, <1>2, <1>3, <1>4, <1>5 DEF Ingestion

LEMMA TypeCompaction == TypeOK /\ Compaction => TypeOK'
<1> SUFFICES ASSUME TypeOK, Compaction PROVE TypeOK'
  OBVIOUS
<1>1. CASE TriggerCompaction
  <2>1. tries' \in [Tasks -> 0 .. Retries]
    BY <1>1, RawLayerAssumption DEF TriggerCompaction
  <2> QED BY <1>1, <2>1 DEF TriggerCompaction, TypeOK, ingestion, downstream
<1>2. CASE TriggerTier
  BY <1>2 DEF TriggerTier, TypeOK, ingestion, downstream
<1>3. ASSUME NEW c \in Tasks, ListPartition(c) PROVE TypeOK'
  BY <1>3 DEF ListPartition, TypeOK, ingestion, downstream
<1>4. ASSUME NEW c \in Tasks, CountRows(c) PROVE TypeOK'
  BY <1>4 DEF CountRows, TypeOK, ingestion, downstream
<1>5. ASSUME NEW c \in Tasks, DeletePartition(c) PROVE TypeOK'
  <2>1. readerTorn' \in BOOLEAN
    BY <1>5 DEF DeletePartition, TearReaders
  <2>2. torn' \in [Tasks -> BOOLEAN]
    BY <1>5 DEF DeletePartition, TypeOK, TearTasks
  <2> QED BY <1>5, <2>1, <2>2 DEF DeletePartition, TypeOK, ingestion
<1>6. ASSUME NEW c \in Tasks, CompactionFails(c) PROVE TypeOK'
  <2>1. tries' \in [Tasks -> 0 .. Retries]
    BY <1>6, RawLayerAssumption DEF CompactionFails, TypeOK
  <2> QED BY <1>6, <2>1 DEF CompactionFails, TypeOK, ingestion, downstream
<1> QED BY <1>1, <1>2, <1>3, <1>4, <1>5, <1>6 DEF Compaction

LEMMA TypeDownstream == TypeOK /\ Downstream => TypeOK'
<1> SUFFICES ASSUME TypeOK, Downstream PROVE TypeOK'
  OBVIOUS
<1>1. CASE OpenRaw
  BY <1>1 DEF OpenRaw, TypeOK, ingestion, compaction
<1>2. CASE StageRows
  <2>1. staged' \subseteq IdPairs
    BY <1>2 DEF StageRows, TypeOK, IdPairs, Ids
  <2> QED BY <1>2, <2>1 DEF StageRows, TypeOK, ingestion, compaction
<1>3. CASE ReaderFails
  BY <1>3 DEF ReaderFails, TypeOK, ingestion, compaction
<1> QED BY <1>1, <1>2, <1>3 DEF Downstream

LEMMA TypeStep == TypeOK /\ [Next]_vars => TypeOK'
<1> SUFFICES ASSUME TypeOK, [Next]_vars PROVE TypeOK'
  OBVIOUS
<1>1. ASSUME NEW r \in Rows, SourceChanges(r) PROVE TypeOK'
  <2>1. changes' \in 0 .. MaxChanges
    BY <1>1, RawLayerAssumption DEF SourceChanges, TypeOK
  <2>2. source' \subseteq Rows /\ steady' \subseteq source'
    BY <1>1 DEF SourceChanges, TypeOK
  <2> QED BY <1>1, <2>1, <2>2 DEF SourceChanges, TypeOK, compaction, downstream
<1>2. CASE UNCHANGED vars
  BY <1>2 DEF vars, TypeOK, ingestion, compaction, downstream
<1> QED BY <1>1, <1>2, TypeIngestion, TypeCompaction, TypeDownstream DEF Next

\* Every variable of RawLayer keeps its type: the bounds stay in order, the tasks within
\* their retries.
THEOREM RawTypeCorrect == Spec => []TypeOK
BY TypeInit, TypeStep, PTL DEF Spec
-----------------------------------------------------------------------------
(* Complete files *)

\* What an ingestion under way has read of the steady rows: of the ranges it is through with,
\* the rows that are in them.
SlicesDone ==
  ing # "idle" =>
    /\ unread \subseteq SlicesRead
    /\ \A r \in steady : \A i \in Slices :
         <<r, i>> \in got <=> i \in SlicesRead /\ i \notin unread /\ InSlice(r, i)

\* What a downstream task has open is complete too.
OpenComplete == reader = "open" => owed \subseteq Ids(opened)

RawInv == TypeOK /\ SlicesDone /\ RawComplete /\ OpenComplete /\ StagedComplete

\* The ranges depend on the bounds only.
LEMMA SameSlices ==
  ASSUME lower' = lower, upper' = upper
  PROVE  SlicesRead' = SlicesRead /\ \A r, i : InSlice(r, i)' <=> InSlice(r, i)
<1>1. SliceCount' = SliceCount
  BY DEF SliceCount
<1>2. \A i : Boundary(i)' = Boundary(i)
  BY <1>1 DEF Boundary
<1> QED BY <1>1, <1>2 DEF SlicesRead, InSlice, Numeric

\* When all slices are read each steady row has come with exactly one.
LEMMA SteadyRead ==
  ASSUME TypeOK, SlicesDone, ing = "slices", unread = {}, NEW r \in steady
  PROVE  \E i \in Slices : {j \in Slices : <<r, j>> \in got} = {i}
<1>1. r \in Rows /\ lower \in Int /\ upper \in Int /\ lower <= upper
  BY DEF TypeOK
<1>2. PICK i \in SlicesRead : InSlice(r, i) /\ \A j \in SlicesRead : InSlice(r, j) => j = i
  BY <1>1, OneSlice
<1>3. i \in Slices
  BY <1>1, <1>2, SlicesInRange
<1>4. \A j \in Slices : <<r, j>> \in got <=> j \in SlicesRead /\ InSlice(r, j)
  BY DEF SlicesDone
<1>5. \A j \in Slices : <<r, j>> \in got <=> j = i
  BY <1>2, <1>3, <1>4
<1> QED BY <1>3, <1>5

LEMMA SteadyDelivered ==
  TypeOK /\ SlicesDone /\ ing = "slices" /\ unread = {} => steady \subseteq RowsRead
<1> SUFFICES ASSUME TypeOK, SlicesDone, ing = "slices", unread = {}, NEW r \in steady
             PROVE  r \in RowsRead
  OBVIOUS
<1>1. PICK i \in Slices : {j \in Slices : <<r, j>> \in got} = {i}
  BY SteadyRead
<1>2. <<r, i>> \in got
  BY <1>1
<1>3. r \in Rows
  BY DEF TypeOK
<1> QED BY <1>2, <1>3 DEF RowsRead

LEMMA DoneStep == TypeOK /\ SlicesDone /\ [Next]_vars => SlicesDone'
<1> SUFFICES ASSUME TypeOK, SlicesDone, [Next]_vars PROVE SlicesDone'
  OBVIOUS
<1>1. ASSUME ingestion' = ingestion PROVE SlicesDone'
  <2>1. SlicesRead' = SlicesRead /\ \A r, i : InSlice(r, i)' <=> InSlice(r, i)
    BY <1>1, SameSlices DEF ingestion
  <2> QED BY <1>1, <2>1 DEF SlicesDone, ingestion
<1>2. ASSUME NEW r \in Rows, SourceChanges(r) PROVE SlicesDone'
  <2>1. lower' = lower /\ upper' = upper /\ unread' = unread /\ got' = got /\ ing' = ing
        /\ steady' \subseteq steady
    BY <1>2 DEF SourceChanges
  <2>2. SlicesRead' = SlicesRead /\ \A q, i : InSlice(q, i)' <=> InSlice(q, i)
    BY <2>1, SameSlices
  <2> QED BY <2>1, <2>2 DEF SlicesDone
<1>3. CASE GetBounds
  <2>1. lower' \in Int /\ upper' \in Int
    BY <1>3, BoundsOrdered DEF GetBounds, TypeOK
  <2> QED BY <1>3, <2>1 DEF GetBounds, SlicesDone
<1>4. CASE DeleteTable
  <2>1. lower' = lower /\ upper' = upper /\ unread' = unread /\ got' = got
        /\ steady' = steady /\ ing # "idle"
    BY <1>4 DEF DeleteTable
  <2>2. SlicesRead' = SlicesRead /\ \A q, i : InSlice(q, i)' <=> InSlice(q, i)
    BY <2>1, SameSlices
  <2> QED BY <2>1, <2>2 DEF SlicesDone
<1>5. ASSUME NEW i \in Slices, ReadSlice(i) PROVE SlicesDone'
  <2>1. /\ lower' = lower /\ upper' = upper /\ steady' = steady
        /\ ing = "slices" /\ ing' = ing /\ i \in unread /\ unread' = unread \ {i}
        /\ got' = got \cup {<<r, i>> : r \in {q \in source : InSlice(q, i)}}
    BY <1>5 DEF ReadSlice
  <2>2. SlicesRead' = SlicesRead /\ \A q, j : InSlice(q, j)' <=> InSlice(q, j)
    BY <2>1, SameSlices
  <2>3. unread \subseteq SlicesRead
    BY <2>1 DEF SlicesDone
  <2>4. ASSUME NEW r \in steady, NEW j \in Slices
        PROVE  <<r, j>> \in got' <=> j \in SlicesRead /\ j \notin unread' /\ InSlice(r, j)
    <3>1. r \in source
      BY DEF TypeOK
    <3>2. <<r, j>> \in got <=> j \in SlicesRead /\ j \notin unread /\ InSlice(r, j)
      BY <2>1 DEF SlicesDone
    <3>3. CASE j = i
      BY <2>1, <2>3, <3>1, <3>2, <3>3
    <3>4. CASE j # i
      BY <2>1, <3>2, <3>4
    <3> QED BY <3>3, <3>4
  <2>5. unread' \subseteq SlicesRead'
    BY <2>1, <2>2, <2>3
  <2>6. \A r \in steady' : \A j \in Slices :
          <<r, j>> \in got' <=> j \in SlicesRead' /\ j \notin unread' /\ InSlice(r, j)'
    BY <2>1, <2>2, <2>4
  <2> QED BY <2>5, <2>6 DEF SlicesDone
<1>6. CASE WriteRaw \/ IngestionDies
  BY <1>6 DEF WriteRaw, IngestionDies, SlicesDone
<1>7. CASE Compaction \/ Downstream \/ UNCHANGED vars
  <2>1. ingestion' = ingestion
    BY <1>7 DEF Compaction, Downstream, TriggerCompaction, TriggerTier, ListPartition, CountRows,
                DeletePartition, CompactionFails, OpenRaw, StageRows, ReaderFails, vars
  <2> QED BY <1>1, <2>1
<1> QED BY <1>2, <1>3, <1>4, <1>5, <1>6, <1>7 DEF Next, Ingestion

\* Ids of more rows are more ids.
LEMMA IdsGrow == \A S, T : S \subseteq T => Ids(S) \subseteq Ids(T)
BY DEF Ids

\* Files are either removed, or replaced by all of what was read.
LEMMA FilesStep ==
  TypeOK /\ SlicesDone /\ RawComplete /\ [Next]_vars => RawComplete'
<1> SUFFICES ASSUME TypeOK, SlicesDone, RawComplete, [Next]_vars PROVE RawComplete'
  OBVIOUS
<1>1. CASE UNCHANGED <<files, kept>>
  BY <1>1 DEF RawComplete, Ids
<1>2. ASSUME files' = {} PROVE RawComplete'
  BY <1>2 DEF RawComplete
<1>3. CASE WriteRaw
  <2>1. steady \subseteq RowsRead
    BY <1>3, SteadyDelivered DEF WriteRaw
  <2>2. kept' = Ids(steady)
    BY <1>3 DEF WriteRaw
  <2>3. CASE RowsRead = {}
    <3>1. kept' = {}
      BY <2>1, <2>2, <2>3 DEF Ids
    <3> QED BY <3>1 DEF RawComplete
  <2>4. CASE RowsRead # {}
    <3>1. files' = RowsRead
      BY <1>3, <2>4 DEF WriteRaw
    <3>2. Ids(steady) \subseteq Ids(RowsRead)
      BY <2>1, IdsGrow
    <3>3. Ids(files)' = Ids(RowsRead)
      BY <3>1 DEF Ids
    <3> QED BY <2>2, <3>2, <3>3 DEF RawComplete
  <2> QED BY <2>3, <2>4
<1>4. CASE DeleteTable \/ \E c \in Tasks : DeletePartition(c)
  BY <1>2, <1>4 DEF DeleteTable, DeletePartition
<1>5. CASE \/ \E r \in Rows : SourceChanges(r)
           \/ GetBounds \/ IngestionDies \/ \E i \in Slices : ReadSlice(i)
  BY <1>1, <1>5 DEF SourceChanges, GetBounds, IngestionDies, ReadSlice
<1>6. CASE \/ TriggerCompaction \/ TriggerTier
           \/ \E c \in Tasks : ListPartition(c) \/ CountRows(c) \/ CompactionFails(c)
  BY <1>1, <1>6 DEF TriggerCompaction, TriggerTier, ListPartition, CountRows, CompactionFails
<1>7. CASE Downstream
  BY <1>1, <1>7 DEF Downstream, OpenRaw, StageRows, ReaderFails
<1>8. CASE UNCHANGED vars
  BY <1>1, <1>8 DEF vars
<1> QED BY <1>3, <1>4, <1>5, <1>6, <1>7, <1>8 DEF Next, Ingestion, Compaction

LEMMA ReaderStep ==
  RawComplete /\ OpenComplete /\ StagedComplete /\ [Next]_vars => OpenComplete' /\ StagedComplete'
<1> SUFFICES ASSUME RawComplete, OpenComplete, StagedComplete, [Next]_vars
             PROVE  OpenComplete' /\ StagedComplete'
  OBVIOUS
<1>1. CASE UNCHANGED <<reader, opened, owed, staged, promised>>
  BY <1>1 DEF OpenComplete, StagedComplete, Ids
<1>2. CASE OpenRaw
  BY <1>2 DEF OpenRaw, RawComplete, OpenComplete, StagedComplete, Ids
<1>3. CASE StageRows
  BY <1>3 DEF StageRows, OpenComplete, StagedComplete
<1>4. CASE ReaderFails
  BY <1>4 DEF ReaderFails, OpenComplete, StagedComplete
<1>5. CASE Ingestion \/ \E r \in Rows : SourceChanges(r)
  BY <1>1, <1>5 DEF Ingestion, GetBounds, DeleteTable, ReadSlice, WriteRaw, IngestionDies,
                    SourceChanges, downstream
<1>6. CASE Compaction
  BY <1>1, <1>6 DEF Compaction, TriggerCompaction, TriggerTier, ListPartition, CountRows,
                    DeletePartition, CompactionFails, downstream
<1>7. CASE UNCHANGED vars
  BY <1>1, <1>7 DEF vars, downstream
<1> QED BY <1>2, <1>3, <1>4, <1>5, <1>6, <1>7 DEF Next, Downstream

LEMMA RawInvariant == Spec => []RawInv
<1>1. Init => RawInv
  BY TypeInit DEF Init, RawInv, SlicesDone, RawComplete, OpenComplete, StagedComplete
<1>2. RawInv /\ [Next]_vars => RawInv'
  BY TypeStep, DoneStep, FilesStep, ReaderStep DEF RawInv
<1> QED BY <1>1, <1>2, PTL DEF Spec

\* The ranges of the parallel read leave no gap and do not overlap, for any ids, bounds and
\* number of partitions, whatever the source does meanwhile.
THEOREM EachRowReadOnce == Spec => []ReadOnce
<1>1. RawInv => ReadOnce
  <2> SUFFICES ASSUME RawInv, ing = "slices", unread = {}, NEW r \in steady
               PROVE  Cardinality({i \in Slices : <<r, i>> \in got}) = 1
    BY DEF ReadOnce
  <2>1. PICK i \in Slices : {j \in Slices : <<r, j>> \in got} = {i}
    BY SteadyRead DEF RawInv
  <2> QED BY <2>1, FS_Singleton
<1> QED BY <1>1, RawInvariant, PTL

\* Raw files that are there have every id of the last ingestion, for any number of compaction
\* tasks and retries, and ingestions that die anywhere.
THEOREM FilesComplete == Spec => []RawComplete
<1>1. RawInv => RawComplete
  BY DEF RawInv
<1> QED BY <1>1, RawInvariant, PTL

\* A downstream task stages every id of the ingestion it read, or nothing.
THEOREM StagedIsComplete == Spec => []StagedComplete
<1>1. RawInv => StagedComplete
  BY DEF RawInv
<1> QED BY <1>1, RawInvariant, PTL
=============================================================================
