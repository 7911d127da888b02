------------------------- MODULE PitFeatures_proofs -------------------------
(***************************************************************************)
(* What the point-in-time features hold for every set of transactions,     *)
(* number of dates, lookback and order of builds.                          *)
(***************************************************************************)
EXTENDS PitFeatures, FiniteSetTheorems, TLAPS
-----------------------------------------------------------------------------
(* Sums *)

\* A function on sets of transactions that takes one of them off at a time.
IsSum(g, domain) ==
  g = [s \in domain |-> IF s = {} THEN 0
                        ELSE LET x == CHOOSE x \in s : TRUE
                             IN  x.amount + g[s \ {x}]]
SumOn(U) == CHOOSE g : IsSum(g, SUBSET U)

LEMMA TotalIsSum == \A S : Total(S) = SumOn(S)[S]
BY DEF Total, MapThenSumSet, MapThenFoldSet, SumOn, IsSum

\* The smallest number with a property of a set of numbers.
LEMMA LeastNumber ==
  ASSUME NEW T \in SUBSET Nat, T # {}
  PROVE  \E m \in T : \A n \in Nat : n < m => n \notin T
<1>1. PICK m \in T : \A n \in T : ~(<<n, m>> \in OpToRel(<, Nat))
  BY NatLessThanWellFounded, WFMin
<1> QED BY <1>1 DEF OpToRel

\* Transactions are finite sets of integer amounts.
LEMMA FiniteTransactions ==
  ASSUME NEW S \in SUBSET Transactions
  PROVE  IsFiniteSet(S) /\ Cardinality(S) \in Nat
BY PitFeaturesAssumption, FS_Subset, FS_CardinalityType

LEMMA OneLess ==
  ASSUME NEW S \in SUBSET Transactions, NEW t \in S
  PROVE  Cardinality(S) > 0 /\ Cardinality(S \ {t}) = Cardinality(S) - 1
BY FiniteTransactions, FS_RemoveElement, FS_EmptySet

\* The sets of at most n transactions of U.
UpTo(U, n) == {s \in SUBSET U : Cardinality(s) <= n}

\* The sums exist: from those of sets of n transactions to those of one more.
LEMMA SumExists ==
  ASSUME NEW U \in SUBSET Transactions
  PROVE  IsSum(SumOn(U), SUBSET U)
<1> DEFINE Exists(n) == \E g : IsSum(g, UpTo(U, n))
           without == {n \in Nat : ~Exists(n)}
<1>1. ASSUME NEW n \in Nat, n = 0 \/ Exists(n - 1) PROVE Exists(n)
  <2>1. PICK g : n = 0 \/ IsSum(g, UpTo(U, n - 1))
    BY <1>1
  <2> DEFINE h == [s \in UpTo(U, n) |->
                     IF s = {} THEN 0
                     ELSE LET x == CHOOSE x \in s : TRUE
                          IN  x.amount + (IF s \ {x} = {} THEN 0 ELSE g[s \ {x}])]
  <2>2. ASSUME NEW s \in UpTo(U, n), s # {}
        PROVE  LET x == CHOOSE x \in s : TRUE
               IN  h[s \ {x}] = IF s \ {x} = {} THEN 0 ELSE g[s \ {x}]
    <3> DEFINE x == CHOOSE x \in s : TRUE
               r == s \ {x}
    <3>1. x \in s /\ s \in SUBSET Transactions /\ Cardinality(s) <= n
      BY <2>2 DEF UpTo
    <3>2. Cardinality(s) > 0 /\ Cardinality(r) = Cardinality(s) - 1
      BY <3>1, OneLess
    <3>3. Cardinality(s) \in Nat
      BY <3>1, FiniteTransactions
    <3>4. n # 0 /\ r \in UpTo(U, n - 1) /\ r \in UpTo(U, n)
      BY <3>1, <3>2, <3>3 DEF UpTo
    <3>5. CASE r = {}
      BY <3>4, <3>5
    <3>6. CASE r # {}
      <4> DEFINE y == CHOOSE y \in r : TRUE
                 q == r \ {y}
      <4>1. h[r] = y.amount + (IF q = {} THEN 0 ELSE g[q])
        BY <3>4, <3>6
      <4>2. y \in r /\ r \in SUBSET Transactions /\ Cardinality(r) <= n - 1
        BY <3>4, <3>6 DEF UpTo
      <4>3. Cardinality(q) = Cardinality(r) - 1 /\ Cardinality(r) \in Nat
        BY <4>2, OneLess, FiniteTransactions
      <4>4. q \in UpTo(U, n - 1)
        BY <3>4, <4>2, <4>3 DEF UpTo
      <4>5. IsSum(g, UpTo(U, n - 1))
        BY <2>1, <3>4
      <4>6. g[r] = y.amount + g[q]
        BY <3>4, <3>6, <4>5 DEF IsSum
      <4>7. q = {} => g[q] = 0
        BY <4>4, <4>5 DEF IsSum
      <4> HIDE DEF h, q, y
      <4> QED BY <3>6, <4>1, <4>6, <4>7
    <3> QED BY <3>5, <3>6
  <2>3. IsSum(h, UpTo(U, n))
    <3>1. ASSUME NEW s \in UpTo(U, n)
          PROVE  h[s] = IF s = {} THEN 0
                        ELSE LET x == CHOOSE x \in s : TRUE IN x.amount + h[s \ {x}]
      <4>1. CASE s = {}
        BY <4>1
      <4>2. CASE s # {}
        <5> DEFINE x == CHOOSE x \in s : TRUE
        <5>1. h[s] = x.amount + (IF s \ {x} = {} THEN 0 ELSE g[s \ {x}])
          BY <4>2
        <5>2. h[s \ {x}] = IF s \ {x} = {} THEN 0 ELSE g[s \ {x}]
          <6> HIDE DEF h
          <6> QED BY <2>2, <4>2
        <5> HIDE DEF h
        <5> QED BY <4>2, <5>1, <5>2
      <4> QED BY <4>1, <4>2
    <3>2. h = [s \in UpTo(U, n) |-> h[s]]
      OBVIOUS
    <3> HIDE DEF h
    <3> QED BY <3>1, <3>2 DEF IsSum
  <2> QED BY <2>3
<1>2. without = {}
  <2> SUFFICES ASSUME without # {} PROVE FALSE
    OBVIOUS
  <2>1. PICK m \in without : \A n \in Nat : n < m => n \notin without
    <3> HIDE DEF without
    <3> QED BY LeastNumber DEF without
  <2>2. m = 0 \/ (m - 1 \in Nat /\ m - 1 < m)
    OBVIOUS
  <2>3. m = 0 \/ Exists(m - 1)
    BY <2>1, <2>2
  <2> HIDE DEF Exists
  <2> QED BY <1>1, <2>1, <2>3
<1>3. UpTo(U, Cardinality(U)) = SUBSET U
  BY FiniteTransactions, FS_Subset DEF UpTo
<1>4. \E g : IsSum(g, SUBSET U)
  <2>1. Exists(Cardinality(U))
    <3> HIDE DEF Exists
    <3> QED BY <1>2, FiniteTransactions
  <2> QED BY <1>3, <2>1
<1> QED BY <1>4 DEF SumOn

LEMMA SumStep ==
  ASSUME NEW U \in SUBSET Transactions, NEW s \in SUBSET U
  PROVE  SumOn(U)[s] = IF s = {} THEN 0
                       ELSE LET x == CHOOSE x \in s : TRUE IN x.amount + SumOn(U)[s \ {x}]
BY SumExists DEF IsSum

\* A sum is that of its transactions, whatever set they are taken from, and an integer.
LEMMA SumOfSubset ==
  ASSUME NEW U \in SUBSET Transactions, NEW S \in SUBSET U
  PROVE  SumOn(U)[S] = SumOn(Transactions)[S] /\ SumOn(U)[S] \in Int
<1> DEFINE Same(s) == SumOn(U)[s] = SumOn(Transactions)[s] /\ SumOn(U)[s] \in Int
           differ == {Cardinality(s) : s \in {r \in SUBSET U : ~Same(r)}}
<1>1. differ \in SUBSET Nat
  BY FiniteTransactions
<1>2. SUFFICES ASSUME differ # {} PROVE FALSE
  OBVIOUS
<1>3. PICK m \in differ : \A n \in Nat : n < m => n \notin differ
  <2> HIDE DEF differ
  <2> QED BY <1>1, <1>2, LeastNumber
<1>4. PICK s \in SUBSET U : m = Cardinality(s) /\ ~Same(s)
  OBVIOUS
<1>5. s # {}
  <2>1. {} \in SUBSET U /\ Transactions \in SUBSET Transactions /\ {} \in SUBSET Transactions
    OBVIOUS
  <2>2. SumOn(U)[{}] = 0 /\ SumOn(Transactions)[{}] = 0
    BY <2>1, SumStep
  <2> QED BY <1>4, <2>2
<1> DEFINE x == CHOOSE x \in s : TRUE
           r == s \ {x}
<1>6. x \in s /\ r \in SUBSET U /\ s \in SUBSET Transactions /\ r \in SUBSET Transactions
  BY <1>5
<1>7. Cardinality(r) \in Nat /\ Cardinality(r) < m
  <2>1. Cardinality(s) \in Nat /\ Cardinality(r) \in Nat
    BY <1>6, FiniteTransactions
  <2>2. Cardinality(r) = Cardinality(s) - 1
    BY <1>6, OneLess
  <2> QED BY <1>4, <2>1, <2>2
<1>8. Same(r)
  BY <1>3, <1>6, <1>7
<1>9. /\ SumOn(U)[s] = x.amount + SumOn(U)[r]
      /\ SumOn(Transactions)[s] = x.amount + SumOn(Transactions)[r]
  BY <1>5, <1>6, SumStep
<1>10. x.amount \in Int
  BY <1>6, PitFeaturesAssumption
<1> QED
  <2> HIDE DEF x, r
  <2> QED BY <1>4, <1>8, <1>9, <1>10

\* The order of adding does not matter: any transaction can be taken off.
LEMMA TotalWithout ==
  ASSUME NEW S \in SUBSET Transactions, NEW t \in S
  PROVE  Total(S) \in Int /\ Total(S) = t.amount + Total(S \ {t})
<1> DEFINE f == SumOn(Transactions)
           Apart(s) == \A q \in s : f[s] = q.amount + f[s \ {q}]
           fails == {Cardinality(s) : s \in {r \in SUBSET Transactions : ~Apart(r)}}
<1>0. ASSUME NEW s \in SUBSET Transactions PROVE Total(s) = f[s] /\ f[s] \in Int
  BY TotalIsSum, SumOfSubset
<1>1. fails \in SUBSET Nat
  BY FiniteTransactions
<1>2. fails = {}
  <2> SUFFICES ASSUME fails # {} PROVE FALSE
    OBVIOUS
  <2>1. PICK m \in fails : \A n \in Nat : n < m => n \notin fails
    <3> HIDE DEF fails
    <3> QED BY <1>1, LeastNumber
  <2>2. PICK s \in SUBSET Transactions : m = Cardinality(s) /\ ~Apart(s)
    OBVIOUS
  <2>3. PICK q \in s : f[s] # q.amount + f[s \ {q}]
    BY <2>2
  <2> DEFINE x == CHOOSE x \in s : TRUE
  <2>4. x \in s /\ f[s] = x.amount + f[s \ {x}]
    BY <2>3, SumStep
  <2>5. x # q
    BY <2>3, <2>4
  <2>6. Apart(s \ {x}) /\ Apart(s \ {q})
    <3>1. ASSUME NEW y \in s PROVE Apart(s \ {y})
      <4>1. Cardinality(s \ {y}) \in Nat /\ Cardinality(s \ {y}) < m
        BY <2>2, OneLess, FiniteTransactions
      <4> QED BY <2>1, <4>1
    <3> QED BY <2>4, <3>1
  <2> HIDE DEF x
  <2>7. f[s \ {x}] = q.amount + f[(s \ {x}) \ {q}]
    BY <2>5, <2>6
  <2>8. f[s \ {q}] = x.amount + f[(s \ {q}) \ {x}]
    BY <2>4, <2>5, <2>6
  <2>9. (s \ {x}) \ {q} = (s \ {q}) \ {x}
    OBVIOUS
  <2>10. q.amount \in Int /\ x.amount \in Int /\ f[(s \ {x}) \ {q}] \in Int
    BY <1>0, <2>4, PitFeaturesAssumption
  <2> DEFINE rest == f[(s \ {x}) \ {q}]
  <2>11. f[s] = x.amount + (q.amount + rest)
    BY <2>4, <2>7
  <2>12. f[s] # q.amount + (x.amount + rest)
    BY <2>3, <2>8, <2>9
  <2> HIDE DEF f, rest
  <2>13. x.amount + (q.amount + rest) = q.amount + (x.amount + rest)
    BY <2>10 DEF rest
  <2> QED BY <2>11, <2>12, <2>13
<1>3. Apart(S)
  BY <1>2
<1> QED BY <1>0, <1>3
-----------------------------------------------------------------------------
(* Days and seconds *)

LEMMA Division ==
  ASSUME NEW a \in Nat, NEW n \in Nat \ {0}
  PROVE  /\ a \div n \in Nat
         /\ n * (a \div n) <= a /\ a < n * (a \div n) + n
OBVIOUS

LEMMA Multiples ==
  ASSUME NEW i \in Int, NEW j \in Int, NEW n \in Nat \ {0}, n * i < n * j
  PROVE  i < j
OBVIOUS

\* The days of a window: a second of the last `days` days lies in one of them or in the day
\* that they end in.
LEMMA WindowDays ==
  ASSUME NEW t \in Transactions, NEW q \in Transactions, q.ts <= t.ts
  PROVE  /\ DayOf(q) <= DayOf(t)
         /\ \A days \in Nat : t.ts - q.ts <= days * DayLength => DayOf(q) >= DayOf(t) - days
<1> DEFINE n == DayLength
           i == q.ts \div n
           j == t.ts \div n
<1>1. q.ts \in Nat /\ t.ts \in Nat /\ n \in Nat \ {0}
  BY PitFeaturesAssumption
<1>2. /\ i \in Nat /\ n * i <= q.ts /\ q.ts < n * i + n
      /\ j \in Nat /\ n * j <= t.ts /\ t.ts < n * j + n
  BY <1>1, Division
<1>3. DayOf(q) = i + 1 /\ DayOf(t) = j + 1
  BY DEF DayOf
<1> HIDE DEF i, j, n
<1>4. i <= j
  <2>1. n * i < n * (j + 1)
    BY <1>1, <1>2
  <2> QED BY <1>1, <1>2, <2>1, Multiples
<1>5. ASSUME NEW days \in Nat, t.ts - q.ts <= days * n PROVE i >= j - days
  <2>1. days * n = n * days /\ n * j \in Int /\ n * i \in Int /\ n * days \in Int
    BY <1>1, <1>2
  <2>2. n * j < n * i + n + n * days
    BY <1>1, <1>2, <1>5, <2>1
  <2>3. n * (i + 1 + days) = n * i + n + n * days
    BY <1>1, <1>2
  <2>4. j < i + 1 + days
    BY <1>1, <1>2, <2>2, <2>3, Multiples
  <2> QED BY <1>2, <2>4
<1> QED BY <1>2, <1>3, <1>4, <1>5 DEF n
-----------------------------------------------------------------------------
(* Types *)

\* The frame of a transaction holds it.
LEMMA FrameHoldsIt ==
  ASSUME NEW S \in SUBSET Transactions, NEW t \in S, NEW range \in Nat
  PROVE  /\ t \in Frame(S, t, range) /\ Frame(S, t, range) \in SUBSET Transactions
         /\ Cardinality(Frame(S, t, range)) - 1 \in Nat
         /\ Cardinality(Frame(S, t, range)) - 1 = Cardinality(Frame(S, t, range) \ {t})
         /\ Total(Frame(S, t, range)) - t.amount \in Int
         /\ Total(Frame(S, t, range)) - t.amount = Total(Frame(S, t, range) \ {t})
<1> DEFINE F == Frame(S, t, range)
<1>1. t.ts \in Nat /\ t.amount \in Int
  BY PitFeaturesAssumption
<1>2. t \in F /\ F \in SUBSET Transactions
  BY <1>1 DEF Frame
<1> HIDE DEF F
<1>3. Cardinality(F) \in Nat /\ Cardinality(F) > 0 /\ Cardinality(F \ {t}) = Cardinality(F) - 1
  BY <1>2, OneLess, FiniteTransactions
<1>4. Total(F) \in Int /\ Total(F) = t.amount + Total(F \ {t})
  BY <1>2, TotalWithout
<1>5. Total(F \ {t}) \in Int
  BY <1>2, TotalIsSum, SumOfSubset
<1> QED BY <1>1, <1>2, <1>3, <1>4, <1>5 DEF F

LEMMA WindowsType ==
  /\ Hour \in Nat /\ DayLength \in Nat /\ Lookback * DayLength \in Nat
  /\ Hour <= Lookback * DayLength /\ DayLength <= Lookback * DayLength
<1>1. Hour \in Nat /\ Hour <= DayLength /\ DayLength \in Nat \ {0} /\ Lookback \in Nat \ {0}
  BY PitFeaturesAssumption
<1>2. Lookback * DayLength \in Nat /\ DayLength <= Lookback * DayLength
  BY <1>1
<1> QED BY <1>1, <1>2

RowType(f) ==
  /\ f.count1h \in Nat /\ f.count24h \in Nat /\ f.count7d \in Nat
  /\ f.sum1h \in Int /\ f.sum24h \in Int
  /\ f.ratio = Null \/ f.ratio \in Int \X (Int \ {0})

LEMMA PitRowType ==
  ASSUME NEW S \in SUBSET Transactions, NEW t \in S
  PROVE  RowType(PitRow(S, t))
<1> DEFINE past == RowsBefore(S, t)
<1>1. past \in SUBSET Transactions
  BY DEF RowsBefore
<1>2. Total(past) \in Int /\ Cardinality(past) \in Nat /\ t.amount \in Int
  BY <1>1, TotalIsSum, SumOfSubset, FiniteTransactions, PitFeaturesAssumption
<1>3. Ratio(S, t) = Null \/ Ratio(S, t) \in Int \X (Int \ {0})
  <2> HIDE DEF past
  <2>1. t.amount * Cardinality(past) \in Int
    BY <1>2
  <2>2. Total(past) > 0 => <<t.amount * Cardinality(past), Total(past)>> \in Int \X (Int \ {0})
    BY <1>2, <2>1
  <2> QED BY <2>2 DEF Ratio, past
<1> QED BY <1>3, FrameHoldsIt, WindowsType DEF PitRow, RowType

LEMMA InitType == Init => TypeOK
<1>1. Full \in Builds /\ MaxLoads \in Nat
  BY PitFeaturesAssumption DEF Builds
<1> QED BY <1>1 DEF Init, TypeOK, Idle, NotBuilt

LEMMA RowsType ==
  ASSUME NEW S \in SUBSET Transactions, NEW d \in Days
  PROVE  \A f \in RowsOf(S, d) : RowType(f)
BY PitRowType DEF RowsOf

\* What a commit leaves of a date: its rows as they were, none, or those of what was read.
LEMMA CommitGives ==
  ASSUME NEW b \in Builds, NEW P, NEW lost, Commit(b, P, lost), NEW d \in Days
  PROVE  \/ features'[d] = features[d] /\ built'[d] = built[d]
         \/ features'[d] = {} /\ built'[d] = NotBuilt
         \/ /\ d \in Written(b)
            /\ features'[d] = RowsOf(reading[b].rows, d)
            /\ built'[d] = [depth |-> Depth(b), since |-> reading[b].since]
BY DEF Commit

\* The three kinds of steps.
LEMMA NextSteps ==
  [Next]_vars =>
    \/ \E d \in Days, S \in SUBSET Transactions : LoadDay(d, S)
    \/ \E b \in Builds : BuildReads(b)
    \/ \E b \in Builds : \E P, lost : reading[b].on /\ Commit(b, P, lost)
    \/ UNCHANGED vars
BY DEF Next, BuildWrites, BuildFails

LEMMA BuildsType ==
  ASSUME NEW b \in Builds
  PROVE  /\ Written(b) \in SUBSET Days /\ Depth(b) \in {Lookback, LastDay}
         /\ Lookback \in Nat /\ LastDay \in Nat
BY PitFeaturesAssumption DEF Builds, Written, Depth, Days, Full

LEMMA LoadType ==
  ASSUME TypeOK, NEW d \in Days, NEW S \in SUBSET Transactions, LoadDay(d, S)
  PROVE  TypeOK'
<1>1. staging' \subseteq Transactions
  BY DEF LoadDay, Overwritten, TypeOK
<1>2. ASSUME NEW b \in Builds
      PROVE  reading'[b] \in [rows : SUBSET Transactions, on : BOOLEAN, since : SUBSET Days]
  BY DEF LoadDay, Idle, TypeOK
<1>3. ASSUME NEW e \in Days
      PROVE  built'[e] \in [depth : {0, Lookback, LastDay}, since : SUBSET Days]
  BY DEF LoadDay, TypeOK
<1>4. loads' \in 0 .. MaxLoads
  BY PitFeaturesAssumption DEF LoadDay, TypeOK
<1>5. features' = features /\ DOMAIN built' = Days /\ DOMAIN reading' = Builds
  BY DEF LoadDay
<1> QED BY <1>1, <1>2, <1>3, <1>4, <1>5 DEF TypeOK

LEMMA CommitType ==
  ASSUME TypeOK, NEW b \in Builds, NEW P, NEW lost, Commit(b, P, lost)
  PROVE  TypeOK'
<1>1. reading[b].rows \in SUBSET Transactions /\ reading[b].since \in SUBSET Days
  BY DEF TypeOK
<1>2. \A d \in Days : \A f \in RowsOf(reading[b].rows, d) : RowType(f)
  BY <1>1, RowsType
<1>3. ASSUME NEW d \in Days PROVE \A f \in features'[d] : RowType(f)
  <2>1. \/ features'[d] = features[d]
        \/ features'[d] = {}
        \/ features'[d] = RowsOf(reading[b].rows, d)
    BY CommitGives
  <2>2. \A f \in features[d] : RowType(f)
    BY DEF TypeOK, RowType
  <2>3. \A f \in RowsOf(reading[b].rows, d) : RowType(f)
    BY <1>2
  <2> HIDE DEF RowType
  <2> QED BY <2>1, <2>2, <2>3
<1>4. ASSUME NEW d \in Days
      PROVE  built'[d] \in [depth : {0, Lookback, LastDay}, since : SUBSET Days]
  <2>1. \/ built'[d] = built[d]
        \/ built'[d] = NotBuilt
        \/ built'[d] = [depth |-> Depth(b), since |-> reading[b].since]
    BY CommitGives
  <2>2. built[d] \in [depth : {0, Lookback, LastDay}, since : SUBSET Days]
    BY DEF TypeOK
  <2>3. NotBuilt \in [depth : {0, Lookback, LastDay}, since : SUBSET Days]
    BY DEF NotBuilt
  <2>4. Depth(b) \in {Lookback, LastDay}
    BY BuildsType
  <2> QED BY <1>1, <2>1, <2>2, <2>3, <2>4
<1>5. \A c \in Builds : reading'[c] \in
        [rows : SUBSET Transactions, on : BOOLEAN, since : SUBSET Days]
  BY DEF Commit, Idle, TypeOK
<1>6. DOMAIN features' = Days /\ DOMAIN built' = Days /\ DOMAIN reading' = Builds
  BY DEF Commit, TypeOK
<1>7. staging' = staging /\ loads' = loads
  BY DEF Commit
<1> QED BY <1>3, <1>4, <1>5, <1>6, <1>7 DEF TypeOK, RowType

LEMMA NextType == TypeOK /\ [Next]_vars => TypeOK'
<1> SUFFICES ASSUME TypeOK, [Next]_vars PROVE TypeOK'
  OBVIOUS
<1>1. ASSUME NEW b \in Builds, BuildReads(b) PROVE TypeOK'
  <2>1. \A c \in Builds : reading'[c] \in
          [rows : SUBSET Transactions, on : BOOLEAN, since : SUBSET Days]
    BY <1>1 DEF BuildReads, DaysRead, TypeOK
  <2> QED BY <1>1, <2>1 DEF BuildReads, TypeOK
<1>2. CASE UNCHANGED vars
  BY <1>2 DEF vars, TypeOK
<1> QED BY <1>1, <1>2, NextSteps, LoadType, CommitType

\* Types, for every set of transactions and number of dates: no count of a window is negative,
\* as the transaction that the code takes off again is always one of its frame, and no ratio
\* divides by zero.
THEOREM PitTypeCorrect == Spec => []TypeOK
BY InitType, NextType, PTL DEF Spec
-----------------------------------------------------------------------------
(* What a build has read stays true of the dates that do not change *)

\* R holds the rows that T has of date d and of the n days before it, the dates in since apart.
ReadOf(T, R, d, n, since) ==
  /\ R \subseteq Transactions
  /\ \A q \in R : d - DayOf(q) <= n
  /\ \A e \in Days : e <= d /\ d - e <= n /\ e \notin since =>
       {t \in R : DayOf(t) = e} = {t \in T : DayOf(t) = e}

ReadingInv ==
  \A b \in Builds : reading[b].on =>
    \A d \in Written(b) : ReadOf(staging, reading[b].rows, d, Depth(b), reading[b].since)

\* Rows of a date that the history knows of are those of one read.
BuiltInv ==
  \A d \in Days :
    \/ built[d].since = Days
    \/ /\ built[d].depth \in {Lookback, LastDay}
       /\ \E R : /\ features[d] = RowsOf(R, d)
                 /\ ReadOf(staging, R, d, built[d].depth, built[d].since)

OneInv == \A t, q \in staging : DayOf(t) = DayOf(q) /\ t.id = q.id => t = q

PitInv == ReadingInv /\ BuiltInv /\ OneInv

LEMMA InitPit == Init => PitInv
BY DEF Init, PitInv, ReadingInv, BuiltInv, OneInv, Idle, NotBuilt

\* The history after a cleaning of date d with the rows S.
Since(T, d, S, old) ==
  LET of == {t \in T : DayOf(t) = d}
  IN  IF Overwritten(of, S) = of THEN old ELSE old \cup {d}

\* A cleaning leaves the other dates alone, and its own too unless the history notes it.
LEMMA LoadKeepsRead ==
  ASSUME NEW T, NEW d, NEW S, \A t \in S : DayOf(t) = d,
         NEW R, NEW e, NEW n, NEW since, ReadOf(T, R, e, n, since)
  PROVE  LET of == {t \in T : DayOf(t) = d}
         IN  ReadOf((T \ of) \cup Overwritten(of, S), R, e, n, Since(T, d, S, since))
<1> DEFINE of == {t \in T : DayOf(t) = d}
           T2 == (T \ of) \cup Overwritten(of, S)
<1>1. ASSUME NEW c \in Days, c \notin Since(T, d, S, since)
      PROVE  c \notin since /\ {t \in T2 : DayOf(t) = c} = {t \in T : DayOf(t) = c}
  <2>1. c \notin since /\ (c # d \/ Overwritten(of, S) = of)
    BY <1>1 DEF Since
  <2>2. CASE c # d
    BY <2>1, <2>2 DEF Overwritten
  <2>3. CASE Overwritten(of, S) = of
    BY <2>1, <2>3
  <2> QED BY <2>1, <2>2, <2>3
<1> HIDE DEF T2
<1>2. ReadOf(T2, R, e, n, Since(T, d, S, since))
  BY <1>1 DEF ReadOf
<1> QED BY <1>2 DEF T2

LEMMA LoadInv ==
  ASSUME TypeOK, PitInv, NEW d \in Days, NEW S \in SUBSET Transactions, LoadDay(d, S)
  PROVE  PitInv'
<1> DEFINE of == {t \in staging : DayOf(t) = d}
<1>0. /\ \A t \in S : DayOf(t) = d
      /\ \A t, q \in S : t.id = q.id => t = q
      /\ staging' = (staging \ of) \cup Overwritten(of, S)
  BY DEF LoadDay
<1>1. ASSUME NEW R, NEW e, NEW n, NEW since, ReadOf(staging, R, e, n, since)
      PROVE  ReadOf(staging', R, e, n, Since(staging, d, S, since))
  BY <1>0, <1>1, LoadKeepsRead
<1>2. ReadingInv'
  <2> SUFFICES ASSUME NEW b \in Builds, reading'[b].on, NEW e \in Written(b)
               PROVE  ReadOf(staging', reading'[b].rows, e, Depth(b), reading'[b].since)
    BY DEF ReadingInv
  <2>1. reading[b].on
    BY DEF LoadDay, Idle
  <2>2. reading'[b] = [reading[b] EXCEPT !.since = Since(staging, d, S, @)]
    BY <2>1 DEF LoadDay, Since
  <2>3. reading[b] \in [rows : SUBSET Transactions, on : BOOLEAN, since : SUBSET Days]
    BY DEF TypeOK
  <2>4. /\ reading'[b].rows = reading[b].rows
        /\ reading'[b].since = Since(staging, d, S, reading[b].since)
    BY <2>2, <2>3
  <2>5. ReadOf(staging, reading[b].rows, e, Depth(b), reading[b].since)
    BY <2>1 DEF PitInv, ReadingInv
  <2> QED BY <1>1, <2>4, <2>5
<1>3. BuiltInv'
  <2> SUFFICES ASSUME NEW e \in Days
               PROVE  \/ built'[e].since = Days
                      \/ /\ built'[e].depth \in {Lookback, LastDay}
                         /\ \E R : /\ features'[e] = RowsOf(R, e)
                                   /\ ReadOf(staging', R, e, built'[e].depth, built'[e].since)
    BY DEF BuiltInv
  <2>1. built'[e] = [built[e] EXCEPT !.since = Since(staging, d, S, @)]
    BY DEF LoadDay, Since
  <2>2. built[e] \in [depth : {0, Lookback, LastDay}, since : SUBSET Days]
    BY DEF TypeOK
  <2>3. /\ built'[e].depth = built[e].depth
        /\ built'[e].since = Since(staging, d, S, built[e].since)
    BY <2>1, <2>2
  <2>4. CASE built[e].since = Days
    BY <2>3, <2>4 DEF Since
  <2>5. CASE built[e].since # Days
    <3>1. PICK R : /\ features[e] = RowsOf(R, e)
                   /\ ReadOf(staging, R, e, built[e].depth, built[e].since)
      BY <2>5 DEF PitInv, BuiltInv
    <3>2. ReadOf(staging', R, e, built'[e].depth, built'[e].since)
      BY <1>1, <2>3, <3>1
    <3>3. features' = features /\ built[e].depth \in {Lookback, LastDay}
      BY <2>5 DEF LoadDay, PitInv, BuiltInv
    <3> QED BY <2>3, <3>1, <3>2, <3>3
  <2> QED BY <2>4, <2>5
<1>4. OneInv'
  BY <1>0 DEF PitInv, OneInv, Overwritten
<1> QED BY <1>2, <1>3, <1>4 DEF PitInv

\* A build reads staging as it is, the days of its rows' look-back at least.
LEMMA ReadInv ==
  ASSUME TypeOK, PitInv, NEW b \in Builds, BuildReads(b)
  PROVE  PitInv'
<1>1. \A t \in staging : t \in Transactions /\ DayOf(t) \in Days
  BY PitFeaturesAssumption DEF TypeOK
<1>2. ASSUME NEW d \in Written(b)
      PROVE  ReadOf(staging, IF b = Full THEN staging ELSE DaysRead(staging, b), d, Depth(b), {})
  <2>1. d \in Days /\ LastDay \in Nat /\ Lookback \in Nat
    BY BuildsType
  <2>2. CASE b = Full
    BY <1>1, <2>1, <2>2 DEF ReadOf, Depth, Days
  <2>3. CASE b # Full
    <3>1. d = b /\ Depth(b) = Lookback
      BY <2>3 DEF Written, Depth
    <3>2. \A t \in DaysRead(staging, d) : t \in staging /\ d - DayOf(t) <= Lookback
      BY <1>1, <2>1 DEF DaysRead, Days
    <3>3. \A e \in Days : e <= d /\ d - e <= Lookback => e \in d - Lookback .. d
      BY <2>1 DEF Days
    <3>4. \A e \in Days : e <= d /\ d - e <= Lookback =>
            {t \in DaysRead(staging, d) : DayOf(t) = e} = {t \in staging : DayOf(t) = e}
      BY <3>3 DEF DaysRead
    <3> QED BY <1>1, <2>3, <3>1, <3>2, <3>4 DEF ReadOf
  <2> QED BY <2>2, <2>3
<1>3. ReadingInv'
  <2> SUFFICES ASSUME NEW c \in Builds, reading'[c].on, NEW d \in Written(c)
               PROVE  ReadOf(staging, reading'[c].rows, d, Depth(c), reading'[c].since)
    BY DEF ReadingInv, BuildReads
  <2>1. CASE c = b
    <3>1. reading'[b] =
            [rows |-> IF b = Full THEN staging ELSE DaysRead(staging, b), on |-> TRUE, since |-> {}]
      BY DEF BuildReads, TypeOK
    <3> QED BY <1>2, <2>1, <3>1
  <2>2. CASE c # b
    <3>1. reading'[c] = reading[c]
      BY <2>2 DEF BuildReads, TypeOK
    <3> QED BY <3>1 DEF PitInv, ReadingInv
  <2> QED BY <2>1, <2>2
<1>4. BuiltInv' /\ OneInv'
  BY DEF BuildReads, PitInv, BuiltInv, OneInv
<1> QED BY <1>3, <1>4 DEF PitInv

LEMMA CommitInv ==
  ASSUME TypeOK, PitInv, NEW b \in Builds, reading[b].on, NEW P, NEW lost, Commit(b, P, lost)
  PROVE  PitInv'
<1>0. UNCHANGED staging
  BY DEF Commit
<1>1. ReadingInv'
  <2> SUFFICES ASSUME NEW c \in Builds, reading'[c].on, NEW d \in Written(c)
               PROVE  ReadOf(staging, reading'[c].rows, d, Depth(c), reading'[c].since)
    BY <1>0 DEF ReadingInv
  <2>1. reading'[c] = reading[c]
    BY DEF Commit, Idle, TypeOK
  <2> QED BY <2>1 DEF PitInv, ReadingInv
<1>2. BuiltInv'
  <2> SUFFICES ASSUME NEW d \in Days
               PROVE  \/ built'[d].since = Days
                      \/ /\ built'[d].depth \in {Lookback, LastDay}
                         /\ \E R : /\ features'[d] = RowsOf(R, d)
                                   /\ ReadOf(staging, R, d, built'[d].depth, built'[d].since)
    BY <1>0 DEF BuiltInv
  <2>1. CASE features'[d] = features[d] /\ built'[d] = built[d]
    BY <2>1 DEF PitInv, BuiltInv
  <2>2. CASE built'[d] = NotBuilt
    BY <2>2 DEF NotBuilt
  <2>3. CASE /\ d \in Written(b)
             /\ features'[d] = RowsOf(reading[b].rows, d)
             /\ built'[d] = [depth |-> Depth(b), since |-> reading[b].since]
    BY <2>3, BuildsType DEF PitInv, ReadingInv
  <2> QED BY <2>1, <2>2, <2>3, CommitGives
<1>3. OneInv'
  BY <1>0 DEF PitInv, OneInv
<1> QED BY <1>1, <1>2, <1>3 DEF PitInv

LEMMA PitAlways == Spec => [](TypeOK /\ PitInv)
<1>1. TypeOK /\ PitInv /\ [Next]_vars => PitInv'
  <2> SUFFICES ASSUME TypeOK, PitInv, [Next]_vars PROVE PitInv'
    OBVIOUS
  <2>1. CASE UNCHANGED vars
    BY <2>1 DEF vars, PitInv, ReadingInv, BuiltInv, OneInv
  <2> QED BY <2>1, NextSteps, LoadInv, ReadInv, CommitInv
<1> QED BY <1>1, InitType, NextType, InitPit, PTL DEF Spec
-----------------------------------------------------------------------------
(* What a row says *)

\* On the days that have not changed, a window of n days has the same rows in staging as in
\* what the build has read.
LEMMA FrameOfRead ==
  ASSUME TypeOK, NEW t \in staging, NEW R, NEW depth \in {Lookback, LastDay}, NEW since,
         ReadOf(staging, R, DayOf(t), depth, since),
         NEW n \in Nat, n <= Lookback, (DayOf(t) - n .. DayOf(t)) \cap since = {},
         NEW range \in Nat, range <= n * DayLength
  PROVE  Frame(R, t, range) = Frame(staging, t, range)
<1> DEFINE d == DayOf(t)
<1>1. /\ R \subseteq Transactions /\ staging \subseteq Transactions
      /\ d \in Days /\ t \in Transactions /\ t.ts \in Nat
      /\ Lookback \in Nat /\ LastDay \in Nat /\ DayLength \in Nat
  BY PitFeaturesAssumption DEF ReadOf, TypeOK
<1>2. ASSUME NEW q \in Transactions, q.ts \in t.ts - range .. t.ts
      PROVE  DayOf(q) \in Days /\ DayOf(q) <= d /\ d - DayOf(q) <= n
  <2>1. q.ts \in Nat /\ q.ts <= t.ts /\ t.ts - q.ts <= range
    BY <1>1, <1>2, PitFeaturesAssumption
  <2>2. t.ts - q.ts <= n * DayLength
    BY <1>1, <2>1
  <2>3. DayOf(q) <= d /\ DayOf(q) >= d - n
    BY <1>1, <2>1, <2>2, WindowDays
  <2> QED BY <1>1, <2>3, PitFeaturesAssumption DEF Days
<1>3. ASSUME NEW q \in Transactions, q.ts \in t.ts - range .. t.ts
      PROVE  q \in R <=> q \in staging
  <2> DEFINE e == DayOf(q)
  <2>1. e \in Days /\ e <= d /\ d - e <= n
    BY <1>3, <1>2
  <2>2. d - e <= depth
    BY <1>1, <2>1 DEF Days
  <2>3. e \in d - n .. d
    BY <1>1, <2>1 DEF Days
  <2>4. e \notin since
    BY <2>3
  <2>5. {r \in R : DayOf(r) = e} = {r \in staging : DayOf(r) = e}
    BY <2>1, <2>2, <2>4 DEF ReadOf
  <2> QED BY <2>5
<1> QED BY <1>1, <1>3 DEF Frame

\* The row of a transaction is built from it, as long as its date has not changed.
LEMMA RowOfRead ==
  ASSUME TypeOK, OneInv, NEW t \in staging, NEW R, NEW depth \in {Lookback, LastDay}, NEW since,
         ReadOf(staging, R, DayOf(t), depth, since), DayOf(t) \notin since,
         features[DayOf(t)] = RowsOf(R, DayOf(t))
  PROVE  t \in R /\ RowOf(t) = {PitRow(R, t)}
<1> DEFINE d == DayOf(t)
<1>1. d \in Days /\ d <= d /\ d - d <= depth
  BY PitFeaturesAssumption DEF TypeOK, Days
<1>2. {q \in R : DayOf(q) = d} = {q \in staging : DayOf(q) = d}
  <2> HIDE DEF d
  <2>1. ReadOf(staging, R, d, depth, since) /\ d \notin since
    BY DEF d
  <2> QED BY <1>1, <2>1 DEF ReadOf
<1>3. t \in R
  BY <1>2
<1>4. ASSUME NEW f \in RowOf(t) PROVE f = PitRow(R, t)
  <2>1. PICK q \in R : DayOf(q) = d /\ f = PitRow(R, q)
    BY <1>4 DEF RowOf, RowsOf
  <2>2. q \in staging /\ q.id = t.id
    BY <1>2, <1>4, <2>1 DEF RowOf, PitRow
  <2> QED BY <2>1, <2>2 DEF OneInv
<1>5. PitRow(R, t) \in RowOf(t)
  BY <1>3 DEF RowOf, RowsOf, PitRow
<1> QED BY <1>3, <1>4, <1>5

\* The frame without the transaction itself: the user's others.
LEMMA FrameOfOthers ==
  ASSUME TypeOK, NEW t \in staging, NEW range \in Nat
  PROVE  Frame(staging, t, range) \ {t} = Others(t, range)
<1>1. \A q \in staging : q.ts \in Int
  BY PitFeaturesAssumption DEF TypeOK
<1> QED BY <1>1 DEF Frame, Others

\* Where the days of the window have not changed, its count and sum are those of the others.
LEMMA WindowOfRead ==
  ASSUME TypeOK, NEW t \in staging, NEW R, t \in R, NEW depth \in {Lookback, LastDay}, NEW since,
         ReadOf(staging, R, DayOf(t), depth, since),
         NEW n \in Nat, n <= Lookback, (DayOf(t) - n .. DayOf(t)) \cap since = {},
         NEW range \in Nat, range <= n * DayLength
  PROVE  /\ Cardinality(Frame(R, t, range)) - 1 = Cardinality(Others(t, range))
         /\ Total(Frame(R, t, range)) - t.amount = Total(Others(t, range))
<1>1. Frame(R, t, range) = Frame(staging, t, range)
  BY FrameOfRead
<1>2. Frame(staging, t, range) \ {t} = Others(t, range)
  BY FrameOfOthers
<1>3. staging \in SUBSET Transactions
  BY DEF TypeOK
<1> QED BY <1>1, <1>2, <1>3, FrameHoldsIt

LEMMA Velocities == TypeOK /\ PitInv => VelocityOfOthers
<1> SUFFICES ASSUME TypeOK, PitInv, NEW t \in staging
             PROVE  LET d == DayOf(t) IN
                    /\ Unchanged(d, 0) => RowOf(t) # {}
                    /\ \A f \in RowOf(t) :
                         /\ Unchanged(d, 1) =>
                              /\ f.count1h = Cardinality(Others(t, Hour))
                              /\ f.count24h = Cardinality(Others(t, DayLength))
                              /\ f.sum1h = Total(Others(t, Hour))
                              /\ f.sum24h = Total(Others(t, DayLength))
                         /\ Unchanged(d, Lookback) =>
                              f.count7d = Cardinality(Others(t, Lookback * DayLength))
  BY DEF VelocityOfOthers
<1> DEFINE d == DayOf(t)
<1>1. d \in Days /\ Lookback \in Nat \ {0} /\ Hour \in Nat /\ DayLength \in Nat /\ Hour <= DayLength
  BY PitFeaturesAssumption DEF TypeOK
<1>2. ASSUME NEW n \in Nat, Unchanged(d, n) PROVE d \notin built[d].since
  <2>1. d \in d - n .. d
    BY <1>1 DEF Days
  <2> QED BY <1>2, <2>1 DEF Unchanged
<1>3. CASE d \in built[d].since
  BY <1>1, <1>2, <1>3
<1>4. CASE d \notin built[d].since
  <2>1. PICK R : /\ features[d] = RowsOf(R, d)
                 /\ ReadOf(staging, R, d, built[d].depth, built[d].since)
                 /\ built[d].depth \in {Lookback, LastDay}
    BY <1>1, <1>4 DEF PitInv, BuiltInv
  <2>2. t \in R /\ RowOf(t) = {PitRow(R, t)}
    BY <1>4, <2>1, RowOfRead DEF PitInv
  <2>3. ASSUME NEW n \in Nat, n <= Lookback, Unchanged(d, n), NEW range \in Nat, range <= n * DayLength
        PROVE  /\ Cardinality(Frame(R, t, range)) - 1 = Cardinality(Others(t, range))
               /\ Total(Frame(R, t, range)) - t.amount = Total(Others(t, range))
    BY <2>1, <2>2, <2>3, WindowOfRead DEF Unchanged
  <2>4. ASSUME Unchanged(d, 1)
        PROVE  /\ PitRow(R, t).count1h = Cardinality(Others(t, Hour))
               /\ PitRow(R, t).count24h = Cardinality(Others(t, DayLength))
               /\ PitRow(R, t).sum1h = Total(Others(t, Hour))
               /\ PitRow(R, t).sum24h = Total(Others(t, DayLength))
    <3>1. 1 \in Nat /\ 1 <= Lookback /\ Hour <= 1 * DayLength /\ DayLength <= 1 * DayLength
      BY <1>1
    <3> QED BY <1>1, <2>3, <2>4, <3>1 DEF PitRow
  <2>5. ASSUME Unchanged(d, Lookback)
        PROVE  PitRow(R, t).count7d = Cardinality(Others(t, Lookback * DayLength))
    <3>1. Lookback \in Nat /\ Lookback * DayLength \in Nat
      BY <1>1, WindowsType
    <3> QED BY <1>1, <2>3, <2>5, <3>1 DEF PitRow
  <2> QED BY <2>2, <2>4, <2>5
<1> QED BY <1>3, <1>4

\* On the days that have not changed, what precedes a transaction in what the build has read
\* is its past.
LEMMA PastOfRead ==
  ASSUME TypeOK, NEW t \in staging, NEW R, built[DayOf(t)].depth \in {Lookback, LastDay},
         ReadOf(staging, R, DayOf(t), built[DayOf(t)].depth, built[DayOf(t)].since),
         Unchanged(DayOf(t), built[DayOf(t)].depth)
  PROVE  RowsBefore(R, t) = Past(t)
<1> DEFINE d == DayOf(t)
           n == built[d].depth
<1>1. /\ R \subseteq Transactions /\ staging \subseteq Transactions /\ t \in Transactions
      /\ n \in Nat /\ t.ts \in Nat /\ t.id \in Int /\ d \in Days
  BY PitFeaturesAssumption DEF ReadOf, TypeOK
<1>2. \A q \in Transactions : q.ts \in Nat /\ q.id \in Int /\ DayOf(q) \in Days
  BY PitFeaturesAssumption
<1>3. ASSUME NEW q \in Transactions, q.ts <= t.ts, d - DayOf(q) <= n
      PROVE  q \in R <=> q \in staging
  <2> DEFINE e == DayOf(q)
  <2>1. e \in Days /\ e <= d /\ d - e <= n
    BY <1>1, <1>2, <1>3, WindowDays
  <2>2. e \in d - n .. d
    BY <1>1, <2>1 DEF Days
  <2>3. e \notin built[d].since
    BY <2>2 DEF Unchanged
  <2>4. {r \in R : DayOf(r) = e} = {r \in staging : DayOf(r) = e}
    BY <2>1, <2>3 DEF ReadOf
  <2> QED BY <2>4
<1>4. ASSUME NEW q \in RowsBefore(R, t) PROVE q \in Past(t)
  <2>1. q \in R /\ q.user = t.user /\ (q.ts < t.ts \/ (q.ts = t.ts /\ q.id < t.id))
    BY <1>4 DEF RowsBefore
  <2>2. q.ts <= t.ts /\ q # t /\ (q.ts = t.ts => t.id > q.id)
    BY <1>1, <1>2, <2>1
  <2>3. d - DayOf(q) <= n
    BY <2>1 DEF ReadOf
  <2> QED BY <1>1, <1>3, <2>1, <2>2, <2>3 DEF Past
<1>5. ASSUME NEW q \in Past(t) PROVE q \in RowsBefore(R, t)
  <2>1. /\ q \in staging /\ q.user = t.user /\ q.ts <= t.ts /\ (q.ts = t.ts => t.id > q.id)
        /\ d - DayOf(q) <= n
    BY <1>5 DEF Past
  <2>2. q.ts < t.ts \/ (q.ts = t.ts /\ q.id < t.id)
    BY <1>1, <1>2, <2>1
  <2> QED BY <1>1, <1>3, <2>1, <2>2 DEF RowsBefore
<1> QED BY <1>4, <1>5

LEMMA Averages == TypeOK /\ PitInv => AverageOfPast
<1> SUFFICES ASSUME TypeOK, PitInv, NEW t \in staging, Unchanged(DayOf(t), built[DayOf(t)].depth),
                    NEW f \in RowOf(t), f.ratio # Null
             PROVE  /\ Past(t) # {}
                    /\ f.ratio[1] * Total(Past(t)) = t.amount * Cardinality(Past(t)) * f.ratio[2]
  BY DEF AverageOfPast
<1> DEFINE d == DayOf(t)
<1>1. d \in Days /\ built[d].depth \in Nat
  BY PitFeaturesAssumption DEF TypeOK
<1>2. d \notin built[d].since
  <2>1. d \in d - built[d].depth .. d
    BY <1>1 DEF Days
  <2> QED BY <2>1 DEF Unchanged
<1>3. PICK R : /\ features[d] = RowsOf(R, d)
               /\ ReadOf(staging, R, d, built[d].depth, built[d].since)
               /\ built[d].depth \in {Lookback, LastDay}
  BY <1>1, <1>2 DEF PitInv, BuiltInv
<1>4. RowOf(t) = {PitRow(R, t)}
  BY <1>2, <1>3, RowOfRead DEF PitInv
<1>5. RowsBefore(R, t) = Past(t)
  BY <1>3, PastOfRead
<1>6. f.ratio = Ratio(R, t)
  BY <1>4 DEF PitRow
<1>7. Past(t) # {} /\ Ratio(R, t) = <<t.amount * Cardinality(Past(t)), Total(Past(t))>>
  BY <1>5, <1>6 DEF Ratio
<1> QED BY <1>6, <1>7

\* Every transaction of a date whose rows were built, by whichever build and beside whichever
\* others, with the dates cleaned in any order and again, has its row; the row counts the
\* user's other transactions of its windows, never itself nor a later one, and stays so
\* until a date within the window is cleaned with other rows: for every set of transactions,
\* length of a day, windows and look-back.
THEOREM NeverInItsOwnWindow == Spec => []VelocityOfOthers
BY Velocities, PitAlways, PTL

\* Every ratio divides by the average of the user's transactions before, the transaction
\* itself and those that come later excluded, all those of the days that its build has read,
\* until one of those days is cleaned with other rows; of the transactions of one second each
\* counts in the average of the next only.
THEOREM AverageIsOfPast == Spec => []AverageOfPast
BY Averages, PitAlways, PTL
=============================================================================
