---------------------------- MODULE PitFeatures ----------------------------
(***************************************************************************)
(* The point-in-time features: velocity counts and sums over the windows   *)
(* that end at a transaction, and its amount against the user's average.   *)
(* The daily build reads the days of the longest window, the full build    *)
(* everything.                                                             *)
(***************************************************************************)
EXTENDS Integers, FiniteSets, FiniteSetsExt

CONSTANTS
  Transactions,   \* valid rows: records [id, user, ts, amount]
  LastDay,
  Hour,           \* 3600 seconds
  DayLength,      \* 86400 seconds
  Lookback,       \* 7 days
  MaxLoads,       \* bound: cleanings of a date, all together
  MaxReading,     \* bound: builds at work at one time
  Null

Days == 1 .. LastDay
DayOf(t) == t.ts \div DayLength + 1

ASSUME PitFeaturesAssumption ==
  /\ LastDay \in Nat /\ DayLength \in Nat \ {0} /\ Lookback \in Nat \ {0}
  /\ Hour \in 1 .. DayLength
  /\ MaxLoads \in Nat /\ MaxReading \in Nat
  /\ IsFiniteSet(Transactions)
  /\ \A t \in Transactions :
       t.id \in Int /\ t.ts \in Nat /\ t.amount \in Int /\ DayOf(t) \in Days

\* The builds: one for each date, and that of all dates.
Full == 0
Builds == Days \cup {Full}

VARIABLES
  staging,    \* the transactions in staging
  reading,    \* of each build, what it has read; history: the dates changed since
  features,   \* the rows of each date's partition of feat_fraud_features
  built,      \* history: how many days back those rows were read, the dates changed since
  loads       \* bound: the cleanings so far

vars == <<staging, reading, features, built, loads>>
-----------------------------------------------------------------------------
(* _apply_pit_features *)

Total(S) == MapThenSumSet(LAMBDA q : q.amount, S)

\* rangeBetween(-range, currentRow): every row of the current second is in the frame.
FrameBothWays(S, t, range) == {q \in S : q.user = t.user /\ q.ts \in t.ts - range .. t.ts + range}
FrameOfEarlierSeconds(S, t, range) ==
  {q \in S : q.user = t.user /\ q.ts \in t.ts - range .. t.ts - 1}
Frame(S, t, range) == {q \in S : q.user = t.user /\ q.ts \in t.ts - range .. t.ts}

\* rowsBetween(unboundedPreceding, -1), ordered by second and id
RowsUpToCurrent(S, t) ==
  {q \in S : q.user = t.user /\ (q.ts < t.ts \/ (q.ts = t.ts /\ q.id <= t.id))}
RowsBefore(S, t) ==
  {q \in S : q.user = t.user /\ (q.ts < t.ts \/ (q.ts = t.ts /\ q.id < t.id))}

\* amount_vs_user_avg_ratio as a fraction
Ratio(S, t) ==
  LET past == RowsBefore(S, t)
  IN  IF past # {} /\ Total(past) > 0 THEN <<t.amount * Cardinality(past), Total(past)>> ELSE Null

PitRow(S, t) ==
  [id |-> t.id,
   count1h |-> Cardinality(Frame(S, t, Hour)) - 1,
   count24h |-> Cardinality(Frame(S, t, DayLength)) - 1,
   count7d |-> Cardinality(Frame(S, t, Lookback * DayLength)) - 1,
   sum1h |-> Total(Frame(S, t, Hour)) - t.amount,
   sum24h |-> Total(Frame(S, t, DayLength)) - t.amount,
   ratio |-> Ratio(S, t)]

RowsOf(S, d) == {PitRow(S, t) : t \in {q \in S : DayOf(q) = d}}

DaysRead(S, d) == {t \in S : DayOf(t) \in d - Lookback .. d}

\* Dynamic partition overwrite: a date without a row keeps its partition.
Overwritten(old, new) == IF new = {} THEN old ELSE new

Depth(b) == IF b = Full THEN LastDay ELSE Lookback
Written(b) == IF b = Full THEN Days ELSE {b}
Idle == [rows |-> {}, on |-> FALSE, since |-> {}]
NotBuilt == [depth |-> 0, since |-> Days]
-----------------------------------------------------------------------------
Init ==
  /\ staging = {}
  /\ reading = [b \in Builds |-> Idle]
  /\ features = [d \in Days |-> {}]
  /\ built = [d \in Days |-> NotBuilt]
  /\ loads = 0

\* The cleaning of a date, in any order and again when the date is cleared: it replaces the
\* date's rows, which are of different ids, by those that raw and quarantine now give.
LoadDay(d, S) ==
  LET of == {t \in staging : DayOf(t) = d}
      since(old) == IF Overwritten(of, S) = of THEN old ELSE old \cup {d}
  IN  /\ loads < MaxLoads /\ loads' = loads + 1
      /\ \A t \in S : DayOf(t) = d
      /\ \A t, q \in S : t.id = q.id => t = q
      /\ staging' = (staging \ of) \cup Overwritten(of, S)
      /\ reading' = [b \in Builds |-> IF reading[b].on THEN [reading[b] EXCEPT !.since = since(@)]
                                                     ELSE Idle]
      /\ built' = [e \in Days |-> [built[e] EXCEPT !.since = since(@)]]
      /\ UNCHANGED features

\* The files of the plan are listed once.
BuildReads(b) ==
  /\ ~reading[b].on /\ staging # {}
  /\ Cardinality({c \in Builds : reading[c].on}) < MaxReading
  /\ reading' = [reading EXCEPT ![b] =
       [rows |-> IF b = Full THEN staging ELSE DaysRead(staging, b), on |-> TRUE, since |-> {}]]
  /\ UNCHANGED <<staging, features, built, loads>>

\* The commit replaces the partitions of the dates that have rows, one by one: those of P,
\* and of the dates in lost it has removed the old one only.
Commit(b, P, lost) ==
  LET new == [d \in Days |-> IF d \in Written(b) THEN RowsOf(reading[b].rows, d) ELSE {}]
      at == [depth |-> Depth(b), since |-> reading[b].since]
  IN  /\ features' = [d \in Days |-> IF new[d] = {} THEN features[d]
                                    ELSE IF d \in lost THEN {}
                                    ELSE IF d \in P THEN new[d] ELSE features[d]]
      /\ built' = [d \in Days |-> IF new[d] = {} THEN built[d]
                                 ELSE IF d \in lost THEN NotBuilt
                                 ELSE IF d \in P THEN at ELSE built[d]]
      /\ reading' = [reading EXCEPT ![b] = Idle]
      /\ UNCHANGED <<staging, loads>>

BuildWrites(b) == reading[b].on /\ Commit(b, Written(b), {})

\* A file of the plan is gone, or the task dies, before or within its commit.
BuildFails(b) ==
  /\ reading[b].on
  /\ \E P \in SUBSET Written(b) : \E lost \in {{}} \cup {{d} : d \in Written(b) \ P} :
       Commit(b, P, lost)

Next ==
  \/ \E d \in Days, S \in SUBSET Transactions : LoadDay(d, S)
  \/ \E b \in Builds : BuildReads(b) \/ BuildWrites(b) \/ BuildFails(b)

Spec == Init /\ [][Next]_vars
-----------------------------------------------------------------------------
(* Properties *)

\* Every variable keeps its type; no count is negative.
TypeOK ==
  /\ staging \subseteq Transactions
  /\ DOMAIN features = Days /\ DOMAIN built = Days /\ DOMAIN reading = Builds
  /\ \A b \in Builds : reading[b] \in
       [rows : SUBSET Transactions, on : BOOLEAN, since : SUBSET Days]
  /\ \A d \in Days : built[d] \in [depth : {0, Lookback, LastDay}, since : SUBSET Days]
  /\ \A d \in Days : \A f \in features[d] :
       /\ f.count1h \in Nat /\ f.count24h \in Nat /\ f.count7d \in Nat
       /\ f.sum1h \in Int /\ f.sum24h \in Int
       /\ f.ratio = Null \/ f.ratio \in Int \X (Int \ {0})
  /\ loads \in 0 .. MaxLoads

\* No row of date d and of the n days before it has changed since d's features were read.
Unchanged(d, n) == (d - n .. d) \cap built[d].since = {}

RowOf(t) == {f \in features[DayOf(t)] : f.id = t.id}

\* The user's other transactions of the last `range` seconds.
Others(t, range) ==
  {q \in staging \ {t} : q.user = t.user /\ q.ts <= t.ts /\ t.ts - q.ts <= range}

\* "A transaction must NOT contribute to its own historical features", nor does a later one:
\* whichever build wrote a date last, beside which others and which cleanings, every
\* transaction of the date has its row, with the user's other transactions of the hour and
\* day before as long as the date and the day before it stay as read, and those of the week
\* before as long as the days of the look-back do. What happens to any other date is nothing
\* to the row.
VelocityOfOthers ==
  \A t \in staging : LET d == DayOf(t) IN
    /\ Unchanged(d, 0) => RowOf(t) # {}
    /\ \A f \in RowOf(t) :
         /\ Unchanged(d, 1) =>
              /\ f.count1h = Cardinality(Others(t, Hour))
              /\ f.count24h = Cardinality(Others(t, DayLength))
              /\ f.sum1h = Total(Others(t, Hour))
              /\ f.sum24h = Total(Others(t, DayLength))
         /\ Unchanged(d, Lookback) => f.count7d = Cardinality(Others(t, Lookback * DayLength))

\* The user's transactions before t on the days that the build of t's row has read; of two of
\* one second never both precede each other.
Past(t) ==
  {q \in staging \ {t} : /\ q.user = t.user /\ q.ts <= t.ts /\ (q.ts = t.ts => t.id > q.id)
                        /\ DayOf(t) - DayOf(q) <= built[DayOf(t)].depth}

\* "... user avg uses rowsBefore current only": a ratio compares the amount with the average
\* of the past that its build has read, as long as the days of that past stay as read.
AverageOfPast ==
  \A t \in staging : Unchanged(DayOf(t), built[DayOf(t)].depth) =>
    \A f \in RowOf(t) : f.ratio # Null =>
      /\ Past(t) # {}
      /\ f.ratio[1] * Total(Past(t)) = t.amount * Cardinality(Past(t)) * f.ratio[2]
=============================================================================
