------------------------ MODULE AmountParser_proofs ------------------------
(***************************************************************************)
(* What the amount parser and the cleaning around it promise for texts of  *)
(* any length, with any marks, signs, symbols and codes.                   *)
(***************************************************************************)
EXTENDS AmountParser, FiniteSetTheorems, TLAPS
-----------------------------------------------------------------------------
(* Positions of marks *)

LEMMA MaxOfPositions ==
  ASSUME NEW n \in Nat, NEW S \in SUBSET (1 .. n), S # {}
  PROVE  Max(S) \in S /\ \A y \in S : Max(S) >= y
<1> DEFINE T == {n - x : x \in S}
<1>0. \A x \in S : x \in Int /\ n - x \in Nat
  OBVIOUS
<1>1. T \in SUBSET Nat /\ T # {}
  BY <1>0
<1>2. PICK m \in T : \A k \in T : ~(<<k, m>> \in OpToRel(<, Nat))
  <2> HIDE DEF T
  <2> QED BY <1>1, NatLessThanWellFounded, WFMin
<1>3. PICK x \in S : m = n - x
  BY <1>2
<1>4. \A y \in S : x >= y
  <2> SUFFICES ASSUME NEW y \in S PROVE ~(n - y < n - x)
    BY <1>0
  <2>1. n - y \in T /\ n - y \in Nat /\ n - x \in Nat
    BY <1>0
  <2> QED BY <1>2, <1>3, <2>1 DEF OpToRel
<1> QED BY <1>4 DEF Max

LEMMA MinOfTwo ==
  ASSUME NEW k \in Nat
  PROVE  Min({2, k}) \in 0 .. 2 /\ Min({2, k}) <= k
<1>1. \E x \in {2, k} : \A y \in {2, k} : x <= y
  <2>1. CASE k <= 2
    BY <2>1
  <2>2. CASE k > 2
    BY <2>2
  <2> QED BY <2>1, <2>2
<1>2. Min({2, k}) \in {2, k} /\ \A y \in {2, k} : Min({2, k}) <= y
  BY <1>1 DEF Min
<1> QED BY <1>2

\* What the constants say of a text.
Size(t) == Len(t.marks)
IsText(t) ==
  /\ t.digits \in Nat /\ Size(t) \in Nat /\ DOMAIN t.marks = 1 .. Size(t)
  /\ \A i \in DOMAIN t.marks :
       t.marks[i].char \in {"dot", "comma", "space"} /\ t.marks[i].after \in 0 .. t.digits
  /\ t.parens \in BOOLEAN /\ t.minus \in 0 .. 2 /\ t.vnd \in BOOLEAN

LEMMA TextType ==
  ASSUME NEW t \in Texts \ {Null}
  PROVE  IsText(t)
<1>1. /\ t.digits \in Nat /\ t.marks \in Seq(Marks)
      /\ \A i \in DOMAIN t.marks : t.marks[i].after <= t.digits
      /\ t.parens \in BOOLEAN /\ t.minus \in 0 .. 2 /\ t.vnd \in BOOLEAN
  BY AmountAssumption
<1>2. /\ Size(t) \in Nat /\ DOMAIN t.marks = 1 .. Size(t)
      /\ \A i \in DOMAIN t.marks : t.marks[i] \in Marks
  BY <1>1 DEF Size
<1>3. \A i \in DOMAIN t.marks : t.marks[i].char \in {"dot", "comma", "space"} /\ t.marks[i].after \in Nat
  BY <1>2 DEF Marks
<1>4. \A i \in DOMAIN t.marks : t.marks[i].after \in 0 .. t.digits
  BY <1>1, <1>3
<1> QED BY <1>1, <1>2, <1>3, <1>4 DEF IsText

LEMMA PositionsType ==
  ASSUME NEW t, IsText(t), NEW c
  PROVE  /\ Positions(t, c) \in SUBSET (1 .. Size(t)) /\ IsFiniteSet(Positions(t, c))
         /\ Cardinality(Positions(t, c)) \in Nat
         /\ Cardinality(Positions(t, c)) = 0 <=> Positions(t, c) = {}
         /\ Cardinality(Positions(t, c)) = 1 <=> \E i : Positions(t, c) = {i}
<1>1. Positions(t, c) \in SUBSET (1 .. Size(t))
  BY DEF Positions, IsText
<1>2. IsFiniteSet(1 .. Size(t))
  <2>1. Size(t) \in Int
    BY DEF IsText
  <2> QED BY <2>1, FS_Interval
<1>3. IsFiniteSet(Positions(t, c))
  BY <1>1, <1>2, FS_Subset
<1> QED BY <1>1, <1>3, FS_CardinalityType, FS_EmptySet, FS_Singleton

\* The digits that `point` leaves behind itself.
Decimals(t, point) ==
  IF Positions(t, point) = {} THEN 0 ELSE t.marks[Max(Positions(t, point))].after

LEMMA DecimalsType ==
  ASSUME NEW t, IsText(t), NEW point
  PROVE  Decimals(t, point) \in 0 .. t.digits
<1>1. CASE Positions(t, point) = {}
  <2>1. t.digits \in Nat
    BY DEF IsText
  <2> QED BY <1>1, <2>1 DEF Decimals
<1>2. CASE Positions(t, point) # {}
  <2>1. Size(t) \in Nat /\ Positions(t, point) \in SUBSET (1 .. Size(t))
    BY PositionsType DEF IsText
  <2>2. Max(Positions(t, point)) \in Positions(t, point)
    BY <1>2, <2>1, MaxOfPositions
  <2>3. t.marks[Max(Positions(t, point))].after \in 0 .. t.digits
    BY <2>2 DEF Positions, IsText
  <2> QED BY <1>2, <2>3 DEF Decimals
<1> QED BY <1>1, <1>2

LEMMA OnePosition ==
  ASSUME NEW t, IsText(t), NEW c, NEW i, Positions(t, c) = {i}
  PROVE  /\ Cardinality(Positions(t, c)) = 1
         /\ Decimals(t, c) = t.marks[i].after
<1>1. Max(Positions(t, c)) = i
  <2>1. Size(t) \in Nat /\ Positions(t, c) \in SUBSET (1 .. Size(t))
    BY PositionsType DEF IsText
  <2>2. Max(Positions(t, c)) \in Positions(t, c)
    BY <2>1, MaxOfPositions
  <2> QED BY <2>2
<1> QED BY <1>1, PositionsType DEF Decimals

LEMMA NoPosition ==
  ASSUME NEW t, IsText(t), NEW c, Positions(t, c) = {}
  PROVE  Cardinality(Positions(t, c)) = 0 /\ Decimals(t, c) = 0
BY PositionsType DEF Decimals

LEMMA NullIsNoMark ==
  ASSUME NEW t, IsText(t)
  PROVE  Positions(t, Null) = {}
BY AmountAssumption DEF Positions, IsText
-----------------------------------------------------------------------------
(* What the parser takes for the decimal point *)

Point(t) == Suggested(t)[2]

\* The decision table of the code, a line for each of its branches.
LEMMA SuggestedCases ==
  ASSUME NEW t, IsText(t)
  PROVE  LET dots == Positions(t, "dot")
             commas == Positions(t, "comma")
         IN  \/ dots = {} /\ commas = {} /\ Suggested(t) = <<"CLEAN", Null>>
             \/ /\ dots # {} /\ commas # {}
                /\ \/ Max(dots) > Max(commas) /\ Suggested(t) = <<"US", "dot">>
                   \/ ~(Max(dots) > Max(commas)) /\ Suggested(t) = <<"EU", "comma">>
             \/ /\ dots = {} \/ commas = {}
                /\ ThreeDecimals(t)
                /\ \/ Currency(t) = "VND" /\ Suggested(t) = <<"VN", Null>>
                   \/ Suggested(t) = <<"AMBIGUOUS", Null>>
             \/ /\ ~ThreeDecimals(t)
                /\ \/ commas = {} /\ Cardinality(dots) = 1 /\ Suggested(t) = <<"CLEAN", "dot">>
                   \/ dots = {} /\ Cardinality(commas) = 1 /\ Suggested(t) = <<"EU", "comma">>
                   \/ commas = {} /\ Cardinality(dots) > 1 /\ Suggested(t) = <<"VN", Null>>
                   \/ dots = {} /\ Cardinality(commas) > 1 /\ Suggested(t) = <<"US", Null>>
<1> DEFINE dots == Positions(t, "dot")
           commas == Positions(t, "comma")
<1>1. ThreeDecimals(t) => ~(dots = {} /\ commas = {}) /\ ~(dots # {} /\ commas # {})
  <2> SUFFICES ASSUME ThreeDecimals(t)
               PROVE  ~(dots = {} /\ commas = {}) /\ ~(dots # {} /\ commas # {})
    OBVIOUS
  <2>1. IsFiniteSet(Separators(t)) /\ Cardinality(Separators(t)) = 1
    <3>1. Size(t) \in Int /\ Separators(t) \in SUBSET (1 .. Size(t))
      BY DEF IsText, Separators
    <3>2. IsFiniteSet(1 .. Size(t))
      BY <3>1, FS_Interval
    <3> QED BY <3>1, <3>2, FS_Subset DEF ThreeDecimals, OneBeforeThree
  <2>2. PICK i : Separators(t) = {i}
    BY <2>1, FS_Singleton
  <2>3. dots \cup commas = {i} /\ dots \cap commas = {}
    BY <2>2 DEF Separators, Positions, IsText
  <2> HIDE DEF dots, commas
  <2> QED BY <2>3
<1>2. CASE dots = {} /\ commas = {}
  BY <1>1, <1>2 DEF Suggested
<1>3. CASE dots # {} /\ commas # {}
  BY <1>1, <1>3 DEF Suggested
<1>4. CASE ThreeDecimals(t)
  BY <1>1, <1>4 DEF Suggested
<1>5. CASE ~ThreeDecimals(t) /\ dots # {} /\ commas = {}
  <2>1. Cardinality(dots) \in Nat /\ Cardinality(dots) # 0 /\ Cardinality(commas) = 0
    BY <1>5, PositionsType
  <2> HIDE DEF dots, commas
  <2>2. Cardinality(dots) = 1 \/ (Cardinality(dots) > 1 /\ Cardinality(dots) # 1)
    BY <2>1
  <2>3. Suggested(t) = CASE Cardinality(dots) = 1 -> <<"CLEAN", "dot">>
                         [] Cardinality(commas) = 1 -> <<"EU", "comma">>
                         [] Cardinality(dots) > 1 -> <<"VN", Null>>
                         [] Cardinality(commas) > 1 -> <<"US", Null>>
    BY <1>5 DEF Suggested, dots, commas
  <2>4. \/ Cardinality(dots) = 1 /\ Suggested(t) = <<"CLEAN", "dot">>
        \/ Cardinality(dots) > 1 /\ Suggested(t) = <<"VN", Null>>
    <3>1. CASE Cardinality(dots) = 1
      BY <2>1, <2>3, <3>1
    <3>2. CASE Cardinality(dots) > 1 /\ Cardinality(dots) # 1
      BY <2>1, <2>3, <3>2
    <3> QED BY <2>2, <3>1, <3>2
  <2> QED BY <1>5, <2>4 DEF dots, commas
<1>6. CASE ~ThreeDecimals(t) /\ dots = {} /\ commas # {}
  <2>1. Cardinality(commas) \in Nat /\ Cardinality(commas) # 0 /\ Cardinality(dots) = 0
    BY <1>6, PositionsType
  <2> HIDE DEF dots, commas
  <2>2. Cardinality(commas) = 1 \/ (Cardinality(commas) > 1 /\ Cardinality(commas) # 1)
    BY <2>1
  <2>3. Suggested(t) = CASE Cardinality(dots) = 1 -> <<"CLEAN", "dot">>
                         [] Cardinality(commas) = 1 -> <<"EU", "comma">>
                         [] Cardinality(dots) > 1 -> <<"VN", Null>>
                         [] Cardinality(commas) > 1 -> <<"US", Null>>
    BY <1>6 DEF Suggested, dots, commas
  <2>4. \/ Cardinality(commas) = 1 /\ Suggested(t) = <<"EU", "comma">>
        \/ Cardinality(commas) > 1 /\ Suggested(t) = <<"US", Null>>
    <3>1. CASE Cardinality(commas) = 1
      BY <2>1, <2>3, <3>1
    <3>2. CASE Cardinality(commas) > 1 /\ Cardinality(commas) # 1
      BY <2>1, <2>3, <3>2
    <3> QED BY <2>2, <3>1, <3>2
  <2> QED BY <1>6, <2>4 DEF dots, commas
<1> QED BY <1>2, <1>3, <1>4, <1>5, <1>6
-----------------------------------------------------------------------------
(* Readings *)

\* How a text looks that some convention reads with d decimals: no mark but those between the
\* thousands, or one more at the end, before the decimals.
LEMMA ReadingForm ==
  ASSUME NEW t, IsText(t), NEW d \in Readings(t)
  PROVE  /\ t.digits \in Nat /\ t.digits > 0 /\ d \in 0 .. t.digits
         /\ \E group \in {"comma", "dot", "space"} :
              \/ /\ d = 0
                 /\ \A i \in DOMAIN t.marks : t.marks[i].char = group
                 /\ Size(t) = 1 => t.marks[1].after = 3
              \/ /\ d > 0 /\ ~t.vnd
                 /\ \E point \in {"dot", "comma"} \ {group} :
                      /\ Size(t) \in DOMAIN t.marks
                      /\ t.marks[Size(t)].char = point /\ t.marks[Size(t)].after = d
                      /\ \A i \in DOMAIN t.marks \ {Size(t)} : t.marks[i].char = group
<1>1. d \in 0 .. t.digits
  BY DEF Readings
<1>2. PICK group \in {"comma", "dot", "space"} :
        \E point \in {"dot", "comma"} : group # point /\ Reads(t, group, point, d)
  BY DEF Readings
<1>3. PICK point \in {"dot", "comma"} : group # point /\ Reads(t, group, point, d)
  BY <1>2
<1>4. t.digits \in Nat /\ Size(t) \in Nat /\ DOMAIN t.marks = 1 .. Size(t)
  BY DEF IsText
<1>5. t.digits > 0
  BY <1>3 DEF Reads
<1>6. CASE d = 0
  <2>1. \A i \in 1 .. Size(t) : t.marks[i] = [char |-> group, after |-> 3 * (Size(t) - i + 1)]
    BY <1>3, <1>6 DEF Reads, Size
  <2>2. Size(t) = 1 => t.marks[1].after = 3
    BY <2>1
  <2>3. ASSUME NEW i \in DOMAIN t.marks PROVE t.marks[i].char = group
    <3>1. i \in 1 .. Size(t)
      BY <1>4
    <3>2. \E n : t.marks[i] = [char |-> group, after |-> n]
      BY <2>1, <3>1
    <3> QED BY <3>2
  <2>4. d = 0 /\ (\A i \in DOMAIN t.marks : t.marks[i].char = group)
        /\ (Size(t) = 1 => t.marks[1].after = 3)
    BY <1>6, <2>2, <2>3
  <2> QED BY <1>1, <1>4, <1>5, <2>4
<1>7. CASE d > 0
  <2>1. /\ ~t.vnd /\ Size(t) > 0 /\ t.marks[Size(t)] = [char |-> point, after |-> d]
        /\ \A i \in 1 .. (Size(t) - 1) :
             t.marks[i] = [char |-> group, after |-> d + 3 * (Size(t) - 1 - i + 1)]
    BY <1>3, <1>7 DEF Reads, Size
  <2>2. Size(t) \in DOMAIN t.marks /\ DOMAIN t.marks \ {Size(t)} \in SUBSET (1 .. (Size(t) - 1))
    BY <1>4, <2>1
  <2>3. t.marks[Size(t)].char = point /\ t.marks[Size(t)].after = d
    BY <2>1
  <2>4. ASSUME NEW i \in DOMAIN t.marks \ {Size(t)} PROVE t.marks[i].char = group
    <3>1. \E n : t.marks[i] = [char |-> group, after |-> n]
      BY <2>1, <2>2
    <3> QED BY <3>1
  <2>5. point \in {"dot", "comma"} \ {group}
    BY <1>3
  <2> QED BY <1>1, <1>4, <1>5, <1>7, <2>1, <2>2, <2>3, <2>4, <2>5
<1> QED BY <1>1, <1>4, <1>6, <1>7

LEMMA VndCurrency ==
  ASSUME NEW t, Currency(t) = "VND"
  PROVE  t.vnd
BY AmountAssumption DEF Currency

\* A text of two kinds of separators: the last one is the decimal point.
LEMMA LastIsPoint ==
  ASSUME NEW t, IsText(t), NEW a, NEW b, a # b,
         Size(t) \in DOMAIN t.marks, t.marks[Size(t)].char = a,
         \A i \in DOMAIN t.marks \ {Size(t)} : t.marks[i].char = b
  PROVE  /\ Positions(t, a) = {Size(t)} /\ Positions(t, b) = DOMAIN t.marks \ {Size(t)}
         /\ \A c : c # a /\ c # b => Positions(t, c) = {}
         /\ Cardinality(Positions(t, a)) = 1 /\ Decimals(t, a) = t.marks[Size(t)].after
         /\ Positions(t, b) # {} => Max(Positions(t, a)) > Max(Positions(t, b))
<1>1. /\ Positions(t, a) = {Size(t)} /\ Positions(t, b) = DOMAIN t.marks \ {Size(t)}
      /\ \A c : c # a /\ c # b => Positions(t, c) = {}
  BY DEF Positions
<1>2. Cardinality(Positions(t, a)) = 1 /\ Decimals(t, a) = t.marks[Size(t)].after
  BY <1>1, OnePosition
<1>3. ASSUME Positions(t, b) # {} PROVE Max(Positions(t, a)) > Max(Positions(t, b))
  <2>1. Size(t) \in Nat /\ DOMAIN t.marks = 1 .. Size(t)
    BY DEF IsText
  <2>2. Positions(t, a) \in SUBSET (1 .. Size(t)) /\ Positions(t, b) \in SUBSET (1 .. Size(t))
    BY PositionsType
  <2>3. Max(Positions(t, a)) = Size(t)
    BY <1>1, <2>1, <2>2, MaxOfPositions
  <2>4. Max(Positions(t, b)) \in (1 .. Size(t)) \ {Size(t)}
    BY <1>1, <1>3, <2>1, <2>2, MaxOfPositions
  <2> QED BY <2>1, <2>3, <2>4
<1> QED BY <1>1, <1>2, <1>3

\* The heart of the parser: whenever it finds the text not ambiguous, its decimal point leaves
\* as many decimals as any convention that reads the text has.
LEMMA TakesTheReading ==
  ASSUME NEW t, IsText(t), NEW d \in Readings(t),
         Suggested(t)[1] # "AMBIGUOUS", ~LeftBehind(t)
  PROVE  /\ t.digits > 0 /\ d \in Nat
         /\ Cardinality(Positions(t, Point(t))) <= 1 /\ Decimals(t, Point(t)) = d
<1> DEFINE dots == Positions(t, "dot")
           commas == Positions(t, "comma")
           none == Positions(t, Null)
<1>1. t.digits \in Nat /\ t.digits > 0 /\ d \in Nat
  BY ReadingForm
<1>2. none = {} /\ Cardinality(none) = 0 /\ Decimals(t, Null) = 0
  BY NullIsNoMark, NoPosition
<1>3. Size(t) \in Nat /\ DOMAIN t.marks = 1 .. Size(t)
  BY DEF IsText
<1>4. ASSUME d = 0, NEW group \in {"comma", "dot", "space"},
             \A i \in DOMAIN t.marks : t.marks[i].char = group,
             Size(t) = 1 => t.marks[1].after = 3
      PROVE  Cardinality(Positions(t, Point(t))) <= 1 /\ Decimals(t, Point(t)) = d
  <2>1. Positions(t, group) = 1 .. Size(t) /\ \A c : c # group => Positions(t, c) = {}
    BY <1>3, <1>4 DEF Positions
  <2>2. dots = {} \/ commas = {}
    BY <2>1
  <2>3. Cardinality(1 .. Size(t)) = Size(t)
    <3>1. Size(t) \in Int /\ 1 \in Int
      BY <1>3
    <3>2. Cardinality(1 .. Size(t)) = IF 1 > Size(t) THEN 0 ELSE Size(t) - 1 + 1
      BY <3>1, FS_Interval
    <3> QED BY <1>3, <3>2
  <2>4. group # "space" /\ Size(t) = 1 => ThreeDecimals(t)
    <3> SUFFICES ASSUME group # "space", Size(t) = 1 PROVE OneBeforeThree(t)
      BY DEF ThreeDecimals
    <3>1. Separators(t) = {1}
      BY <1>3, <2>1 DEF Separators
    <3> QED BY <1>4, <3>1, FS_Singleton DEF OneBeforeThree
  <2>5. ~ThreeDecimals(t) => Cardinality(dots) # 1 /\ Cardinality(commas) # 1
    <3> SUFFICES ASSUME ~ThreeDecimals(t), NEW c \in {"dot", "comma"}
                 PROVE  Cardinality(Positions(t, c)) # 1
      OBVIOUS
    <3>1. CASE c = group
      BY <2>1, <2>3, <2>4, <3>1
    <3>2. CASE c # group
      BY <2>1, <3>2, FS_EmptySet
    <3> QED BY <3>1, <3>2
  <2> HIDE DEF dots, commas
  <2>6. Point(t) = Null
    BY <2>2, <2>5, SuggestedCases DEF Point, dots, commas
  <2> QED BY <1>2, <1>4, <2>6
<1>5. ASSUME d > 0, ~t.vnd, NEW group \in {"comma", "dot", "space"},
             NEW point \in {"dot", "comma"} \ {group}, Size(t) \in DOMAIN t.marks,
             t.marks[Size(t)].char = point, t.marks[Size(t)].after = d,
             \A i \in DOMAIN t.marks \ {Size(t)} : t.marks[i].char = group
      PROVE  Cardinality(Positions(t, Point(t))) <= 1 /\ Decimals(t, Point(t)) = d
  <2>1. /\ Positions(t, point) = {Size(t)} /\ Positions(t, group) = DOMAIN t.marks \ {Size(t)}
        /\ \A c : c # point /\ c # group => Positions(t, c) = {}
        /\ Cardinality(Positions(t, point)) = 1 /\ Decimals(t, point) = t.marks[Size(t)].after
        /\ Positions(t, group) # {} => Max(Positions(t, point)) > Max(Positions(t, group))
    BY <1>5, LastIsPoint
  <2>2. Currency(t) # "VND"
    BY <1>5, VndCurrency
  <2>3. Positions(t, point) # {}
    BY <2>1
  <2>4. Point(t) = point
    <3>1. CASE point = "dot"
      <4>1. dots # {} /\ Cardinality(dots) = 1
        BY <2>1, <3>1
      <4>2. commas # {} => Max(dots) > Max(commas)
        BY <2>1, <3>1
      <4>3. ~(1 > 1)
        OBVIOUS
      <4> HIDE DEF dots, commas
      <4>4. Suggested(t) \in {<<"US", "dot">>, <<"CLEAN", "dot">>}
        BY <2>2, <4>1, <4>2, <4>3, SuggestedCases DEF dots, commas
      <4> QED BY <3>1, <4>4 DEF Point
    <3>2. CASE point = "comma"
      <4>1. commas # {} /\ Cardinality(commas) = 1
        BY <2>1, <3>2
      <4>2. dots # {} => ~(Max(dots) > Max(commas))
        <5> SUFFICES ASSUME dots # {} PROVE ~(Max(dots) > Max(commas))
          OBVIOUS
        <5>1. group = "dot"
          BY <2>1, <3>2
        <5>2. Max(commas) > Max(dots)
          BY <2>1, <3>2, <5>1
        <5>3. Max(commas) \in Int /\ Max(dots) \in Int
          <6>1. /\ dots \in SUBSET (1 .. Size(t)) /\ commas \in SUBSET (1 .. Size(t))
                /\ commas # {} /\ dots # {}
            BY <4>1, PositionsType
          <6> HIDE DEF dots, commas
          <6>2. Max(commas) \in commas
            BY <1>3, <6>1, MaxOfPositions
          <6>3. Max(dots) \in dots
            BY <1>3, <6>1, MaxOfPositions
          <6>4. \A i \in 1 .. Size(t) : i \in Int
            OBVIOUS
          <6>5. Max(commas) \in 1 .. Size(t) /\ Max(dots) \in 1 .. Size(t)
            BY <6>1, <6>2, <6>3
          <6> QED BY <6>4, <6>5
        <5> QED BY <5>2, <5>3
      <4>3. ~(1 > 1)
        OBVIOUS
      <4> HIDE DEF dots, commas
      <4>4. Suggested(t) = <<"EU", "comma">>
        BY <2>2, <4>1, <4>2, <4>3, SuggestedCases DEF dots, commas
      <4> QED BY <3>2, <4>4 DEF Point
    <3> QED BY <3>1, <3>2
  <2>5. Cardinality(Positions(t, Point(t))) = 1
    BY <2>1, <2>4
  <2>6. Decimals(t, Point(t)) = d
    BY <1>5, <2>1, <2>4
  <2> QED BY <2>5, <2>6
<1>6. Cardinality(Positions(t, Point(t))) <= 1 /\ Decimals(t, Point(t)) = d
  BY <1>4, <1>5, ReadingForm
<1> QED BY <1>1, <1>6
-----------------------------------------------------------------------------
(* Rows *)

\* What parse_amount makes of a text, and the column's type of it.
LEMMA ParsedCases ==
  ASSUME NEW t \in Texts \ {Null}
  PROVE  \/ /\ Suggested(t)[1] # "AMBIGUOUS" /\ IsFloat(t, Point(t))
            /\ parse_amount(t) = [format |-> Suggested(t)[1], value |-> Float(t, Point(t))]
         \/ /\ Suggested(t)[1] = "AMBIGUOUS" \/ ~IsFloat(t, Point(t))
            /\ parse_amount(t) \in {Flagged("AMBIGUOUS"), Flagged("INVALID")}
BY DEF parse_amount, Point

LEMMA FloatType ==
  ASSUME NEW t \in Texts \ {Null}, NEW point
  PROVE  /\ Float(t, point) = [int |-> t.digits - Decimals(t, point),
                               frac |-> Decimals(t, point), negative |-> IsNegative(t)]
         /\ Float(t, point) \in [int : Nat, frac : Nat, negative : BOOLEAN]
         /\ Float(t, point) # Null
<1>1. IsText(t)
  BY TextType
<1>2. Decimals(t, point) \in 0 .. t.digits /\ t.digits \in Nat
  BY <1>1, DecimalsType DEF IsText
<1>3. IsNegative(t) \in BOOLEAN
  BY DEF IsNegative
<1>4. Float(t, point) = [int |-> t.digits - Decimals(t, point),
                         frac |-> Decimals(t, point), negative |-> IsNegative(t)]
  BY DEF Float, Decimals
<1>5. t.digits - Decimals(t, point) \in Nat /\ Decimals(t, point) \in Nat
  BY <1>2
<1>6. Float(t, point) \in [int : Nat, frac : Nat, negative : BOOLEAN]
  BY <1>3, <1>4, <1>5
<1>7. Float(t, point) \in [int : Int, frac : Int, negative : BOOLEAN]
  BY <1>6
<1> QED BY <1>4, <1>6, <1>7, AmountAssumption

LEMMA DecimalType ==
  ASSUME NEW v \in [int : Nat, frac : Nat, negative : BOOLEAN], v # Null
  PROVE  \/ v.int > IntegerDigits /\ AsDecimal(v) = Null
         \/ /\ v.int \in 0 .. IntegerDigits /\ AsDecimal(v) # Null
            /\ AsDecimal(v) = [int |-> v.int, frac |-> Min({2, v.frac}), negative |-> v.negative]
            /\ Min({2, v.frac}) \in 0 .. 2
<1> DEFINE w == [int |-> v.int, frac |-> Min({2, v.frac}), negative |-> v.negative]
<1>1. Min({2, v.frac}) \in 0 .. 2
  BY MinOfTwo
<1>2. CASE v.int > IntegerDigits
  BY <1>2 DEF AsDecimal
<1>3. CASE ~(v.int > IntegerDigits)
  <2>1. v.int \in 0 .. IntegerDigits
    BY <1>3, AmountAssumption
  <2>2. AsDecimal(v) = w
    BY <1>3 DEF AsDecimal
  <2>3. w \in [int : Int, frac : Int, negative : BOOLEAN]
    BY <1>1
  <2>4. w # Null
    <3> HIDE DEF w
    <3> QED BY <2>3, AmountAssumption
  <2> QED BY <1>1, <2>1, <2>2, <2>4
<1> QED BY <1>2, <1>3

\* The columns are those of the parser's answer, and the later ones follow from them.
RowInv ==
  /\ text \in Texts /\ complete \in BOOLEAN /\ at \in Steps
  /\ at = "raw" => row = Null
  /\ at # "raw" =>
       /\ row \in [format : Formats, amount : {AsDecimal(parse_amount(text).value)},
                   currency : {"VND", "other", Null}, is_refund : BOOLEAN, is_valid : BOOLEAN]
       /\ row.format = parse_amount(text).format
  /\ at \in {"flagged", "checked", "staged", "quarantined"} =>
       (row.is_refund <=> row.amount # Null /\ row.amount.negative)
  /\ at \in {"checked", "staged", "quarantined"} => (row.is_valid <=> IsValid(row))
  /\ at = "staged" => row.is_valid
  /\ at = "quarantined" => ~row.is_valid

LEMMA ParsedFormat ==
  ASSUME NEW t \in Texts
  PROVE  parse_amount(t).format \in Formats
<1>1. CASE t = Null
  BY <1>1 DEF parse_amount, Flagged, Formats
<1>2. CASE t # Null
  <2>1. Suggested(t)[1] \in Formats
    BY <1>2, TextType, SuggestedCases DEF Formats
  <2> QED BY <1>2, <2>1, ParsedCases DEF Flagged, Formats
<1> QED BY <1>1, <1>2

LEMMA InitRow == Init => RowInv
BY DEF Init, RowInv, Steps

LEMMA NextRow == RowInv /\ [Next]_vars => RowInv'
<1> SUFFICES ASSUME RowInv, [Next]_vars PROVE RowInv'
  OBVIOUS
<1>1. CASE apply_amount_parser
  <2>1. parse_amount(text).format \in Formats
    BY ParsedFormat DEF RowInv
  <2>2. (IF text = Null THEN Null ELSE Currency(text)) \in {"VND", "other", Null}
    BY DEF Currency
  <2>3. /\ row'.format = parse_amount(text).format
        /\ row' \in [format : Formats, amount : {AsDecimal(parse_amount(text).value)},
                     currency : {"VND", "other", Null}, is_refund : BOOLEAN, is_valid : BOOLEAN]
    BY <1>1, <2>1, <2>2 DEF apply_amount_parser
  <2> QED BY <1>1, <2>3 DEF apply_amount_parser, RowInv, Steps
<1>2. CASE flag_refund
  BY <1>2 DEF flag_refund, RowInv, Steps
<1>3. CASE build_is_valid
  <2>1. IsValid(row) \in BOOLEAN
    BY DEF IsValid, RowInv
  <2> QED BY <1>3, <2>1 DEF build_is_valid, RowInv, Steps, IsValid
<1>4. CASE Split
  BY <1>4 DEF Split, RowInv, Steps, IsValid
<1>5. CASE UNCHANGED vars
  BY <1>5 DEF vars, RowInv, IsValid
<1> QED BY <1>1, <1>2, <1>3, <1>4, <1>5 DEF Next

LEMMA RowAlways == Spec => []RowInv
BY InitRow, NextRow, PTL DEF Spec

\* The amount of a row, from what the parser took for the point of its text.
LEMMA AmountOfRow ==
  ASSUME RowInv, at # "raw", text # Null, row.amount # Null
  PROVE  /\ text \in Texts \ {Null} /\ IsText(text)
         /\ Suggested(text)[1] # "AMBIGUOUS" /\ IsFloat(text, Point(text))
         /\ row.amount = [int |-> text.digits - Decimals(text, Point(text)),
                          frac |-> Min({2, Decimals(text, Point(text))}),
                          negative |-> IsNegative(text)]
         /\ row.amount.int \in 0 .. IntegerDigits /\ row.amount.frac \in 0 .. 2
<1> DEFINE v == Float(text, Point(text))
<1>1. text \in Texts \ {Null} /\ IsText(text)
  BY TextType DEF RowInv
<1>2. row.amount = AsDecimal(parse_amount(text).value)
  BY DEF RowInv
<1>3. parse_amount(text).value # Null
  BY <1>2 DEF AsDecimal
<1>4. /\ Suggested(text)[1] # "AMBIGUOUS" /\ IsFloat(text, Point(text))
      /\ parse_amount(text).value = v
  BY <1>1, <1>3, ParsedCases DEF Flagged
<1>5. /\ v = [int |-> text.digits - Decimals(text, Point(text)),
              frac |-> Decimals(text, Point(text)), negative |-> IsNegative(text)]
      /\ v \in [int : Nat, frac : Nat, negative : BOOLEAN] /\ v # Null
  BY <1>1, FloatType
<1>6. /\ v.int = text.digits - Decimals(text, Point(text))
      /\ v.frac = Decimals(text, Point(text)) /\ v.negative = IsNegative(text)
  BY <1>5
<1> HIDE DEF v
<1>7. /\ v.int \in 0 .. IntegerDigits /\ Min({2, v.frac}) \in 0 .. 2
      /\ row.amount = [int |-> v.int, frac |-> Min({2, v.frac}), negative |-> v.negative]
  BY <1>2, <1>4, <1>5, DecimalType
<1> QED BY <1>1, <1>4, <1>6, <1>7

\* Types, for every text: an amount fits its column, and staging holds no row without one.
THEOREM AmountTypeCorrect == Spec => []TypeOK
<1>1. RowInv => TypeOK
  <2> SUFFICES ASSUME RowInv PROVE TypeOK
    OBVIOUS
  <2>1. CASE at = "raw"
    BY <2>1 DEF RowInv, TypeOK
  <2>2. CASE at # "raw"
    <3>1. row.amount = Null \/ (row.amount.int \in 0 .. IntegerDigits /\ row.amount.frac \in 0 .. 2)
      <4>1. CASE text = Null
        <5>1. row.amount = Null
          BY <2>2, <4>1 DEF RowInv, parse_amount, Flagged, AsDecimal
        <5> QED BY <5>1
      <4>2. CASE text # Null
        BY <2>2, <4>2, AmountOfRow
      <4> QED BY <4>1, <4>2
    <3>2. at = "staged" => row.amount # Null
      BY <2>2 DEF RowInv, IsValid
    <3> QED BY <2>2, <3>1, <3>2 DEF RowInv, TypeOK
  <2> QED BY <2>1, <2>2
<1> QED BY <1>1, RowAlways, PTL

\* "Never correct when not certain": for texts of any length and any marks, an amount that a
\* row gets is the reading of every convention that reads its text.
THEOREM ParserNeverGuesses == Spec => []NeverGuesses
<1>1. RowInv => NeverGuesses
  <2> SUFFICES ASSUME RowInv, at # "raw", text # Null, Readings(text) # {}, row.amount # Null
               PROVE  \E d \in Readings(text) :
                        /\ Readings(text) = {d}
                        /\ row.amount.int = text.digits - d /\ row.amount.frac = Min({2, d})
    BY DEF NeverGuesses
  <2>1. /\ IsText(text) /\ Suggested(text)[1] # "AMBIGUOUS" /\ ~LeftBehind(text)
        /\ row.amount.int = text.digits - Decimals(text, Point(text))
        /\ row.amount.frac = Min({2, Decimals(text, Point(text))})
    <3>1. /\ IsText(text) /\ Suggested(text)[1] # "AMBIGUOUS" /\ IsFloat(text, Point(text))
          /\ row.amount = [int |-> text.digits - Decimals(text, Point(text)),
                           frac |-> Min({2, Decimals(text, Point(text))}),
                           negative |-> IsNegative(text)]
      BY AmountOfRow
    <3>2. ~LeftBehind(text)
      BY <3>1 DEF IsFloat, IsStripped
    <3> QED BY <3>1, <3>2
  <2>2. \A d \in Readings(text) : d = Decimals(text, Point(text))
    BY <2>1, TakesTheReading
  <2> QED BY <2>1, <2>2
<1> QED BY <1>1, RowAlways, PTL

\* The caution has its limit: for texts of any length, a complete row with a regular text that
\* some convention reads is staged, unless it is too wide or has its only separator before
\* three last digits.
THEOREM ReadTextsAreStaged == Spec => []OneReadingIsStaged
<1>1. RowInv => OneReadingIsStaged
  <2> SUFFICES ASSUME RowInv, at = "quarantined", complete, text # Null, Regular(text),
                      NEW d \in Readings(text), ~(text.digits - d > IntegerDigits),
                      ~OneBeforeThree(text)
               PROVE  FALSE
    BY DEF OneReadingIsStaged
  <2>1. text \in Texts \ {Null} /\ IsText(text) /\ text \in Texts
    BY TextType DEF RowInv
  <2>2. IsStripped(text) /\ ~LeftBehind(text) /\ SignsLeft(text) <= 1
    BY <2>1 DEF Regular, IsStripped, SignsLeft, IsText
  <2>3. Suggested(text)[1] \in {"US", "EU", "CLEAN", "VN"}
    <3>1. ~ThreeDecimals(text)
      BY DEF ThreeDecimals
    <3> QED BY <2>1, <3>1, SuggestedCases
  <2>4. /\ text.digits > 0
        /\ Cardinality(Positions(text, Point(text))) <= 1 /\ Decimals(text, Point(text)) = d
    BY <2>1, <2>2, <2>3, TakesTheReading
  <2>5. IsFloat(text, Point(text))
    BY <2>2, <2>4 DEF IsFloat
  <2> DEFINE v == Float(text, Point(text))
  <2>6. parse_amount(text) = [format |-> Suggested(text)[1], value |-> v]
    BY <2>1, <2>3, <2>5, ParsedCases
  <2>7. v \in [int : Nat, frac : Nat, negative : BOOLEAN] /\ v # Null /\ v.int = text.digits - d
    BY <2>1, <2>4, FloatType
  <2> HIDE DEF v
  <2>8. AsDecimal(v) # Null
    BY <2>7, DecimalType
  <2>9. row.amount # Null /\ row.format \in {"US", "EU", "CLEAN", "VN"} /\ ~IsValid(row)
    BY <2>3, <2>6, <2>8 DEF RowInv
  <2> QED BY <2>9 DEF IsValid
<1> QED BY <1>1, RowAlways, PTL

\* The sign survives, for texts of any length: a regular text in staging is a refund iff it
\* has a minus sign or parentheses.
THEOREM RefundsAreNegative == Spec => []RefundIsNegative
<1>1. RowInv => RefundIsNegative
  <2> SUFFICES ASSUME RowInv, at = "staged", Regular(text)
               PROVE  row.is_refund <=> text.minus = 1 \/ text.parens
    BY DEF RefundIsNegative
  <2>1. row.amount # Null
    BY DEF RowInv, IsValid
  <2>2. text # Null
    BY <2>1 DEF RowInv, parse_amount, Flagged, AsDecimal
  <2>3. row.is_refund <=> row.amount.negative
    BY <2>1 DEF RowInv
  <2>4. row.amount.negative = IsNegative(text) /\ IsText(text)
    BY <2>1, <2>2, AmountOfRow
  <2>5. IsNegative(text) <=> text.minus = 1 \/ text.parens
    BY <2>4 DEF IsNegative, SignsLeft, Regular, IsText
  <2> QED BY <2>3, <2>4, <2>5
<1> QED BY <1>1, RowAlways, PTL
=============================================================================
