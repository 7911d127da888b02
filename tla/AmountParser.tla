---------------------------- MODULE AmountParser ----------------------------
(***************************************************************************)
(* The amount of a transaction, from the text of the source to staging or  *)
(* quarantine: parse_amount and the steps of clean_transactions that use   *)
(* what it finds.                                                          *)
(*                                                                         *)
(* A text is its digits, none of them zero, and the marks between them.    *)
(* Every reading keeps the digits and only sets the decimal point, so a    *)
(* number is how many digits stand before and behind the point.            *)
(***************************************************************************)
EXTENDS Integers, FiniteSets, Sequences, FiniteSetsExt

CONSTANTS
  Texts,           \* the amounts of the source's rows
  IntegerDigits,   \* 16, those of DECIMAL(18,2)
  Null

Marks == [char : {"dot", "comma", "space"}, after : Nat]   \* `after`: the digits to its right

Formats == {"US", "EU", "CLEAN", "VN", "AMBIGUOUS", "INVALID"}
Steps == {"raw", "parsed", "flagged", "checked", "staged", "quarantined"}

ASSUME AmountAssumption ==
  /\ IntegerDigits \in Nat
  /\ Null \notin {"dot", "comma", "space", "VND", "other"}
  /\ Null \notin [int : Int, frac : Int, negative : BOOLEAN]
  /\ \A t \in Texts \ {Null} :
       /\ t.digits \in Nat
       /\ t.marks \in Seq(Marks)
       /\ \A i \in DOMAIN t.marks : t.marks[i].after <= t.digits
       /\ \A i, j \in DOMAIN t.marks : i < j => t.marks[i].after >= t.marks[j].after
       /\ t.parens \in BOOLEAN                      \* around everything but the code
       /\ t.minus \in 0 .. 2                        \* minus signs, inside the parentheses
       /\ t.symbol \in {"none", "front", "inner"}   \* a symbol, in front or behind a sign
       /\ t.code \in BOOLEAN                        \* a code like VND, as a word
       /\ t.vnd \in BOOLEAN                         \* the one that is taken off is of VND
       /\ t.symbol = "inner" => t.parens \/ t.minus > 0
       /\ t.vnd => t.code \/ t.symbol # "none"

VARIABLES
  text,       \* the amount of a raw row
  complete,   \* whether its id, date and user are not null
  row,        \* its columns so far
  at          \* what has been done with it

vars == <<text, complete, row, at>>
-----------------------------------------------------------------------------
(* parse_amount *)

Currency(t) ==
  IF t.symbol = "front" \/ t.code THEN IF t.vnd THEN "VND" ELSE "other" ELSE Null

\* Only one currency is taken off, a symbol only at the very front, and first.
LeftBehind(t) == t.symbol = "front" /\ t.code
IsStripped(t) == ~LeftBehind(t) /\ t.symbol # "inner"

\* One sign is taken off; float() accepts one more.
SignsLeft(t) == IF t.parens \/ t.minus = 0 THEN t.minus ELSE t.minus - 1
MinusOnly(t) == t.minus = 1
IsNegative(t) == (t.parens \/ t.minus > 0) # (SignsLeft(t) = 1)

\* Where the marks c are, and the marks that remain when spaces are removed.
Positions(t, c) == {i \in DOMAIN t.marks : t.marks[i].char = c}
Separators(t) == DOMAIN t.marks \ Positions(t, "space")

\* float() of the text whose separators other than `point` are removed.
IsFloat(t, point) ==
  IsStripped(t) /\ SignsLeft(t) <= 1 /\ t.digits > 0 /\ Cardinality(Positions(t, point)) <= 1
Float(t, point) ==
  LET decimals == IF Positions(t, point) = {} THEN 0
                  ELSE t.marks[Max(Positions(t, point))].after
  IN  [int |-> t.digits - decimals, frac |-> decimals, negative |-> IsNegative(t)]

\* One separator, and three digits behind it; decimal_len = 3 counts a code that was left
\* behind as well.
OneBeforeThree(t) ==
  Cardinality(Separators(t)) = 1 /\ \A i \in Separators(t) : t.marks[i].after = 3
ThreeAfterDot(t) == OneBeforeThree(t) /\ Positions(t, "dot") # {} /\ ~LeftBehind(t)
ThreeOrMoreDecimals(t) ==
  /\ Cardinality(Separators(t)) = 1 /\ \A i \in Separators(t) : t.marks[i].after >= 3
  /\ ~LeftBehind(t)
ThreeDecimals(t) == OneBeforeThree(t) /\ ~LeftBehind(t)

\* The format that the separators suggest, and the decimal point it takes them to have.
Suggested(t) ==
  LET dots == Positions(t, "dot")
      commas == Positions(t, "comma")
  IN  CASE dots = {} /\ commas = {} -> <<"CLEAN", Null>>
        [] dots # {} /\ commas # {} ->
             IF Max(dots) > Max(commas) THEN <<"US", "dot">> ELSE <<"EU", "comma">>
        [] ThreeDecimals(t) -> IF Currency(t) = "VND" THEN <<"VN", Null>> ELSE <<"AMBIGUOUS", Null>>
        [] OTHER -> CASE Cardinality(dots) = 1 -> <<"CLEAN", "dot">>
                      [] Cardinality(commas) = 1 -> <<"EU", "comma">>
                      [] Cardinality(dots) > 1 -> <<"VN", Null>>
                      [] Cardinality(commas) > 1 -> <<"US", Null>>

Flagged(format) == [format |-> format, value |-> Null]

\* Null stands for no text, a blank one and the placeholders.
parse_amount(t) ==
  IF t = Null THEN Flagged("INVALID")
  ELSE LET s == Suggested(t)
       IN  IF s[1] # "AMBIGUOUS" /\ IsFloat(t, s[2])
           THEN [format |-> s[1], value |-> Float(t, s[2])]
           ELSE Flagged(IF ThreeDecimals(t) THEN "AMBIGUOUS" ELSE "INVALID")

\* cast(DecimalType(18,2)): NULL beyond its width, and rounded to two decimals.
AsDecimal(v) ==
  IF v = Null \/ v.int > IntegerDigits THEN Null ELSE [v EXCEPT !.frac = Min({2, @})]
-----------------------------------------------------------------------------
(* clean_transactions *)

Init ==
  /\ text \in Texts
  /\ complete \in BOOLEAN
  /\ row = Null
  /\ at = "raw"

apply_amount_parser ==
  /\ at = "raw"
  /\ LET r == parse_amount(text)
     IN  row' = [format |-> r.format, amount |-> AsDecimal(r.value),
                 currency |-> IF text = Null THEN Null ELSE Currency(text),
                 is_refund |-> FALSE, is_valid |-> FALSE]
  /\ at' = "parsed"
  /\ UNCHANGED <<text, complete>>

flag_refund ==
  /\ at = "parsed"
  /\ row' = [row EXCEPT !.is_refund = row.amount # Null /\ row.amount.negative]
  /\ at' = "flagged"
  /\ UNCHANGED <<text, complete>>

ValidByFormat(r) == complete /\ r.format \notin {"AMBIGUOUS", "INVALID"}
IsValid(r) == complete /\ r.amount # Null /\ r.format \notin {"AMBIGUOUS", "INVALID"}

build_is_valid ==
  /\ at = "flagged"
  /\ row' = [row EXCEPT !.is_valid = IsValid(row)]
  /\ at' = "checked"
  /\ UNCHANGED <<text, complete>>

Split ==
  /\ at = "checked"
  /\ at' = IF row.is_valid THEN "staged" ELSE "quarantined"
  /\ UNCHANGED <<text, complete, row>>

Next == apply_amount_parser \/ flag_refund \/ build_is_valid \/ Split

Spec == Init /\ [][Next]_vars
-----------------------------------------------------------------------------
(* The readings of a text, independently of the parser *)

\* With `group` between the thousands and `point` before the decimals, the last d digits are
\* decimals: every group but the first has three digits.  VND has no decimals.
Reads(t, group, point, d) ==
  LET last == Len(t.marks)
      groups == IF d = 0 THEN last ELSE last - 1
  IN  /\ t.digits > 0
      /\ d > 0 => ~t.vnd /\ last > 0 /\ t.marks[last] = [char |-> point, after |-> d]
      /\ \A i \in 1 .. groups : t.marks[i] = [char |-> group, after |-> d + 3 * (groups - i + 1)]
      /\ groups > 0 => t.digits - d - 3 * groups \in 1 .. 3

\* The conventions "1,234.56", "1.234,56", "1 234.56" and "1 234,56", with or without groups.
Readings(t) ==
  {d \in 0 .. t.digits :
     \E group \in {"comma", "dot", "space"}, point \in {"dot", "comma"} :
       group # point /\ Reads(t, group, point, d)}

\* The currency stands where the parser looks for it, and there is one sign at most.
Regular(t) ==
  IsStripped(t) /\ (t.minus = 0 \/ (t.minus = 1 /\ ~t.parens))
-----------------------------------------------------------------------------
(* Properties *)

\* Every variable keeps its type, and no row of staging is without an amount.
TypeOK ==
  /\ complete \in BOOLEAN
  /\ at \in Steps
  /\ IF at = "raw" THEN row = Null
     ELSE /\ row.format \in Formats
          /\ row.amount = Null \/ (row.amount.int \in 0 .. IntegerDigits /\ row.amount.frac \in 0 .. 2)
          /\ row.currency \in {"VND", "other", Null}
          /\ row.is_refund \in BOOLEAN /\ row.is_valid \in BOOLEAN
  /\ at = "staged" => row.amount # Null

\* "Never correct when not certain" (amount_parser.py): a text that is written as some
\* convention has it gets an amount only if all conventions agree on it, and gets that one.
NeverGuesses ==
  (at # "raw" /\ text # Null /\ Readings(text) # {} /\ row.amount # Null) =>
    \E d \in Readings(text) :
      /\ Readings(text) = {d}
      /\ row.amount.int = text.digits - d /\ row.amount.frac = Min({2, d})

\* The caution has its limit: a complete row whose text some convention reads, within the
\* width of the column, reaches staging, unless it has one separator before three last digits.
OneReadingIsStaged ==
  (at = "quarantined" /\ complete /\ text # Null /\ Regular(text)) =>
    \A d \in Readings(text) :
      \/ text.digits - d > IntegerDigits
      \/ OneBeforeThree(text)

\* A row of staging is a refund iff its text has a minus sign, behind its symbol or not, or
\* is in parentheses.
RefundIsNegative ==
  (at = "staged" /\ Regular(text)) => (row.is_refund <=> text.minus = 1 \/ text.parens)
=============================================================================
