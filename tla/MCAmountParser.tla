--------------------------- MODULE MCAmountParser ---------------------------
(* Instances of AmountParser for TLC. *)
EXTENDS AmountParser

CONSTANTS
  Digits, MaxMarks,             \* bounds of the texts of one wording
  DigitsWorded, MaxMarksWorded  \* bounds of the texts of every wording

Bodies(digits, marks) ==
  UNION {{[digits |-> n, marks |-> m] :
            m \in {s \in UNION {[1 .. k -> [char : {"dot", "comma", "space"}, after : 0 .. n]] :
                                  k \in 0 .. marks} :
                     \A i, j \in DOMAIN s : i < j => s[i].after >= s[j].after}} :
         n \in digits}

Wordings ==
  {w \in [parens : BOOLEAN, minus : 0 .. 2, symbol : {"none", "front", "inner"},
          code : BOOLEAN, vnd : BOOLEAN] :
     /\ w.symbol = "inner" => w.parens \/ w.minus > 0
     /\ w.vnd => w.code \/ w.symbol # "none"}

\* "-77.00" and the same in VND
Plain == {w \in Wordings : ~w.parens /\ w.minus = 1 /\ w.symbol = "none" /\ (w.code <=> w.vnd)}

Worded(bodies, wordings) ==
  {[digits |-> b.digits, marks |-> b.marks, parens |-> w.parens, minus |-> w.minus,
    symbol |-> w.symbol, code |-> w.code, vnd |-> w.vnd] : b \in bodies, w \in wordings}

MCTexts ==
  UNION {{Null}, Worded(Bodies(Digits, MaxMarks), Plain),
         Worded(Bodies(DigitsWorded, MaxMarksWorded), Wordings)}
=============================================================================
