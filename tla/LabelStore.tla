----------------------------- MODULE LabelStore ------------------------------
(***************************************************************************)
(* What the late-label pipeline promises to a reader of staging and of the *)
(* ledger, with no runs, tasks or failures in it: labels appear once, move *)
(* only to the label of a listed change that is not yet APPLIED, and a     *)
(* change becomes APPLIED once, when the labels show it.                   *)
(***************************************************************************)
CONSTANTS Txns, Days, ChangeTypes, Known, Unknown, Absent

VARIABLES
  label,    \* the label of each transaction, Absent before it is loaded
  listed,   \* the changes listed for each knowledge date
  applied   \* the keys of the changes the ledger calls APPLIED

vars == <<label, listed, applied>>

Row == Known \cup {Unknown, Absent}
Change == [txn : Txns, type : ChangeTypes, new : Known \cup {Unknown}]
Key(d, c) == <<d, c.txn, c.type>>
Open(d) == {c \in listed[d] : Key(d, c) \notin applied}

Init ==
  /\ label \in [Txns -> Row]
  /\ listed = [d \in Days |-> {}]
  /\ applied = {}

\* Transactions are loaded with the label known then.
Reveal ==
  /\ label' \in [Txns -> Row]
  /\ \A t \in Txns : label[t] # Absent => label'[t] = label[t]
  /\ UNCHANGED <<listed, applied>>

\* The list of one knowledge date is replaced.
List(d) ==
  /\ listed' \in [Days -> SUBSET Change]
  /\ \A e \in Days \ {d} : listed'[e] = listed[e]
  /\ UNCHANGED <<label, applied>>

\* Some of a date's open changes take effect, together; an unknown label is no effect.
Relabel(d) ==
  /\ \E S \in SUBSET Open(d) :
       label' = [t \in Txns |-> IF \E c \in S : c.txn = t
                                THEN (CHOOSE c \in S : c.txn = t).new ELSE label[t]]
  /\ \A t \in Txns : label'[t] # label[t] => label'[t] \in Known
  /\ UNCHANGED <<listed, applied>>

\* Open changes that have taken effect become APPLIED.
Record(d) ==
  /\ \E S \in SUBSET Open(d) :
       /\ \A c \in S : c.new \in Known => label[c.txn] = c.new
       /\ applied' = applied \cup {Key(d, c) : c \in S}
  /\ UNCHANGED <<label, listed>>

Next == Reveal \/ \E d \in Days : List(d) \/ Relabel(d) \/ Record(d)

Spec == Init /\ [][Next]_vars
=============================================================================
