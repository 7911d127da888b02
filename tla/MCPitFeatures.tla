--------------------------- MODULE MCPitFeatures ---------------------------
(* Instances of PitFeatures for TLC: days of 4 time units, windows of 1, 4 and 4 * Lookback. *)
EXTENDS PitFeatures

MCTransactions ==
  {[id |-> 1, user |-> "u", ts |-> 0,  amount |-> 1],
   [id |-> 2, user |-> "u", ts |-> 4,  amount |-> -4],   \* a refund, a day later to the second,
   [id |-> 3, user |-> "u", ts |-> 4,  amount |-> 16],   \* and another transaction with it
   [id |-> 3, user |-> "w", ts |-> 7,  amount |-> 17],   \* the same, corrected
   [id |-> 4, user |-> "u", ts |-> 8,  amount |-> 36]}   \* the next day's first second
=============================================================================
