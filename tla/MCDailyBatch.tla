---------------------------- MODULE MCDailyBatch ----------------------------
(* Instance of DailyBatch for TLC.  Date 1 has one transaction at first, or two; the second    *)
(* may come late, and the first be corrected.  Date 2 has none: its run ingests date 1         *)
(* again, beside the run of date 1, and fails on its own missing partition.                    *)
EXTENDS DailyBatch, TLC

CONSTANTS
  a1, a2,    \* transaction a of date 1: invalid, and as the source corrects it
  b1         \* transaction b of date 1: invalid

MCRows == {a1, a2, b1}
MCId == a1 :> "a" @@ a2 :> "a" @@ b1 :> "b"
MCDayOf == [r \in MCRows |-> 1]
MCLoadedAt == a1 :> 1 @@ a2 :> 2 @@ b1 :> 1
MCAtFirst == {{a1}, {a1, b1}}
MCCorrections == {<<a1, a2>>}
=============================================================================
