-------------------------- MODULE MCStagingWriters --------------------------
(* Instances of StagingWriters for TLC. *)
EXTENDS StagingWriters, TLC

CONSTANTS t1, t2    \* two transactions of one date, each in a batch of its own; t2 arrives later

MCEventDay == t1 :> 1 @@ t2 :> 1
MCYearOf == 1 :> 2018
MCFirstLabels == t1 :> 1 @@ t2 :> 1
MCBatchOf == t1 :> 0 @@ t2 :> 1
=============================================================================
