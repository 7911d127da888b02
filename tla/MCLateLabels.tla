---------------------------- MODULE MCLateLabels ----------------------------
(* Instances of LateLabels for TLC. *)
EXTENDS LateLabelsStore, TLC

CONSTANTS t1, t2

\* One transaction of the history, one of the first audited day.
MCNewDay == t1 :> 0 @@ t2 :> 1
\* Two history partitions, so a restatement has two to work through.
MCFirstDay == 0 - 1
MCTwoPartitions == t1 :> MCFirstDay @@ t2 :> 0
=============================================================================
