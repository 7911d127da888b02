--------------------------- MODULE LateLabelsStore ---------------------------
(* LateLabels seen as the abstract store: staging holds the labels, the manifest the   *)
(* lists, and a change is APPLIED when the ledger has a row of it.                     *)
EXTENDS LateLabels

appliedIds == {id \in ChangeId : ledger[id] > 0}

Store == INSTANCE LabelStore
  WITH Days <- KDays, Unknown <- "null",
       label <- staging, listed <- manifest, applied <- appliedIds

\* The pipeline implements the store: each step, crash and re-run of it is a step of the
\* store or none, so no reader of staging and ledger sees a label without a listed change,
\* or an APPLIED row without its label.
StoreSpec == Store!Spec
=============================================================================
