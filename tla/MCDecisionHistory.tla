--------------------------- MODULE MCDecisionHistory ---------------------------
(***************************************************************************)
(* The small instances of MCDecisionSync, for DecisionSyncHistory.         *)
(***************************************************************************)
EXTENDS MCDecisionSync, DecisionSyncHistory

===============================================================================
