-------------------------- MODULE DecisionSyncHistory --------------------------
(***************************************************************************)
(* The decision store with a history variable: whether its processes have  *)
(* been left in peace so far.  What the cheap path of a reconcile relies   *)
(* on holds for as long as they are, whatever happens to the store later.  *)
(***************************************************************************)
EXTENDS DecisionSyncProps

VARIABLE calm

historyVars == <<vars, calm>>

\* No two processes are in the middle of a call.
OneCallAtATime ==
  \A p, q \in Proc : p # q => pc[p] = "idle" \/ pc[q] = "idle"

\* Every file there is parses and can be stored.
FilesAreSound ==
  \A d \in OnDisk : d \in Readable /\ file[d].anchorsDistinct

\* Calls do not overlap, files come and go between them only and are sound, and
\* no call is cut short. (A pass that gives up when it had nothing to change does
\* what its transaction would have done.)
CalmStep ==
  /\ OneCallAtATime'
  /\ FilesAreSound'
  /\ Surroundings => AtRest
  /\ \A p \in Proc : ~Crash(p) /\ (Busy(p) => Commit(p))

HistoryInit == Init /\ calm = TRUE
HistoryNext == Next /\ calm' = (calm /\ CalmStep)

HistorySpec == HistoryInit /\ [][HistoryNext]_historyVars

\* While calls do not overlap and none is cut short, the cheap path is sound over
\* every history of checkouts, merges and saves between them: a directory that
\* holds exactly the present decisions is mirrored by the whole store, edges and
\* statuses too (reconcile.ts, "drift detection is a set difference"). That calls
\* may overlap or fail later, or did so in another process, is no excuse before.
CalmNoDriftMeansMirrored == calm => NoDriftMeansMirrored

\* Nor does any decision at rest lack its anchors or its full-text row.
CalmRowsAreWhole == calm => RowsAreWhole

===============================================================================
