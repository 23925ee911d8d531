--------------------------- MODULE MCDaemonElection ---------------------------
(***************************************************************************)
(* Small instances of DaemonElection.                                      *)
(***************************************************************************)
EXTENDS DaemonElectionProps

===============================================================================
