------------------------------ MODULE MCSession --------------------------------
(***************************************************************************)
(* A session with two calls and two decisions, the second replacing the    *)
(* first.                                                                  *)
(***************************************************************************)
EXTENDS SessionProps, TLC

CONSTANTS d1, d2

MCReplaces == (d1 :> None) @@ (d2 :> d1)

===============================================================================
