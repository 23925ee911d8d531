---------------------------- MODULE MCStoreOpening ----------------------------
(***************************************************************************)
(* Small instances of StoreOpening: an old store with a decision that      *)
(* replaces another.                                                       *)
(***************************************************************************)
EXTENDS StoreOpeningProps, TLC

CONSTANTS p1, p2, d1, d2

\* A branch without decisions and one with both.
Branches == {{}, Decision}

Replacement == d1 :> None @@ d2 :> d1

===============================================================================
