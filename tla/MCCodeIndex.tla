------------------------------ MODULE MCCodeIndex ------------------------------
(***************************************************************************)
(* Small instances of CodeIndex.                                           *)
(***************************************************************************)
EXTENDS CodeIndexProps, TLC

CONSTANTS p1, p2, f1, f2, c1, c2

===============================================================================
