-------------------------- MODULE DecisionRefinement --------------------------
(***************************************************************************)
(* DecisionSync implements DecisionMirror: the rows are the abstract store, *)
(* and everything else - disk, passes, crashes - is hidden.                *)
(***************************************************************************)
EXTENDS DecisionSync

Mirror ==
  INSTANCE DecisionMirror
    WITH Decision <- Decision, None <- None, Contents <- Contents, file <- file,
         stored <- stored, present <- present, status <- status, edges <- edges

\* Every behaviour of the store, under every fault, is one of the abstract
\* store: a save records its decision, a reconcile adopts what some set of
\* files declares all at once, and no other step changes a row.
ImplementsMirror == Mirror!Spec

===============================================================================
