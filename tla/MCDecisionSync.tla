---------------------------- MODULE MCDecisionSync ----------------------------
(***************************************************************************)
(* Small instances of DecisionSync: two decisions, the second of which     *)
(* replaces or archives the first, depends on it or contradicts it.        *)
(***************************************************************************)
EXTENDS DecisionSyncProps, DecisionRefinement, TLC

CONSTANTS d1, d2, p1, p2

Symmetric == Permutations(Proc)

Plain ==
  [ replaces |-> None, archives |-> None, dependsOn |-> {},
    conflictsWith |-> {}, anchorsDistinct |-> TRUE ]

\* A second decision that replaces the first: the pair every branch switch,
\* crash or stale pass can set at odds.
Replacing == {d1 :> Plain @@ d2 :> [Plain EXCEPT !.replaces = d1]}

\* As Replacing, with a file that names an anchor twice.
RepeatedAnchor ==
  {d1 :> Plain @@ d2 :> [Plain EXCEPT !.replaces = d1, !.anchorsDistinct = FALSE]}

\* As Replacing, with each decision declaring a conflict with the other, as
\* merged branches may.
Mutual ==
  {d1 :> [Plain EXCEPT !.conflictsWith = {d2}]
   @@ d2 :> [Plain EXCEPT !.conflictsWith = {d1}, !.replaces = d1]}

\* The second archives the first, which it depends on.
Archiving == {d1 :> Plain @@ d2 :> [Plain EXCEPT !.archives = d1, !.dependsOn = {d1}]}

\* Any of these pairs.
AnyPair == Replacing \union RepeatedAnchor \union Mutual \union Archiving

===============================================================================
