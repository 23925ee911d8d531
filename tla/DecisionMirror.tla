---------------------------- MODULE DecisionMirror ----------------------------
(***************************************************************************)
(* What the decision store promises, with no processes, files or crashes:  *)
(* decisions are recorded and never forgotten, and edges, statuses and     *)
(* presence are replaced all at once by what some set of files declares.   *)
(* DecisionSync implements it.                                             *)
(***************************************************************************)
EXTENDS DecisionLinks

CONSTANT
  Contents \* the possible assignments of a file content to every id

VARIABLES
  file,    \* file[d]: what the write-once file of d says
  stored,  \* decisions the store knows
  present, \* those flagged as carried by the checked-out branch
  status,  \* status[d]: active, replaced or archived
  edges    \* the versioned edges

vars == <<file, stored, present, status, edges>>

Init ==
  /\ file \in Contents
  /\ stored = {}
  /\ present = {}
  /\ status = Statuses({})
  /\ edges = {}

\* A save records its own decision before any link is derived from it.
Record(d) ==
  /\ d \notin stored
  /\ stored' = stored \union {d}
  /\ present' = present \union {d}
  /\ status' = [status EXCEPT ![d] = "active"]
  /\ UNCHANGED <<file, edges>>

\* One reconcile transaction: the readable files it saw are all stored from
\* then on, the edges are exactly what those files declare between decisions
\* known to the pass, and the statuses are exactly what the edges say.
Adopt(readable, known) ==
  /\ readable \subseteq known
  /\ stored \subseteq stored'
  /\ stored' \ stored \subseteq readable
  /\ known \subseteq stored'
  /\ present' \subseteq stored'
  /\ stored' \ stored \subseteq present'
  /\ edges' = DeriveLinks(file, readable, known)
  /\ status' = Statuses(edges')
  /\ UNCHANGED file

Next ==
  \/ \E d \in Decision : Record(d)
  \/ \E readable, known \in SUBSET Decision : Adopt(readable, known)

Spec == Init /\ [][Next]_vars

===============================================================================
