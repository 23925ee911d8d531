-------------------------- MODULE DecisionSyncProps --------------------------
(***************************************************************************)
(* What must be true of the decision store.                                *)
(***************************************************************************)
EXTENDS DecisionSync

\* Every variable holds a value of its type; only a stored
\* decision is present.
TypeOK ==
  /\ file \in [Decision -> File]
  /\ authored \subseteq Decision
  /\ disk \in [Decision -> {"absent", "readable", "malformed"}]
  /\ stored \subseteq Decision
  /\ present \subseteq stored
  /\ status \in [Decision -> Status]
  /\ edges \subseteq Edge
  /\ indexed \in [Decision -> Nat]
  /\ pc \in [Proc -> Label]
  /\ cached \in [Proc -> BOOLEAN]
  /\ saving \in [Proc -> Decision \union {None}]
  /\ pass \in [Proc -> Pass]

-------------------------------------------------------------------------------
(***************************************************************************)
(* Safety under every fault.                                               *)
(***************************************************************************)

\* A reconcile never dies on a foreign key: however old its snapshot of the
\* store is when its transaction runs, both ends of every edge it derived have
\* a row by then (deriveLinks checks against the snapshot, insertVersionedEdge
\* against the table).
LinksResolve ==
  \A p \in Proc : pc[p] = "read" =>
    \A e \in Links(pass[p]) :
      {e.from, e.to} \subseteq stored \union Imported(pass[p])

\* No decision has two rows in the keyless full-text table, although a save
\* and another process's import may both be inserting it.
IndexedOnce == \A d \in Decision : indexed[d] <= 1

\* Nothing is ever forgotten: rows are never deleted, and a decision can be
\* flagged absent only by a pass whose directory listing lacked its file. A
\* file that exists but does not parse never hides its decision.
NeverForgotten ==
  [][ /\ stored \subseteq stored'
      /\ \A d \in present \ present' :
           \E p \in Proc : ReadAll(p) /\ d \notin pass[p].listed ]_vars

-------------------------------------------------------------------------------
(***************************************************************************)
(* The store as a mirror of the files.                                     *)
(***************************************************************************)

\* The store says exactly what the files on this branch say.
Mirrored ==
  /\ Readable \subseteq stored
  /\ present = OnDisk \intersect stored
  /\ edges = DeriveLinks(file, Readable, stored)
  /\ \A d \in stored : status[d] = StatusOf(edges, d)

\* What p has read is still what is there.
UpToDate(p) ==
  /\ pass[p].listed = OnDisk
  /\ pass[p].parsed = Readable
  /\ pass[p].stored = stored
  /\ pass[p].present = present

\* A pass that read a stable disk and store leaves a perfect mirror, from any
\* state the store may have been left in: presence is only patched with the
\* differences found, while edges and statuses are rebuilt.
PassMirrors ==
  [][\A p \in Proc : Commit(p) /\ UpToDate(p) => Mirrored']_vars

\* Every process is at rest, one has reconciled since it started, and the
\* present decisions are exactly the files in the directory: the next cheap
\* pass will find no drift.
AtRest == \A p \in Proc : pc[p] = "idle"

NothingToDo == AtRest /\ (\E p \in Proc : cached[p]) /\ present = OnDisk

\* The cheap path: when the set difference is empty, the whole store mirrors
\* the files (reconcile.ts: "Drift detection is a set difference - no stamp, no
\* hash, no mtime - because a decision file is immutable").
NoDriftMeansMirrored == NothingToDo => Mirrored

\* At rest each stored decision is whole: its anchors and its single full-text
\* row are in, so search and `cortex why` can find it.
RowsAreWhole ==
  AtRest => \A d \in stored : indexed[d] = 1

\* save.ts: "if the database work below fails, the next reconcile imports what
\* is already on disk - losing only the session link".
FailedSaveIsRecovered ==
  NothingToDo => Mirrored /\ RowsAreWhole

\* Once the files stop moving, and as long as full passes keep completing, the
\* store ends as their mirror and stays so, whatever interrupted or
\* overlapping passes left behind.
Converges ==
  <>[][UNCHANGED disk]_vars /\ []<><<\E p \in Proc : pass[p].full /\ Commit(p)>>_vars
    => <>[]Mirrored

===============================================================================
