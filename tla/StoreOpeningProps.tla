--------------------------- MODULE StoreOpeningProps ---------------------------
(***************************************************************************)
(* What must be true of opening a store.                                   *)
(***************************************************************************)
EXTENDS StoreOpening

Label ==
  { "closed", "migrates", "applies", "exports", "writes files", "reads config",
    "writes config", "fills config", "seeks project", "adds project",
    "reconciles", "open" }

Labelled == {Unreadable} \union 0..4
Replaced == Decision \union {None}

JobType ==
  [ command : {"open", "init"}, next : 1..4, mine : SUBSET Migration,
    export : [Decision -> Replaced \union {NoFile}] ]

\* Every variable holds a value of its type. However often and by however many
\* processes a project is opened, there are never more project nodes than
\* processes that once opened it together.
TypeOK ==
  /\ crashes \in 0..Crashes
  /\ created \in BOOLEAN
  /\ applied \subseteq Migration
  /\ stored \subseteq Decision /\ hidden \subseteq stored
  /\ replaces \in [Decision -> Replaced]
  /\ projects \in 0..Cardinality(Proc)
  /\ file \in [Decision -> Replaced \union {NoFile}]
  /\ away \in [Decision -> Replaced \union {NoFile}]
  /\ config \in Labelled
  /\ pc \in [Proc -> Label]
  /\ job \in [Proc -> JobType]
  /\ disturbed \in BOOLEAN

\* Although checks and transactions of several openings interleave and any of
\* them may die between two migrations, migrations are applied in their order,
\* each by one process, and whoever is past migrate() works on the schema of
\* this build.
SchemaIsCurrent ==
  /\ \A m \in applied : 1..m \subseteq applied
  /\ \A p, q \in Proc : p # q => job[p].mine \intersect job[q].mine = {}
  /\ \A p \in Proc :
       pc[p] \notin {"closed", "migrates", "applies"} => applied = Migration

\* bootstrap.ts: the export is "the single moment a store is known to hold
\* decisions that were never written to a file". Once it is over, each of them
\* has a file, if only on another branch, and the file says what the old store
\* said.
ExportIsComplete ==
  Presence \in applied /\ (\A p \in Proc : ~Exporting(p))
    => \A d \in stored : Legacy[d] \in {file[d], away[d]}

\* An export that neither dies, throws, nor is overtaken by the reconcile of another
\* process is complete, whoever else migrates, fails to and opens meanwhile.
UndisturbedExportIsComplete == ~disturbed => ExportIsComplete

\* bootstrap.ts: exporting on a branch without decisions "would scatter every
\* other branch's decisions onto it". Whatever is checked out when, no opening
\* writes a file that another branch has, unless the one export there ever is
\* dies, throws, or is overtaken by a reconcile (which may import the files of a
\* branch that is left before the export lists the rows).
NothingScattered ==
  ~disturbed => \A d \in Decision : NoFile \in {file[d], away[d]}

\* An opening that loses the race for a migration throws, but those who use
\* the project do open it, again and again, once processes stop being killed.
Opens ==
  <>created => []<>(\E p \in Proc : pc[p] = "open")

===============================================================================
