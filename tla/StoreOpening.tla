----------------------------- MODULE StoreOpening -----------------------------
(***************************************************************************)
(* Opening a project's store: buildRuntimeAt (app/runtime.ts) as           *)
(* `withRuntime` calls it, and `cortex init`.  Both bring decisions.db to  *)
(* the schema of this build (storage/migrations.ts), export the decisions  *)
(* of a store that predates decision files (decisions/bootstrap.ts), label *)
(* the store in its config and find or create the project's node.          *)
(* Processes do so at the same time and may be killed anywhere, and git    *)
(* checks other branches out meanwhile.                                    *)
(*                                                                         *)
(* Of a reconcile pass this module keeps what it does to rows that have no *)
(* file; DecisionSync has the whole of it.                                 *)
(***************************************************************************)
EXTENDS Integers, FiniteSets

CONSTANTS
  Proc,
  Decision,   \* the decisions an old store may hold
  Legacy,     \* per decision, the one it replaces, or None, in that store
  None,
  Branch,     \* the decisions that the branches have files of, where those are
  Crashes     \* bound: the processes killed in a behaviour

ASSUME ProcAssumption == IsFiniteSet(Proc) /\ Proc # {}
ASSUME CrashesAssumption == Crashes \in Nat
ASSUME LegacyAssumption ==
  None \notin Decision /\ Legacy \in [Decision -> Decision \union {None}]

\* decisionsMigrations, by id: 1 the schema, 2 the column `present` (with which
\* decision files came), 3 the wider vocabulary of the graph.
Migration == 1..3
Presence == 2
SchemaVersion == 3

VARIABLES
  created,    \* decisions.db exists
  applied,    \* decisions.db: _migrations
  stored,     \* its decision rows
  replaces,   \* its REPLACED_BY edges: per decision, the one it replaces
  hidden,     \* the rows whose `present` is 0
  projects,   \* how many project nodes there are
  file,       \* .cortex/decisions: per decision, what its file replaces, or
              \* NoFile
  away,       \* the same for the files that only other branches have
  config,     \* .cortex/config: the schema version in it, Missing or Unreadable
  pc, job,    \* per process
  crashes,    \* how many processes have been killed
  disturbed   \* history: whoever was to export died or threw, or another
              \* process reconciled before it was done

storeVars == <<created, applied, stored, replaces, hidden, projects>>
vars == <<storeVars, file, away, config, pc, job, crashes, disturbed>>

NoFile == "no file"
\* No build has these schema versions.
Missing == 0
Unreadable == -1
Readable(c) == c > 0

NoFiles == [d \in Decision |-> NoFile]

\* What a process knows: the command, the migration it is at, those it
\* applied, the files still to export.
Fresh(command) ==
  [ command |-> command, next |-> 1, mine |-> {},
    export |-> NoFiles ]

OnDisk == {d \in Decision : file[d] # NoFile}

\* A new project, a clone that carries files and no database, a store from
\* before decision files, or one from before the wider vocabulary; and the config
\* of an older or of a newer build, or damaged.
Init ==
  /\ \/ applied = {} /\ stored = {} /\ file \in {NoFiles, Legacy}
     \/ applied = {1} /\ stored = Decision /\ file = NoFiles
     \/ applied = {1, 2} /\ stored = {} /\ file = NoFiles
     \/ applied = {1, 2} /\ stored = Decision /\ file = Legacy
  /\ created = (applied # {})
  /\ replaces = [d \in Decision |-> IF d \in stored THEN Legacy[d] ELSE None]
  /\ hidden = {}
  /\ away = NoFiles
  /\ projects = IF applied = {} THEN 0 ELSE 1
  /\ config \in {Missing, Unreadable, 2, 4}
  /\ pc = [p \in Proc |-> "closed"]
  /\ job = [p \in Proc |-> Fresh("open")]
  /\ crashes = 0
  /\ disturbed = FALSE

-------------------------------------------------------------------------------
Goto(p, label) == pc' = [pc EXCEPT ![p] = label]

Leave(p) ==
  /\ Goto(p, "closed")
  /\ job' = [job EXCEPT ![p] = Fresh("open")]

\* Mutant: keyed off a missing directory instead (see bootstrap.ts).
MustExportIfNoFiles(p) == OnDisk = {} /\ stored # {}

\* exportDecisionsIfNeeded.
MustExport(p) == Presence \in job[p].mine

\* From the presence migration on, until its last file is written.
Exporting(p) ==
  /\ pc[p] \in {"migrates", "applies", "exports", "writes files"}
  /\ Presence \in job[p].mine

\* cortex init, or a command or session that opens the store, which must have
\* been initialized: the database or the directory of files exists.
Begin(p, command) ==
  /\ pc[p] = "closed"
  /\ command = "open" => created \/ OnDisk # {}
  /\ created' = TRUE
  /\ Goto(p, "migrates")
  /\ job' = [job EXCEPT ![p] = Fresh(command)]
  /\ UNCHANGED <<applied, stored, replaces, hidden, projects, file, away, config, crashes, disturbed>>

\* Mutant: every migration is tried every time.
CheckMigrationNever(p) ==
  /\ pc[p] = "migrates" /\ job[p].next \in Migration
  /\ Goto(p, "applies")
  /\ UNCHANGED <<storeVars, file, away, config, job, crashes, disturbed>>

\* applyOnce reads _migrations outside of any transaction.
CheckMigration(p) ==
  /\ pc[p] = "migrates" /\ job[p].next \in Migration
  /\ IF job[p].next \in applied
     THEN /\ job' = [job EXCEPT ![p].next = @ + 1]
          /\ UNCHANGED pc
     ELSE /\ Goto(p, "applies")
          /\ UNCHANGED job
  /\ UNCHANGED <<storeVars, file, away, config, crashes, disturbed>>

\* Mutant: a migration that is already applied goes through (IF NOT EXISTS).
ApplyMigrationAgain(p) ==
  /\ pc[p] = "applies"
  /\ applied' = applied \union {job[p].next}
  /\ job' = [job EXCEPT ![p].next = @ + 1, ![p].mine = @ \union {job[p].next}]
  /\ Goto(p, "migrates")
  /\ UNCHANGED <<created, stored, replaces, hidden, projects, file, away, config, crashes, disturbed>>

\* The transaction of one migration. Only the first adds rows' tables, and no
\* migration touches what this module keeps of a row.
ApplyMigration(p) ==
  /\ pc[p] = "applies" /\ job[p].next \notin applied
  /\ applied' = applied \union {job[p].next}
  /\ job' = [job EXCEPT ![p].next = @ + 1, ![p].mine = @ \union {job[p].next}]
  /\ Goto(p, "migrates")
  /\ UNCHANGED <<created, stored, replaces, hidden, projects, file, away, config, crashes, disturbed>>

\* Another process applied it in between: the table or the column exists, or
\* the id is taken in _migrations; the transaction rolls back and throws, and
\* the names of the migrations this process did apply are lost with it.
ApplyFails(p) ==
  /\ pc[p] = "applies" /\ job[p].next \in applied
  /\ disturbed' = (disturbed \/ Exporting(p))
  /\ Leave(p)
  /\ UNCHANGED <<storeVars, file, away, config, crashes>>

AfterExport(p) == IF job[p].command = "init" THEN "seeks project" ELSE "reads config"

Migrated(p) ==
  /\ pc[p] = "migrates" /\ job[p].next \notin Migration
  /\ Goto(p, IF MustExport(p) THEN "exports" ELSE AfterExport(p))
  /\ UNCHANGED <<storeVars, file, away, config, job, crashes, disturbed>>

\* Mutant: only decisions that replace none are exported.
ListExportRowsOfRoots(p) ==
  /\ pc[p] = "exports"
  /\ job' = [job EXCEPT ![p].export =
       [d \in Decision |-> IF d \in stored /\ replaces[d] = None THEN None ELSE NoFile]]
  /\ Goto(p, "writes files")
  /\ UNCHANGED <<storeVars, file, away, config, crashes, disturbed>>

\* listExportRows: every decision with its links, in one query.
ListExportRows(p) ==
  /\ pc[p] = "exports"
  /\ job' = [job EXCEPT ![p].export =
       [d \in Decision |-> IF d \in stored THEN replaces[d] ELSE NoFile]]
  /\ Goto(p, "writes files")
  /\ UNCHANGED <<storeVars, file, away, config, crashes, disturbed>>

ToExport(p) == {d \in Decision : job[p].export[d] # NoFile}

\* DecisionStore.write, whatever the file says already. Ids are written in
\* order; no property depends on it.
ExportFile(p, d) ==
  /\ pc[p] = "writes files" /\ d \in ToExport(p)
  /\ file' = [file EXCEPT ![d] = job[p].export[d]]
  /\ job' = [job EXCEPT ![p].export[d] = NoFile]
  /\ UNCHANGED <<storeVars, away, config, pc, crashes, disturbed>>

Exported(p) ==
  /\ pc[p] = "writes files" /\ ToExport(p) = {}
  /\ Goto(p, AfterExport(p))
  /\ UNCHANGED <<storeVars, file, away, config, job, crashes, disturbed>>

-------------------------------------------------------------------------------
(***************************************************************************)
(* The config.                                                             *)
(***************************************************************************)

\* init labels a store whose config is missing or does not parse; an opening
\* raises a label that is lower.
MustWrite(command, read) ==
  IF command = "init" THEN ~Readable(read)
  ELSE Readable(read) /\ read < SchemaVersion

AfterConfig(p) == IF job[p].command = "init" THEN "open" ELSE "seeks project"

ReadConfig(p) ==
  /\ pc[p] = "reads config"
  /\ Goto(p, IF MustWrite(job[p].command, config) THEN "writes config"
             ELSE AfterConfig(p))
  /\ UNCHANGED <<storeVars, file, away, config, job, crashes, disturbed>>

\* Bun.write truncates and writes: a reader in between, and a crash, meet a
\* config that does not parse.
TruncateConfig(p) ==
  /\ pc[p] = "writes config"
  /\ config' = Unreadable
  /\ Goto(p, "fills config")
  /\ UNCHANGED <<storeVars, file, away, job, crashes, disturbed>>

FillConfig(p) ==
  /\ pc[p] = "fills config"
  /\ config' = SchemaVersion
  /\ Goto(p, AfterConfig(p))
  /\ UNCHANGED <<storeVars, file, away, job, crashes, disturbed>>

-------------------------------------------------------------------------------
(***************************************************************************)
(* The project's node, and the first reconcile.                            *)
(***************************************************************************)

AfterProject(p) ==
  IF job[p].command = "init" THEN "reads config" ELSE "reconciles"

\* Mutant: every opening creates a node.
SeekProjectNever(p) ==
  /\ pc[p] = "seeks project"
  /\ Goto(p, "adds project")
  /\ UNCHANGED <<storeVars, file, away, config, job, crashes, disturbed>>

\* ensureProject selects and inserts in two statements.
SeekProject(p) ==
  /\ pc[p] = "seeks project"
  /\ Goto(p, IF projects > 0 THEN AfterProject(p) ELSE "adds project")
  /\ UNCHANGED <<storeVars, file, away, config, job, crashes, disturbed>>

AddProject(p) ==
  /\ pc[p] = "adds project"
  /\ projects' = projects + 1
  /\ Goto(p, AfterProject(p))
  /\ UNCHANGED <<created, applied, stored, replaces, hidden, file, away, config, job, crashes, disturbed>>

\* decisions.ensure(): when presence and the directory differ, files are
\* imported, rows without a file are hidden and the edges are derived again
\* from the files that are there.
Reconcile(p) ==
  /\ pc[p] = "reconciles"
  /\ IF OnDisk = stored \ hidden
     THEN UNCHANGED <<stored, hidden, replaces, disturbed>>
     ELSE /\ stored' = stored \union OnDisk
          /\ hidden' = stored' \ OnDisk
          /\ replaces' = [d \in Decision |->
                           IF d \in OnDisk /\ file[d] \in stored' THEN file[d] ELSE None]
          /\ disturbed' = (disturbed \/ \E q \in Proc : Exporting(q))
  /\ Goto(p, "open")
  /\ UNCHANGED <<created, applied, projects, file, away, config, job, crashes>>

\* git checkout: files leave for the branches that have them, others come back.
Checkout(branch) ==
  LET there(d) == IF file[d] # NoFile THEN file[d] ELSE away[d] IN
  /\ \A d \in Decision : NoFile \in {file[d], away[d]}
  /\ file' = [d \in Decision |-> IF d \in branch THEN there(d) ELSE NoFile]
  /\ away' = [d \in Decision |-> IF d \in branch THEN NoFile ELSE there(d)]
  /\ UNCHANGED <<storeVars, config, pc, job, crashes, disturbed>>

\* The command ends, the session is closed.
Close(p) ==
  /\ pc[p] = "open"
  /\ Leave(p)
  /\ UNCHANGED <<storeVars, file, away, config, crashes, disturbed>>

\* The process is killed, or waits for the database longer than busy_timeout
\* and throws.
Crash(p) ==
  /\ crashes < Crashes
  /\ crashes' = crashes + 1
  /\ pc[p] \notin {"closed", "open"}
  /\ disturbed' = (disturbed \/ Exporting(p))
  /\ Leave(p)
  /\ UNCHANGED <<storeVars, file, away, config>>

Advance(p) ==
  \/ CheckMigration(p) \/ ApplyMigration(p) \/ ApplyFails(p) \/ Migrated(p)
  \/ ListExportRows(p) \/ Exported(p) \/ \E d \in Decision : ExportFile(p, d)
  \/ ReadConfig(p) \/ TruncateConfig(p) \/ FillConfig(p)
  \/ SeekProject(p) \/ AddProject(p) \/ Reconcile(p) \/ Close(p)

Next ==
  \/ \E p \in Proc :
       Advance(p) \/ Crash(p) \/ \E command \in {"open", "init"} : Begin(p, command)
  \/ \E branch \in Branch : Checkout(branch)

Spec == Init /\ [][Next]_vars

\* An opening that has begun goes on, and whoever uses the project opens it
\* again.
FairSpec ==
  Spec /\ \A p \in Proc : WF_vars(Advance(p)) /\ WF_vars(Begin(p, "open"))

===============================================================================
