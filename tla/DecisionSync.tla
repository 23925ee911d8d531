----------------------------- MODULE DecisionSync -----------------------------
(***************************************************************************)
(* The decision store of one repository: the files under                   *)
(* .cortex/decisions/ (the product) and the SQLite rows derived from them, *)
(* as several cortex processes save and reconcile while git moves files.   *)
(*                                                                         *)
(* A process (a CLI command or an MCP session) is synchronous inside these *)
(* calls, so its steps interleave only with other processes and with git,  *)
(* at the points where it touches the disk or the database: readdir, one   *)
(* SELECT, one read per file, one statement of a save (each commits by     *)
(* itself), one transaction of a reconcile. It can be killed at each.      *)
(***************************************************************************)
EXTENDS DecisionLinks, Naturals

CONSTANTS
  Contents, \* the possible assignments of a file content to every id
  Proc,     \* processes working on the store
  Faults    \* the freedoms the surroundings take in this instance

\* crash:    a process is killed between two of its steps
\* busy:     a write waits for another process's lock until it times out
\* handEdit: a file stops parsing (conflict markers, a typo) and is mended
\* overlap:  files come and go while a process is in the middle of a call
\* foreign:  files authored on other clones arrive
FaultKind == {"crash", "busy", "handEdit", "overlap", "foreign"}

ASSUME ContentsAssumption == Contents \subseteq [Decision -> File]
ASSUME FaultsAssumption == Faults \subseteq FaultKind

VARIABLES
  file,      \* file[d]: what the write-once file of d says
  authored,  \* ids in use anywhere: on this disk or in some branch
  disk,      \* disk[d]: "absent", "readable" or "malformed" right now
  stored,    \* ids with a row in nodes
  present,   \* stored ids whose present column is 1
  status,    \* the status column
  edges,     \* the versioned rows of edges
  indexed,   \* indexed[d]: number of rows of d in nodes_fts
  pc,        \* pc[p]: what process p does next
  cached,    \* cached[p]: p holds a report, ensure() is done
  saving,    \* saving[p]: the decision p is saving, or None
  pass       \* pass[p]: what p's reconcile has read so far

diskVars  == <<file, authored, disk>>
rowVars   == <<stored, present, status, edges>>
storeVars == <<rowVars, indexed>>
procVars  == <<pc, cached, saving, pass>>
vars      == <<diskVars, storeVars, procVars>>

OnDisk   == {d \in Decision : disk[d] # "absent"}
Readable == {d \in Decision : disk[d] = "readable"}

-------------------------------------------------------------------------------
(***************************************************************************)
(* One reconcile pass. `listed` is readdir's answer, `stored` and          *)
(* `present` the answer of the SELECT, `unread` the files still to read,   *)
(* `parsed` the decisions whose file was read and parsed.                  *)
(***************************************************************************)

Pass == [ full    : BOOLEAN,
          listed  : SUBSET Decision,
          stored  : SUBSET Decision,
          present : SUBSET Decision,
          unread  : SUBSET Decision,
          parsed  : SUBSET Decision ]

FreshPass(full) ==
  [ full |-> full, listed |-> {}, stored |-> {}, present |-> {},
    unread |-> {}, parsed |-> {} ]

\* Mutants: unreadable files count as gone; listed ones as known to the store.
AbsentIfUnparsed(s)  == s.present \ s.parsed
RestoredIfListed(s)  == s.listed \ s.present
RestoredNever(s)     == {}

Arriving(s) == s.listed \ s.stored
Absent(s)   == s.present \ s.listed
Restored(s) == (s.stored \ s.present) \intersect s.listed
Drifted(s)  == Arriving(s) \union Absent(s) \union Restored(s) # {}

\* Mutants: unreadable arrivals are imported; links resolve against what was
\* listed, or only against what was stored before the pass.
ImportedUnparsed(s) == Arriving(s)
KnownIfListed(s)    == s.stored \union s.listed
KnownIfStored(s)    == s.stored

Imported(s) == Arriving(s) \intersect s.parsed
Known(s)    == s.stored \union s.parsed
Links(s)    == DeriveLinks(file, s.parsed, Known(s))

-------------------------------------------------------------------------------
Init ==
  /\ file \in Contents
  /\ authored = {}
  /\ disk = [d \in Decision |-> "absent"]
  /\ stored = {}
  /\ present = {}
  /\ status = Statuses({})
  /\ edges = {}
  /\ indexed = [d \in Decision |-> 0]
  /\ pc = [p \in Proc |-> "idle"]
  /\ cached = [p \in Proc |-> FALSE]
  /\ saving = [p \in Proc |-> None]
  /\ pass = [p \in Proc |-> FreshPass(FALSE)]

(***************************************************************************)
(* The surroundings: git and the user's editor move files.                 *)
(***************************************************************************)

FilesMayMove == "overlap" \in Faults \/ \A p \in Proc : pc[p] = "idle"

\* A checkout, merge or pull brings the file of d.
Arrive(d) ==
  /\ FilesMayMove
  /\ disk[d] = "absent"
  /\ d \in authored \/ "foreign" \in Faults
  /\ disk' = [disk EXCEPT ![d] = "readable"]
  /\ authored' = authored \union {d}
  /\ UNCHANGED <<file, storeVars, procVars>>

\* A checkout of a branch that does not carry d.
Depart(d) ==
  /\ FilesMayMove
  /\ disk[d] # "absent"
  /\ disk' = [disk EXCEPT ![d] = "absent"]
  /\ UNCHANGED <<file, authored, storeVars, procVars>>

\* The file of d stops parsing.
Damage(d) ==
  /\ FilesMayMove
  /\ "handEdit" \in Faults
  /\ disk[d] = "readable"
  /\ disk' = [disk EXCEPT ![d] = "malformed"]
  /\ UNCHANGED <<file, authored, storeVars, procVars>>

\* The file of d is put back as it was.
Mend(d) ==
  /\ FilesMayMove
  /\ disk[d] = "malformed"
  /\ disk' = [disk EXCEPT ![d] = "readable"]
  /\ UNCHANGED <<file, authored, storeVars, procVars>>

Surroundings == \E d \in Decision : Arrive(d) \/ Depart(d) \/ Damage(d) \/ Mend(d)

(***************************************************************************)
(* The calls a process makes.                                              *)
(***************************************************************************)

\* Labels of a save's own statements.
Inserting == {"insertNode", "insertAnchors", "insertIndex", "insertLocal"}

Label == Inserting \union {"idle", "reconcile", "presence", "read"}

Goto(p, label) == pc' = [pc EXCEPT ![p] = label]

\* The call ends; hasReport tells whether the process keeps a report.
Return(p, hasReport) ==
  /\ Goto(p, "idle")
  /\ cached' = [cached EXCEPT ![p] = hasReport]
  /\ saving' = [saving EXCEPT ![p] = None]
  /\ pass' = [pass EXCEPT ![p] = FreshPass(FALSE)]

\* readdir, the first thing a pass does.
ListFiles(p, full) ==
  /\ pass' = [pass EXCEPT ![p] = [FreshPass(full) EXCEPT !.listed = OnDisk]]
  /\ Goto(p, "presence")
  /\ UNCHANGED <<diskVars, storeVars, cached, saving>>

\* ensure(): the first call of every process; once a report is cached it
\* returns that report and touches nothing.
Ensure(p) ==
  /\ pc[p] = "idle"
  /\ ~cached[p]
  /\ ListFiles(p, FALSE)

\* resync(): `cortex sync` and `cortex doctor`, always after ensure().
Resync(p) ==
  /\ pc[p] = "idle"
  /\ cached[p]
  /\ ListFiles(p, TRUE)

\* save_decision: every linked decision must be in the store (present or not);
\* the id is new, and the file is renamed into place before any row exists.
\* The check and the write are one step because rows are never deleted.
WriteFile(p, d) ==
  /\ pc[p] = "idle"
  /\ cached[p]
  /\ d \notin authored
  /\ LinkedIn(file[d]) \subseteq stored
  /\ disk' = [disk EXCEPT ![d] = "readable"]
  /\ authored' = authored \union {d}
  /\ saving' = [saving EXCEPT ![p] = d]
  /\ Goto(p, "insertNode")
  /\ UNCHANGED <<file, storeVars, cached, pass>>

\* Mutant: INSERT OR IGNORE instead of INSERT.
InsertNodeOrIgnore(p) ==
  /\ pc[p] = "insertNode"
  /\ stored' = stored \union {saving[p]}
  /\ present' = IF saving[p] \in stored THEN present ELSE present \union {saving[p]}
  /\ Goto(p, "insertAnchors")
  /\ UNCHANGED <<diskVars, status, edges, indexed, cached, saving, pass>>

\* INSERT INTO nodes: a row of that id already there is a UNIQUE violation.
InsertNode(p) ==
  /\ pc[p] = "insertNode"
  /\ saving[p] \notin stored
  /\ stored' = stored \union {saving[p]}
  /\ present' = present \union {saving[p]}
  /\ status' = [status EXCEPT ![saving[p]] = "active"]
  /\ Goto(p, "insertAnchors")
  /\ UNCHANGED <<diskVars, edges, indexed, cached, saving, pass>>

\* INSERT INTO anchors, one row per anchor: the primary key refuses a repeat.
\* The rows themselves need no variable: a decision with its full-text row has
\* its anchors too, for they are inserted before it.
InsertAnchors(p) ==
  /\ pc[p] = "insertAnchors"
  /\ file[saving[p]].anchorsDistinct
  /\ Goto(p, "insertIndex")
  /\ UNCHANGED <<diskVars, storeVars, cached, saving, pass>>

\* INSERT INTO nodes_fts, which has no key.
InsertIndex(p) ==
  /\ pc[p] = "insertIndex"
  /\ indexed' = [indexed EXCEPT ![saving[p]] = @ + 1]
  /\ Goto(p, "insertLocal")
  /\ UNCHANGED <<diskVars, rowVars, cached, saving, pass>>

\* The two local edges, to the project and to the session, which nothing here
\* reads.
InsertLocal(p) ==
  /\ pc[p] = "insertLocal"
  /\ Goto(p, "reconcile")
  /\ UNCHANGED <<diskVars, storeVars, cached, saving, pass>>

\* The save's last act: a full pass of its own.
Reconcile(p) ==
  /\ pc[p] = "reconcile"
  /\ ListFiles(p, TRUE)

\* A statement of the save throws: the error reaches the agent, and what was
\* inserted before it stays.
SaveFails(p) ==
  /\ \/ pc[p] = "insertNode" /\ saving[p] \in stored
     \/ pc[p] = "insertAnchors" /\ ~file[saving[p]].anchorsDistinct
  /\ Return(p, cached[p])
  /\ UNCHANGED <<diskVars, storeVars>>

\* SELECT id, present: without drift the cheap pass ends here.
ListPresence(p) ==
  /\ pc[p] = "presence"
  /\ LET s == [pass[p] EXCEPT !.stored = stored,
                              !.present = present,
                              !.unread = pass[p].listed]
     IN  \/ /\ s.full \/ Drifted(s)
            /\ pass' = [pass EXCEPT ![p] = s]
            /\ Goto(p, "read")
            /\ UNCHANGED <<cached, saving>>
         \/ /\ ~s.full /\ ~Drifted(s)
            /\ Return(p, TRUE)
  /\ UNCHANGED <<diskVars, storeVars>>

\* One listed file is read: gone or not parsing, it yields nothing, and its
\* decision keeps the presence it had. (The code reads in id order; any order
\* includes that one.)
ReadFile(p, d) ==
  /\ pc[p] = "read"
  /\ d \in pass[p].unread
  /\ pass' = [pass EXCEPT ![p].unread = @ \ {d},
                          ![p].parsed = @ \union ({d} \intersect Readable)]
  /\ UNCHANGED <<diskVars, storeVars, pc, cached, saving>>

\* The transaction throws, and rolls back, on a row or an anchor that is
\* already there and on an edge whose endpoint is not.
CanCommit(s) ==
  /\ Imported(s) \intersect stored = {}
  /\ \A d \in Imported(s) : file[d].anchorsDistinct
  /\ \A e \in Links(s) : {e.from, e.to} \subseteq stored \union Imported(s)

\* Mutant: a decision that comes back is indexed again.
IndexRowsOfRestored(s) ==
  [d \in Decision |->
     indexed[d] + (IF d \in Imported(s) \union Restored(s) THEN 1 ELSE 0)]

\* nodes_fts after the imports of a pass: one more row for each.
IndexRows(s) ==
  [d \in Decision |-> indexed[d] + (IF d \in Imported(s) THEN 1 ELSE 0)]

ReadAll(p) == pc[p] = "read" /\ pass[p].unread = {}

\* The whole reconcile transaction, statement by statement.
Commit(p) ==
  /\ ReadAll(p)
  /\ CanCommit(pass[p])
  /\ LET s == pass[p] IN
       /\ stored' = stored \union Imported(s)
       /\ indexed' = IndexRows(s)
       /\ present' = ((present \union Imported(s)) \ Absent(s)) \union Restored(s)
       /\ edges' = Links(s)
       /\ status' = Statuses(Links(s))
  /\ Return(p, TRUE)
  /\ UNCHANGED diskVars

CommitFails(p) ==
  /\ ReadAll(p)
  /\ ~CanCommit(pass[p])
  /\ Return(p, cached[p])
  /\ UNCHANGED <<diskVars, storeVars>>

\* Another process holds the write lock past busy_timeout: the statement or
\* transaction throws and the call ends in its error.
Busy(p) ==
  /\ "busy" \in Faults
  /\ pc[p] \in Inserting \/ ReadAll(p)
  /\ Return(p, cached[p])
  /\ UNCHANGED <<diskVars, storeVars>>

\* The process ends: by itself after a call, or killed in the middle of one.
Exit(p) ==
  /\ pc[p] = "idle"
  /\ cached[p]
  /\ Return(p, FALSE)
  /\ UNCHANGED <<diskVars, storeVars>>

Crash(p) ==
  /\ "crash" \in Faults
  /\ pc[p] # "idle"
  /\ Return(p, FALSE)
  /\ UNCHANGED <<diskVars, storeVars>>

\* The steps of a call that has begun.
Advance(p) ==
  \/ InsertNode(p) \/ InsertAnchors(p) \/ InsertIndex(p) \/ InsertLocal(p)
  \/ SaveFails(p)
  \/ Reconcile(p) \/ ListPresence(p)
  \/ \E d \in Decision : ReadFile(p, d)
  \/ Commit(p) \/ CommitFails(p)

Step(p) ==
  \/ Ensure(p) \/ Resync(p) \/ \E d \in Decision : WriteFile(p, d)
  \/ Advance(p)
  \/ Busy(p) \/ Exit(p) \/ Crash(p)

Next == Surroundings \/ \E p \in Proc : Step(p)

Spec == Init /\ [][Next]_vars

\* A call that has begun goes on: nothing in it waits.
FairSpec == Spec /\ \A p \in Proc : WF_vars(Advance(p))

===============================================================================
