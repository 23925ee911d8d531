------------------------------- MODULE CodeIndex -------------------------------
(***************************************************************************)
(* The index of a project's source files in code.db, as the processes that *)
(* share it (an MCP session's first question about code, `cortex index`)   *)
(* bring it up to date: indexer/code-indexer.ts over                       *)
(* storage/code-repository.ts.                                             *)
(*                                                                         *)
(* A stamp stands for a file's size and modification time; every edit      *)
(* gives the file a stamp it never had.  A content is what a file says and *)
(* its hash, which tell files apart equally well.                          *)
(***************************************************************************)
EXTENDS Naturals

CONSTANTS
  Proc,          \* the processes that index
  Path,          \* the paths a source file may have
  Content,       \* what a file may say
  Version,       \* the extractors that may have written rows
  Current,       \* the one of this build (EXTRACTION_VERSION)
  None,
  LastStamp      \* bound: the edits of a behaviour

ASSUME CurrentAssumption == Current \in Version
ASSUME NoneAssumption ==
  /\ None \notin Content \union Version \union Nat
  /\ None \notin [ stamp : Nat, hash : Content, extracted : Content,
                   against : SUBSET Path, by : Version ]
ASSUME LastStampAssumption == LastStamp \in Nat

VARIABLES
  tree,        \* per path, the source file there, if any
  clock,       \* the newest stamp
  rows,        \* code.db: per path, its row in files with the rows of symbols
               \* and imports that reference it
  version,     \* code.db: meta.extraction_version
  job,         \* per process, the run of CodeIndexer it is in
  overlapped   \* history: two runs have been under way at once

vars == <<tree, clock, rows, version, job, overlapped>>
codeDb == <<rows, version>>

\* Any file is `None` when it does not exist, a row likewise.
Files(t) == {f \in Path : t[f] # None}

SourceFile(stamp, content) == [stamp |-> stamp, content |-> content]

\* Mutant: the columns of stamp and hash swapped.
RowSwapped(stamp, content, files, by) ==
  [ stamp |-> content, hash |-> stamp, extracted |-> content,
    against |-> files, by |-> by ]

\* insertEntry of toEntryOf: `extracted` is what the symbols and imports were
\* extracted from, which the row's hash is meant to tell; `against` is the set
\* of files its imports were resolved against (see ImportResolution).
Row(stamp, content, files, by) ==
  [ stamp |-> stamp, hash |-> content, extracted |-> content,
    against |-> files, by |-> by ]

Idle ==
  [ at |-> "idle", full |-> FALSE, sources |-> [f \in Path |-> None],
    known |-> [f \in Path |-> None], todo |-> {}, gone |-> {},
    entries |-> [f \in Path |-> None], reading |-> None, content |-> None ]

NoRows == [f \in Path |-> None]

\* A store that does not exist yet, or one that an older build left complete,
\* stamped with its version.
Indexed(t, by) ==
  [f \in Path |->
    IF t[f] = None THEN None
    ELSE Row(t[f].stamp, t[f].content, Files(t), by)]

Init ==
  /\ tree \in [Path -> {None} \union {SourceFile(0, c) : c \in Content}]
  /\ clock = 0
  /\ \/ /\ rows = NoRows
        /\ version = None
     \/ /\ version \in Version
        /\ rows = Indexed(tree, version)
  /\ job = [p \in Proc |-> Idle]
  /\ overlapped = FALSE

-------------------------------------------------------------------------------
(***************************************************************************)
(* What doctor says of the index.                                          *)
(***************************************************************************)

\* The tree as a walk sees it now.
Walked == [f \in Path |-> IF tree[f] = None THEN None ELSE tree[f].stamp]

\* isUnchanged, of a row known and a stamp walked.
IsUnchanged(previous, stamp) == previous # None /\ previous.stamp = stamp

\* computeDrift: what is counted as added, changed or removed.
Drift(sources, indexed) ==
  {f \in Path : IF sources[f] = None THEN indexed[f] # None
                ELSE ~IsUnchanged(indexed[f], sources[f])}

CheckCodeVersions == version = Current

CheckCodeDrift == Drift(Walked, rows) = {}

-------------------------------------------------------------------------------
(***************************************************************************)
(* The working tree: editors, git.                                         *)
(***************************************************************************)

Edit(f, c) ==
  /\ clock < LastStamp
  /\ tree[f] # None => tree[f].content # c
  /\ clock' = clock + 1
  /\ tree' = [tree EXCEPT ![f] = SourceFile(clock', c)]
  /\ UNCHANGED <<codeDb, job, overlapped>>

Delete(f) ==
  /\ clock < LastStamp
  /\ tree[f] # None
  /\ clock' = clock + 1
  /\ tree' = [tree EXCEPT ![f] = None]
  /\ UNCHANGED <<codeDb, job, overlapped>>

-------------------------------------------------------------------------------
(***************************************************************************)
(* CodeIndexer.run.                                                        *)
(***************************************************************************)

Go(p, j) ==
  /\ job' = [job EXCEPT ![p] = j]
  /\ UNCHANGED <<tree, clock, overlapped>>

Return(p) == Go(p, Idle)

\* listSourceFiles: a path and its stamp, never the content.
Walk(p, force) ==
  /\ job[p].at = "idle"
  /\ job' = [job EXCEPT ![p] =
       [Idle EXCEPT !.at = "walked", !.full = force,
          !.sources = Walked]]
  /\ overlapped' = (overlapped \/ \E q \in Proc : job[q].at # "idle")
  /\ UNCHANGED <<tree, clock, codeDb>>

Sources(j) == {f \in Path : j.sources[f] # None}

NeedsFullIndex == rows = NoRows \/ version # Current

\* Mutant: rows of files that are gone stay.
PlanKeepsRemoved(p) ==
  /\ job[p].at = "walked"
  /\ LET j == job[p]
         full == j.full \/ NeedsFullIndex
     IN  Go(p, [j EXCEPT !.at = "indexing", !.full = full,
                  !.known = IF full THEN NoRows ELSE rows,
                  !.todo = IF full THEN Sources(j)
                           ELSE Drift(j.sources, rows) \intersect Sources(j)])
  /\ UNCHANGED codeDb

\* After the resolver has been created: full or incremental, and from which
\* rows, in one synchronous stretch.
Plan(p) ==
  /\ job[p].at = "walked"
  /\ LET j == job[p]
         full == j.full \/ NeedsFullIndex
         stale == Drift(j.sources, rows)
     IN  Go(p, [j EXCEPT !.at = "indexing", !.full = full,
                  !.known = IF full THEN NoRows ELSE rows,
                  !.todo = IF full THEN Sources(j) ELSE stale \intersect Sources(j),
                  !.gone = IF full THEN {} ELSE stale \ Sources(j)])
  /\ UNCHANGED codeDb

Entry(j, f, c) == Row(j.sources[f], c, Sources(j), Current)

\* fullIndex gathers the entries of all files before it writes any.
ReadForRebuild(p, f) ==
  /\ job[p].at = "indexing" /\ job[p].full
  /\ f \in job[p].todo
  /\ tree[f] # None
  /\ Go(p, [job[p] EXCEPT !.todo = @ \ {f},
              !.entries[f] = Entry(job[p], f, tree[f].content)])
  /\ UNCHANGED codeDb

\* reindexChanged, up to the content it awaits.
ReadChanged(p, f) ==
  /\ job[p].at = "indexing" /\ ~job[p].full
  /\ f \in job[p].todo
  /\ tree[f] # None
  /\ Go(p, [job[p] EXCEPT !.at = "read", !.todo = @ \ {f},
              !.reading = f, !.content = tree[f].content])
  /\ UNCHANGED codeDb

\* A file of the walk is gone when it is read: the run rejects. What an
\* incremental run has written stays.
ReadFails(p, f) ==
  /\ job[p].at = "indexing"
  /\ f \in job[p].todo
  /\ tree[f] = None
  /\ Return(p)
  /\ UNCHANGED codeDb

\* Mutant: a file that has a row is only touched.
HashIsKnownOfAny(j) == j.known[j.reading] # None

\* touchFile when the hash is the one known, a plain UPDATE of the files row
\* that the run's snapshot had; upsertFile otherwise.
HashIsKnown(j) ==
  /\ j.known[j.reading] # None
  /\ j.known[j.reading].hash = j.content

Touch(p) ==
  LET j == job[p] IN
  /\ j.at = "read"
  /\ HashIsKnown(j)
  /\ rows' = IF rows[j.reading] = None THEN rows
             ELSE [rows EXCEPT ![j.reading].stamp = j.sources[j.reading],
                               ![j.reading].hash = j.content]
  /\ Go(p, [j EXCEPT !.at = "indexing", !.reading = None, !.content = None])
  /\ UNCHANGED version

Upsert(p) ==
  LET j == job[p] IN
  /\ j.at = "read"
  /\ ~HashIsKnown(j)
  /\ rows' = [rows EXCEPT ![j.reading] = Entry(j, j.reading, j.content)]
  /\ Go(p, [j EXCEPT !.at = "indexing", !.reading = None, !.content = None])
  /\ UNCHANGED version

\* removeFile, a transaction for each path the walk no longer has.
Remove(p, f) ==
  /\ job[p].at = "indexing"
  /\ job[p].todo = {} /\ f \in job[p].gone
  /\ rows' = [rows EXCEPT ![f] = None]
  /\ Go(p, [job[p] EXCEPT !.gone = @ \ {f}])
  /\ UNCHANGED version

FinishIncremental(p) ==
  /\ job[p].at = "indexing" /\ ~job[p].full
  /\ job[p].todo = {} /\ job[p].gone = {}
  /\ Return(p)
  /\ UNCHANGED codeDb

\* Mutant: the rebuild writes its entries over the rows it should wipe.
RebuildOver(p) ==
  /\ job[p].at = "indexing" /\ job[p].full
  /\ job[p].todo = {}
  /\ rows' = [f \in Path |-> IF job[p].entries[f] = None THEN rows[f]
                             ELSE job[p].entries[f]]
  /\ Go(p, [job[p] EXCEPT !.at = "rebuilt"])
  /\ UNCHANGED version

\* wipeAndRebuild is one transaction, the stamp another.
Rebuild(p) ==
  /\ job[p].at = "indexing" /\ job[p].full
  /\ job[p].todo = {}
  /\ rows' = job[p].entries
  /\ Go(p, [job[p] EXCEPT !.at = "rebuilt"])
  /\ UNCHANGED version

Stamp(p) ==
  /\ job[p].at = "rebuilt"
  /\ version' = Current
  /\ Return(p)
  /\ UNCHANGED rows

\* The process is killed, or a statement throws on a lock held too long.
Crash(p) ==
  /\ job[p].at # "idle"
  /\ Return(p)
  /\ UNCHANGED codeDb

Completes(p) == FinishIncremental(p) \/ Stamp(p)

Advance(p) ==
  \/ Plan(p)
  \/ \E f \in Path : ReadForRebuild(p, f) \/ ReadChanged(p, f) \/ ReadFails(p, f)
  \/ Touch(p) \/ Upsert(p)
  \/ \E f \in Path : Remove(p, f)
  \/ Rebuild(p) \/ Completes(p)

Next ==
  \/ \E f \in Path : Delete(f) \/ \E c \in Content : Edit(f, c)
  \/ \E p \in Proc : Advance(p) \/ Crash(p) \/ \E force \in BOOLEAN : Walk(p, force)

Spec == Init /\ [][Next]_vars

\* A run that has begun goes on: it waits for nothing but its own reads.
FairSpec == Spec /\ \A p \in Proc : WF_vars(Advance(p))

===============================================================================
