# Verification of cortex

TLA+ models of cortex, the decision memory of a repository: markdown files under
`.cortex/decisions/` are the product, a SQLite store is derived from them, an
index of the source tree tells what a change touches, and an embedding model
shared by all sessions of a user makes decisions searchable by meaning. The
modules are translated from the code under `src/src/`; TLC checks them on small
instances and TLAPS proves the main theorems for every instance.

`tlc -config X.cfg MC....tla` runs a configuration, `tlapm M.tla` checks proofs.
`PROJECT.json` holds the machine-readable inventory: runs, mutants (each
property is shown to fail on a plausible bug), source lines of every
definition, findings, hazards and theorems.

## The system

| Component | State | Operations | Interacts with |
|---|---|---|---|
| Decision synchronisation (`decisions/`, `storage/decision-sync-repository.ts`) | decision files; rows of `nodes`, `anchors`, `edges`, `nodes_fts`; a cached report per process | `save`, `ensure`, `resync`, all ending in `reconcileDecisions` | other processes through disk and database; git, which moves files |
| Decision file format (`decisions/decision-file.ts`, `domain/schemas.ts`) | none | write, parse, accept a draft | every checkout of the repository |
| Store opening (`app/runtime.ts`, `storage/migrations.ts`, `decisions/bootstrap.ts`, `init`) | `_migrations`, config, project node | migrate, export old decisions, label, `ensureProject` | runs before the first reconcile of every process |
| Embedding daemon election (`embedding/daemon/lock.ts`, `main.ts`, `stop.ts`) | lock file, socket file | acquire, clear a dead lock, serve, stop, release | client processes spawn daemons; `upgrade` signals them |
| Daemon service and providers (`embedding-daemon.ts`, `client.ts`, `shared-provider.ts`, `gemma-provider.ts`, `request-ledger.ts`) | connections, request ledgers, serial lane, idle timers, worker process | connect, embed, time out, dispose, idle stop | queue and search above, worker below |
| Embed queue and semantic search (`embedding/queue.ts`, `semantic-search.ts`) | chain of pending items, vector cache, `embeddings` rows | enqueue, embed, invalidate, search | reconcile reports and saves clear the cache |
| MCP server and runtime registry (`mcp/`) | map of open runtimes | resolve, open, fail, dispose, tools | all of the above, concurrent calls |
| Code index (`indexer/`, `storage/code-repository.ts`) | `files`, `symbols`, `imports`, extraction version | full and incremental index, lazy opening, resolving imports | source tree, queries over the graphs |
| Queries over the graphs (`app/*-impact.ts`, `storage/queries`, `why`, doctor's checks) | none | impact walks, anchor reports, conflicts | rows of both databases |
| Search and prompt gate (`search`, `get_context`, `log`, hooks) | none | rank, fuse, filter, gate | rows, vectors, full-text index |
| Project registry (`storage/project-registry.ts`) | one JSON file per user | register, read and prune | every process of the user |
| Command line (`cli/`), release and installers (`release/`, `install/`) | files outside the store | commands, upgrade | the store, the daemon |

What makes each correct, and hard to get right:

* **Decision synchronisation.** The store mirrors the files of the branch that
  is checked out, forgets nothing, and stays consistent although processes
  overlap, are killed between statements, and git moves files during a pass.
* **Decision files.** What one checkout saves is what another reads.
* **Store opening.** Old decisions are exported before anything marks them
  absent; several processes may open one old store at once.
* **Daemon election.** One daemon per user serves, its files stay its own, and
  leftovers of dead daemons never keep a new one from serving.
* **Daemon service and providers.** Every request settles: by its answer, its
  deadline, or the loss of the worker or connection; a deadline hurts only the
  request the worker holds; memory is given back.
* **Queue, search and registry.** One runtime per root, released once what was
  saved is embedded; the vector cache is never behind the session's own saves;
  every call is answered, and every release ends.
* **Code index.** An incremental run ends where a full one would, and what it
  may have got wrong is always recognizable as stale.
* **Queries.** Depths are shortest, provenance is honest, rankings respect both
  of their signals, and nothing retired or absent is shown.

Each hazard of the code is listed in `PROJECT.json` at its line, with the
properties that cover it, or a note why none does.

## The modules

| Part | Pure operators and state machine | Properties | Instances | Proofs |
|---|---|---|---|---|
| Decision store | `DecisionLinks`, `DecisionSync` | `DecisionSyncProps`, `DecisionMirror` (abstract), `DecisionRefinement`, `DecisionSyncHistory` | `MCDecisionSync`, `MCDecisionHistory` | `DecisionSyncProofs` |
| Opening | `StoreOpening` | `StoreOpeningProps` | `MCStoreOpening` | `StoreOpeningProofs` |
| Election | `DaemonElection` | `DaemonElectionProps` | `MCDaemonElection` | `DaemonElectionProofs` |
| Service | `EmbeddingService` | `EmbeddingServiceProps` | `MCEmbeddingService` | `EmbeddingServiceProofs` |
| Session | `Session` | `SessionProps` | `MCSession` | `SessionProofs` |
| Code index | `CodeIndex` | `CodeIndexProps` | `MCCodeIndex` | `CodeIndexProofs` |
| Queries and formats | `ImpactQueries`, `AnchorQueries`, `SearchQueries`, `DecisionFiles`, `ImportResolution` | `QueriesProps` | `MCQueries` | `QueriesProofs`, `SearchProofs` |

The state machines meet at their borders: `StoreOpening` ends in the first pass
of `DecisionSync`, of which it keeps what happens to rows without a file;
`DaemonElection` has the files of the daemon that `EmbeddingService` has at
work; `Session` runs `save` and `ensure` of `DecisionSync` as one step each and
sees an embedding of `EmbeddingService` only end, well or badly; `CodeIndex`
records against which set of files imports were resolved, and
`ImportResolution` says what that means.

### The decision store

`DecisionLinks` is the pure part: what a file declares (`EdgesOf`), what of it
can be stored (`DeriveLinks`), and the status edges give (`Statuses`).

`DecisionSync` is the machine. Its state is the disk (`file`, `authored`,
`disk`), the rows (`stored`, `present`, `status`, `edges`, `indexed`) and each
process (`pc`, `cached`, `saving`, `pass`). bun's SQLite and the file calls used
here are synchronous, so a process is interleaved with others only where it
touches disk or database, and every such point is an action:

| Code | Actions |
|---|---|
| `ensure`, `resync`, the reconcile at the end of `save` | `Ensure`, `Resync`, `Reconcile`: each begins with `ListFiles` (readdir) |
| `listPresence` and the drift test | `ListPresence` |
| `parseAll` | `ReadFile`, one file at a time |
| the transaction in `apply` | `Commit`, or `CommitFails` when a key or foreign key refuses it |
| `saveDecisionFile` | `WriteFile`, then `InsertNode`, `InsertAnchors`, `InsertIndex`, `InsertLocal`, each committed by itself; `SaveFails` |
| lock timeout, exit, kill | `Busy`, `Exit`, `Crash` |
| git and the editor (external) | `Arrive`, `Depart`, `Damage`, `Mend` |

The last two rows and foreign files are `Faults` an instance allows or not.
A file's content is fixed per id (files are write-once) and reduced to its
links and to whether it names an anchor twice. `InsertAnchors` keeps no rows
of its own: a decision with its full-text row has its anchors too.
`authored` stands for the freshness of `Bun.randomUUIDv7`.

`DecisionMirror` is what the store promises: decisions are recorded, and
presence, edges and statuses are replaced at once by what some set of files
declares. `DecisionRefinement` instantiates it over the rows of `DecisionSync`.

`DecisionSyncHistory` adds one history variable, `calm`: so far no two calls
overlapped, none was cut short, files moved between calls only, and all of them
parsed and could be stored. That is what the cheap path takes for granted; its
properties are promised for as long as `calm` holds, whatever comes later.

| Run | Instance | States | Shows |
|---|---|---|---|
| `TwoProcesses` | 2 processes, 2 decisions in mutual conflict of which one replaces the other; crash, foreign files, files that move during a pass (`overlap`) | 1.2 M | `TypeOK`, `LinksResolve`, `IndexedOnce`, `CalmNoDriftMeansMirrored` (the cheap drift test is sound), `CalmRowsAreWhole`, `NeverForgotten`, `PassMirrors`, `ImplementsMirror` |
| `Convergence` | 2 processes that crash, time out and overlap; 2 decisions, storable or not, in every pair of contents; hand edits, foreign files | 311 k | `NeverForgotten`, `Converges` |
| `FailedSave` | 1 process, no fault | | violation, see findings |
| `ConcurrentPasses` | 2 processes, no fault | | violation, see findings |

*Bounds.* Links are pairs, a status depends on the edges that leave one decision,
and a stale pass needs one other writer: two processes and two decisions give every
relation between two passes and between a pass and a save. Nothing is counted, so no
further bound is needed. In `Convergence` files rest while a pass runs; that they
move is `TwoProcesses`, which has no liveness. `TwoProcesses` uses symmetry of the
processes; `Convergence`, a liveness run, does not.

*Fairness.* `FairSpec` lets a process that has begun a call go on: nothing in
a call waits. Calls themselves are not forced. `Converges` takes its premises
from the environment: the files rest at last, and full passes keep completing.

### Opening a store

`StoreOpening` follows `buildRuntimeAt` and `init` statement by statement, for
processes that do so at the same time.

| Code | Actions |
|---|---|
| a command opens the store, or `init` does | `Begin` |
| `applyOnce`: the look at `_migrations`, the transaction | `CheckMigration`; `ApplyMigration`, or `ApplyFails` when another process was first |
| `exportDecisionsIfNeeded` | `Migrated`, `ListExportRows`, `ExportFile`, `Exported` |
| the config | `ReadConfig`, `TruncateConfig`, `FillConfig` (`Bun.write` is not atomic) |
| `ensureProject` | `SeekProject`, `AddProject` |
| the first `decisions.ensure()` | `Reconcile` |
| end, kill or lock timeout | `Close`, `Crash` |
| `git checkout` (external) | `Checkout` |

A behaviour starts from a new project, a clone with files and no database, a
store from before decision files or one from before the wider vocabulary, and
with a config that is missing, damaged, older or newer. `disturbed` records
that whoever was to export died, threw, or was overtaken by a reconcile.
`file` is the branch that is checked out and `away` what the other branches
have; `Checkout` moves files from one to the other at any step of an opening.
Whether an export is complete and whether it scattered anything is asked of both:
a decision has its file on one of them, and on one only.

| Run | Instance | States | Shows |
|---|---|---|---|
| `StoreOpening` | 2 processes, 2 decisions one replacing the other, 1 crash, checkouts of 2 branches | 1.5 M | `TypeOK` (no more project nodes than processes), `SchemaIsCurrent`, `UndisturbedExportIsComplete`, `NothingScattered`, `Opens` |
| `ExportLost` | the same without a crash | | violation, see findings |

*Bounds.* Two processes race for each of the three migrations; a third would
lose to the same winner. Two decisions allow an export half done, with and
without a link. *Fairness.* Openings go on, and the project keeps being
opened, as commands and hooks do. `Opens` holds since an opening that loses a
race leaves the schema further on than it found it.

### The daemon's election

`DaemonElection` follows `runEmbeddingDaemon` one system call per action:
create the lock (`CreateLock`, `WriteLock`, between which it is empty), read it
(`Inspect`), probe its pid (`Judge`), look again and unlink it (`Recheck`,
`UnlinkDead`), clear and bind the socket (`ClearSocket`, `Listen`), install the
signal handlers (`HandleSignals`), stop and release (`Stop`, `Release`,
`UnlinkOwn`). The behaviour starts with any files a dead daemon leaves. A client
spawns a daemon at any time, even beside a running one, since its probe is
old by then. A pid is not given to another daemon while a file or a starter
remembers it.

`clearDeadDaemonLock` unlinks by path after its last look, and other processes
take any steps in between. `overtaken` is history: a lock was created while
another starter was there. Then two daemons can be elected (`Preempted`,
see the findings). `OneElected`, `ServingIsFound`, `FreshLockSurvives` and
`Recovers` are about behaviours up to that moment: they say that nothing else,
no crash, no retry, no order of stopping and starting, loses the election.

| Run | Instance | States | Shows |
|---|---|---|---|
| `Election` | 3 daemons, 2 attempts, crashes, sockets that cannot be bound | 68 k | `TypeOK`, `OneElected`, `ServingIsFound`, `FreshLockSurvives`, `Recovers` |
| `Preempted` | 2 daemons, 2 attempts, no fault | | violation, see findings |

*Bounds.* Three daemons: one to hold or have left the lock, one to clear it,
one to create the next. Two attempts: one that clears, one that creates; the
code makes five. *Fairness.* A client that cannot reach a daemon spawns one
(`connectToDaemon`), and a daemon's own steps are never blocked. `Recovers`
excepts a lock that was left unwritten: a daemon killed between creating and
writing it leaves an unreadable lock, which the code never clears on purpose.

### The daemon at work

`EmbeddingService` is the same daemon between start and exit, with the sessions
that use it and the workers it runs. Sessions, daemon and provider are event
loops; a step is one event with all that runs before the next (only `LaneStart`
is split off, which allows more than the code does). Sockets are sequences.

| Code | Actions |
|---|---|
| `probeDaemon`, `embed`, `close`, `deliver`, `disconnect` of `client.ts` | `Connect`, `Hello`, `Embed`, `HangUp`, `Deliver`, `Disconnect` |
| `acceptClient`, `receive` with `respond` and `serve`, `dropClient`, `stop` | `Accept`, `Receive`, `Drop`, `Stop` |
| `SerialLane`, `sendToWorker`, `ensureLink` | `LaneStart` |
| `disposingOnTimeout` with `dispose`; the provider's idle timer | `Deadline`, `Reap` |
| the worker's answer, exit and broken output; `VectorRequestLedger` | `WorkerAnswers`, `WorkerExits`, `StreamFails`, each through `Settle` |
| a worker that ends by itself (external) | `WorkerDies` |

Ids are as in the code: every session counts from 1 (`Request` is a pair of
session and id) and so does every worker link (`asked[w]`, indexed by id), so
they collide. A vector stands for the request it was computed for. Whatever is
killed may still have written a line, and its exit is noticed later. `inFlight`
is not a variable: it counts the ids that are open in some ledger. A timeout of
zero (never idle) and the socket file, which `DaemonElection` has, are left out.

| Run | Instance | States | Shows |
|---|---|---|---|
| `Service` | 2 sessions with one request each, 2 workers, every fault | 213 k | `TypeOK`, `OnlyTheHeldIsAtRisk`, `OwnAnswer`, `TimersSpareTheBusy`, `NothingLingers`, `EverySettles` |

*Bounds.* Two requests give one that is held and one that waits or arrives
later, over the same worker or over a killed one and its successor; both have
id 1 for their sessions and, on two workers, for their links. One worker per
request is all that can be spawned. The theorems lift the bound for safety.
*Fairness.* Event loops process what has arrived and `setTimeout` fires.
Workers need not answer, timers of idleness need not fire: `EverySettles`
rests on deadlines and on closed connections alone. The run ends where all
connections are used up, so deadlock is not checked.

### A session

`Session` is one `cortex serve --mcp`: an event loop, in which an action is what
runs between two awaits.

| Code | Actions |
|---|---|
| `RuntimeRegistry.open`, which caches the promise | `Ask` and every call's next project, through `OpenRoot`; `Built`, `BuildFails` |
| the handlers of `save_decision`, `search_decisions`, `search_all_projects` | `Enter`, `Save`, `Search`, `ChangesNothing`, `Skip` |
| `EmbedQueue` with `onEmbedded` | `Embed`, `EmbedFails` |
| another session, `cortex embed --missing` | `Foreign` |
| `closeWith`, `RuntimeRegistry.dispose` | `Release`, `Signal`, `AwaitQueue`, `PassOver`, `Dispose`, `Released` |

`mine`, `embedded`, `early` and `late` are history: what this session saved and
embedded, what it saved before the release, what it opened since. A vector is
its decision; that a runtime of a replaced decision's own project sees it go is
`Active`. The failure of an embedding is one step whatever fails in
`EmbeddingService`.

| Run | Instance | States | Shows |
|---|---|---|---|
| `Sessions` | 2 calls over 2 projects, 2 decisions one replacing the other, 1 failed opening, another session on the same store | 563 k | `TypeOK`, `OneRuntimePerProject`, `SavedBeforeReleaseIsEmbedded`, `ReleaseIsComplete`, `CacheFollowsSession`, `CallsAndReleaseEnd` |

*Bounds.* Two calls share an opening, or one of them opens what the other lost;
an opening is made again only after a failure or after the release, so five
openings are enough with one failure. *Fairness.* Promises settle: an opening
ends, an embedding ends by its deadline. The run ends where the calls are used
up, so deadlock is not checked.

### The code index

`CodeIndex` follows `CodeIndexer.run`, a transaction or an awaited read per
action, over a tree that moves.

| Code | Actions |
|---|---|
| `listSourceFiles`: paths with size and modification time | `Walk` |
| `needsFullIndex`, `computeDrift` and the snapshot of the rows | `Plan` |
| `fullIndex`, `reindexChanged`: the content, read later | `ReadForRebuild`, `ReadChanged`, `ReadFails` |
| `touchFile`, `upsertFile`, `removeFile` | `Touch`, `Upsert`, `Remove` |
| `wipeAndRebuild`, then the extraction version | `Rebuild`, `Stamp` |
| the end of an incremental run; a kill | `FinishIncremental`, `Crash` |
| editors and git (external) | `Edit`, `Delete` |

A stamp stands for size and modification time, and every edit gives a file a
stamp it never had: that two edits can share both is below the model. A row
records from what content its symbols were extracted, against which files its
imports were resolved and by which extractor, so that what is stale about it
can be told. `overlapped` is history: two runs have been under way at once.

| Run | Instance | States | Shows |
|---|---|---|---|
| `CodeIndex` | 2 processes, 2 paths, 2 contents, an older and this build's extractor, 2 edits | 1.4 M | `TypeOK`, `StampTellsExtractor`, `SerialRunsIndex`, `RunsCatchUp` |

*Bounds.* Rows of two files do not interact but through the set of files; two
edits put one before and one after any read, or rename a file. The theorems
lift all four bounds.

### Queries and formats

These modules have no state: they are functions of the rows they read, checked
by drawing one input and comparing the answer with a reference definition
(`QueriesProps`).

| Module | Code | Reference |
|---|---|---|
| `ImpactQueries` | recursive queries of importers and of links, `DecisionImpact`, conflicts | all chains of imports, all routes of links |
| `AnchorQueries` | `why`, symbol suggestions, doctor's and `save_decision`'s warnings | one against the other: what is warned of is what `why` does not show |
| `SearchQueries` | fusion of rankings, `get_context`, `log`, the gate of prompts, candidates for conflicts | no answer ranks what both signals place lower, or is shorter than it may be |
| `DecisionFiles` | `formatDecisionFile`, `parseDecisionFile`, the schema for authors | the round trip |
| `ImportResolution` | relative and aliased imports, extensions, index files | one more file takes no import's target away |

| Run | Instance | States | Shows |
|---|---|---|---|
| `Queries` | imports among 3 files and links among 4 decisions, 7 anchors over 4 files with up to 3 symbols, all rankings of 3, prompts of 4 words, 6 files of a tree | 260 k | `CodeTellsItsDecisions`, `AnswersAreRanked`, `FilesComeBack`, `ImportsStayResolved` |

*Bounds.* Three files give cycles, and chains of two lengths and either
provenance between the same two; four decisions give a route of three links.
The row limits of the two walks (5000 in the code) are parameters, 7 and 6 here, so
that graphs on either side of them occur; SQLite adds rows depth by depth and in
no order the query states, so a walk that is cut has several possible answers, and
a property is about each of them. What `LIKE` matches beyond prefixes and equality
(letter case, `_` and `%` in a name) is a parameter too, `PathLike` and `NameLike`:
in the instance `F/a` is under `f`, as `app/` is under `App`. Tokens are not
modelled, a full-text ranking is given, and like that of the vectors it names no
decision twice. A body counts the carriage returns before its line ends, of
which each reading takes one. A sort is the one arrangement of a set that its
comparison allows (`Ranked`), a limit takes the beginning of it. Fused scores are
exact fractions, where the code adds doubles: the same two places tie in both, so
only equal sums of different places could be told apart by a rounding.

## Findings

1. *A failed save is not recovered* (`FailedSave`). `save.ts:19` says the next
   reconcile imports what is on disk. Once `INSERT INTO nodes` has committed the
   id counts as known, so a later failure leaves a decision without full-text
   row, anchors, edges or statuses. Two equal anchors in one call suffice.
2. *Overlapping passes can lose links unnoticed* (`ConcurrentPasses`). A pass
   commits what it read before; the staler of two commits last, and as presence
   is right the set difference of `reconcile.ts:50` stays empty. A full pass
   (`sync`, `doctor`, any save) repairs it, as `Converges` and `PassMirrors` say.
3. *Two daemons can be elected* (`Preempted`). `lock.ts:14` says that whoever
   creates the lock owns the role and `lock.ts:37` that a racing daemon's fresh
   lock survives `clearDeadDaemonLock`. Its check and its unlink are two calls
   (`lock.ts:42-46`): a starter that was suspended between them removes the lock
   another has created meanwhile, creates its own, and both run.
4. *The export of an old store can be lost* (`ExportLost`). `migrate()` returns
   the migrations it applied so that the one with the presence migration
   exports. Of two processes one applies it, loses the next migration to the
   other and throws; neither exports, and the next reconcile hides everything.

Remarks, seen while modelling; no run is about them:

* A file with a repeated anchor, which `save_decision` writes and the parser
  accepts, makes the transaction of every pass throw where it is imported
  (`README.md:168` and `:175` of the repository say otherwise).
* Two index runs at once: `touchFile` puts the new stamp and hash on a row whose
  symbols another run wrote from other content (`code-indexer.ts:144`);
  `SerialRunsIndex` excepts it, `cortex index --force` repairs it.
* An anchor whose symbol holds a `#`, or whose path does without a symbol, is
  read back as another anchor (`decision-file.ts:201`), and one whose text ends
  in a `#` loses one `#` at every reading; the text `#` alone is read as an anchor
  without a name, which written again makes the file unreadable. A body loses its
  CRLFs, a body with `\r\r\n` one carriage return at every reading; a body of blanks
  is long enough for the schema and is read by no checkout. `FilesComeBack` says
  what comes back and what changes.
* `why` of a symbol is shadowed by a path of the same name or one that is `LIKE`
  it (`App` by `app/`, `node-repository.ts:143`); `get_context` offers
  modules of retired decisions, and filters by module after it took the best.
* `init.ts:37` writes a new config over one that does not parse.
* `connection.ts` asks for WAL before it sets the busy timeout.
* A call in flight reopens a project after the registry was disposed of, and a
  save while the queue drains is not waited for (`runtime-registry.ts:45`).
* `dispose()` of the shared provider during a pending connect leaves the
  connection open (`shared-provider.ts:38`), and an indexer that throws leaves
  code.db open (`lazy-code-index.ts:38`).

## What is proved

Proofs are for all values of the constants. The assumptions are those of the
modules: `None` is none of the values beside it, contents are file records,
`Faults` are known kinds, pids are distinct, bounds are natural numbers.

`DecisionSyncProofs`, for any decisions, contents, processes and faults

* The inductive invariant is `IInv`, `TypeOK` with `PassInv`: what a pass remembers
  of the store is still in it, because rows are never deleted, and it has only
  read what it listed. `TypeOK` alone does not survive `Commit`, which adds
  to `present` what the pass found stored.
* `LinksAlwaysResolve`, `NothingIsForgotten` and `UpToDatePassMirrors` follow from
  it; the heart is `KnownGetsARow`: what is known to a pass has a row once it has
  committed.
* `OneRowPerDecision` needs `SavingInv` as well: ids being saved are distinct,
  and between `InsertNode` and `InsertIndex` the decision has no full-text row.
  The primary key of `nodes`, taken first, guards the keyless table.
* `CommitMirrors`: what a pass commits follows from the files it read and from
  nothing it found in the store but which ids are known.
* `StoreImplementsMirror`: initial states map to initial states; `InsertNode` is
  `Record`, `Commit` is `Adopt`, every other step leaves the mirror alone.

The last part of `DecisionSyncProofs`, for any number of processes while calls do
not overlap

* `OneCallAtATime`: no two processes are in the middle of a call. It is what one
  terminal or one agent does; where calls do overlap, `ConcurrentPasses` shows
  that the cheap path alone may never notice.
* `StoreConverges`, if that always holds and no file moves during a call
  (`FilesStay`): `ViewInv` says that what a pass has seen is what the disk holds,
  so a `Commit` mirrors the disk (`CommitIsUpToDate`), and while files rest every
  step keeps a mirror (`MirrorKept`). The run `Convergence` checks `Converges`
  with overlapping calls; its files do not move during a call either.
* `NoDriftIsAMirror` and `RowsStayWhole` are theorems of `HistorySpec`, in which
  every fault may happen: `CalmInv` holds what follows until `calm` is lost.
  `SerialInv`: the edges are those the present decisions declare unless a save is
  under way, and every save ends in a pass that reads all of them (`CallsInv`,
  `EdgesInv`); only a decision that is being saved may lack its full-text row
  (`RowsInv`). That no call fails while `calm` holds is `NoCallFails`; that
  statuses follow the edges whatever happens, `StatusAgreesWithEdges`.

`StoreOpeningProofs`, for any finite, nonempty set of processes, any decisions
and replacements in the old store, and any number of crashes

* `TypeCorrect`: a process that found no project node still counts against the
  bound while it is about to add one (`ProjectsInv`), so the bound is on nodes
  and adders together; that is where cardinalities are needed.
* `SchemaStaysCurrent` from `SchemaInv`: what a process has walked past in
  `migrate()` is applied, and what it applied itself nobody else did.
* `ExportsComplete` and `NothingIsScattered` from `ExportInv`: until the presence
  migration commits the rows are those of the old store, and unless the export is
  disturbed they still are while it is under way; no branch has a file of a stored
  decision until the exporter has listed the rows, and of what it listed and has not
  yet written none has one either, whatever is checked out (`Copies` counts both).
  Only one process can have the presence migration among its own, by `SchemaInv`.

`DaemonElectionProofs`, for any number of daemons and attempts

* `IInv` says that, until an unlink is overtaken, the lock names whoever is past the
  election or just created it, and a dead holder while a starter is removing it; one
  starter removes at a time; and the socket is that of the daemon that bound it.
* `OneDaemon`, `TheDaemonIsFound` and `LockSurvives` follow, without any
  assumption on schedules or faults: the history variable says in the properties
  themselves what they except, and only a `CreateLock` within the gap sets it.

`EmbeddingServiceProofs`, for any number of sessions, requests and workers

* `IInv` adds to the properties that what the lane waits for is open in the
  ledger of the link (`HeldIsOpen`), that ledgers hold ids that were asked
  (`LedgerInv`), and that responses under way and outcomes are own or errors.
  `HeldIsOpen` is what keeps the idle kill away from a busy worker, and a
  killed worker's exit from freeing the lane for its successor.
* `SettleKeeps` is the heart: the answer, the exit and the broken output of a
  worker differ only in the ids they settle. `DeadlineSparesTheOthers`,
  `AnswersAreOwn`, `TimersSpare` and `MemoryIsGivenBack` follow.

`CodeIndexProofs`, for any processes, paths, contents, extractors and edits

* `JobsInv` says what a run holds at each of its stages; with `TypeOK` it is
  inductive, and `TypeCorrect` follows.
* `ClockInv`: no stamp is newer than the clock, so an edit's is new to every row
  and run. `ContentInv`: what a run read of a file that still has the stamp of
  its walk is what the file says. `ExtractorInv`: from a rebuild on, rows are this
  build's. `StampIsTrue` needs only the last.
* `SerialInv`, as long as runs do not overlap: rows tell what they were
  extracted from, and a run has yet to do all that the rows lack of its walk.
  `SerialRunsAreRight` and `RunsDoCatchUp` follow.

`SessionProofs`, for any calls, decisions, replacements and failed openings

* `TypeInv` adds to `TypeOK` what ties a session together: a cached opening is
  one of its project, a call has an opening that was begun, a queue holds what
  was saved here, and the release waits only for an open runtime. `OldestExists`
  is where the order of `RuntimeRegistry.runtimes` comes in.
* `OneRuntime` and `ReleaseLeavesNothing` from `RegistryInv`: before the release
  an opening that holds a runtime is the cached one; afterwards the release has
  it on its list or a call opened it since.
* `NoVectorDropped` from `EmbeddedInv`: behind the items the release waits for
  there is none that was saved before it began.
* `CacheIsCurrent` from `CacheInv`: a cache that is there was filled after the
  last save and the last embedding of its runtime.

`QueriesProofs`, for any graphs, anchors, files, drafts and imports

* `CodeAlwaysTellsItsDecisions`: a row in the n-th layer of the recursive
  query is a chain of n imports with the provenance of its worst hop, and every
  chain has its row (`LayersAreChains`); so it is with links and routes
  (`LayersAreRoutes`). The induction on n is by a least counterexample. Hence
  the least depth is that of a shortest chain, also through cycles, and a limit,
  which cuts rows added later, takes the deepest.
  `AnchorsTold` splits the anchors into those that name a
  symbol of their file and the orphans.
* `FilesAlwaysComeBack`: writing an anchor joins its path and symbol with a `#`
  and reading splits at the last one (`AnchorBack`); a body loses its blanks and a
  carriage return at each line end (`BodyBack`); all other fields return. A second
  reading changes nothing more where no anchor ends in a `#` and no line in two
  carriage returns.
* `ImportsAlwaysStayResolved`: the first candidate that exists, out of a list
  that does not depend on the files, can only be displaced by the new file.
* Premises are on the inputs. `NoneIsNoValue` keeps `None` apart from texts, lists
  and records. `FileRecord` and `DraftRecord` are the schemas' types.
  `IsImportGraph`, `IsLinkGraph`, `IsAnchoredCode`, `IsSpecifier` and, for the next
  module, `IsIntent`, `IsPrompt`, `IsSave` and `IsCommit` are types, and say that
  one asks about decisions there are and files inside the repository. TLC checks
  that the instance's inputs satisfy them (`InputsAssumption`).

`SearchProofs`, for any store of decisions, rankings, prompts, drafts and limits

* `AnswersAreAlwaysRanked` says of every answer that it is the beginning of
  something sorted. A finite set with a strict total order can be sorted, by giving
  each member as its place how many are before it (`SortingExists`): that is
  counting, and no induction. `RankedIsSorted` says that the model's sort is such a
  one, `FirstAreBest` that a beginning of it has the best and is as long as it may
  be, and each query then owes only that its comparison is a strict total order
  (`NewestFirstIsOrder`, `RelevanceIsOrder`, `ExceedsIsOrder`).
* The fused answer: cutting the text's ranking to the limit before the fusion takes
  nothing from who leads in it (`FirstLeads`); what leads in both rankings has the
  larger sum of reciprocals (`WorthLeads`, `PlusExceeds`, `LeadersFirst`); and
  dropping the retired after the fusion keeps the order (`AnswerIsRanked`). With
  no retired decision in the cache the answer is full (`AnswerIsFull`).
* The prompt's terms are a loop over tokens. `TermsAreEarly` says without
  a loop which they are, those said while fewer than `maxTerms` others had been; a
  least token after which it failed would contradict `OneMoreToken`.

Only model-checked: liveness under fairness (`Opens`, `Recovers`, `EverySettles`,
`CallsAndReleaseEnd`, and `Converges` where calls overlap), which is out of the
prover's reach. Every invariant and every action property that a passing run
checks is stated by a theorem.

## Not modelled

* *The shared provider's choice* between daemon and private worker, and its
  verdict that no daemon is available: `EmbeddingService` begins at a connection
  and has one provider behind the lane, so requests pipelined to a private
  worker are not in it.
* *The sharing of one code index inside a process* (`lazy-code-index.ts`): two
  openings in one process behave as the two processes of `CodeIndex`.
* *The project registry*: one file, read, changed and replaced without a lock.
  The code says that failing to record a project must cost nothing, and the
  next opening records it again; a lost entry breaks no promise.
* *Upgrade, release and download*: downloads, checksums and the replacement of
  one file, in one process; the daemon's stop they cause is in `DaemonElection`.
* *Agent integration*: text editing of configuration files.
* *git and the tree-sitter walk*: external; what they return is an input.
* Rendering, argument parsing and exit codes of commands; what a reconcile
  report says of malformed files and double replacements, which only doctor and
  sync print; session nodes, which only a listing reads; the evaluation scripts.
