-------------------------------- MODULE Session --------------------------------
(***************************************************************************)
(* One MCP session (`cortex serve --mcp`): the runtimes it opens for the   *)
(* projects its calls name (mcp/runtime-registry.ts), the calls in flight  *)
(* on them, the queue that embeds what they save (embedding/queue.ts), the *)
(* vectors a search keeps (embedding/semantic-search.ts) and the release   *)
(* of it all when the client goes or a signal comes (mcp/server.ts).       *)
(*                                                                         *)
(* The session is one thread: an action is what runs between two awaits.   *)
(***************************************************************************)
EXTENDS Naturals, FiniteSets, Sequences

CONSTANTS
  Default, Elsewhere,  \* the project the server started in, another one
  Call,                \* the tool calls of the session
  Decision,            \* the decisions saved into the default project
  Replaces,            \* per decision, the one it replaces, or None
  LastFailure,         \* bound: how many openings fail
  None

ASSUME RootAssumption == Default # Elsewhere /\ None \notin {Default, Elsewhere}
ASSUME ReplacesAssumption ==
  None \notin Decision /\ Replaces \in [Decision -> Decision \union {None}]
ASSUME LastFailureAssumption == LastFailure \in Nat
ASSUME NoneAssumption == None \notin Nat

Root == {Default, Elsewhere}

\* Enough for one opening of each project before the release, one after it, and
\* another one after every failure.
Opening == 1..(4 + LastFailure)

VARIABLES
  life, rootOf,  \* per opening: the state of its runtime, its project
  runtimes,      \* RuntimeRegistry.runtimes: per project, the opening cached
  call,          \* per call: where it is, what it wants, on which opening, and
                 \* the projects it has still to search
  queue,         \* per opening: EmbedQueue, the item being embedded first
  saved,         \* decisions.db of the default project: its decisions,
  vectors,       \* and those that have a row in embeddings
  vectorCache,   \* per opening: SemanticSearch.vectorCache, or None
  release,       \* server.ts: "no", "signalled", "closed", "done", "exited"
  releasing,     \* RuntimeRegistry.dispose: the openings it has still to see to
  awaited,       \* how much of the next one's queue it waits for, or None
  mine, embedded, \* history: the decisions saved, and embedded, here,
  early, late    \* those saved before the release, and what it opened since

registryVars == <<life, rootOf, runtimes>>
storeVars == <<saved, vectors>>
releaseVars == <<release, releasing, awaited>>
vars == <<registryVars, call, queue, storeVars, vectorCache, releaseVars, mine, embedded, early, late>>

Idle == [at |-> "idle", wants |-> None, on |-> None, left |-> <<>>]

Init ==
  /\ life = [o \in Opening |-> "unborn"]
  /\ rootOf = [o \in Opening |-> None]
  /\ runtimes = [r \in Root |-> None]
  /\ call = [c \in Call |-> Idle]
  /\ queue = [o \in Opening |-> <<>>]
  /\ saved = {} /\ vectors = {}
  /\ vectorCache = [o \in Opening |-> None]
  /\ release = "no" /\ releasing = {} /\ awaited = None
  /\ mine = {} /\ embedded = {} /\ early = {} /\ late = {}

Runs == release # "exited"
Releasing == release \in {"signalled", "closed"}

\* A Map yields its values as they came: the oldest opening is seen to first.
Oldest == CHOOSE o \in releasing : \A n \in releasing : o <= n

Active == {d \in saved : \A e \in saved : Replaces[e] # d}

-------------------------------------------------------------------------------
(***************************************************************************)
(* RuntimeRegistry.open.                                                   *)
(***************************************************************************)

\* Mutant: a runtime is cached when it is open.
SharedWhenOpen(r) == runtimes[r] # None /\ life[runtimes[r]] = "open"

\* What is cached is the promise, so a call joins an opening under way.
Shared(r) == runtimes[r] # None

\* Call c, as it is in `next`, goes on with project r.
OpenRoot(c, r, next) ==
  IF Shared(r)
  THEN /\ call' = [call EXCEPT ![c] = [next EXCEPT !.at = "opening", !.on = runtimes[r]]]
       /\ UNCHANGED <<registryVars, late>>
  ELSE \E o \in Opening :
         /\ life[o] = "unborn" /\ \A n \in 1..(o - 1) : life[n] # "unborn"
         /\ life' = [life EXCEPT ![o] = "building"]
         /\ rootOf' = [rootOf EXCEPT ![o] = r]
         /\ runtimes' = [runtimes EXCEPT ![r] = o]
         /\ late' = IF release = "no" THEN late ELSE late \union {o}
         /\ call' = [call EXCEPT ![c] = [next EXCEPT !.at = "opening", !.on = o]]

\* A tool call arrives: for the default project, or search_all_projects, which
\* goes through the projects one by one. The transport delivers until the
\* client is gone.
Ask(c, wants) ==
  /\ release \in {"no", "signalled"}
  /\ call[c].at = "idle"
  /\ OpenRoot(c, Default,
       [Idle EXCEPT !.wants = wants,
          !.left = IF wants = "everywhere" THEN <<Elsewhere>> ELSE <<>>])
  /\ UNCHANGED <<queue, storeVars, vectorCache, releaseVars, mine, embedded, early>>

\* buildRuntimeAt, decisions.ensure() and registerProject are through.
Built(o) ==
  /\ Runs /\ life[o] = "building"
  /\ life' = [life EXCEPT ![o] = "open"]
  /\ UNCHANGED <<rootOf, runtimes, call, queue, storeVars, vectorCache, releaseVars,
                 mine, embedded, early, late>>

CanFail == Cardinality({o \in Opening : life[o] = "failed"}) < LastFailure

\* Any of them throws. The entry is deleted by its key, whatever opening it is
\* by now; what had been opened before it threw is not closed.
BuildFails(o) ==
  /\ Runs /\ life[o] = "building" /\ CanFail
  /\ life' = [life EXCEPT ![o] = "failed"]
  /\ runtimes' = [runtimes EXCEPT ![rootOf[o]] = None]
  /\ UNCHANGED <<rootOf, call, queue, storeVars, vectorCache, releaseVars,
                 mine, embedded, early, late>>

-------------------------------------------------------------------------------
(***************************************************************************)
(* The calls.                                                              *)
(***************************************************************************)

\* Mutant: a call whose runtime was disposed of while it waited is dropped.
EnterOpen(c) ==
  /\ Runs /\ call[c].at = "opening"
  /\ life[call[c].on] = "open"
  /\ call' = [call EXCEPT ![c].at = "using"]
  /\ UNCHANGED <<registryVars, queue, storeVars, vectorCache, releaseVars, mine, embedded,
                 early, late>>

\* The handler has its runtime, open or disposed of in the meantime.
Enter(c) ==
  /\ Runs /\ call[c].at = "opening"
  /\ life[call[c].on] \in {"open", "disposed"}
  /\ call' = [call EXCEPT ![c].at = "using"]
  /\ UNCHANGED <<registryVars, queue, storeVars, vectorCache, releaseVars, mine, embedded, early, late>>

\* On to the next project, or to the answer.
Proceed(c) ==
  IF call[c].left = <<>>
  THEN /\ call' = [call EXCEPT ![c].at = "answered"]
       /\ UNCHANGED <<registryVars, late>>
  ELSE OpenRoot(c, Head(call[c].left), [call[c] EXCEPT !.left = Tail(@)])

\* The opening failed: an error, or, in a search of all projects, one skipped.
Skip(c) ==
  /\ Runs /\ call[c].at = "opening"
  /\ life[call[c].on] = "failed"
  /\ Proceed(c)
  /\ UNCHANGED <<queue, storeVars, vectorCache, releaseVars, mine, embedded, early>>

\* save_decision: saved, queued and the cache cleared in one stretch.
Save(c, d) ==
  /\ Runs /\ call[c].at = "using" /\ call[c].wants = "save"
  /\ life[call[c].on] = "open"
  /\ d \notin saved /\ Replaces[d] \in saved \union {None}
  /\ saved' = saved \union {d}
  /\ mine' = mine \union {d}
  /\ early' = IF release = "no" THEN early \union {d} ELSE early
  /\ queue' = [queue EXCEPT ![call[c].on] = Append(@, d)]
  /\ vectorCache' = [vectorCache EXCEPT ![call[c].on] = None]
  /\ Proceed(c)
  /\ UNCHANGED <<vectors, releaseVars, embedded>>

\* SemanticSearch.search once the query is embedded: the vector leg comes from
\* the cache, filled if it is not. (A query that is not embedded in time leaves
\* the cache alone: ChangesNothing.)
Search(c) ==
  /\ Runs /\ call[c].at = "using" /\ call[c].wants # "save"
  /\ life[call[c].on] = "open"
  /\ vectorCache' =
       IF vectorCache[call[c].on] # None THEN vectorCache
       ELSE [vectorCache EXCEPT ![call[c].on] =
              IF rootOf[call[c].on] = Default THEN vectors \intersect Active ELSE {}]
  /\ Proceed(c)
  /\ UNCHANGED <<queue, storeVars, releaseVars, mine, embedded, early>>

\* The full-text leg alone answers, a save names a decision that is not there
\* and is refused, or the database was closed meanwhile.
ChangesNothing(c) ==
  /\ Runs /\ call[c].at = "using"
  /\ Proceed(c)
  /\ UNCHANGED <<queue, storeVars, vectorCache, releaseVars, mine, embedded, early>>

-------------------------------------------------------------------------------
(***************************************************************************)
(* The embed queue, and another process on the same store.                 *)
(***************************************************************************)

\* Mutant: an item that is over is not counted out.
DequeueUncounted(o) ==
  /\ Runs /\ queue[o] # <<>>
  /\ queue' = [queue EXCEPT ![o] = Tail(@)]
  /\ UNCHANGED <<registryVars, call, saved, releaseVars, mine, early, late>>

\* What an item leaves when it is over: one less to wait for.
Dequeue(o) ==
  /\ Runs /\ queue[o] # <<>>
  /\ queue' = [queue EXCEPT ![o] = Tail(@)]
  /\ awaited' = IF releasing # {} /\ Oldest = o /\ awaited \notin {None, 0}
                THEN awaited - 1 ELSE awaited
  /\ UNCHANGED <<registryVars, call, saved, release, releasing, mine, early, late>>

\* Mutant: no onEmbedded.
EmbedKeepsCache(o) ==
  /\ life[o] = "open"
  /\ Dequeue(o)
  /\ vectors' = vectors \union {Head(queue[o])}
  /\ embedded' = embedded \union {Head(queue[o])}
  /\ UNCHANGED vectorCache

\* embedNode: the row and onEmbedded in one stretch.
Embed(o) ==
  /\ life[o] = "open"
  /\ Dequeue(o)
  /\ vectors' = vectors \union {Head(queue[o])}
  /\ embedded' = embedded \union {Head(queue[o])}
  /\ vectorCache' = [vectorCache EXCEPT ![o] = None]

\* The provider fails or exceeds its deadline, or the database is closed: the
\* item is left to `cortex embed --missing`, the next one goes on.
EmbedFails(o) ==
  /\ Dequeue(o)
  /\ UNCHANGED <<vectors, vectorCache, embedded>>

\* Another session saves, `cortex embed --missing` embeds.
Foreign(d) ==
  /\ Runs
  /\ \/ d \notin saved /\ saved' = saved \union {d} /\ UNCHANGED vectors
     \/ d \in Active \ vectors /\ vectors' = vectors \union {d} /\ UNCHANGED saved
  /\ UNCHANGED <<registryVars, call, queue, vectorCache, releaseVars, mine, embedded, early, late>>

-------------------------------------------------------------------------------
(***************************************************************************)
(* closeWith: one release, whoever asks for it.                            *)
(***************************************************************************)

Release(how) ==
  /\ release = "no"
  /\ release' = how
  /\ releasing' = {runtimes[r] : r \in Root} \ {None}
  /\ runtimes' = [r \in Root |-> None]
  /\ UNCHANGED <<life, rootOf, call, queue, storeVars, vectorCache, awaited,
                 mine, embedded, early, late>>

\* The client is gone: the process lives on. A signal while the release for it
\* is under way waits for the same release, then exits.
Signal ==
  /\ release \in {"closed", "done"}
  /\ release' = IF release = "closed" THEN "signalled" ELSE "exited"
  /\ UNCHANGED <<registryVars, call, queue, storeVars, vectorCache, releasing, awaited,
                 mine, embedded, early, late>>

\* dispose() comes to its next opening, and waits for it to be open.
AwaitQueue ==
  /\ Releasing /\ releasing # {} /\ awaited = None
  /\ life[Oldest] = "open"
  /\ awaited' = Len(queue[Oldest])
  /\ UNCHANGED <<registryVars, call, queue, storeVars, vectorCache, release, releasing,
                 mine, embedded, early, late>>

\* Mutant: an opening that is not open yet is passed over.
PassOverUnopened ==
  /\ Releasing /\ releasing # {} /\ life[Oldest] \in {"building", "failed"}
  /\ releasing' = releasing \ {Oldest}
  /\ UNCHANGED <<registryVars, call, queue, storeVars, vectorCache, release, awaited,
                 mine, embedded, early, late>>

PassOver ==
  /\ Releasing /\ releasing # {} /\ life[Oldest] = "failed"
  /\ releasing' = releasing \ {Oldest}
  /\ UNCHANGED <<registryVars, call, queue, storeVars, vectorCache, release, awaited,
                 mine, embedded, early, late>>

\* Mutant: the queue is not waited for.
DisposeAtOnce ==
  /\ Releasing /\ releasing # {} /\ awaited # None
  /\ life' = [life EXCEPT ![Oldest] = "disposed"]
  /\ releasing' = releasing \ {Oldest}
  /\ awaited' = None
  /\ UNCHANGED <<rootOf, runtimes, call, queue, storeVars, vectorCache, release,
                 mine, embedded, early, late>>

\* The items that were queued when it looked are through.
Dispose ==
  /\ Releasing /\ releasing # {} /\ awaited = 0
  /\ life' = [life EXCEPT ![Oldest] = "disposed"]
  /\ releasing' = releasing \ {Oldest}
  /\ awaited' = None
  /\ UNCHANGED <<rootOf, runtimes, call, queue, storeVars, vectorCache, release,
                 mine, embedded, early, late>>

Released ==
  /\ Releasing /\ releasing = {}
  /\ release' = IF release = "signalled" THEN "exited" ELSE "done"
  /\ UNCHANGED <<registryVars, call, queue, storeVars, vectorCache, releasing, awaited,
                 mine, embedded, early, late>>

Advance ==
  \/ \E o \in Opening : Built(o) \/ BuildFails(o) \/ Embed(o) \/ EmbedFails(o)
  \/ AwaitQueue \/ PassOver \/ Dispose \/ Released

Answer(c) ==
  Enter(c) \/ Skip(c) \/ Search(c) \/ ChangesNothing(c) \/ \E d \in Decision : Save(c, d)

Next ==
  \/ \E c \in Call : Answer(c) \/ \E wants \in {"save", "search", "everywhere"} : Ask(c, wants)
  \/ Advance
  \/ \E d \in Decision : Foreign(d)
  \/ Release("closed") \/ Release("signalled") \/ Signal

Spec == Init /\ [][Next]_vars

\* The event loop runs whatever can run: openings end, an embedding ends by its
\* deadline, and calls and the release go on when what they wait for is there.
FairSpec ==
  /\ Spec
  /\ \A o \in Opening : WF_vars(Built(o) \/ BuildFails(o))
  /\ \A o \in Opening : WF_vars(Embed(o) \/ EmbedFails(o))
  /\ \A c \in Call : WF_vars(Answer(c))
  /\ WF_vars(AwaitQueue \/ PassOver \/ Dispose \/ Released)

===============================================================================
