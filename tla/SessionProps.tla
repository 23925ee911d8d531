----------------------------- MODULE SessionProps -----------------------------
(***************************************************************************)
(* What must be true of an MCP session.                                    *)
(***************************************************************************)
EXTENDS Session

CallType ==
  [ at : {"idle", "opening", "using", "answered"},
    wants : {"save", "search", "everywhere", None},
    on : Opening \union {None}, left : {<<>>, <<Elsewhere>>} ]

\* Every variable holds a value of its type; the release waits for no more
\* than is in the queue.
TypeOK ==
  /\ life \in [Opening -> {"unborn", "building", "open", "failed", "disposed"}]
  /\ rootOf \in [Opening -> Root \union {None}]
  /\ runtimes \in [Root -> Opening \union {None}]
  /\ call \in [Call -> CallType]
  /\ queue \in [Opening -> Seq(Decision)]
  /\ saved \subseteq Decision /\ vectors \subseteq saved
  /\ vectorCache \in [Opening -> (SUBSET Decision) \union {None}]
  /\ release \in {"no", "signalled", "closed", "done", "exited"}
  /\ releasing \subseteq Opening
  /\ awaited # None => releasing # {} /\ awaited \in 0..Len(queue[Oldest])
  /\ early \subseteq mine /\ mine \subseteq saved /\ embedded \subseteq vectors
  /\ late \subseteq Opening

Held(o) == life[o] \in {"building", "open"}

\* However calls overlap, and openings fail and are tried again, a session holds
\* one runtime of a project (one database connection, one embed queue, one
\* cache) until it is released.
OneRuntimePerProject ==
  release = "no" =>
    \A o, n \in Opening : Held(o) /\ Held(n) /\ rootOf[o] = rootOf[n] => o = n

\* runtime-registry.ts: "a runtime is only torn down once its queue drains -
\* otherwise a shutdown right after a save silently drops the vector". Every
\* decision saved before the release has had its embedding, or its failure, when
\* its runtime is disposed of.
SavedBeforeReleaseIsEmbedded ==
  \A o \in Opening : life[o] = "disposed" =>
    \A i \in DOMAIN queue[o] : queue[o][i] \notin early

\* server.ts: "a client disconnect has to release them". The release leaves
\* open only what calls still in flight opened after it began: every opening
\* under way is waited for, every failed one passed over.
ReleaseIsComplete ==
  release \in {"done", "exited"} => \A o \in Opening : Held(o) => o \in late

\* The vectors of a session's searches are never behind its own saves: a cache
\* filled while a save's embedding was under way is cleared by it, and a
\* decision that the session has replaced does not take a place in the ranking.
CacheFollowsSession ==
  \A o \in Opening : vectorCache[o] # None /\ rootOf[o] = Default /\ life[o] = "open"
    /\ (\A n \in Opening : n # o => rootOf[n] # Default \/ life[n] \in {"unborn", "failed"})
      => \A d \in mine :
           /\ Replaces[d] \notin vectorCache[o]
           /\ d \in embedded \intersect Active => d \in vectorCache[o]

\* Every call is answered, whatever fails to open and even when the session is
\* released under it, unless the process has ended; and a release that has begun
\* ends: the queue it waits for goes on past an item that failed or timed out
\* (queue.ts leaves it "pending"), and an opening that failed is passed over.
CallsAndReleaseEnd ==
  /\ \A c \in Call :
       call[c].at # "idle" ~> (call[c].at = "answered" \/ release = "exited")
  /\ release # "no" ~> release \in {"done", "exited"}

===============================================================================
