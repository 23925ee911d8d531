---------------------------- MODULE DaemonElection ----------------------------
(***************************************************************************)
(* How processes spawned as the user-wide embedding daemon agree on one of *)
(* them, through a lock file and a Unix socket:                            *)
(* src/src/embedding/daemon/{lock,main,stop}.ts and the start and stop of  *)
(* embedding-daemon.ts. One step is one system call on either file.        *)
(***************************************************************************)
EXTENDS Naturals

CONSTANTS
  Daemon,   \* processes spawned as daemons; each stands for its pid
  Ghost,    \* the pid of a daemon that died before the behaviour begins
  None,     \* no pid
  Attempts, \* ACQUIRE_ATTEMPTS
  Faults    \* the freedoms the surroundings take in this instance

\* crash:  a daemon is killed at any step, or throws while writing its lock,
\*         leaving its files behind
\* refuse: the socket path cannot be bound (permissions, a path too long)
FaultKind == {"crash", "refuse"}

ASSUME PidAssumption == Ghost \notin Daemon /\ None \notin Daemon \union {Ghost}
ASSUME AttemptsAssumption == Attempts \in Nat
ASSUME FaultsAssumption == Faults \subseteq FaultKind

VARIABLES
  lock,    \* the lock file: who created it, and whether its content is in
  socket,  \* who bound the socket file at the path, or None
  pc,      \* pc[d]: where daemon d is in runEmbeddingDaemon
  seen,    \* seen[d]: the holder d read from the lock
  tries,   \* tries[d]: attempts used up
  overtaken \* history, which no step reads: a lock was created while another
            \* daemon was between its last look at a dead one and its unlink

vars == <<lock, socket, pc, seen, tries, overtaken>>

Pid    == Daemon \union {Ghost}
NoLock == [owner |-> None, written |-> FALSE]
Lock   == [owner : Pid \union {None}, written : BOOLEAN]

Acquiring == {"acquire", "write", "inspect", "judge", "recheck", "unlink"}
Elected   == {"clearSocket", "listen", "bound", "serving", "release", "unlinkOwn"}
Label     == {"down"} \union Acquiring \union Elected

\* Mutant: only a daemon that is already serving counts as alive.
AliveIfServing(pid) == pid \in Daemon /\ pc[pid] = "serving"

\* process.kill(pid, 0)
Alive(pid) == pid \in Daemon /\ pc[pid] # "down"

\* What readDaemonLock decodes: a missing or still empty file is null.
Holder == IF lock.written THEN lock.owner ELSE None

\* The path leads to a running daemon.
Reachable == socket \in Daemon /\ pc[socket] \in {"bound", "serving"}

-------------------------------------------------------------------------------
\* A crashed daemon may have left its lock and its socket file.
Init ==
  /\ lock \in {NoLock, [owner |-> Ghost, written |-> TRUE]}
  /\ socket \in {None, Ghost}
  /\ pc = [d \in Daemon |-> "down"]
  /\ seen = [d \in Daemon |-> None]
  /\ tries = [d \in Daemon |-> 0]
  /\ overtaken = FALSE

Goto(d, label) == pc' = [pc EXCEPT ![d] = label]

\* The process ends and forgets everything.
Leave(d) ==
  /\ Goto(d, "down")
  /\ seen' = [seen EXCEPT ![d] = None]
  /\ tries' = [tries EXCEPT ![d] = 0]

\* A client that found the socket unreachable spawned d. (Its probe is old by
\* the time d runs, so d may start beside a running daemon.) A pid is not
\* reused while a file or a starter still remembers it.
Start(d) ==
  /\ pc[d] = "down"
  /\ lock.owner # d /\ socket # d /\ \A e \in Daemon : seen[e] # d
  /\ Goto(d, "acquire")
  /\ UNCHANGED <<lock, socket, seen, tries, overtaken>>

\* open(path, "wx"): only one creator succeeds.
CreateLock(d) ==
  /\ pc[d] = "acquire"
  /\ lock = NoLock
  /\ lock' = [owner |-> d, written |-> FALSE]
  /\ overtaken' = (overtaken \/ \E e \in Daemon : pc[e] = "unlink")
  /\ Goto(d, "write")
  /\ UNCHANGED <<socket, seen, tries>>

LockExists(d) ==
  /\ pc[d] = "acquire"
  /\ lock # NoLock
  /\ Goto(d, "inspect")
  /\ UNCHANGED <<lock, socket, seen, tries, overtaken>>

\* The content goes to the file d created, which may no longer be the one at
\* the path.
WriteLock(d) ==
  /\ pc[d] = "write"
  /\ lock' = IF lock.owner = d THEN [lock EXCEPT !.written = TRUE] ELSE lock
  /\ Goto(d, "clearSocket")
  /\ UNCHANGED <<socket, seen, tries, overtaken>>

\* Mutant: a lock that cannot be read is cleared.
InspectClearing(d) ==
  /\ pc[d] = "inspect"
  /\ seen' = [seen EXCEPT ![d] = Holder]
  /\ Goto(d, IF Holder = None THEN "unlink" ELSE "judge")
  /\ UNCHANGED <<lock, socket, tries, overtaken>>

\* A lock that cannot be read counts as taken: d gives up.
Inspect(d) ==
  /\ pc[d] = "inspect"
  /\ IF Holder = None
     THEN Leave(d)
     ELSE /\ seen' = [seen EXCEPT ![d] = Holder]
          /\ Goto(d, "judge")
          /\ UNCHANGED tries
  /\ UNCHANGED <<lock, socket, overtaken>>

Judge(d) ==
  /\ pc[d] = "judge"
  /\ IF Alive(seen[d])
     THEN Leave(d)
     ELSE Goto(d, "recheck") /\ UNCHANGED <<seen, tries>>
  /\ UNCHANGED <<lock, socket, overtaken>>

\* Mutant: one attempt too many.
NextAttemptOneMore(d) ==
  IF tries[d] < Attempts
  THEN /\ tries' = [tries EXCEPT ![d] = @ + 1]
       /\ seen' = [seen EXCEPT ![d] = None]
       /\ Goto(d, "acquire")
  ELSE Leave(d)

\* One attempt is over: sleep and try again, or give up.
NextAttempt(d) ==
  IF tries[d] + 1 < Attempts
  THEN /\ tries' = [tries EXCEPT ![d] = @ + 1]
       /\ seen' = [seen EXCEPT ![d] = None]
       /\ Goto(d, "acquire")
  ELSE Leave(d)

\* Mutant: the lock is cleared on the strength of the first look.
RecheckSkipped(d) ==
  /\ pc[d] = "recheck"
  /\ Goto(d, "unlink")
  /\ UNCHANGED <<lock, socket, seen, tries, overtaken>>

\* clearDeadDaemonLock looks again: same holder, still dead? Nothing keeps the
\* file from changing between this look and the unlink.
Recheck(d) ==
  /\ pc[d] = "recheck"
  /\ IF Holder = seen[d] /\ ~Alive(Holder)
     THEN Goto(d, "unlink") /\ UNCHANGED <<seen, tries>>
     ELSE NextAttempt(d)
  /\ UNCHANGED <<lock, socket, overtaken>>

\* unlink(path), whatever is at the path by now.
UnlinkDead(d) ==
  /\ pc[d] = "unlink"
  /\ lock' = NoLock
  /\ NextAttempt(d)
  /\ UNCHANGED <<socket, overtaken>>

-------------------------------------------------------------------------------
\* Mutant: a leftover socket file stays.
ClearSocketNever(d) ==
  /\ pc[d] = "clearSocket"
  /\ Goto(d, "listen")
  /\ UNCHANGED <<lock, socket, seen, tries, overtaken>>

\* start(): a leftover socket file is unlinked, then the path is bound.
ClearSocket(d) ==
  /\ pc[d] = "clearSocket"
  /\ socket' = None
  /\ Goto(d, "listen")
  /\ UNCHANGED <<lock, seen, tries, overtaken>>

Listen(d) ==
  /\ pc[d] = "listen"
  /\ socket = None
  /\ socket' = d
  /\ Goto(d, "bound")
  /\ UNCHANGED <<lock, seen, tries, overtaken>>

\* The path is bound already, or cannot be: start() throws and the lock is
\* released.
ListenFails(d) ==
  /\ pc[d] = "listen"
  /\ socket # None \/ "refuse" \in Faults
  /\ Goto(d, "release")
  /\ UNCHANGED <<lock, socket, seen, tries, overtaken>>

\* The signal handlers are installed; the daemon only has to serve.
HandleSignals(d) ==
  /\ pc[d] = "bound"
  /\ Goto(d, "serving")
  /\ UNCHANGED <<lock, socket, seen, tries, overtaken>>

\* stop(): idle with no client left, or SIGTERM. The socket file at the path
\* goes first, the lock after.
Stop(d) ==
  /\ pc[d] = "serving"
  /\ socket' = None
  /\ Goto(d, "release")
  /\ UNCHANGED <<lock, seen, tries, overtaken>>

\* releaseDaemonLock: only a lock that still names d is unlinked.
Release(d) ==
  /\ pc[d] = "release"
  /\ IF Holder = d
     THEN Goto(d, "unlinkOwn") /\ UNCHANGED <<seen, tries>>
     ELSE Leave(d)
  /\ UNCHANGED <<lock, socket, overtaken>>

UnlinkOwn(d) ==
  /\ pc[d] = "unlinkOwn"
  /\ lock' = NoLock
  /\ Leave(d)
  /\ UNCHANGED <<socket, overtaken>>

\* stopDaemon() signals the pid the lock names before its handlers are
\* installed: the process dies and leaves its files.
SignalTooEarly(d) ==
  /\ Holder = d
  /\ pc[d] \in {"clearSocket", "listen", "bound"}
  /\ Leave(d)
  /\ UNCHANGED <<lock, socket, overtaken>>

Crash(d) ==
  /\ "crash" \in Faults
  /\ pc[d] # "down"
  /\ Leave(d)
  /\ UNCHANGED <<lock, socket, overtaken>>

\* The steps of a daemon that nothing outside has to cause.
Advance(d) ==
  \/ CreateLock(d) \/ LockExists(d) \/ WriteLock(d)
  \/ Inspect(d) \/ Judge(d) \/ Recheck(d) \/ UnlinkDead(d)
  \/ ClearSocket(d) \/ Listen(d) \/ ListenFails(d) \/ HandleSignals(d)
  \/ Release(d) \/ UnlinkOwn(d)

Next ==
  \E d \in Daemon :
    Start(d) \/ Advance(d) \/ Stop(d) \/ SignalTooEarly(d) \/ Crash(d)

Spec == Init /\ [][Next]_vars

\* Clients spawn a daemon whenever none can be reached, and a process that has
\* begun goes on: nothing in it waits for another.
FairSpec ==
  Spec /\ \A d \in Daemon : WF_vars(~Reachable /\ Start(d)) /\ WF_vars(Advance(d))

===============================================================================
