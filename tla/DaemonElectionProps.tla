-------------------------- MODULE DaemonElectionProps --------------------------
(***************************************************************************)
(* What must be true of the embedding daemon's lock and socket.            *)
(***************************************************************************)
EXTENDS DaemonElection

\* Every variable holds a value of its type, and no daemon attempts to acquire
\* the lock more than Attempts times.
TypeOK ==
  /\ lock \in Lock
  /\ socket \in Pid \union {None}
  /\ pc \in [Daemon -> Label]
  /\ seen \in [Daemon -> Pid \union {None}]
  /\ tries \in [Daemon -> Nat]
  /\ \A d \in Daemon : tries[d] < Attempts \/ tries[d] = 0
  /\ overtaken \in BOOLEAN

\* Whoever creates the lock file owns the daemon role (lock.ts): no two
\* processes are ever past the election together. The code does not keep this:
\* a starter may be suspended between its last look at a dead holder's lock and
\* its unlink, and then unlink the fresh lock of a daemon elected meanwhile.
OneDaemonOnly ==
  \A d, e \in Daemon : {pc[d], pc[e]} \subseteq Elected => d = e

\* That race is the only way: until a lock is created while another starter is
\* between look and unlink, one daemon at most is past the election, although
\* several starters clear the same dead lock and are killed while they do.
OneElected == ~overtaken => OneDaemonOnly

\* A serving daemon is found by clients, at the socket path, and by
\* stopDaemon, through the lock: no starter, and no daemon that is stopping,
\* takes either file away from it, unless a starter's unlink was overtaken.
ServingIsFound ==
  ~overtaken =>
    \A d \in Daemon :
      pc[d] \in {"bound", "serving"} =>
        socket = d /\ lock = [owner |-> d, written |-> TRUE]

\* lock.ts, of clearDeadDaemonLock: "A racing daemon's fresh lock has to survive
\* this." As long as the creator of a lock runs, nobody else unlinks the lock,
\* if no lock was created within another's look and unlink.
FreshLockSurvives ==
  [][~overtaken =>
       \A d \in Daemon :
         lock.owner = d /\ Alive(d) /\ lock'.owner # d => UnlinkOwn(d)]_vars

\* A process ends otherwise than by coming to its end.
Killed(d) == pc[d] # "down" /\ pc'[d] = "down" /\ ~Advance(d)

\* A lock whose creator died before its content was in counts as taken for ever.
LockIsStuck == lock.owner # None /\ ~lock.written /\ ~Alive(lock.owner)

\* Unless daemons go on being killed, the path goes on being refused, a daemon
\* died between creating its lock and writing it, or an unlink was overtaken,
\* clients that keep asking get a daemon again and again, whatever files dead
\* daemons left behind and however often starters used up their attempts.
Recovers ==
  (/\ <>[][\A d \in Daemon : ~Killed(d)]_vars
   /\ <>[][\A d \in Daemon : ListenFails(d) => socket # None]_vars
   /\ []~LockIsStuck
   /\ []~overtaken)
    => []<>Reachable

===============================================================================
