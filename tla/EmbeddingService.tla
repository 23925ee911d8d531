--------------------------- MODULE EmbeddingService ---------------------------
(***************************************************************************)
(* The shared embedding daemon at work, from its start to its exit: the    *)
(* connections of the sessions (client.ts), the lane that hands one        *)
(* request at a time to the provider (embedding-daemon.ts, serial-lane.ts),*)
(* and the worker processes the provider spawns, kills and listens to      *)
(* (gemma-provider.ts, request-ledger.ts, worker.ts).                      *)
(*                                                                         *)
(* One step is one event of an event loop with everything that runs before *)
(* the next event. Only LaneStart is a step of its own although the code   *)
(* takes it together with the one before: the model allows more.           *)
(***************************************************************************)
EXTENDS Naturals, Sequences

CONSTANTS
  Client,   \* connections; a session that reconnects is another one
  Requests, \* how many requests a connection makes at most
  Worker,   \* worker processes; one per request is always enough
  None,     \* no worker, nothing held
  Faults    \* the freedoms the surroundings take in this instance

\* die:    a worker ends by itself
\* garble: a worker's output cannot be read any further (a line too long)
\* sever:  the daemon drops a connection (an error, a line too long)
\* term:   the daemon is stopped by a signal, or dies
FaultKind == {"die", "garble", "sever", "term"}

\* A request as the session numbers it: the ids of two sessions collide.
Request == Client \X (1..Requests)

ASSUME RequestsAssumption == Requests \in Nat
ASSUME NoneAssumption == None \notin Worker \union (Worker \X Nat)
ASSUME FaultsAssumption == Faults \subseteq FaultKind

VARIABLES
  conn,     \* conn[c]: the connection as its session sees it
  toDaemon, \* toDaemon[c]: requests written and not yet read by the daemon
  toClient, \* toClient[c]: responses written and not yet read by the session
  outcome,  \* outcome[r]: how r ended for the session that asked
  up,       \* the daemon runs
  clients,  \* the connections it has accepted and not dropped
  idle,     \* its idle timer is armed
  lane,     \* requests waiting in the lane
  held,     \* the worker and id of the request the lane waits for, or None
  link,     \* the worker the provider sends to
  reap,     \* the provider's idle timer is armed
  life,     \* life[w]: the process of worker w
  deaf,     \* workers whose output is no longer read
  asked,    \* asked[w]: the requests sent to w; the index is the id on its link
  told,     \* told[w]: how many of them w has answered
  open      \* open[w]: the ids in the ledger of w

session  == <<conn, toDaemon, outcome>>
daemon   == <<up, clients, idle, lane>>
process  == <<life, deaf, asked, told>>
provider == <<link, reap, open>>
vars == <<session, toClient, daemon, held, provider, process>>

\* "dead" is a process that ended unnoticed, "gone" one whose end was seen.
Life    == {"unborn", "running", "killed", "dead", "gone"}
Stage   == {"new", "dialing", "greeted", "open", "closed"}
Failed  == <<"failed">>
Answer  == Request \union {Failed}         \* the request embedded, or an error
Outcome == Answer \union {<<"none">>, <<"open">>}

Alive(w) == life[w] \in {"running", "dead"}
InFlight == \E w \in Worker : open[w] # {}

HeldRequest == asked[held[1]][held[2]]

Init ==
  /\ conn = [c \in Client |-> "new"]
  /\ toDaemon = [c \in Client |-> <<>>]
  /\ toClient = [c \in Client |-> <<>>]
  /\ outcome = [r \in Request |-> <<"none">>]
  /\ up = TRUE /\ clients = {} /\ idle = TRUE
  /\ lane = <<>> /\ held = None
  /\ link = None /\ reap = FALSE
  /\ life = [w \in Worker |-> "unborn"]
  /\ deaf = {}
  /\ asked = [w \in Worker |-> <<>>]
  /\ told = [w \in Worker |-> 0]
  /\ open = [w \in Worker |-> {}]

-------------------------------------------------------------------------------
(* The sessions.                                                           *)

\* connect() succeeds once the daemon listens, before it accepts.
Connect(c) ==
  /\ up /\ conn[c] = "new"
  /\ conn' = [conn EXCEPT ![c] = "dialing"]
  /\ UNCHANGED <<toDaemon, outcome, toClient, daemon, held, provider, process>>

\* The hello arrives and is accepted.
Hello(c) ==
  /\ conn[c] = "greeted"
  /\ conn' = [conn EXCEPT ![c] = "open"]
  /\ UNCHANGED <<toDaemon, outcome, toClient, daemon, held, provider, process>>

Embed(c, id) ==
  /\ conn[c] = "open"
  /\ outcome[<<c, id>>] = <<"none">>
  /\ \A before \in 1..id - 1 : outcome[<<c, before>>] # <<"none">>
  /\ outcome' = [outcome EXCEPT ![<<c, id>>] = <<"open">>]
  /\ toDaemon' = [toDaemon EXCEPT ![c] = Append(@, id)]
  /\ UNCHANGED <<conn, toClient, daemon, held, provider, process>>

\* The session's ledger settles the id, if it still knows it.
Deliver(c) ==
  /\ conn[c] = "open" /\ toClient[c] # <<>>
  /\ LET response == Head(toClient[c])
         r == <<c, response.id>>
     IN outcome' = IF outcome[r] = <<"open">>
                   THEN [outcome EXCEPT ![r] = response.answer] ELSE outcome
  /\ toClient' = [toClient EXCEPT ![c] = Tail(@)]
  /\ UNCHANGED <<conn, toDaemon, daemon, held, provider, process>>

\* Mutant: the ledger is not emptied.
CloseKeeping(c) ==
  /\ conn' = [conn EXCEPT ![c] = "closed"]
  /\ UNCHANGED outcome

\* rejectAll on the session's ledger.
Close(c) ==
  /\ conn' = [conn EXCEPT ![c] = "closed"]
  /\ outcome' = [r \in Request |->
       IF r[1] = c /\ outcome[r] = <<"open">> THEN Failed ELSE outcome[r]]

\* close() of the provider, or the hello came too late or from another version.
\* A connection given up before it was accepted is not accepted any more: the
\* daemon would see it open and close at once.
HangUp(c) ==
  /\ conn[c] \in {"dialing", "greeted", "open"}
  /\ Close(c)
  /\ UNCHANGED <<toDaemon, toClient, daemon, held, provider, process>>

\* The daemon's end of the connection is gone.
Disconnect(c) ==
  /\ \/ conn[c] \in {"greeted", "open"} /\ c \notin clients
     \/ conn[c] = "dialing" /\ ~up
  /\ Close(c)
  /\ UNCHANGED <<toDaemon, toClient, daemon, held, provider, process>>

-------------------------------------------------------------------------------
(* The daemon.                                                             *)

Accept(c) ==
  /\ up /\ conn[c] = "dialing"
  /\ conn' = [conn EXCEPT ![c] = "greeted"]
  /\ clients' = clients \union {c}
  /\ idle' = FALSE
  /\ UNCHANGED <<toDaemon, outcome, toClient, up, lane, held, provider, process>>

\* respond(): the request joins the lane.
Receive(c) ==
  /\ c \in clients /\ toDaemon[c] # <<>>
  /\ lane' = Append(lane, <<c, Head(toDaemon[c])>>)
  /\ toDaemon' = [toDaemon EXCEPT ![c] = Tail(@)]
  /\ UNCHANGED <<conn, outcome, toClient, up, clients, idle, held, provider, process>>

\* dropClient: the session hung up, or the daemon gives up on the connection.
\* What the session sent before may have been read or not.
Drop(c) ==
  /\ c \in clients
  /\ conn[c] = "closed" \/ "sever" \in Faults
  /\ clients' = clients \ {c}
  /\ idle' = (idle \/ clients = {c})
  /\ toDaemon' = [toDaemon EXCEPT ![c] = <<>>]
  /\ UNCHANGED <<conn, outcome, toClient, up, lane, held, provider, process>>

\* deliver(): a client that left gets no response.
Respond(r, answer) ==
  toClient' = IF r[1] \in clients
              THEN [toClient EXCEPT ![r[1]] = Append(@, [id |-> r[2], answer |-> answer])]
              ELSE toClient

\* stop() and the exit of the process: on idle, or by a signal. Sockets and
\* workers go with it.
Stop ==
  /\ up
  /\ (idle /\ clients = {}) \/ "term" \in Faults
  /\ up' = FALSE /\ clients' = {} /\ idle' = FALSE
  /\ lane' = <<>> /\ held' = None
  /\ link' = None /\ reap' = FALSE
  /\ open' = [w \in Worker |-> {}]
  /\ life' = [w \in Worker |-> IF life[w] = "unborn" THEN "unborn" ELSE "gone"]
  /\ toDaemon' = [c \in Client |-> <<>>]
  /\ UNCHANGED <<conn, outcome, toClient, deaf, asked, told>>

-------------------------------------------------------------------------------
(* The provider and its workers.                                           *)

\* ensureLink: the worker at hand if it is alive, else a new one.
Serving(w) ==
  IF link # None /\ Alive(link) THEN w = link ELSE life[w] = "unborn"

\* Mutant: requests go to the worker as they come.
LaneIsFreeAlways == TRUE

LaneIsFree == held = None

\* Mutant: the idle timer keeps running.
ReapKept == reap

ReapOnSend == FALSE

\* Mutant: ids begin at zero.
NextIdFromZero(w) == Len(asked[w])

NextId(w) == Len(asked[w]) + 1

\* The lane starts its next unit: sendToWorker of the first request.
LaneStart ==
  /\ LaneIsFree /\ lane # <<>>
  /\ lane' = Tail(lane)
  /\ reap' = ReapOnSend
  /\ \E w \in Worker :
       /\ Serving(w)
       /\ link' = w
       /\ held' = <<w, NextId(w)>>
       /\ life' = [life EXCEPT ![w] = IF @ = "unborn" THEN "running" ELSE @]
       /\ asked' = [asked EXCEPT ![w] = Append(@, Head(lane))]
       /\ open' = [open EXCEPT ![w] = @ \union {NextId(w)}]
  /\ UNCHANGED <<session, toClient, up, clients, idle, deaf, told>>

\* The ledger of w settles the ids it still knows. The last request in flight
\* arms the idle timer, and the lane passes on the answer to the one it waits for.
Settle(w, ids, answer) ==
  LET settled == open[w] \intersect ids
  IN /\ open' = [open EXCEPT ![w] = @ \ ids]
     /\ reap' = (reap \/ (settled # {} /\ \A v \in Worker : open'[v] = {}))
     /\ IF \E id \in settled : held = <<w, id>>
        THEN Respond(HeldRequest, answer) /\ held' = None
        ELSE UNCHANGED <<toClient, held>>

\* Mutant: one ledger for all workers of the provider.
LedgerShared(w) == IF link # None THEN link ELSE w

\* Every worker's link has a ledger of its own.
Ledger(w) == w

\* A line of w arrives: vectors or an error for the request w was at. A killed
\* worker may have written it before it died.
WorkerAnswers(w) ==
  /\ life[w] \in {"running", "killed", "dead"} /\ w \notin deaf
  /\ told[w] < Len(asked[w])
  /\ told' = [told EXCEPT ![w] = @ + 1]
  /\ \E answer \in {asked[w][told[w] + 1], Failed} :
       Settle(Ledger(w), {told[w] + 1}, answer)
  /\ UNCHANGED <<session, daemon, link, life, deaf, asked>>

\* Mutant: the link is forgotten, its process is not.
DismissSparing ==
  /\ link' = None
  /\ UNCHANGED life

\* The process is told to die; the link, if it is this one, is forgotten.
Dismiss ==
  /\ life' = [w \in Worker |-> IF w = link /\ life[w] = "running" THEN "killed" ELSE life[w]]
  /\ link' = None

\* disposingOnTimeout: the request that reached the worker got no answer in time.
Deadline ==
  /\ held # None
  /\ Dismiss
  /\ reap' = FALSE
  /\ Respond(HeldRequest, Failed)
  /\ held' = None
  /\ UNCHANGED <<session, daemon, open, deaf, asked, told>>

\* The provider's idle timer fires.
Reap ==
  /\ reap
  /\ Dismiss
  /\ reap' = FALSE
  /\ UNCHANGED <<session, toClient, daemon, held, open, deaf, asked, told>>

WorkerDies(w) ==
  /\ "die" \in Faults /\ life[w] = "running"
  /\ life' = [life EXCEPT ![w] = "dead"]
  /\ UNCHANGED <<session, toClient, daemon, held, provider, deaf, asked, told>>

\* The provider learns that a process ended and rejects what it was asked.
WorkerExits(w) ==
  /\ life[w] \in {"killed", "dead"}
  /\ life' = [life EXCEPT ![w] = "gone"]
  /\ Settle(w, open[w], Failed)
  /\ UNCHANGED <<session, daemon, link, deaf, asked, told>>

\* readResponses fails: the open requests are rejected, the process runs on.
StreamFails(w) ==
  /\ "garble" \in Faults /\ life[w] = "running" /\ w \notin deaf
  /\ deaf' = deaf \union {w}
  /\ Settle(w, open[w], Failed)
  /\ UNCHANGED <<session, daemon, link, life, asked, told>>

-------------------------------------------------------------------------------
\* What the event loops and timers do without anybody's decision.
Progress ==
  \/ \E c \in Client : Hello(c) \/ Accept(c) \/ Receive(c) \/ Deliver(c) \/ Disconnect(c)
  \/ LaneStart \/ Deadline
  \/ \E w \in Worker : WorkerExits(w)

Next ==
  \/ Progress
  \/ \E c \in Client : Connect(c) \/ HangUp(c) \/ Drop(c)
  \/ \E c \in Client, id \in 1..Requests : Embed(c, id)
  \/ \E w \in Worker : WorkerAnswers(w) \/ WorkerDies(w) \/ StreamFails(w)
  \/ Stop \/ Reap

Spec == Init /\ [][Next]_vars

\* Nothing blocks an event loop, and deadlines expire. No worker has to answer.
FairSpec == Spec /\ WF_vars(Progress)

===============================================================================
