------------------------ MODULE EmbeddingServiceProps ------------------------
(***************************************************************************)
(* What sessions may expect of the shared embedding daemon.                *)
(***************************************************************************)
EXTENDS EmbeddingService

Response == [id : 1..Requests, answer : Answer]

\* Every variable keeps its type.
TypeOK ==
  /\ conn \in [Client -> Stage]
  /\ toDaemon \in [Client -> Seq(1..Requests)]
  /\ toClient \in [Client -> Seq(Response)]
  /\ outcome \in [Request -> Outcome]
  /\ up \in BOOLEAN /\ idle \in BOOLEAN /\ reap \in BOOLEAN
  /\ clients \subseteq Client
  /\ lane \in Seq(Request)
  /\ held \in (Worker \X (Nat \ {0})) \union {None}
  /\ link \in Worker \union {None}
  /\ life \in [Worker -> Life]
  /\ deaf \subseteq Worker
  /\ asked \in [Worker -> Seq(Request)]
  /\ told \in [Worker -> Nat]
  /\ open \in [Worker -> SUBSET (Nat \ {0})]

\* The claim at embedWithTimeout: killing the worker can lose the one request
\* it holds for the lane, and no other.
OnlyTheHeldIsAtRisk ==
  link # None => \A id \in open[link] : held = <<link, id>>

\* A session gets the vectors of the texts it sent: never those of another
\* session, nor what a killed worker had still written for an earlier request.
OwnAnswer ==
  \A r \in Request : outcome[r] \in Request => outcome[r] = r

\* Neither idle timer runs while there is something it would take away: a
\* request in flight, a connected session.
TimersSpareTheBusy ==
  /\ reap => ~InFlight
  /\ idle => clients = {}

\* The model's memory is given back: a running worker is the provider's own,
\* and at rest a timer is set on it; a daemon without sessions has a timer set.
NothingLingers ==
  /\ \A w \in Worker : life[w] = "running" => (w = link /\ (InFlight \/ reap))
  /\ (up /\ clients = {}) => idle

\* Every request of a session ends, in an answer or in an error, although no
\* worker ever has to answer.
EverySettles ==
  \A r \in Request : outcome[r] = <<"open">> ~> outcome[r] # <<"open">>

===============================================================================
