------------------------ MODULE EmbeddingServiceProofs ------------------------
(***************************************************************************)
(* Safety of the shared embedding daemon, for any number of sessions,      *)
(* requests and workers, and under any faults.                             *)
(***************************************************************************)
EXTENDS EmbeddingServiceProps, SequenceTheorems, TLAPS

USE RequestsAssumption, NoneAssumption

-------------------------------------------------------------------------------
(* The inductive invariant.                                                *)

\* A worker not yet spawned was asked nothing; ids in a ledger were asked.
LedgerInv ==
  \A w \in Worker :
    /\ life[w] = "unborn" => open[w] = {}
    /\ open[w] \subseteq 1..Len(asked[w])

\* What the lane waits for is open in the ledger of the link.
HeldIsOpen ==
  held # None => link \in Worker /\ held[1] = link /\ held[2] \in open[link]

\* A response on its way carries the vectors of its own request, or an error.
ResponsesAreOwn ==
  \A c \in Client : \A i \in 1..Len(toClient[c]) :
    toClient[c][i].answer \in {<<c, toClient[c][i].id>>, Failed}

OutcomesAreOwn ==
  \A r \in Request : outcome[r] \in {r, Failed, <<"none">>, <<"open">>}

IInv ==
  /\ TypeOK
  /\ LedgerInv
  /\ HeldIsOpen
  /\ OnlyTheHeldIsAtRisk
  /\ TimersSpareTheBusy
  /\ NothingLingers
  /\ ResponsesAreOwn
  /\ OutcomesAreOwn

-------------------------------------------------------------------------------
(* What the steps share.                                                   *)

\* The response to the request the lane waits for is well-formed and its own.
LEMMA RespondKeeps ==
  ASSUME IInv, NEW r \in Request, NEW answer \in {r, Failed}, Respond(r, answer)
  PROVE  /\ toClient' \in [Client -> Seq(Response)]
         /\ ResponsesAreOwn'
<1> DEFINE message == [id |-> r[2], answer |-> answer]
<1>1. /\ toClient \in [Client -> Seq(Response)]
      /\ ResponsesAreOwn
  BY DEF IInv, TypeOK
<1>2. /\ r[1] \in Client /\ r[2] \in 1..Requests /\ r = <<r[1], r[2]>>
      /\ message \in Response
  BY DEF Request, Response, Answer
<1>3. CASE r[1] \notin clients
  BY <1>1, <1>3 DEF Respond, ResponsesAreOwn
<1>4. CASE r[1] \in clients
  <2>1. toClient' = [toClient EXCEPT ![r[1]] = Append(@, message)]
    BY <1>4 DEF Respond
  <2>2. toClient' \in [Client -> Seq(Response)]
    BY <1>1, <1>2, <2>1
  <2>3. ASSUME NEW c \in Client, NEW i \in 1..Len(toClient'[c])
        PROVE  toClient'[c][i].answer \in {<<c, toClient'[c][i].id>>, Failed}
    <3> DEFINE before == toClient[c]
    <3>0. before \in Seq(Response)
      BY <1>1
    <3>1. CASE c # r[1]
      BY <1>1, <2>1, <3>1 DEF ResponsesAreOwn
    <3>2. CASE c = r[1]
      <4>1. toClient'[c] = Append(before, message)
        BY <1>1, <2>1, <3>2
      <4>2. CASE i = Len(before) + 1
        BY <1>2, <3>0, <3>2, <4>1, <4>2
      <4>3. CASE i # Len(before) + 1
        <5>1. i \in 1..Len(before) /\ toClient'[c][i] = before[i]
          BY <1>2, <3>0, <4>1, <4>3
        <5> QED BY <1>1, <5>1 DEF ResponsesAreOwn
      <4> QED BY <4>2, <4>3
    <3> QED BY <3>1, <3>2
  <2> QED BY <2>2, <2>3 DEF ResponsesAreOwn
<1> QED BY <1>3, <1>4

\* What the lane waits for is a request of some session.
LEMMA HeldIsARequest ==
  ASSUME IInv, held # None
  PROVE  HeldRequest \in Request
<1>1. held[1] \in Worker /\ held[2] \in 1..Len(asked[held[1]])
  BY DEF IInv, HeldIsOpen, LedgerInv
<1>2. asked[held[1]] \in Seq(Request)
  BY <1>1 DEF IInv, TypeOK
<1> QED BY <1>1, <1>2 DEF HeldRequest

\* Settling ids of one ledger.
LEMMA SettleKeeps ==
  ASSUME IInv, NEW w \in Worker, NEW ids, NEW answer, Settle(w, ids, answer),
         UNCHANGED <<asked, link>>,
         \A id \in ids : held = <<w, id>> => answer \in {HeldRequest, Failed}
  PROVE  /\ open' \in [Worker -> SUBSET (Nat \ {0})]
         /\ open'[w] = open[w] \ ids
         /\ \A v \in Worker : v # w => open'[v] = open[v]
         /\ reap' \in BOOLEAN
         /\ reap' => ~InFlight'
         /\ InFlight \/ reap => InFlight' \/ reap'
         /\ held' \in {held, None}
         /\ HeldIsOpen'
         /\ OnlyTheHeldIsAtRisk'
         /\ toClient' \in [Client -> Seq(Response)]
         /\ ResponsesAreOwn'
<1> DEFINE settled == open[w] \intersect ids
<1>1. /\ open \in [Worker -> SUBSET (Nat \ {0})] /\ reap \in BOOLEAN
      /\ link \in Worker \union {None}
      /\ held \in (Worker \X (Nat \ {0})) \union {None}
      /\ toClient \in [Client -> Seq(Response)]
      /\ HeldIsOpen /\ OnlyTheHeldIsAtRisk /\ ResponsesAreOwn
      /\ reap => ~InFlight
  BY DEF IInv, TypeOK, TimersSpareTheBusy
<1>2. /\ open' = [open EXCEPT ![w] = @ \ ids]
      /\ reap' = (reap \/ (settled # {} /\ \A v \in Worker : open'[v] = {}))
      /\ IF \E id \in settled : held = <<w, id>>
         THEN Respond(HeldRequest, answer) /\ held' = None
         ELSE UNCHANGED <<toClient, held>>
  BY DEF Settle
<1>3. /\ open' \in [Worker -> SUBSET (Nat \ {0})]
      /\ open'[w] = open[w] \ ids
      /\ \A v \in Worker : v # w => open'[v] = open[v]
  BY <1>1, <1>2
<1>4. reap' \in BOOLEAN
  BY <1>1, <1>2
<1>5. reap' => ~InFlight'
  BY <1>1, <1>2, <1>3 DEF InFlight
<1>6. InFlight \/ reap => InFlight' \/ reap'
  <2>1. CASE reap
    BY <1>2, <2>1
  <2>2. CASE InFlight /\ ~InFlight'
    <3>1. \A v \in Worker : open'[v] = {}
      BY <2>2 DEF InFlight
    <3>2. settled # {}
      BY <1>3, <2>2, <3>1 DEF InFlight
    <3> QED BY <1>2, <3>1, <3>2
  <2> QED BY <2>1, <2>2
<1>7. CASE \E id \in settled : held = <<w, id>>
  <2>1. held # None
    BY <1>7, NoneAssumption, <1>1
  <2>2. PICK id \in settled : held = <<w, id>>
    BY <1>7
  <2>3. HeldRequest \in Request /\ answer \in {HeldRequest, Failed}
    BY <2>1, <2>2, HeldIsARequest
  <2>4. Respond(HeldRequest, answer) /\ held' = None
    BY <1>2, <1>7
  <2>5. toClient' \in [Client -> Seq(Response)] /\ ResponsesAreOwn'
    BY <2>3, <2>4, RespondKeeps
  <2>6. HeldIsOpen'
    BY <2>4 DEF HeldIsOpen
  <2>7. link = w
    BY <1>1, <2>1, <2>2 DEF HeldIsOpen
  <2>8. \A other \in open[w] : <<w, other>> = <<w, id>>
    BY <1>1, <2>1, <2>2, <2>7 DEF OnlyTheHeldIsAtRisk, HeldIsOpen
  <2>9. open'[w] = {}
    BY <1>3, <2>2, <2>8
  <2>10. OnlyTheHeldIsAtRisk'
    BY <2>7, <2>9 DEF OnlyTheHeldIsAtRisk
  <2> QED BY <1>3, <1>4, <1>5, <1>6, <2>4, <2>5, <2>6, <2>10
<1>8. CASE ~\E id \in settled : held = <<w, id>>
  <2>1. UNCHANGED <<toClient, held>>
    BY <1>2, <1>8
  <2>2. ResponsesAreOwn'
    BY <1>1, <2>1 DEF ResponsesAreOwn
  <2>3. HeldIsOpen'
    <3> SUFFICES ASSUME held # None
                 PROVE  link \in Worker /\ held[1] = link /\ held[2] \in open'[link]
      BY <2>1 DEF HeldIsOpen
    <3>1. link \in Worker /\ held[1] = link /\ held[2] \in open[link]
      BY <1>1 DEF HeldIsOpen
    <3>2. held = <<held[1], held[2]>>
      BY <1>1
    <3> QED BY <1>3, <1>8, <3>1, <3>2
  <2>4. OnlyTheHeldIsAtRisk'
    BY <1>1, <1>3, <2>1 DEF OnlyTheHeldIsAtRisk
  <2> QED BY <1>1, <1>3, <1>4, <1>5, <1>6, <2>1, <2>2, <2>3, <2>4
<1> QED BY <1>7, <1>8

-------------------------------------------------------------------------------
(* The invariant holds at first, and every step keeps it.                  *)

LEMMA InitInv == Init => IInv
<1> SUFFICES ASSUME Init PROVE IInv
  OBVIOUS
<1> USE DEF Init
<1>1. TypeOK
  <2>1. /\ conn \in [Client -> Stage] /\ outcome \in [Request -> Outcome]
        /\ life \in [Worker -> Life]
    BY DEF Stage, Outcome, Life
  <2>2. /\ toDaemon \in [Client -> Seq(1..Requests)]
        /\ toClient \in [Client -> Seq(Response)]
        /\ lane \in Seq(Request) /\ asked \in [Worker -> Seq(Request)]
    OBVIOUS
  <2>3. /\ told \in [Worker -> Nat]
        /\ open \in [Worker -> SUBSET (Nat \ {0})]
    OBVIOUS
  <2> QED BY <2>1, <2>2, <2>3 DEF TypeOK
<1>2. LedgerInv /\ HeldIsOpen /\ OnlyTheHeldIsAtRisk
  BY DEF LedgerInv, HeldIsOpen, OnlyTheHeldIsAtRisk
<1>3. TimersSpareTheBusy /\ NothingLingers
  BY DEF TimersSpareTheBusy, NothingLingers
<1>4. ResponsesAreOwn /\ OutcomesAreOwn
  BY DEF ResponsesAreOwn, OutcomesAreOwn
<1> QED BY <1>1, <1>2, <1>3, <1>4 DEF IInv

\* What a step of a session alone leaves to be shown.
LEMMA SessionKeeps ==
  ASSUME IInv, UNCHANGED <<toClient, daemon, held, provider, process>>,
         conn' \in [Client -> Stage], toDaemon' \in [Client -> Seq(1..Requests)],
         outcome' \in [Request -> Outcome], OutcomesAreOwn'
  PROVE  IInv'
<1> USE DEF daemon, provider, process
<1>1. TypeOK'
  BY DEF IInv, TypeOK
<1>2. LedgerInv' /\ HeldIsOpen' /\ OnlyTheHeldIsAtRisk'
  BY DEF IInv, LedgerInv, HeldIsOpen, OnlyTheHeldIsAtRisk
<1>3. TimersSpareTheBusy' /\ NothingLingers'
  BY DEF IInv, TimersSpareTheBusy, NothingLingers, InFlight
<1>4. ResponsesAreOwn'
  BY DEF IInv, ResponsesAreOwn
<1> QED BY <1>1, <1>2, <1>3, <1>4 DEF IInv

\* An outcome that fails is an outcome.
LEMMA FailingKeeps ==
  ASSUME IInv, NEW c \in Client, Close(c)
  PROVE  /\ conn' \in [Client -> Stage]
         /\ outcome' \in [Request -> Outcome] /\ OutcomesAreOwn'
BY DEF IInv, TypeOK, Close, OutcomesAreOwn, Stage, Outcome, Answer

LEMMA SessionStep ==
  ASSUME IInv, NEW c \in Client,
         \/ Connect(c) \/ Hello(c) \/ HangUp(c) \/ Disconnect(c)
         \/ \E id \in 1..Requests : Embed(c, id)
  PROVE  IInv'
<1>1. /\ conn \in [Client -> Stage] /\ toDaemon \in [Client -> Seq(1..Requests)]
      /\ outcome \in [Request -> Outcome] /\ OutcomesAreOwn
  BY DEF IInv, TypeOK
<1>2. CASE Connect(c) \/ Hello(c)
  <2>1. /\ conn' \in [Client -> Stage] /\ UNCHANGED <<toDaemon, outcome>>
        /\ UNCHANGED <<toClient, daemon, held, provider, process>>
    BY <1>1, <1>2 DEF Connect, Hello, Stage
  <2>2. OutcomesAreOwn'
    BY <1>1, <2>1 DEF OutcomesAreOwn
  <2> QED BY <1>1, <2>1, <2>2, SessionKeeps
<1>3. CASE HangUp(c) \/ Disconnect(c)
  <2>1. /\ Close(c) /\ UNCHANGED toDaemon
        /\ UNCHANGED <<toClient, daemon, held, provider, process>>
    BY <1>3 DEF HangUp, Disconnect
  <2> QED BY <1>1, <2>1, FailingKeeps, SessionKeeps
<1>4. CASE \E id \in 1..Requests : Embed(c, id)
  <2>1. PICK id \in 1..Requests : Embed(c, id)
    BY <1>4
  <2>2. /\ UNCHANGED <<conn, toClient, daemon, held, provider, process>>
        /\ toDaemon' = [toDaemon EXCEPT ![c] = Append(@, id)]
        /\ outcome' = [outcome EXCEPT ![<<c, id>>] = <<"open">>]
    BY <2>1 DEF Embed
  <2>3. toDaemon' \in [Client -> Seq(1..Requests)]
    BY <1>1, <2>2
  <2>4. outcome' \in [Request -> Outcome] /\ OutcomesAreOwn'
    BY <1>1, <2>2 DEF OutcomesAreOwn, Outcome
  <2> QED BY <1>1, <2>2, <2>3, <2>4, SessionKeeps
<1> QED BY <1>2, <1>3, <1>4

LEMMA DeliverStep ==
  ASSUME IInv, NEW c \in Client, Deliver(c)
  PROVE  IInv'
<1> DEFINE response == Head(toClient[c])
           r == <<c, response.id>>
<1>1. /\ toClient[c] \in Seq(Response) /\ toClient[c] # <<>>
      /\ toClient \in [Client -> Seq(Response)]
      /\ outcome \in [Request -> Outcome] /\ OutcomesAreOwn /\ ResponsesAreOwn
  BY DEF IInv, TypeOK, Deliver
<1>2. /\ response \in Response /\ response = toClient[c][1]
      /\ 1 \in 1..Len(toClient[c])
  BY <1>1
<1>3. r \in Request /\ response.answer \in {r, Failed}
  BY <1>1, <1>2 DEF Response, Request, ResponsesAreOwn
<1>4. /\ toClient' = [toClient EXCEPT ![c] = Tail(@)]
      /\ outcome' \in {outcome, [outcome EXCEPT ![r] = response.answer]}
      /\ UNCHANGED <<conn, toDaemon, daemon, held, provider, process>>
  BY DEF Deliver
<1>5. outcome' \in [Request -> Outcome] /\ OutcomesAreOwn'
  BY <1>1, <1>3, <1>4 DEF OutcomesAreOwn, Outcome, Answer
<1>6. toClient' \in [Client -> Seq(Response)]
  BY <1>1, <1>4
<1>7. ResponsesAreOwn'
  <2> SUFFICES ASSUME NEW d \in Client, NEW i \in 1..Len(toClient'[d])
               PROVE  toClient'[d][i].answer \in {<<d, toClient'[d][i].id>>, Failed}
    BY DEF ResponsesAreOwn
  <2>1. CASE d # c
    BY <1>1, <1>4, <2>1 DEF ResponsesAreOwn
  <2>2. CASE d = c
    <3>1. toClient'[c] = Tail(toClient[c])
      BY <1>1, <1>4
    <3>2. i + 1 \in 1..Len(toClient[c]) /\ toClient'[c][i] = toClient[c][i + 1]
      BY <1>1, <2>2, <3>1
    <3> QED BY <1>1, <2>2, <3>2 DEF ResponsesAreOwn
  <2> QED BY <2>1, <2>2
<1> USE DEF daemon, provider, process
<1>8. TypeOK'
  BY <1>4, <1>5, <1>6 DEF IInv, TypeOK
<1>9. LedgerInv' /\ HeldIsOpen' /\ OnlyTheHeldIsAtRisk'
  BY <1>4 DEF IInv, LedgerInv, HeldIsOpen, OnlyTheHeldIsAtRisk
<1>10. TimersSpareTheBusy' /\ NothingLingers'
  BY <1>4 DEF IInv, TimersSpareTheBusy, NothingLingers, InFlight
<1> QED BY <1>5, <1>7, <1>8, <1>9, <1>10 DEF IInv

\* The connections: the provider is not touched.
LEMMA ConnectionStep ==
  ASSUME IInv, NEW c \in Client, Accept(c) \/ Receive(c) \/ Drop(c)
  PROVE  IInv'
<1> USE DEF process, provider
<1>1. /\ UNCHANGED <<outcome, toClient, up, held, provider, process>>
      /\ clients' \subseteq clients \union {c} /\ clients' \subseteq Client
  BY DEF IInv, TypeOK, Accept, Receive, Drop
<1>2. TypeOK'
  <2>1. CASE Accept(c)
    BY <1>1, <2>1 DEF Accept, IInv, TypeOK, Stage
  <2>2. CASE Receive(c)
    <3>1. toDaemon[c] \in Seq(1..Requests) /\ toDaemon[c] # <<>>
      BY <2>2 DEF Receive, IInv, TypeOK
    <3>2. <<c, Head(toDaemon[c])>> \in Request
      BY <3>1 DEF Request
    <3>3. lane' \in Seq(Request) /\ toDaemon' \in [Client -> Seq(1..Requests)]
      BY <2>2, <3>1, <3>2 DEF Receive, IInv, TypeOK
    <3> QED BY <1>1, <2>2, <3>3 DEF Receive, IInv, TypeOK
  <2>3. CASE Drop(c)
    BY <1>1, <2>3 DEF Drop, IInv, TypeOK
  <2> QED BY <2>1, <2>2, <2>3
<1>3. LedgerInv' /\ HeldIsOpen' /\ OnlyTheHeldIsAtRisk'
  BY <1>1 DEF IInv, LedgerInv, HeldIsOpen, OnlyTheHeldIsAtRisk
<1>4. UNCHANGED reap /\ UNCHANGED InFlight
  BY <1>1 DEF Accept, Receive, Drop, InFlight
<1> HIDE DEF process, provider
<1>5. (idle' => clients' = {}) /\ ((up' /\ clients' = {}) => idle')
  <2>1. /\ idle => clients = {}
        /\ (up /\ clients = {}) => idle
        /\ up \in BOOLEAN /\ idle \in BOOLEAN
    BY DEF IInv, TypeOK, TimersSpareTheBusy, NothingLingers
  <2>2. CASE Accept(c)
    BY <2>2 DEF Accept
  <2>3. CASE Receive(c)
    BY <2>1, <2>3 DEF Receive
  <2>4. CASE Drop(c)
    <3>1. /\ idle' = (idle \/ clients = {c}) /\ clients' = clients \ {c}
          /\ c \in clients /\ UNCHANGED up
      BY <2>4 DEF Drop
    <3> QED BY <2>1, <3>1
  <2> QED BY <2>2, <2>3, <2>4
<1>6. TimersSpareTheBusy' /\ NothingLingers'
  BY <1>1, <1>4, <1>5 DEF IInv, TimersSpareTheBusy, NothingLingers, provider, process
<1>7. ResponsesAreOwn' /\ OutcomesAreOwn'
  BY <1>1 DEF IInv, ResponsesAreOwn, OutcomesAreOwn
<1> QED BY <1>2, <1>3, <1>6, <1>7 DEF IInv

LEMMA StopStep ==
  ASSUME IInv, Stop
  PROVE  IInv'
<1>1. TypeOK'
  <2>1. /\ life' \in [Worker -> Life] /\ lane' \in Seq(Request)
        /\ open' \in [Worker -> SUBSET (Nat \ {0})]
    BY DEF IInv, TypeOK, Stop, Life
  <2>2. toDaemon' \in [Client -> Seq(1..Requests)]
    BY DEF Stop
  <2> QED BY <2>1, <2>2 DEF IInv, TypeOK, Stop
<1>2. LedgerInv' /\ HeldIsOpen' /\ OnlyTheHeldIsAtRisk'
  BY NoneAssumption DEF IInv, TypeOK, Stop, LedgerInv, HeldIsOpen, OnlyTheHeldIsAtRisk
<1>3. TimersSpareTheBusy' /\ NothingLingers'
  BY DEF IInv, TypeOK, Stop, TimersSpareTheBusy, NothingLingers
<1>4. ResponsesAreOwn' /\ OutcomesAreOwn'
  BY DEF IInv, Stop, ResponsesAreOwn, OutcomesAreOwn
<1> QED BY <1>1, <1>2, <1>3, <1>4 DEF IInv

\* The lane is free, so the link's ledger is empty, and the new request is the
\* only one in it.
LEMMA LaneStartStep ==
  ASSUME IInv, LaneStart
  PROVE  IInv'
<1> USE DEF session
<1>1. PICK w \in Worker :
        /\ Serving(w)
        /\ link' = w
        /\ held' = <<w, Len(asked[w]) + 1>>
        /\ life' = [life EXCEPT ![w] = IF @ = "unborn" THEN "running" ELSE @]
        /\ asked' = [asked EXCEPT ![w] = Append(@, Head(lane))]
        /\ open' = [open EXCEPT ![w] = @ \union {Len(asked[w]) + 1}]
  BY DEF LaneStart, NextId
<1>2. /\ held = None /\ lane # <<>> /\ lane' = Tail(lane) /\ reap' = FALSE
      /\ UNCHANGED <<conn, toDaemon, outcome, toClient, up, clients, idle, deaf, told>>
  BY DEF LaneStart, LaneIsFree, ReapOnSend
<1>3. /\ lane \in Seq(Request) /\ asked \in [Worker -> Seq(Request)]
      /\ open \in [Worker -> SUBSET (Nat \ {0})] /\ life \in [Worker -> Life]
      /\ link \in Worker \union {None}
  BY DEF IInv, TypeOK
<1>4. Head(lane) \in Request /\ Tail(lane) \in Seq(Request)
  BY <1>2, <1>3
<1>5. /\ asked' \in [Worker -> Seq(Request)]
      /\ Len(asked'[w]) = Len(asked[w]) + 1
      /\ Len(asked[w]) \in Nat
      /\ \A v \in Worker : v # w => asked'[v] = asked[v]
  BY <1>1, <1>3, <1>4
<1>6. open[w] = {}
  <2>1. CASE link # None /\ Alive(link)
    <3>1. \A id \in open[link] : None = <<link, id>>
      BY <1>2, <2>1 DEF IInv, OnlyTheHeldIsAtRisk
    <3>2. open[link] = {}
      BY <1>3, <2>1, <3>1, NoneAssumption
    <3> QED BY <1>1, <2>1, <3>2 DEF Serving
  <2>2. CASE ~(link # None /\ Alive(link))
    BY <1>1, <2>2 DEF Serving, IInv, LedgerInv
  <2> QED BY <2>1, <2>2
<1>7. /\ open' \in [Worker -> SUBSET (Nat \ {0})]
      /\ open'[w] = {Len(asked[w]) + 1}
      /\ \A v \in Worker : v # w => open'[v] = open[v]
  BY <1>1, <1>3, <1>5, <1>6
<1>8. TypeOK'
  <2>1. life' \in [Worker -> Life]
    BY <1>1, <1>3 DEF Life
  <2>2. held' \in Worker \X (Nat \ {0})
    BY <1>1, <1>5
  <2>3. lane' \in Seq(Request) /\ link' \in Worker /\ reap' \in BOOLEAN
    BY <1>1, <1>2, <1>4
  <2> QED BY <1>2, <1>5, <1>7, <2>1, <2>2, <2>3 DEF IInv, TypeOK
<1>9. LedgerInv'
  <2> SUFFICES ASSUME NEW v \in Worker
               PROVE  /\ life'[v] = "unborn" => open'[v] = {}
                      /\ open'[v] \subseteq 1..Len(asked'[v])
    BY DEF LedgerInv
  <2>1. CASE v = w
    BY <1>1, <1>3, <1>5, <1>7, <2>1
  <2>2. CASE v # w
    BY <1>1, <1>3, <1>5, <1>7, <2>2 DEF IInv, LedgerInv
  <2> QED BY <2>1, <2>2
<1>10. HeldIsOpen' /\ OnlyTheHeldIsAtRisk'
  BY <1>1, <1>7 DEF HeldIsOpen, OnlyTheHeldIsAtRisk
<1>11. TimersSpareTheBusy'
  BY <1>2 DEF IInv, TimersSpareTheBusy
<1>12. NothingLingers'
  <2>1. InFlight'
    BY <1>7 DEF InFlight
  <2>2. ASSUME NEW v \in Worker, life'[v] = "running", v # w
        PROVE  FALSE
    <3>1. life[v] = "running" /\ link = v
      BY <1>1, <1>3, <2>2 DEF IInv, NothingLingers
    <3>2. link # None /\ Alive(link)
      BY <1>3, <3>1, NoneAssumption DEF Alive
    <3> QED BY <1>1, <2>2, <3>1, <3>2 DEF Serving
  <2> QED BY <1>1, <1>2, <2>1, <2>2 DEF IInv, NothingLingers
<1>13. ResponsesAreOwn' /\ OutcomesAreOwn'
  BY <1>2 DEF IInv, ResponsesAreOwn, OutcomesAreOwn
<1> QED BY <1>8, <1>9, <1>10, <1>11, <1>12, <1>13 DEF IInv

-------------------------------------------------------------------------------
(* The steps of the provider.                                              *)

\* What a step that settles ids of w leaves to be shown: the workers it
\* leaves running were running, and the life of w does not begin with it.
LEMMA SettlingKeeps ==
  ASSUME IInv, NEW w \in Worker, NEW ids, NEW answer, Settle(w, ids, answer),
         UNCHANGED <<session, daemon, link, asked>>,
         \A id \in ids : held = <<w, id>> => answer \in {HeldRequest, Failed},
         life' \in [Worker -> Life], deaf' \subseteq Worker, told' \in [Worker -> Nat],
         \A v \in Worker : life'[v] \in {life[v], "gone"}
  PROVE  IInv'
<1> USE DEF session, daemon
<1>1. /\ open' \in [Worker -> SUBSET (Nat \ {0})]
      /\ \A v \in Worker : open'[v] \subseteq open[v]
      /\ reap' \in BOOLEAN
      /\ reap' => ~InFlight'
      /\ InFlight \/ reap => InFlight' \/ reap'
      /\ held' \in {held, None}
      /\ HeldIsOpen' /\ OnlyTheHeldIsAtRisk'
      /\ toClient' \in [Client -> Seq(Response)] /\ ResponsesAreOwn'
  BY SettleKeeps
<1>2. TypeOK'
  BY <1>1 DEF IInv, TypeOK
<1>3. LedgerInv'
  BY <1>1 DEF IInv, LedgerInv
<1>4. TimersSpareTheBusy'
  BY <1>1 DEF IInv, TimersSpareTheBusy
<1>5. NothingLingers'
  BY <1>1 DEF IInv, NothingLingers
<1>6. OutcomesAreOwn'
  BY DEF IInv, OutcomesAreOwn
<1> QED BY <1>1, <1>2, <1>3, <1>4, <1>5, <1>6 DEF IInv

LEMMA WorkerStep ==
  ASSUME IInv, NEW w \in Worker,
         WorkerAnswers(w) \/ WorkerExits(w) \/ StreamFails(w)
  PROVE  IInv'
<1>1. /\ life \in [Worker -> Life] /\ deaf \subseteq Worker
      /\ told \in [Worker -> Nat] /\ told[w] \in Nat
  BY DEF IInv, TypeOK
<1>2. CASE WorkerAnswers(w)
  <2>1. PICK answer \in {asked[w][told[w] + 1], Failed} :
          Settle(w, {told[w] + 1}, answer)
    BY <1>2 DEF WorkerAnswers, Ledger
  <2>2. told' = [told EXCEPT ![w] = @ + 1]
        /\ UNCHANGED <<session, daemon, link, life, deaf, asked>>
    BY <1>2 DEF WorkerAnswers
  <2>3. held = <<w, told[w] + 1>> => answer \in {HeldRequest, Failed}
    BY <2>1 DEF HeldRequest
  <2>4. told' \in [Worker -> Nat]
    BY <1>1, <2>2
  <2> QED BY <1>1, <2>1, <2>2, <2>3, <2>4, SettlingKeeps
<1>3. CASE WorkerExits(w)
  <2>1. /\ Settle(w, open[w], Failed)
        /\ life' = [life EXCEPT ![w] = "gone"]
        /\ UNCHANGED <<session, daemon, link, deaf, asked, told>>
    BY <1>3 DEF WorkerExits
  <2>2. /\ life' \in [Worker -> Life]
        /\ \A v \in Worker : life'[v] \in {life[v], "gone"}
    BY <1>1, <2>1 DEF Life
  <2> QED BY <1>1, <2>1, <2>2, SettlingKeeps
<1>4. CASE StreamFails(w)
  <2>1. /\ Settle(w, open[w], Failed)
        /\ deaf' = deaf \union {w}
        /\ UNCHANGED <<session, daemon, link, life, asked, told>>
    BY <1>4 DEF StreamFails
  <2> QED BY <1>1, <2>1, SettlingKeeps
<1> QED BY <1>2, <1>3, <1>4

LEMMA WorkerDiesStep ==
  ASSUME IInv, NEW w \in Worker, WorkerDies(w)
  PROVE  IInv'
<1> USE DEF session, daemon, provider
<1>1. /\ life' = [life EXCEPT ![w] = "dead"] /\ life \in [Worker -> Life]
      /\ life[w] = "running"
      /\ UNCHANGED <<session, toClient, daemon, held, provider, deaf, asked, told>>
  BY DEF IInv, TypeOK, WorkerDies
<1>2. TypeOK' /\ LedgerInv'
  BY <1>1 DEF IInv, TypeOK, Life, LedgerInv
<1>3. HeldIsOpen' /\ OnlyTheHeldIsAtRisk'
  BY <1>1 DEF IInv, HeldIsOpen, OnlyTheHeldIsAtRisk
<1>4. TimersSpareTheBusy' /\ NothingLingers'
  BY <1>1 DEF IInv, TimersSpareTheBusy, NothingLingers, InFlight
<1>5. ResponsesAreOwn' /\ OutcomesAreOwn'
  BY <1>1 DEF IInv, ResponsesAreOwn, OutcomesAreOwn
<1> QED BY <1>2, <1>3, <1>4, <1>5 DEF IInv

\* Dismissing the link: whoever ran was the link, so nothing runs.
LEMMA DismissStep ==
  ASSUME IInv, Deadline \/ Reap
  PROVE  IInv'
<1> USE DEF session, daemon
<1>1. /\ life' = [w \in Worker |-> IF w = link /\ life[w] = "running" THEN "killed" ELSE life[w]]
      /\ link' = None /\ reap' = FALSE
      /\ UNCHANGED <<session, daemon, open, deaf, asked, told>>
  BY DEF Deadline, Reap, Dismiss
<1>2. held' = None
  <2>1. CASE Deadline
    BY <2>1 DEF Deadline
  <2>2. CASE Reap
    <3>1. ~InFlight /\ UNCHANGED held
      BY <2>2 DEF Reap, IInv, TimersSpareTheBusy
    <3> QED BY <3>1 DEF InFlight, IInv, HeldIsOpen
  <2> QED BY <2>1, <2>2
<1>3. toClient' \in [Client -> Seq(Response)] /\ ResponsesAreOwn'
  <2>1. CASE Deadline
    <3>1. Respond(HeldRequest, Failed) /\ HeldRequest \in Request
      BY <2>1, HeldIsARequest DEF Deadline
    <3> QED BY <3>1, RespondKeeps
  <2>2. CASE Reap
    BY <2>2 DEF Reap, IInv, TypeOK, ResponsesAreOwn
  <2> QED BY <2>1, <2>2
<1>4. TypeOK'
  BY <1>1, <1>2, <1>3 DEF IInv, TypeOK, Life
<1>5. LedgerInv'
  BY <1>1 DEF IInv, LedgerInv
<1>6. HeldIsOpen' /\ OnlyTheHeldIsAtRisk'
  BY <1>1, <1>2 DEF HeldIsOpen, OnlyTheHeldIsAtRisk
<1>7. TimersSpareTheBusy'
  BY <1>1 DEF IInv, TimersSpareTheBusy
<1>8. NothingLingers'
  BY <1>1 DEF IInv, NothingLingers
<1>9. OutcomesAreOwn'
  BY <1>1 DEF IInv, OutcomesAreOwn
<1> QED BY <1>3, <1>4, <1>5, <1>6, <1>7, <1>8, <1>9 DEF IInv

LEMMA StutterStep ==
  ASSUME IInv, UNCHANGED vars
  PROVE  IInv'
<1>1. /\ conn' \in [Client -> Stage] /\ toDaemon' \in [Client -> Seq(1..Requests)]
      /\ outcome' \in [Request -> Outcome] /\ OutcomesAreOwn'
      /\ UNCHANGED <<toClient, daemon, held, provider, process>>
  BY DEF vars, session, IInv, TypeOK, OutcomesAreOwn
<1> QED BY <1>1, SessionKeeps

LEMMA IInvStep == IInv /\ [Next]_vars => IInv'
<1> SUFFICES ASSUME IInv, [Next]_vars PROVE IInv'
  OBVIOUS
<1>1. CASE \E c \in Client : Hello(c) \/ Connect(c) \/ HangUp(c) \/ Disconnect(c)
  BY <1>1, SessionStep
<1>2. CASE \E c \in Client, id \in 1..Requests : Embed(c, id)
  BY <1>2, SessionStep
<1>3. CASE \E c \in Client : Deliver(c)
  BY <1>3, DeliverStep
<1>4. CASE \E c \in Client : Accept(c) \/ Receive(c) \/ Drop(c)
  BY <1>4, ConnectionStep
<1>5. CASE \E w \in Worker : WorkerAnswers(w) \/ WorkerExits(w) \/ StreamFails(w)
  BY <1>5, WorkerStep
<1>6. CASE \E w \in Worker : WorkerDies(w)
  BY <1>6, WorkerDiesStep
<1>7. CASE LaneStart
  BY <1>7, LaneStartStep
<1>8. CASE Deadline \/ Reap
  BY <1>8, DismissStep
<1>9. CASE Stop
  BY <1>9, StopStep
<1>10. CASE UNCHANGED vars
  BY <1>10, StutterStep
<1> QED BY <1>1, <1>2, <1>3, <1>4, <1>5, <1>6, <1>7, <1>8, <1>9, <1>10 DEF Next, Progress

LEMMA AlwaysIInv == Spec => []IInv
BY InitInv, IInvStep, PTL DEF Spec

-------------------------------------------------------------------------------
(* The theorems.                                                           *)

\* The variables of the daemon, its sessions and its workers keep their types.
THEOREM ServiceTypeCorrect == Spec => []TypeOK
BY AlwaysIInv, PTL DEF IInv

\* A worker killed at a deadline holds no request but the one whose deadline
\* it was (embedWithTimeout).
THEOREM DeadlineSparesTheOthers == Spec => []OnlyTheHeldIsAtRisk
BY AlwaysIInv, PTL DEF IInv

\* A session gets the vectors of its own texts only, whatever late lines of
\* killed workers and equal ids of other sessions there are.
THEOREM AnswersAreOwn == Spec => []OwnAnswer
<1>1. IInv => OwnAnswer
  <2> SUFFICES ASSUME IInv, NEW r \in Request, outcome[r] \in Request
               PROVE  outcome[r] = r
    BY DEF OwnAnswer
  <2>1. outcome[r] \in {r, Failed, <<"none">>, <<"open">>}
    BY DEF IInv, OutcomesAreOwn
  <2>2. Len(outcome[r]) = 2
    BY DEF Request
  <2>3. Len(Failed) = 1 /\ Len(<<"none">>) = 1 /\ Len(<<"open">>) = 1
    BY DEF Failed
  <2> QED BY <2>1, <2>2, <2>3
<1> QED BY <1>1, AlwaysIInv, PTL

\* No idle timer takes away a worker in use or a daemon with sessions.
THEOREM TimersSpare == Spec => []TimersSpareTheBusy
BY AlwaysIInv, PTL DEF IInv

\* No worker and no daemon stays in memory without a timer set to end it.
THEOREM MemoryIsGivenBack == Spec => []NothingLingers
BY AlwaysIInv, PTL DEF IInv

===============================================================================
