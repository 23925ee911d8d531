---------------------------- MODULE SessionProofs -----------------------------
(***************************************************************************)
(* A session with any calls, decisions, replacements and failed openings.  *)
(***************************************************************************)
EXTENDS SessionProps, WellFoundedInduction, TLAPS

\* A runtime has a root from its birth on, and is used only when it has been
\* open; only the default project's are saved into.
RuntimesInv ==
  /\ \A o \in Opening :
       /\ life[o] # "unborn" => rootOf[o] \in Root
       /\ queue[o] # <<>> => life[o] \in {"open", "disposed"} /\ rootOf[o] = Default
       /\ vectorCache[o] # None => life[o] \in {"open", "disposed"}
  /\ \A r \in Root : runtimes[r] # None =>
       life[runtimes[r]] # "unborn" /\ rootOf[runtimes[r]] = r

\* A call waits for, or has, an opening that was begun.
CallsInv ==
  \A c \in Call : call[c].at \in {"opening", "using"} =>
    /\ call[c].on \in Opening /\ life[call[c].on] # "unborn"
    /\ call[c].wants = "save" => rootOf[call[c].on] = Default /\ call[c].left = <<>>

\* What is disposed of is a runtime of the release, which looks at open ones.
ReleaseInv ==
  /\ release = "no" => releasing = {} /\ awaited = None /\ \A o \in Opening : life[o] # "disposed"
  /\ release \in {"done", "exited"} => releasing = {}
  /\ awaited # None => life[Oldest] = "open"

\* What is queued was saved in this session.
QueueInv == \A o \in Opening : \A i \in DOMAIN queue[o] : queue[o][i] \in mine

TypeInv == TypeOK /\ RuntimesInv /\ CallsInv /\ ReleaseInv /\ QueueInv

-------------------------------------------------------------------------------
\* There is an oldest opening to see to, as long as there is any.
LEMMA OldestExists ==
  ASSUME releasing \subseteq Opening, releasing # {}
  PROVE  Oldest \in releasing /\ Oldest \in Opening
<1>1. releasing \subseteq Nat
  BY DEF Opening
<1>2. PICK o \in releasing : \A n \in releasing : ~ (<<n, o>> \in OpToRel(<, Nat))
  BY <1>1, WFMin, NatLessThanWellFounded, Zenon
<1>3. \A n \in releasing : ~ (n < o)
  BY <1>1, <1>2, Zenon DEF OpToRel
<1>4. \A n \in releasing : o <= n
  BY <1>1, <1>3
<1>5. QED
  BY <1>4 DEF Oldest

LEMMA OldestKept == UNCHANGED releasing => Oldest' = Oldest
BY DEF Oldest

LEMMA OpeningsAreNumbers == None \notin Opening
BY NoneAssumption, LastFailureAssumption DEF Opening

LEMMA InitTypeInv == Init => TypeInv
<1> SUFFICES ASSUME Init
             PROVE  TypeInv
  OBVIOUS
<1>1. Idle \in CallType
  BY DEF Idle, CallType
<1>2. call \in [Call -> CallType] /\ \A c \in Call : call[c].at = "idle"
  BY <1>1 DEF Init, Idle
<1>3. TypeOK
  BY <1>2 DEF Init, TypeOK
<1>4. QED
  BY <1>2, <1>3 DEF Init, TypeInv, RuntimesInv, CallsInv, ReleaseInv, QueueInv

-------------------------------------------------------------------------------
\* One more opening of project r.
Opens(o, r) ==
  /\ life[o] = "unborn" /\ runtimes[r] = None
  /\ life' = [life EXCEPT ![o] = "building"]
  /\ rootOf' = [rootOf EXCEPT ![o] = r]
  /\ runtimes' = [runtimes EXCEPT ![r] = o]
  /\ late' = IF release = "no" THEN late ELSE late \union {o}

\* What a step of a call may do to the registry.
OpensAtMostOne ==
  \/ UNCHANGED <<registryVars, late>>
  \/ \E o \in Opening, r \in Root : Opens(o, r)

\* A call that goes on with a project has an opening of it, under way or not.
LEMMA OpenRootOpens ==
  ASSUME TypeInv, NEW c \in Call, NEW r \in Root, NEW next \in CallType, OpenRoot(c, r, next)
  PROVE  /\ OpensAtMostOne
         /\ \E j \in CallType :
              /\ call' = [call EXCEPT ![c] = j]
              /\ j.at = "opening" /\ j.on \in Opening
              /\ j.wants = next.wants /\ j.left = next.left
              /\ life'[j.on] # "unborn" /\ rootOf'[j.on] = r
<1>1. ASSUME NEW o \in Opening
      PROVE  LET j == [next EXCEPT !.at = "opening", !.on = o]
             IN  j \in CallType /\ j.at = "opening" /\ j.on = o
                 /\ j.wants = next.wants /\ j.left = next.left
  BY <1>1 DEF CallType
<1>2. CASE Shared(r)
  <2>1. /\ runtimes[r] \in Opening
        /\ life[runtimes[r]] # "unborn" /\ rootOf[runtimes[r]] = r
    BY <1>2 DEF Shared, TypeInv, TypeOK, RuntimesInv
  <2>2. /\ call' = [call EXCEPT ![c] = [next EXCEPT !.at = "opening", !.on = runtimes[r]]]
        /\ UNCHANGED <<registryVars, late>>
    BY <1>2 DEF OpenRoot
  <2>3. life' = life /\ rootOf' = rootOf
    BY <2>2 DEF registryVars
  <2>4. QED
    BY <1>1, <2>1, <2>2, <2>3, ZenonT(60) DEF OpensAtMostOne
<1>3. CASE ~Shared(r)
  <2>1. PICK o \in Opening :
          /\ Opens(o, r)
          /\ call' = [call EXCEPT ![c] = [next EXCEPT !.at = "opening", !.on = o]]
    BY <1>3 DEF OpenRoot, Shared, Opens
  <2>2. life'[o] # "unborn" /\ rootOf'[o] = r
    BY <2>1 DEF Opens, TypeInv, TypeOK
  <2>3. QED
    BY <1>1, <2>1, <2>2 DEF OpensAtMostOne
<1>4. QED
  BY <1>2, <1>3

\* A call goes on with its next project, or has its answer.
LEMMA ProceedOpens ==
  ASSUME TypeInv, NEW c \in Call, Proceed(c)
  PROVE  /\ OpensAtMostOne
         /\ \E j \in CallType :
              /\ call' = [call EXCEPT ![c] = j]
              /\ \/ j.at = "answered"
                 \/ /\ j.at = "opening" /\ j.on \in Opening /\ j.wants = call[c].wants
                    /\ call[c].left # <<>>
                    /\ life'[j.on] # "unborn"
<1>1. call[c] \in CallType
  BY DEF TypeInv, TypeOK
<1>2. CASE call[c].left = <<>>
  <2>1. [call[c] EXCEPT !.at = "answered"] \in CallType
    BY <1>1 DEF CallType
  <2>2. [call[c] EXCEPT !.at = "answered"].at = "answered"
    BY <1>1 DEF CallType
  <2>3. call' = [call EXCEPT ![c] = [call[c] EXCEPT !.at = "answered"]]
    BY <1>2 DEF Proceed
  <2>4. OpensAtMostOne
    BY <1>2 DEF Proceed, OpensAtMostOne
  <2>5. QED
    BY <2>1, <2>2, <2>3, <2>4
<1>3. CASE call[c].left # <<>>
  <2>1. call[c].left = <<Elsewhere>>
    BY <1>1, <1>3 DEF CallType
  <2>2. Head(call[c].left) = Elsewhere /\ Tail(call[c].left) = <<>>
    BY <2>1
  <2>3. PICK next \in CallType : next = [call[c] EXCEPT !.left = <<>>]
    BY <1>1 DEF CallType
  <2>4. next.wants = call[c].wants
    BY <1>1, <2>3 DEF CallType
  <2>5. OpenRoot(c, Elsewhere, next)
    BY <1>3, <2>2, <2>3 DEF Proceed
  <2>6. QED
    BY <1>3, <2>4, <2>5, OpenRootOpens DEF Root
<1>4. QED
  BY <1>2, <1>3

LEMMA RegistryKept ==
  ASSUME TypeInv, OpensAtMostOne
  PROVE  /\ life' \in [Opening -> {"unborn", "building", "open", "failed", "disposed"}]
         /\ rootOf' \in [Opening -> Root \union {None}]
         /\ runtimes' \in [Root -> Opening \union {None}]
         /\ late' \subseteq Opening
         /\ \A o \in Opening :
              /\ life[o] # "unborn" => life'[o] = life[o] /\ rootOf'[o] = rootOf[o]
              /\ life[o] = "unborn" => life'[o] \in {"unborn", "building"}
              /\ life'[o] # "unborn" => rootOf'[o] \in Root
         /\ \A r \in Root : runtimes'[r] # None =>
              life'[runtimes'[r]] # "unborn" /\ rootOf'[runtimes'[r]] = r
<1>1. CASE UNCHANGED <<registryVars, late>>
  BY <1>1 DEF registryVars, TypeInv, TypeOK, RuntimesInv
<1>2. CASE \E o \in Opening, r \in Root : Opens(o, r)
  <2>1. PICK o \in Opening, r \in Root : Opens(o, r)
    BY <1>2
  <2>2. /\ life' \in [Opening -> {"unborn", "building", "open", "failed", "disposed"}]
        /\ rootOf' \in [Opening -> Root \union {None}]
        /\ runtimes' \in [Root -> Opening \union {None}]
        /\ late' \subseteq Opening
    BY <2>1 DEF Opens, TypeInv, TypeOK
  <2>3. /\ life[o] = "unborn" /\ life'[o] = "building" /\ rootOf'[o] = r /\ runtimes'[r] = o
        /\ \A n \in Opening : n # o => life'[n] = life[n] /\ rootOf'[n] = rootOf[n]
        /\ \A q \in Root : q # r => runtimes'[q] = runtimes[q]
    BY <2>1 DEF Opens, TypeInv, TypeOK
  <2>4. \A q \in Root : runtimes'[q] # None =>
          life'[runtimes'[q]] # "unborn" /\ rootOf'[runtimes'[q]] = q
    <3>1. ASSUME NEW q \in Root, q # r, runtimes[q] # None
          PROVE  /\ runtimes[q] \in Opening \ {o}
                 /\ life[runtimes[q]] # "unborn" /\ rootOf[runtimes[q]] = q
      BY <2>3, <3>1 DEF TypeInv, TypeOK, RuntimesInv
    <3>2. QED
      BY <2>3, <3>1
  <2>5. QED
    BY <2>2, <2>3, <2>4 DEF TypeInv, RuntimesInv
<1>3. QED
  BY <1>1, <1>2 DEF OpensAtMostOne

\* What a step of a call may do to the rest: it adds to the queue and fills or
\* clears the cache of an open runtime.
StoresTyped ==
  /\ queue' \in [Opening -> Seq(Decision)]
  /\ \A o \in Opening : /\ Len(queue'[o]) >= Len(queue[o])
                        /\ \/ queue'[o] = queue[o]
                           \/ life[o] = "open" /\ rootOf[o] = Default
  /\ vectorCache' \in [Opening -> (SUBSET Decision) \union {None}]
  /\ \A o \in Opening : vectorCache'[o] # None => vectorCache[o] # None \/ life[o] = "open"
  /\ saved' \subseteq Decision /\ vectors' \subseteq saved'
  /\ early' \subseteq mine' /\ mine' \subseteq saved' /\ embedded' \subseteq vectors'
  /\ QueueInv'
  /\ UNCHANGED releaseVars

LEMMA KeptStoresTyped ==
  ASSUME TypeInv, UNCHANGED <<queue, storeVars, vectorCache, releaseVars, mine, embedded, early>>
  PROVE  StoresTyped
<1>1. \A o \in Opening : Len(queue[o]) \in Nat
  BY DEF TypeInv, TypeOK
<1>2. saved' = saved /\ vectors' = vectors
  BY DEF storeVars
<1>3. QED
  BY <1>1, <1>2 DEF StoresTyped, TypeInv, TypeOK, QueueInv

\* A call goes on; it may have added to a queue and filled or cleared a cache.
LEMMA CallMoves ==
  ASSUME TypeInv, NEW c \in Call, NEW j \in CallType, OpensAtMostOne,
         call' = [call EXCEPT ![c] = j],
         j.at \in {"opening", "using"} =>
           /\ j.on \in Opening /\ life'[j.on] # "unborn"
           /\ j.wants = "save" => rootOf'[j.on] = Default /\ j.left = <<>>,
         StoresTyped
  PROVE  TypeInv'
<1>1. call' \in [Call -> CallType]
  BY DEF TypeInv, TypeOK
<1>2. releasing' = releasing /\ awaited' = awaited /\ release' = release /\ Oldest' = Oldest
  BY OldestKept DEF StoresTyped, releaseVars
<1>3. awaited # None => /\ releasing # {} /\ Oldest \in Opening /\ life[Oldest] = "open"
                        /\ awaited \in 0..Len(queue'[Oldest])
  <2> SUFFICES ASSUME awaited # None
               PROVE  /\ releasing # {} /\ Oldest \in Opening /\ life[Oldest] = "open"
                      /\ awaited \in 0..Len(queue'[Oldest])
    OBVIOUS
  <2>1. releasing # {} /\ Oldest \in Opening
    BY OldestExists DEF TypeInv, TypeOK
  <2>2. awaited \in 0..Len(queue[Oldest]) /\ Len(queue'[Oldest]) >= Len(queue[Oldest])
    BY <2>1 DEF StoresTyped, TypeInv, TypeOK
  <2>3. Len(queue[Oldest]) \in Nat /\ Len(queue'[Oldest]) \in Nat
    BY <2>1 DEF StoresTyped, TypeInv, TypeOK
  <2>4. QED
    BY <2>1, <2>2, <2>3 DEF TypeInv, ReleaseInv
<1>4. TypeOK'
  BY <1>1, <1>2, <1>3, RegistryKept DEF StoresTyped, TypeInv, TypeOK
<1>5. RuntimesInv'
  <2>1. ASSUME NEW o \in Opening
        PROVE  /\ queue'[o] # <<>> => life[o] \in {"open", "disposed"} /\ rootOf[o] = Default
               /\ vectorCache'[o] # None => life[o] \in {"open", "disposed"}
    BY <2>1 DEF StoresTyped, TypeInv, RuntimesInv
  <2>2. ASSUME NEW o \in Opening, life[o] \in {"open", "disposed"}
        PROVE  life'[o] = life[o] /\ rootOf'[o] = rootOf[o]
    BY <2>2, RegistryKept
  <2>3. QED
    BY <2>1, <2>2, RegistryKept DEF RuntimesInv
<1>6. CallsInv'
  <2>1. ASSUME NEW b \in Call, b # c, call[b].at \in {"opening", "using"}
        PROVE  /\ call[b].on \in Opening /\ life'[call[b].on] # "unborn"
               /\ call[b].wants = "save" =>
                    rootOf'[call[b].on] = Default /\ call[b].left = <<>>
    BY <2>1, RegistryKept DEF TypeInv, CallsInv
  <2>2. call'[c] = j /\ \A b \in Call : b # c => call'[b] = call[b]
    BY DEF TypeInv, TypeOK
  <2>3. QED
    BY <2>1, <2>2 DEF CallsInv
<1>7. ReleaseInv'
  <2>1. \A o \in Opening : life[o] # "disposed" => life'[o] # "disposed"
    BY RegistryKept DEF TypeInv, TypeOK
  <2>2. QED
    BY <1>2, <1>3, <2>1, RegistryKept DEF TypeInv, ReleaseInv
<1>8. QED
  BY <1>4, <1>5, <1>6, <1>7 DEF TypeInv, StoresTyped

\* What is not a step of a call gives birth to no opening.
LEMMA NoCallMoves ==
  ASSUME TypeInv, UNCHANGED <<rootOf, call>>,
         \A o \in Opening :
           /\ life[o] # "unborn" <=> life'[o] # "unborn"
           /\ life[o] \in {"open", "disposed"} => life'[o] \in {"open", "disposed"}
           /\ queue'[o] # <<>> => queue[o] # <<>>
           /\ vectorCache'[o] # None => vectorCache[o] # None,
         \A r \in Root : runtimes'[r] \in {runtimes[r], None}
  PROVE  RuntimesInv' /\ CallsInv'
<1>1. \A o \in Opening :
        /\ life'[o] # "unborn" => rootOf[o] \in Root
        /\ queue'[o] # <<>> => life'[o] \in {"open", "disposed"} /\ rootOf[o] = Default
        /\ vectorCache'[o] # None => life'[o] \in {"open", "disposed"}
  BY DEF TypeInv, RuntimesInv
<1>2. ASSUME NEW r \in Root, runtimes'[r] # None
      PROVE  life'[runtimes'[r]] # "unborn" /\ rootOf[runtimes'[r]] = r
  <2>1. runtimes'[r] = runtimes[r] /\ runtimes[r] \in Opening
    BY <1>2 DEF TypeInv, TypeOK
  <2>2. QED
    BY <1>2, <2>1 DEF TypeInv, RuntimesInv
<1>3. CallsInv'
  BY DEF TypeInv, CallsInv
<1>4. QED
  BY <1>1, <1>2, <1>3 DEF RuntimesInv

LEMMA AskTyped ==
  ASSUME TypeInv, NEW c \in Call, NEW wants \in {"save", "search", "everywhere"}, Ask(c, wants)
  PROVE  TypeInv'
<1> DEFINE new == [Idle EXCEPT !.wants = wants,
                     !.left = IF wants = "everywhere" THEN <<Elsewhere>> ELSE <<>>]
<1>0. PICK left \in {<<>>, <<Elsewhere>>} :
        /\ left = IF wants = "everywhere" THEN <<Elsewhere>> ELSE <<>>
        /\ wants = "save" => left = <<>>
  OBVIOUS
<1>1. PICK next \in CallType : next = new /\ next.wants = wants /\ next.left = left
  <2>1. new = [Idle EXCEPT !.wants = wants, !.left = left]
    BY <1>0
  <2>2. [Idle EXCEPT !.wants = wants, !.left = left] \in CallType
    BY DEF Idle, CallType
  <2>3. QED
    BY <2>1, <2>2 DEF Idle
<1>2. next.wants = wants /\ (wants = "save" => next.left = <<>>)
  BY <1>0, <1>1
<1>3. /\ OpenRoot(c, Default, next)
      /\ UNCHANGED <<queue, storeVars, vectorCache, releaseVars, mine, embedded, early>>
  BY <1>1 DEF Ask
<1>4. PICK j \in CallType :
        /\ call' = [call EXCEPT ![c] = j]
        /\ j.at = "opening" /\ j.on \in Opening
        /\ j.wants = next.wants /\ j.left = next.left
        /\ life'[j.on] # "unborn" /\ rootOf'[j.on] = Default
  BY <1>3, OpenRootOpens DEF Root
<1>5. OpensAtMostOne
  BY <1>3, OpenRootOpens DEF Root
<1>6. StoresTyped
  BY <1>3, KeptStoresTyped
<1>7. QED
  BY <1>2, <1>4, <1>5, <1>6, CallMoves

\* Whatever else a call does, it goes on or is answered.
LEMMA ProceedTyped ==
  ASSUME TypeInv, NEW c \in Call, Proceed(c), call[c].at \in {"opening", "using"},
         StoresTyped
  PROVE  TypeInv'
<1>1. PICK j \in CallType :
        /\ call' = [call EXCEPT ![c] = j]
        /\ \/ j.at = "answered"
           \/ /\ j.at = "opening" /\ j.on \in Opening /\ j.wants = call[c].wants
              /\ call[c].left # <<>>
              /\ life'[j.on] # "unborn"
  BY ProceedOpens
<1>2. j.at \in {"opening", "using"} => j.on \in Opening /\ life'[j.on] # "unborn" /\ j.wants # "save"
  BY <1>1 DEF TypeInv, CallsInv
<1>3. OpensAtMostOne
  BY ProceedOpens
<1>4. QED
  BY <1>1, <1>2, <1>3, CallMoves

LEMMA AnswerTyped ==
  ASSUME TypeInv, NEW c \in Call, Answer(c)
  PROVE  TypeInv'
<1>0. \A o \in Opening : Len(queue[o]) \in Nat
  BY DEF TypeInv, TypeOK
<1>1. CASE Enter(c)
  <2>1. PICK j \in CallType : j = [call[c] EXCEPT !.at = "using"]
    BY DEF TypeInv, TypeOK, CallType
  <2>2. /\ j.at = "using" /\ j.on = call[c].on /\ j.wants = call[c].wants /\ j.left = call[c].left
        /\ call[c].at = "opening"
    BY <1>1, <2>1 DEF Enter, TypeInv, TypeOK, CallType
  <2>3. call' = [call EXCEPT ![c] = j] /\ OpensAtMostOne
    BY <1>1, <2>1 DEF Enter, OpensAtMostOne
  <2>4. UNCHANGED <<registryVars, queue, storeVars, vectorCache, releaseVars, mine, embedded, early>>
    BY <1>1 DEF Enter
  <2>5. /\ j.on \in Opening /\ life'[j.on] # "unborn"
        /\ j.wants = "save" => rootOf'[j.on] = Default /\ j.left = <<>>
    BY <2>2, <2>4 DEF TypeInv, CallsInv, registryVars
  <2>6. QED
    BY <2>3, <2>4, <2>5, CallMoves, KeptStoresTyped
<1>2. CASE Skip(c) \/ ChangesNothing(c)
  <2>1. /\ Proceed(c) /\ call[c].at \in {"opening", "using"}
        /\ UNCHANGED <<queue, storeVars, vectorCache, releaseVars, mine, embedded, early>>
    BY <1>2 DEF Skip, ChangesNothing
  <2>2. QED
    BY <2>1, ProceedTyped, KeptStoresTyped
<1>3. CASE Search(c)
  <2>1. /\ Proceed(c) /\ call[c].at = "using" /\ life[call[c].on] = "open" /\ call[c].on \in Opening
        /\ UNCHANGED <<queue, storeVars, releaseVars, mine, embedded, early>>
    BY <1>3 DEF Search, TypeInv, CallsInv
  <2>2. (vectors \intersect Active) \in SUBSET Decision /\ {} \in SUBSET Decision
    BY DEF TypeInv, TypeOK
  <2>3. vectorCache' \in [Opening -> (SUBSET Decision) \union {None}]
    BY <1>3, <2>2 DEF Search, TypeInv, TypeOK
  <2>4. \A o \in Opening : vectorCache'[o] # None => vectorCache[o] # None \/ life[o] = "open"
    BY <1>3, <2>1 DEF Search, TypeInv, TypeOK
  <2>5. StoresTyped
    BY <1>0, <2>1, <2>3, <2>4 DEF StoresTyped, TypeInv, TypeOK, QueueInv, storeVars
  <2>6. QED
    BY <2>1, <2>5, ProceedTyped
<1>4. ASSUME NEW d \in Decision, Save(c, d)
      PROVE  TypeInv'
  <2> DEFINE o == call[c].on
  <2>1. /\ Proceed(c) /\ call[c].at = "using" /\ life[o] = "open"
        /\ o \in Opening /\ rootOf[o] = Default
        /\ UNCHANGED <<vectors, releaseVars, embedded>>
    BY <1>4 DEF Save, TypeInv, CallsInv
  <2>2. queue' = [queue EXCEPT ![o] = Append(@, d)] /\ vectorCache' = [vectorCache EXCEPT ![o] = None]
    BY <1>4 DEF Save
  <2>3. saved' = saved \union {d} /\ mine' = mine \union {d} /\ early' \subseteq early \union {d}
        /\ (early' = early \/ early' = early \union {d})
    BY <1>4 DEF Save
  <2>4. queue[o] \in Seq(Decision)
    BY <2>1 DEF TypeInv, TypeOK
  <2>5. Append(queue[o], d) \in Seq(Decision) /\ Len(Append(queue[o], d)) = Len(queue[o]) + 1
    BY <2>4
  <2>6. queue' \in [Opening -> Seq(Decision)]
    BY <2>1, <2>2, <2>5 DEF TypeInv, TypeOK
  <2>7. \A n \in Opening : /\ Len(queue'[n]) >= Len(queue[n])
                            /\ \/ queue'[n] = queue[n]
                               \/ life[n] = "open" /\ rootOf[n] = Default
    BY <1>0, <2>1, <2>2, <2>5 DEF TypeInv, TypeOK
  <2>8. /\ vectorCache' \in [Opening -> (SUBSET Decision) \union {None}]
        /\ \A n \in Opening : vectorCache'[n] # None => vectorCache[n] # None
    BY <2>1, <2>2 DEF TypeInv, TypeOK
  <2>9. QueueInv'
    <3>1. \A i \in DOMAIN Append(queue[o], d) : Append(queue[o], d)[i] \in mine'
      BY <2>1, <2>3, <2>4 DEF TypeInv, QueueInv
    <3>2. queue'[o] = Append(queue[o], d) /\ \A n \in Opening : n # o => queue'[n] = queue[n]
      BY <2>1, <2>2 DEF TypeInv, TypeOK
    <3>3. QED
      BY <2>3, <3>1, <3>2 DEF TypeInv, QueueInv
  <2>10. StoresTyped
    BY <2>1, <2>3, <2>6, <2>7, <2>8, <2>9 DEF StoresTyped, TypeInv, TypeOK
  <2>11. QED
    BY <2>1, <2>10, ProceedTyped
<1>5. QED
  BY <1>1, <1>2, <1>3, <1>4 DEF Answer

-------------------------------------------------------------------------------
\* The queue that is waited for is an open runtime's, and has what is awaited.
LEMMA AwaitedIsThere ==
  ASSUME TypeInv, awaited # None
  PROVE  /\ releasing # {} /\ Oldest \in releasing /\ Oldest \in Opening /\ life[Oldest] = "open"
         /\ awaited \in 0..Len(queue[Oldest]) /\ Len(queue[Oldest]) \in Nat
<1>1. releasing \subseteq Opening /\ releasing # {}
  BY DEF TypeInv, TypeOK
<1>2. Oldest \in releasing /\ Oldest \in Opening
  BY <1>1, OldestExists
<1>3. QED
  BY <1>1, <1>2 DEF TypeInv, TypeOK, ReleaseInv

\* Openings end, another process saves or embeds.
LEMMA BuiltTyped ==
  ASSUME TypeInv, NEW o \in Opening, Built(o) \/ BuildFails(o)
  PROVE  TypeInv'
<1>1. /\ life[o] = "building"
      /\ \/ life' = [life EXCEPT ![o] = "open"] /\ runtimes' = runtimes
         \/ life' = [life EXCEPT ![o] = "failed"] /\ runtimes' = [runtimes EXCEPT ![rootOf[o]] = None]
      /\ UNCHANGED <<rootOf, call, queue, storeVars, vectorCache, releaseVars,
                     mine, embedded, early, late>>
  BY DEF Built, BuildFails
<1>2. /\ \A n \in Opening : n # o => life'[n] = life[n]
      /\ life'[o] \in {"open", "failed"}
      /\ life' \in [Opening -> {"unborn", "building", "open", "failed", "disposed"}]
      /\ runtimes' \in [Root -> Opening \union {None}]
      /\ \A r \in Root : runtimes'[r] \in {runtimes[r], None}
  BY <1>1 DEF TypeInv, TypeOK
<1>3. Oldest' = Oldest /\ releasing' = releasing /\ awaited' = awaited /\ release' = release
  BY <1>1, OldestKept DEF releaseVars
<1>4. TypeOK'
  BY <1>1, <1>2, <1>3 DEF TypeInv, TypeOK, storeVars
<1>5. RuntimesInv' /\ CallsInv'
  BY <1>1, <1>2, NoCallMoves
<1>6. awaited # None => life'[Oldest] = "open"
  BY <1>1, <1>2, AwaitedIsThere
<1>7. ReleaseInv'
  BY <1>1, <1>2, <1>3, <1>6 DEF TypeInv, ReleaseInv
<1>8. QueueInv'
  BY <1>1 DEF TypeInv, QueueInv
<1>9. QED
  BY <1>4, <1>5, <1>7, <1>8 DEF TypeInv

LEMMA ForeignTyped ==
  ASSUME TypeInv, NEW d \in Decision, Foreign(d)
  PROVE  TypeInv'
<1>1. UNCHANGED <<registryVars, call, queue, vectorCache, releaseVars, mine, embedded, early, late>>
  BY DEF Foreign
<1>2. Oldest' = Oldest /\ releasing' = releasing /\ awaited' = awaited /\ release' = release
      /\ life' = life /\ rootOf' = rootOf /\ runtimes' = runtimes
  BY <1>1, OldestKept DEF releaseVars, registryVars
<1>3. saved \subseteq saved' /\ saved' \subseteq Decision /\ vectors \subseteq vectors' /\ vectors' \subseteq saved'
  BY DEF Foreign, Active, TypeInv, TypeOK
<1>4. TypeOK'
  BY <1>1, <1>2, <1>3 DEF TypeInv, TypeOK
<1>5. RuntimesInv' /\ CallsInv' /\ ReleaseInv' /\ QueueInv'
  BY <1>1, <1>2 DEF TypeInv, RuntimesInv, CallsInv, ReleaseInv, QueueInv
<1>6. QED
  BY <1>4, <1>5 DEF TypeInv

-------------------------------------------------------------------------------
\* The queue.
LEMMA DequeueTyped ==
  ASSUME TypeInv, NEW o \in Opening, Embed(o) \/ EmbedFails(o)
  PROVE  TypeInv'
<1>1. /\ Dequeue(o)
      /\ \/ UNCHANGED <<vectors, vectorCache, embedded>>
         \/ /\ life[o] = "open"
            /\ vectors' = vectors \union {Head(queue[o])}
            /\ embedded' = embedded \union {Head(queue[o])}
            /\ vectorCache' = [vectorCache EXCEPT ![o] = None]
  BY DEF Embed, EmbedFails
<1>2. queue[o] \in Seq(Decision) /\ queue[o] # <<>>
  BY <1>1 DEF Dequeue, TypeInv, TypeOK
<1>3. Tail(queue[o]) \in Seq(Decision) /\ Len(Tail(queue[o])) = Len(queue[o]) - 1
      /\ Len(queue[o]) \in Nat
  BY <1>2
<1>4. /\ queue' = [queue EXCEPT ![o] = Tail(@)]
      /\ UNCHANGED <<registryVars, call, saved, release, releasing, mine, early, late>>
      /\ awaited' = IF releasing # {} /\ Oldest = o /\ awaited \notin {None, 0}
                    THEN awaited - 1 ELSE awaited
  BY <1>1 DEF Dequeue
<1>5. /\ queue' \in [Opening -> Seq(Decision)]
      /\ queue'[o] = Tail(queue[o])
      /\ \A n \in Opening : n # o => queue'[n] = queue[n]
  BY <1>3, <1>4 DEF TypeInv, TypeOK
<1>6. Oldest' = Oldest /\ life' = life /\ rootOf' = rootOf /\ runtimes' = runtimes
  BY <1>4, OldestKept DEF registryVars
<1>7. awaited' # None => awaited # None
  BY <1>4
<1>8. awaited # None => awaited' \in 0..Len(queue'[Oldest])
  <2> SUFFICES ASSUME awaited # None
               PROVE  awaited' \in 0..Len(queue'[Oldest])
    OBVIOUS
  <2>1. awaited \in 0..Len(queue[Oldest]) /\ Len(queue[Oldest]) \in Nat /\ releasing # {}
        /\ Oldest \in Opening
    BY AwaitedIsThere
  <2>2. CASE Oldest = o
    BY <1>3, <1>4, <1>5, <2>1, <2>2
  <2>3. CASE Oldest # o
    BY <1>4, <1>5, <2>1, <2>3
  <2>4. QED
    BY <2>2, <2>3
<1>9. Head(queue[o]) \in Decision
  BY <1>2
<1>10. Head(queue[o]) \in saved /\ QueueInv'
  <2>1. Head(queue[o]) = queue[o][1] /\ 1 \in DOMAIN queue[o]
    BY <1>2
  <2>2. \A i \in DOMAIN Tail(queue[o]) : Tail(queue[o])[i] = queue[o][i + 1] /\ i + 1 \in DOMAIN queue[o]
    BY <1>2
  <2>3. mine' = mine
    BY <1>4
  <2>4. \A i \in DOMAIN queue[o] : queue[o][i] \in mine
    BY DEF TypeInv, QueueInv
  <2>5. Head(queue[o]) \in saved
    BY <2>1, <2>4 DEF TypeInv, TypeOK
  <2>6. \A i \in DOMAIN queue'[o] : queue'[o][i] \in mine
    BY <1>5, <2>2, <2>4
  <2>7. \A n \in Opening : n # o => \A i \in DOMAIN queue'[n] : queue'[n][i] \in mine
    BY <1>5 DEF TypeInv, QueueInv
  <2>8. QED
    BY <2>3, <2>5, <2>6, <2>7 DEF QueueInv
<1>11. /\ vectors \subseteq vectors' /\ vectors' \subseteq saved /\ embedded' \subseteq vectors'
       /\ vectorCache' \in [Opening -> (SUBSET Decision) \union {None}]
       /\ \A n \in Opening : vectorCache'[n] # None => vectorCache[n] # None
  BY <1>1, <1>10 DEF TypeInv, TypeOK
<1>12. TypeOK'
  BY <1>4, <1>5, <1>6, <1>7, <1>8, <1>11 DEF TypeInv, TypeOK
<1>13. RuntimesInv' /\ CallsInv'
  <2>1. \A n \in Opening : queue'[n] # <<>> => queue[n] # <<>>
    BY <1>2, <1>5
  <2>2. call' = call
    BY <1>4
  <2>3. QED
    BY <1>6, <1>11, <2>1, <2>2, NoCallMoves
<1>14. ReleaseInv'
  BY <1>4, <1>6, <1>7 DEF TypeInv, ReleaseInv
<1>15. QED
  BY <1>10, <1>12, <1>13, <1>14 DEF TypeInv

-------------------------------------------------------------------------------
\* The release.
LEMMA ReleaseTyped ==
  ASSUME TypeInv, Release("closed") \/ Release("signalled") \/ Signal \/ Released
  PROVE  TypeInv'
<1>1. UNCHANGED <<life, rootOf, call, queue, storeVars, vectorCache, awaited, mine, embedded, early, late>>
  BY DEF Release, Signal, Released, registryVars
<1>2. vectors' = vectors /\ saved' = saved
  BY <1>1 DEF storeVars
<1>3. CASE Release("closed") \/ Release("signalled")
  <2>1. /\ release = "no" /\ release' \in {"closed", "signalled"}
        /\ releasing' = {runtimes[r] : r \in Root} \ {None}
        /\ runtimes' = [r \in Root |-> None]
    BY <1>3 DEF Release
  <2>2. awaited = None /\ awaited' = None
    BY <1>1, <2>1 DEF TypeInv, ReleaseInv
  <2>3. releasing' \subseteq Opening /\ runtimes' \in [Root -> Opening \union {None}]
    BY <2>1 DEF TypeInv, TypeOK
  <2>4. TypeOK'
    BY <1>1, <1>2, <2>1, <2>2, <2>3 DEF TypeInv, TypeOK
  <2>5. RuntimesInv' /\ CallsInv'
    BY <1>1, <2>1, NoCallMoves
  <2>6. ReleaseInv' /\ QueueInv'
    BY <1>1, <2>1, <2>2 DEF TypeInv, ReleaseInv, QueueInv
  <2>7. QED
    BY <2>4, <2>5, <2>6 DEF TypeInv
<1>4. CASE Signal \/ Released
  <2>1. /\ runtimes' = runtimes /\ releasing' = releasing
        /\ release # "no" /\ release' \in {"signalled", "done", "exited"}
        /\ release' \in {"done", "exited"} => releasing = {}
    BY <1>4 DEF Signal, Released, Releasing, registryVars, TypeInv, ReleaseInv
  <2>2. Oldest' = Oldest
    BY <2>1, OldestKept
  <2>3. TypeOK'
    BY <1>1, <1>2, <2>1, <2>2 DEF TypeInv, TypeOK
  <2>4. RuntimesInv' /\ CallsInv'
    BY <1>1, <2>1, NoCallMoves
  <2>5. ReleaseInv' /\ QueueInv'
    BY <1>1, <2>1, <2>2 DEF TypeInv, ReleaseInv, QueueInv
  <2>6. QED
    BY <2>3, <2>4, <2>5 DEF TypeInv
<1>5. QED
  BY <1>3, <1>4

LEMMA DisposeTyped ==
  ASSUME TypeInv, AwaitQueue \/ PassOver \/ Dispose
  PROVE  TypeInv'
<1>1. UNCHANGED <<rootOf, runtimes, call, queue, storeVars, vectorCache, release, mine, embedded, early, late>>
      /\ release \in {"signalled", "closed"}
  BY DEF AwaitQueue, PassOver, Dispose, Releasing, registryVars
<1>2. vectors' = vectors /\ saved' = saved
  BY <1>1 DEF storeVars
<1>3. Oldest \in releasing /\ Oldest \in Opening
  BY OldestExists DEF AwaitQueue, PassOver, Dispose, TypeInv, TypeOK
<1>4. CASE AwaitQueue
  <2>1. /\ life' = life /\ releasing' = releasing /\ releasing # {}
        /\ life[Oldest] = "open" /\ awaited' = Len(queue[Oldest])
    BY <1>4 DEF AwaitQueue, registryVars
  <2>2. Oldest' = Oldest
    BY <2>1, OldestKept
  <2>3. awaited' \in 0..Len(queue'[Oldest])
    BY <1>1, <1>3, <2>1 DEF TypeInv, TypeOK
  <2>4. TypeOK'
    BY <1>1, <1>2, <2>1, <2>2, <2>3 DEF TypeInv, TypeOK
  <2>5. RuntimesInv' /\ CallsInv'
    BY <1>1, <2>1, NoCallMoves
  <2>6. ReleaseInv' /\ QueueInv'
    BY <1>1, <2>1, <2>2 DEF TypeInv, ReleaseInv, QueueInv
  <2>7. QED
    BY <2>4, <2>5, <2>6 DEF TypeInv
<1>5. CASE PassOver \/ Dispose
  <2>1. /\ releasing' = releasing \ {Oldest} /\ awaited' = None
        /\ \/ life' = life
           \/ life' = [life EXCEPT ![Oldest] = "disposed"] /\ life[Oldest] = "open"
    <3>1. CASE PassOver
      BY <3>1 DEF PassOver, registryVars, TypeInv, ReleaseInv
    <3>2. CASE Dispose
      BY <3>2, NoneAssumption DEF Dispose, TypeInv, ReleaseInv
    <3>3. QED
      BY <1>5, <3>1, <3>2
  <2>2. /\ life' \in [Opening -> {"unborn", "building", "open", "failed", "disposed"}]
        /\ \A o \in Opening : \/ life'[o] = life[o]
                              \/ life[o] = "open" /\ life'[o] = "disposed"
    BY <1>3, <2>1 DEF TypeInv, TypeOK
  <2>3. TypeOK'
    BY <1>1, <1>2, <2>1, <2>2 DEF TypeInv, TypeOK
  <2>4. RuntimesInv' /\ CallsInv'
    BY <1>1, <2>2, NoCallMoves
  <2>5. ReleaseInv' /\ QueueInv'
    BY <1>1, <2>1 DEF TypeInv, ReleaseInv, QueueInv
  <2>6. QED
    BY <2>3, <2>4, <2>5 DEF TypeInv
<1>6. QED
  BY <1>4, <1>5

LEMMA TypeStep == TypeInv /\ [Next]_vars => TypeInv'
<1> SUFFICES ASSUME TypeInv, [Next]_vars
             PROVE  TypeInv'
  OBVIOUS
<1>1. CASE UNCHANGED vars
  <2>1. /\ UNCHANGED <<life, rootOf, runtimes, call, queue, saved, vectors, vectorCache, release,
                      releasing, awaited, mine, embedded, early, late>>
    BY <1>1 DEF vars, registryVars, storeVars, releaseVars
  <2>2. Oldest' = Oldest
    BY <2>1, OldestKept
  <2>3. QED
    BY <2>1, <2>2 DEF TypeInv, TypeOK, RuntimesInv, CallsInv, ReleaseInv, QueueInv
<1>2. ASSUME NEW c \in Call, Answer(c) \/ \E wants \in {"save", "search", "everywhere"} : Ask(c, wants)
      PROVE  TypeInv'
  BY <1>2, AnswerTyped, AskTyped
<1>3. CASE Advance
  BY <1>3, BuiltTyped, DequeueTyped, DisposeTyped, ReleaseTyped DEF Advance
<1>4. ASSUME NEW d \in Decision, Foreign(d)
      PROVE  TypeInv'
  BY <1>4, ForeignTyped
<1>5. CASE Release("closed") \/ Release("signalled") \/ Signal
  BY <1>5, ReleaseTyped
<1>6. QED
  BY <1>1, <1>2, <1>3, <1>4, <1>5 DEF Next

\* Every variable of a session holds a value of its type, and the release waits
\* for no more than is queued, whatever the calls, decisions and failures.
THEOREM TypeCorrect == Spec => []TypeOK
<1>1. Spec => []TypeInv
  BY InitTypeInv, TypeStep, PTL DEF Spec
<1>2. TypeInv => TypeOK
  BY DEF TypeInv
<1>3. QED
  BY <1>1, <1>2, PTL

-------------------------------------------------------------------------------
\* What a step of a call does besides: nothing, it fills a cache, or it saves.
Fills(o) ==
  /\ life[o] = "open"
  /\ vectorCache' = [vectorCache EXCEPT ![o] =
                       IF rootOf[o] = Default THEN vectors \intersect Active ELSE {}]
  /\ UNCHANGED <<queue, storeVars, mine, embedded, early>>

Saves(o, d) ==
  /\ life[o] = "open" /\ rootOf[o] = Default
  /\ d \notin saved
  /\ saved' = saved \union {d}
  /\ mine' = mine \union {d}
  /\ early' = IF release = "no" THEN early \union {d} ELSE early
  /\ queue' = [queue EXCEPT ![o] = Append(@, d)]
  /\ vectorCache' = [vectorCache EXCEPT ![o] = None]
  /\ UNCHANGED <<vectors, embedded>>

CallStep ==
  /\ OpensAtMostOne
  /\ UNCHANGED releaseVars
  /\ \/ UNCHANGED <<queue, storeVars, vectorCache, mine, embedded, early>>
     \/ \E o \in Opening : Fills(o)
     \/ \E o \in Opening, d \in Decision : Saves(o, d)

LEMMA AskSteps ==
  ASSUME TypeInv, NEW c \in Call, NEW wants \in {"save", "search", "everywhere"}, Ask(c, wants)
  PROVE  CallStep
<1> DEFINE next == [Idle EXCEPT !.wants = wants,
                      !.left = IF wants = "everywhere" THEN <<Elsewhere>> ELSE <<>>]
<1>1. OpenRoot(c, Default, next)
      /\ UNCHANGED <<queue, storeVars, vectorCache, releaseVars, mine, embedded, early>>
  BY DEF Ask
<1> HIDE DEF next
<1>2. OpensAtMostOne
  BY <1>1 DEF OpenRoot, OpensAtMostOne, Opens, Shared, Root
<1>3. QED
  BY <1>1, <1>2 DEF CallStep

LEMMA AnswerSteps ==
  ASSUME TypeInv, NEW c \in Call, Answer(c)
  PROVE  CallStep
<1>1. CASE Enter(c)
  <2>1. OpensAtMostOne
    BY <1>1 DEF Enter, OpensAtMostOne
  <2>2. QED
    BY <1>1, <2>1 DEF Enter, CallStep
<1>2. CASE Skip(c) \/ ChangesNothing(c)
  <2>1. OpensAtMostOne
    BY <1>2, ProceedOpens DEF Skip, ChangesNothing
  <2>2. QED
    BY <1>2, <2>1 DEF Skip, ChangesNothing, CallStep
<1>3. CASE Search(c)
  <2>1. Proceed(c) /\ call[c].on \in Opening /\ life[call[c].on] = "open"
        /\ UNCHANGED <<queue, storeVars, releaseVars, mine, embedded, early>>
    BY <1>3 DEF Search, TypeInv, CallsInv
  <2>2. vectorCache' = vectorCache \/ Fills(call[c].on)
    BY <1>3, <2>1 DEF Search, Fills
  <2>3. OpensAtMostOne
    BY <2>1, ProceedOpens
  <2>4. QED
    BY <2>1, <2>2, <2>3 DEF CallStep
<1>4. ASSUME NEW d \in Decision, Save(c, d)
      PROVE  CallStep
  <2>1. call[c].on \in Opening /\ rootOf[call[c].on] = Default
    BY <1>4 DEF Save, TypeInv, CallsInv
  <2>2. Saves(call[c].on, d) /\ Proceed(c) /\ UNCHANGED releaseVars
    BY <1>4, <2>1 DEF Save, Saves
  <2>3. OpensAtMostOne
    BY <2>2, ProceedOpens
  <2>4. QED
    BY <2>1, <2>2, <2>3 DEF CallStep
<1>5. QED
  BY <1>1, <1>2, <1>3, <1>4 DEF Answer

\* What every other step that is not the release's does to the registry.
LEMMA StepKinds ==
  ASSUME TypeInv, Next
  PROVE  \/ CallStep
         \/ \E o \in Opening : Built(o) \/ BuildFails(o) \/ Embed(o) \/ EmbedFails(o)
         \/ AwaitQueue \/ PassOver \/ Dispose \/ Released
         \/ \E d \in Decision : Foreign(d)
         \/ Release("closed") \/ Release("signalled") \/ Signal
BY AskSteps, AnswerSteps DEF Next, Advance

-------------------------------------------------------------------------------
\* Before the release, an opening that holds a runtime is the one cached for its
\* project; after it began, it is to be seen to or was opened since.
RegistryInv ==
  /\ release = "no" => \A o \in Opening : Held(o) => runtimes[rootOf[o]] = o
  /\ release # "no" => \A o \in Opening : Held(o) => o \in late \union releasing

LEMMA RegistryStep == TypeInv /\ RegistryInv /\ [Next]_vars => RegistryInv'
<1> SUFFICES ASSUME TypeInv, RegistryInv, [Next]_vars
             PROVE  RegistryInv'
  OBVIOUS
<1>1. CASE UNCHANGED <<life, rootOf, runtimes, late, release, releasing>>
  BY <1>1 DEF RegistryInv, Held
<1>2. CASE CallStep
  <2>1. release' = release /\ releasing' = releasing
    BY <1>2 DEF CallStep, releaseVars
  <2>2. CASE UNCHANGED <<registryVars, late>>
    BY <1>1, <2>1, <2>2 DEF registryVars
  <2>3. ASSUME NEW o \in Opening, NEW r \in Root, Opens(o, r)
        PROVE  RegistryInv'
    <3>1. /\ rootOf'[o] = r /\ runtimes'[r] = o
          /\ \A n \in Opening : n # o => life'[n] = life[n] /\ rootOf'[n] = rootOf[n]
          /\ \A q \in Root : q # r => runtimes'[q] = runtimes[q]
          /\ release # "no" => late' = late \union {o}
      BY <2>3 DEF Opens, TypeInv, TypeOK
    <3>2. ASSUME NEW n \in Opening, n # o, release = "no", Held(n)
          PROVE  rootOf[n] # r /\ rootOf[n] \in Root /\ runtimes[rootOf[n]] = n
      BY <2>3, <3>2, OpeningsAreNumbers DEF Opens, RegistryInv, Held, TypeInv, RuntimesInv
    <3>3. QED
      BY <2>1, <3>1, <3>2 DEF RegistryInv, Held
  <2>4. QED
    BY <1>2, <2>2, <2>3 DEF CallStep, OpensAtMostOne
<1>3. ASSUME NEW o \in Opening, Built(o) \/ BuildFails(o)
      PROVE  RegistryInv'
  <2>1. /\ life[o] = "building" /\ rootOf' = rootOf /\ late' = late
        /\ release' = release /\ releasing' = releasing
        /\ \A n \in Opening : n # o => life'[n] = life[n]
    BY <1>3 DEF Built, BuildFails, releaseVars, TypeInv, TypeOK
  <2>2. CASE Built(o)
    BY <2>1, <2>2 DEF Built, RegistryInv, Held
  <2>3. CASE BuildFails(o)
    <3>1. life'[o] = "failed" /\ runtimes' = [runtimes EXCEPT ![rootOf[o]] = None]
      BY <2>3 DEF BuildFails, TypeInv, TypeOK
    <3>2. ASSUME NEW n \in Opening, n # o, release = "no", Held(n)
          PROVE  runtimes'[rootOf[n]] = n
      <4>1. runtimes[rootOf[n]] = n /\ runtimes[rootOf[o]] = o /\ rootOf[n] \in Root
        BY <2>1, <3>2 DEF RegistryInv, Held, TypeInv, RuntimesInv
      <4>2. QED
        BY <3>1, <3>2, <4>1 DEF TypeInv, TypeOK
    <3>3. QED
      BY <2>1, <3>1, <3>2 DEF RegistryInv, Held
  <2>4. QED
    BY <1>3, <2>2, <2>3
<1>4. CASE Release("closed") \/ Release("signalled")
  <2>1. /\ release = "no" /\ release' # "no" /\ life' = life
        /\ releasing' = {runtimes[r] : r \in Root} \ {None}
    BY <1>4 DEF Release
  <2>2. ASSUME NEW o \in Opening, Held(o)
        PROVE  o \in releasing'
    BY <2>1, <2>2, OpeningsAreNumbers DEF RegistryInv, Held, TypeInv, RuntimesInv
  <2>3. QED
    BY <2>1, <2>2 DEF RegistryInv, Held
<1>5. CASE PassOver \/ Dispose
  <2>1. /\ release # "no" /\ release' = release /\ late' = late
        /\ releasing' = releasing \ {Oldest}
    BY <1>5 DEF PassOver, Dispose, Releasing
  <2>2. Oldest \in Opening
    BY <1>5, OldestExists DEF PassOver, Dispose, TypeInv, TypeOK
  <2>3. /\ life'[Oldest] \in {"failed", "disposed"}
        /\ \A n \in Opening : n # Oldest => life'[n] = life[n]
    BY <1>5, <2>2 DEF PassOver, Dispose, registryVars, TypeInv, TypeOK
  <2>4. QED
    BY <2>1, <2>3 DEF RegistryInv, Held
<1>6. CASE Released \/ Signal
  BY <1>6 DEF Released, Signal, Releasing, registryVars, RegistryInv, Held
<1>7. QED
  <2>1. CASE UNCHANGED vars
    BY <1>1, <2>1 DEF vars, registryVars, releaseVars
  <2>2. CASE AwaitQueue \/ \E d \in Decision : Foreign(d)
    BY <1>1, <2>2 DEF AwaitQueue, Foreign, registryVars, releaseVars
  <2>3. CASE \E o \in Opening : Embed(o) \/ EmbedFails(o)
    BY <1>1, <2>3 DEF Embed, EmbedFails, Dequeue, registryVars
  <2>4. QED
    BY <1>2, <1>3, <1>4, <1>5, <1>6, <2>1, <2>2, <2>3, StepKinds

LEMMA InitRegistryInv == Init => RegistryInv
BY DEF Init, RegistryInv, Held

\* A session holds one runtime of a project until its release, whatever calls
\* overlap and openings fail.
THEOREM OneRuntime == Spec => []OneRuntimePerProject
<1>1. Spec => [](TypeInv /\ RegistryInv)
  BY InitTypeInv, InitRegistryInv, TypeStep, RegistryStep, PTL DEF Spec
<1>2. TypeInv /\ RegistryInv => OneRuntimePerProject
  BY DEF RegistryInv, OneRuntimePerProject
<1>3. QED
  BY <1>1, <1>2, PTL

\* What a release leaves open was opened after it began.
THEOREM ReleaseLeavesNothing == Spec => []ReleaseIsComplete
<1>1. Spec => [](TypeInv /\ RegistryInv)
  BY InitTypeInv, InitRegistryInv, TypeStep, RegistryStep, PTL DEF Spec
<1>2. TypeInv /\ RegistryInv => ReleaseIsComplete
  BY DEF RegistryInv, ReleaseIsComplete, TypeInv, ReleaseInv
<1>3. QED
  BY <1>1, <1>2, PTL

-------------------------------------------------------------------------------
\* No decision saved before the release is in the queue of a runtime that was
\* disposed of, nor behind the items the release waits for.
EmbeddedInv ==
  /\ \A o \in Opening : life[o] = "disposed" => \A i \in DOMAIN queue[o] : queue[o][i] \notin early
  /\ awaited # None => \A i \in DOMAIN queue[Oldest] : i > awaited => queue[Oldest][i] \notin early

LEMMA EmbeddedStep == TypeInv /\ EmbeddedInv /\ [Next]_vars => EmbeddedInv'
<1> SUFFICES ASSUME TypeInv, EmbeddedInv, [Next]_vars
             PROVE  EmbeddedInv'
  OBVIOUS
<1>0. ASSUME UNCHANGED <<queue, early, releasing, awaited>>,
             \A o \in Opening : life'[o] = "disposed" => life[o] = "disposed"
      PROVE  EmbeddedInv'
  <2>1. Oldest' = Oldest
    BY <1>0, OldestKept
  <2>2. QED
    BY <1>0, <2>1 DEF EmbeddedInv
<1>1. CASE CallStep
  <2>1. /\ UNCHANGED <<releasing, awaited, release>>
        /\ \A o \in Opening : life'[o] = "disposed" => life[o] = "disposed"
    <3>1. \A o \in Opening : life'[o] = "disposed" => life[o] = "disposed"
      BY <1>1, RegistryKept DEF CallStep
    <3>2. QED
      BY <1>1, <3>1 DEF CallStep, releaseVars
  <2>2. CASE UNCHANGED <<queue, early>>
    BY <1>0, <2>1, <2>2
  <2>3. ASSUME NEW o \in Opening, NEW d \in Decision, Saves(o, d)
        PROVE  EmbeddedInv'
    <3>1. CASE release = "no"
      BY <2>1, <3>1 DEF EmbeddedInv, TypeInv, ReleaseInv
    <3>2. CASE release # "no"
      <4>1. early' = early /\ d \notin early /\ queue[o] \in Seq(Decision) /\ life[o] = "open"
        BY <2>3, <3>2 DEF Saves, TypeInv, TypeOK
      <4>2. /\ queue'[o] = Append(queue[o], d)
            /\ \A n \in Opening : n # o => queue'[n] = queue[n]
        BY <2>3 DEF Saves, TypeInv, TypeOK
      <4>3. \A i \in DOMAIN Append(queue[o], d) :
              \/ Append(queue[o], d)[i] = d
              \/ i \in DOMAIN queue[o] /\ Append(queue[o], d)[i] = queue[o][i]
        BY <4>1
      <4>4. Oldest' = Oldest
        BY <2>1, OldestKept
      <4>5. ASSUME awaited # None, NEW i \in DOMAIN queue'[Oldest], i > awaited
            PROVE  queue'[Oldest][i] \notin early
        <5>1. Oldest \in Opening
          BY <4>5, AwaitedIsThere
        <5>2. CASE Oldest = o
          BY <4>1, <4>2, <4>3, <4>5, <5>2 DEF EmbeddedInv
        <5>3. CASE Oldest # o
          BY <4>2, <4>5, <5>1, <5>3 DEF EmbeddedInv
        <5>4. QED
          BY <5>2, <5>3
      <4>6. ASSUME NEW n \in Opening, life'[n] = "disposed", NEW i \in DOMAIN queue'[n]
            PROVE  queue'[n][i] \notin early
        <5>1. life[n] = "disposed" /\ n # o
          BY <2>1, <4>1, <4>6
        <5>2. QED
          BY <4>2, <4>6, <5>1 DEF EmbeddedInv
      <4>7. QED
        BY <2>1, <4>1, <4>4, <4>5, <4>6 DEF EmbeddedInv
    <3>3. QED
      BY <3>1, <3>2
  <2>4. CASE \E o \in Opening : Fills(o)
    BY <2>2, <2>4 DEF Fills
  <2>5. QED
    BY <1>1, <2>2, <2>3, <2>4 DEF CallStep
<1>2. ASSUME NEW o \in Opening, Built(o) \/ BuildFails(o)
      PROVE  EmbeddedInv'
  <2>1. UNCHANGED <<queue, early, releasing, awaited>>
    BY <1>2 DEF Built, BuildFails, releaseVars
  <2>2. \A n \in Opening : life'[n] = "disposed" => life[n] = "disposed"
    BY <1>2 DEF Built, BuildFails, TypeInv, TypeOK
  <2>3. QED
    BY <1>0, <2>1, <2>2
<1>3. ASSUME NEW o \in Opening, Embed(o) \/ EmbedFails(o)
      PROVE  EmbeddedInv'
  <2>1. /\ queue[o] # <<>> /\ queue' = [queue EXCEPT ![o] = Tail(@)]
        /\ UNCHANGED <<life, release, releasing, early>>
        /\ awaited' = IF releasing # {} /\ Oldest = o /\ awaited \notin {None, 0}
                      THEN awaited - 1 ELSE awaited
    BY <1>3 DEF Embed, EmbedFails, Dequeue, registryVars
  <2>2. queue[o] \in Seq(Decision)
    BY DEF TypeInv, TypeOK
  <2>3. \A i \in DOMAIN Tail(queue[o]) :
          /\ Tail(queue[o])[i] = queue[o][i + 1]
          /\ i + 1 \in DOMAIN queue[o] /\ i \in Nat
    BY <2>1, <2>2
  <2>4. /\ queue'[o] = Tail(queue[o])
        /\ \A n \in Opening : n # o => queue'[n] = queue[n]
    BY <2>1 DEF TypeInv, TypeOK
  <2>5. Oldest' = Oldest
    BY <2>1, OldestKept
  <2>6. ASSUME NEW n \in Opening, life[n] = "disposed", NEW i \in DOMAIN queue'[n]
        PROVE  queue'[n][i] \notin early
    <3>1. CASE n = o
      BY <2>3, <2>4, <2>6, <3>1 DEF EmbeddedInv
    <3>2. CASE n # o
      BY <2>4, <2>6, <3>2 DEF EmbeddedInv
    <3>3. QED
      BY <3>1, <3>2
  <2>7. ASSUME awaited' # None, NEW i \in DOMAIN queue'[Oldest], i > awaited'
        PROVE  queue'[Oldest][i] \notin early
    <3>1. awaited # None
      BY <2>1, <2>7
    <3>2. Oldest \in Opening /\ releasing # {} /\ awaited \in Nat
      BY <3>1, AwaitedIsThere
    <3>3. CASE Oldest = o
      <4>1. i + 1 > awaited /\ i + 1 \in DOMAIN queue[Oldest]
        <5>1. i \in DOMAIN Tail(queue[o])
          BY <2>4, <2>7, <3>3
        <5>2. i + 1 \in DOMAIN queue[o] /\ i \in Nat
          BY <2>3, <5>1
        <5>3. awaited' = IF awaited = 0 THEN 0 ELSE awaited - 1
          BY <2>1, <3>1, <3>2, <3>3
        <5>4. i + 1 > awaited
          BY <2>7, <3>2, <5>2, <5>3
        <5>5. QED
          BY <3>3, <5>2, <5>4
      <4>2. QED
        BY <2>3, <2>4, <2>7, <3>1, <3>3, <4>1 DEF EmbeddedInv
    <3>4. CASE Oldest # o
      <4>1. awaited' = awaited /\ queue'[Oldest] = queue[Oldest]
        BY <2>1, <2>4, <3>2, <3>4
      <4>2. QED
        BY <2>7, <3>1, <4>1 DEF EmbeddedInv
    <3>5. QED
      BY <3>3, <3>4
  <2>8. QED
    BY <2>1, <2>5, <2>6, <2>7 DEF EmbeddedInv
<1>4. CASE AwaitQueue
  <2>1. /\ UNCHANGED <<life, queue, early, releasing>> /\ awaited' = Len(queue[Oldest])
        /\ releasing # {}
    BY <1>4 DEF AwaitQueue, registryVars
  <2>2. Oldest' = Oldest /\ queue[Oldest] \in Seq(Decision)
    BY <2>1, OldestKept, OldestExists DEF TypeInv, TypeOK
  <2>3. \A i \in DOMAIN queue[Oldest] : ~(i > Len(queue[Oldest]))
    BY <2>2
  <2>4. QED
    BY <2>1, <2>2, <2>3 DEF EmbeddedInv
<1>5. CASE PassOver
  BY <1>5 DEF PassOver, Releasing, registryVars, EmbeddedInv, TypeInv, ReleaseInv
<1>6. CASE Dispose
  <2>1. /\ awaited = 0 /\ awaited' = None /\ UNCHANGED <<queue, early>>
        /\ life' = [life EXCEPT ![Oldest] = "disposed"]
    BY <1>6 DEF Dispose
  <2>2. Oldest \in Opening /\ queue[Oldest] \in Seq(Decision)
    BY <2>1, AwaitedIsThere, NoneAssumption DEF TypeInv, TypeOK
  <2>3. \A i \in DOMAIN queue[Oldest] : i > 0
    BY <2>2
  <2>4. \A i \in DOMAIN queue[Oldest] : queue[Oldest][i] \notin early
    BY <2>1, <2>3, NoneAssumption DEF EmbeddedInv
  <2>5. \A n \in Opening : life'[n] = "disposed" => n = Oldest \/ life[n] = "disposed"
    BY <2>1 DEF TypeInv, TypeOK
  <2>6. QED
    BY <2>1, <2>4, <2>5 DEF EmbeddedInv
<1>7. CASE Release("closed") \/ Release("signalled")
  <2>1. awaited' = None /\ UNCHANGED <<life, queue, early>>
    BY <1>7 DEF Release, TypeInv, ReleaseInv
  <2>2. QED
    BY <2>1 DEF EmbeddedInv
<1>8. QED
  <2>1. CASE UNCHANGED vars
    BY <1>0, <2>1 DEF vars, registryVars, releaseVars
  <2>2. CASE Released \/ Signal \/ \E d \in Decision : Foreign(d)
    BY <1>0, <2>2 DEF Released, Signal, Foreign, registryVars, releaseVars
  <2>3. QED
    BY <1>1, <1>2, <1>3, <1>4, <1>5, <1>6, <1>7, <2>1, <2>2, StepKinds

LEMMA InitEmbeddedInv == Init => EmbeddedInv
BY DEF Init, EmbeddedInv

\* A shutdown drops no embedding of a decision saved before it.
THEOREM NoVectorDropped == Spec => []SavedBeforeReleaseIsEmbedded
<1>1. Spec => [](TypeInv /\ EmbeddedInv)
  BY InitTypeInv, InitEmbeddedInv, TypeStep, EmbeddedStep, PTL DEF Spec
<1>2. EmbeddedInv => SavedBeforeReleaseIsEmbedded
  BY DEF EmbeddedInv, SavedBeforeReleaseIsEmbedded
<1>3. QED
  BY <1>1, <1>2, PTL

-------------------------------------------------------------------------------
\* The only open runtime of the default project has all the session embedded in
\* its cache, and nothing it replaced.
Alone(o) ==
  /\ life[o] = "open" /\ rootOf[o] = Default
  /\ \A n \in Opening : n # o /\ life[n] \in {"open", "disposed"} => rootOf[n] # Default

Current(cache) ==
  \A d \in mine : /\ Replaces[d] \notin cache
                  /\ d \in embedded \intersect Active => d \in cache

CacheInv == \A o \in Opening : vectorCache[o] # None /\ Alone(o) => Current(vectorCache[o])

\* What stays true of a cache that a step leaves alone.
LEMMA CurrentKept ==
  ASSUME TypeInv, NEW cache, Current(cache), UNCHANGED <<mine, embedded>>, saved \subseteq saved'
  PROVE  Current(cache)'
<1>1. ASSUME NEW d \in mine, d \in Active'
      PROVE  d \in Active
  <2>1. d \in saved /\ \A e \in saved' : Replaces[e] # d
    BY <1>1 DEF Active, TypeInv, TypeOK
  <2>2. QED
    BY <2>1 DEF Active
<1>2. QED
  BY <1>1 DEF Current

\* A cache filled now is current.
LEMMA FilledIsCurrent ==
  ASSUME TypeInv
  PROVE  Current(vectors \intersect Active)
<1>1. mine \subseteq saved /\ embedded \subseteq vectors
  BY DEF TypeInv, TypeOK
<1>2. \A d \in mine : Replaces[d] \notin Active
  BY <1>1 DEF Active
<1>3. QED
  BY <1>1, <1>2 DEF Current

\* No step makes another runtime of the project go away.
LEMMA AloneBefore ==
  ASSUME TypeInv, NEW o \in Opening, life[o] = "open", Alone(o)',
         \A n \in Opening : life[n] \in {"open", "disposed"} =>
           life'[n] \in {"open", "disposed"} /\ rootOf'[n] = rootOf[n]
  PROVE  Alone(o)
BY DEF Alone

LEMMA CacheStep == TypeInv /\ CacheInv /\ [Next]_vars => CacheInv'
<1> SUFFICES ASSUME TypeInv, CacheInv, [Next]_vars, NEW o \in Opening, Alone(o)',
                    NEW cache, cache = vectorCache'[o], cache # None
             PROVE  Current(cache)'
  BY DEF CacheInv, Current
<1>0. TypeInv'
  BY TypeStep
<1>1. life'[o] = "open"
  BY DEF Alone
<1>2. ASSUME UNCHANGED <<mine, embedded>>, saved \subseteq saved', vectorCache'[o] = vectorCache[o],
             life[o] = "open",
             \A n \in Opening : life[n] \in {"open", "disposed"} =>
               life'[n] \in {"open", "disposed"} /\ rootOf'[n] = rootOf[n]
      PROVE  Current(cache)'
  <2>1. Alone(o)
    BY <1>2, AloneBefore
  <2>2. Current(cache)
    BY <1>2, <2>1 DEF CacheInv
  <2>3. QED
    BY <1>2, <2>2, CurrentKept
<1>3. CASE CallStep
  <2>1. \A n \in Opening : life[n] # "unborn" => life'[n] = life[n] /\ rootOf'[n] = rootOf[n]
    BY <1>3, RegistryKept DEF CallStep
  <2>2. life[o] = "open"
    <3>1. life[o] = "unborn" => life'[o] \in {"unborn", "building"}
      BY <1>3, RegistryKept DEF CallStep
    <3>2. QED
      BY <1>1, <2>1, <3>1
  <2>3. Alone(o)
    BY <2>1, <2>2, AloneBefore
  <2>4. CASE UNCHANGED <<saved, mine, embedded>> /\ vectorCache'[o] = vectorCache[o]
    BY <1>2, <2>1, <2>2, <2>4
  <2>5. CASE UNCHANGED <<queue, storeVars, vectorCache, mine, embedded, early>>
    BY <2>4, <2>5 DEF storeVars
  <2>6. ASSUME NEW n \in Opening, Fills(n)
        PROVE  Current(cache)'
    <3>1. UNCHANGED <<saved, mine, embedded>>
      BY <2>6 DEF Fills, storeVars
    <3>2. CASE n = o
      <4>1. cache = vectors \intersect Active
        BY <2>3, <2>6, <3>2 DEF Fills, Alone, TypeInv, TypeOK
      <4>2. Current(cache)
        BY <4>1, FilledIsCurrent
      <4>3. QED
        BY <3>1, <4>2, CurrentKept
    <3>3. CASE n # o
      BY <2>4, <2>6, <3>1, <3>3 DEF Fills, TypeInv, TypeOK
    <3>4. QED
      BY <3>2, <3>3
  <2>7. ASSUME NEW n \in Opening, NEW d \in Decision, Saves(n, d)
        PROVE  FALSE
    <3>1. n = o
      BY <2>3, <2>7 DEF Saves, Alone
    <3>2. QED
      BY <2>7, <3>1 DEF Saves, TypeInv, TypeOK
  <2>8. QED
    BY <1>3, <2>5, <2>6, <2>7 DEF CallStep
<1>4. ASSUME NEW n \in Opening, Built(n) \/ BuildFails(n)
      PROVE  Current(cache)'
  <2>1. /\ UNCHANGED <<saved, mine, embedded, vectorCache, rootOf>>
        /\ life[n] = "building"
        /\ \A m \in Opening : m # n => life'[m] = life[m]
    BY <1>4 DEF Built, BuildFails, storeVars, TypeInv, TypeOK
  <2>2. life[o] = "open"
    BY <1>1, <2>1 DEF TypeInv, RuntimesInv
  <2>3. QED
    BY <1>2, <2>1, <2>2
<1>5. ASSUME NEW n \in Opening, Embed(n)
      PROVE  FALSE
  <2>1. /\ life[n] = "open" /\ queue[n] # <<>> /\ UNCHANGED <<life, rootOf>>
        /\ vectorCache' = [vectorCache EXCEPT ![n] = None]
    BY <1>5 DEF Embed, Dequeue, registryVars
  <2>2. rootOf[n] = Default
    BY <2>1 DEF TypeInv, RuntimesInv
  <2>3. n = o
    BY <2>1, <2>2 DEF Alone
  <2>4. QED
    BY <2>1, <2>3 DEF TypeInv, TypeOK
<1>6. ASSUME NEW n \in Opening, EmbedFails(n)
      PROVE  Current(cache)'
  BY <1>1, <1>2, <1>6 DEF EmbedFails, Dequeue, registryVars
<1>7. ASSUME NEW d \in Decision, Foreign(d)
      PROVE  Current(cache)'
  <2>1. saved \subseteq saved'
    BY <1>7 DEF Foreign
  <2>2. QED
    BY <1>1, <1>2, <1>7, <2>1 DEF Foreign, registryVars
<1>8. CASE PassOver \/ Dispose
  <2>1. UNCHANGED <<saved, mine, embedded, vectorCache, rootOf>>
    BY <1>8 DEF PassOver, Dispose, storeVars, registryVars
  <2>2. Oldest \in Opening
    BY <1>8, OldestExists DEF PassOver, Dispose, TypeInv, TypeOK
  <2>3. \A n \in Opening : life'[n] = life[n] \/ life'[n] = "disposed"
    BY <1>8, <2>2 DEF PassOver, Dispose, registryVars, TypeInv, TypeOK
  <2>4. life[o] = "open"
    BY <1>1, <2>3
  <2>5. QED
    BY <1>2, <2>1, <2>3, <2>4
<1>9. CASE AwaitQueue \/ Released \/ Release("closed") \/ Release("signalled") \/ Signal
  <2>1. UNCHANGED <<life, rootOf, saved, mine, embedded, vectorCache>>
    BY <1>9 DEF AwaitQueue, Released, Release, Signal, storeVars, registryVars
  <2>2. QED
    BY <1>1, <1>2, <2>1
<1>10. QED
  <2>1. CASE UNCHANGED vars
    <3>1. UNCHANGED <<life, rootOf, saved, mine, embedded, vectorCache>>
      BY <2>1 DEF vars, storeVars, registryVars
    <3>2. QED
      BY <1>1, <1>2, <3>1
  <2>2. QED
    BY <1>3, <1>4, <1>5, <1>6, <1>7, <1>8, <1>9, <2>1, StepKinds

LEMMA InitCacheInv == Init => CacheInv
BY DEF Init, CacheInv

\* The vectors a session searches are never behind its own saves.
THEOREM CacheIsCurrent == Spec => []CacheFollowsSession
<1>1. Spec => [](TypeInv /\ CacheInv)
  BY InitTypeInv, InitCacheInv, TypeStep, CacheStep, PTL DEF Spec
<1>2. TypeInv /\ CacheInv => CacheFollowsSession
  BY DEF CacheInv, Alone, Current, CacheFollowsSession
<1>3. QED
  BY <1>1, <1>2, PTL

===============================================================================
