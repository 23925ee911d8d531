------------------------- MODULE DaemonElectionProofs -------------------------
(***************************************************************************)
(* One daemon is elected, for any number of daemons, attempts, crashes and *)
(* refused sockets, until a lock is created while another starter is       *)
(* between its last look at a dead lock and its unlink. Nothing is assumed *)
(* about when that happens: the theorems hold of every behaviour, up to    *)
(* that step.                                                              *)
(***************************************************************************)
EXTENDS DaemonElectionProps, TLAPS

\* The lock names whoever is past the election or about to be, and while a
\* starter is removing a dead holder's lock, that holder or nobody. A starter
\* about to look again has seen some holder.
LockInv ==
  /\ lock.owner = None => ~lock.written
  /\ \A d \in Daemon :
       /\ pc[d] \in Elected => lock = [owner |-> d, written |-> TRUE]
       /\ pc[d] = "write" => lock = [owner |-> d, written |-> FALSE]
       /\ pc[d] \in {"judge", "recheck"} => seen[d] # None
       /\ pc[d] = "unlink" => /\ lock.owner \in {seen[d], None}
                              /\ seen[d] # None
                              /\ ~Alive(seen[d])

\* The socket belongs to the daemon that bound it.
SocketInv == \A d \in Daemon : pc[d] \in {"bound", "serving"} => socket = d

\* All of it until an unlink has been overtaken.
IInv == TypeOK /\ (~overtaken => LockInv /\ SocketInv)

-------------------------------------------------------------------------------
\* Leaving keeps the types.
LEMMA LeaveTyped ==
  ASSUME TypeOK, NEW d \in Daemon, Leave(d)
  PROVE  /\ pc' = [pc EXCEPT ![d] = "down"]
         /\ pc' \in [Daemon -> Label]
         /\ seen' \in [Daemon -> Pid \union {None}]
         /\ tries' \in [Daemon -> Nat]
         /\ \A e \in Daemon : tries'[e] < Attempts \/ tries'[e] = 0
BY DEF Leave, Goto, TypeOK, Label

\* So does going on to the next attempt, which ends in one of two places.
LEMMA NextAttemptTyped ==
  ASSUME TypeOK, NEW d \in Daemon, NextAttempt(d)
  PROVE  /\ \/ pc' = [pc EXCEPT ![d] = "down"]
            \/ pc' = [pc EXCEPT ![d] = "acquire"]
         /\ seen' = [seen EXCEPT ![d] = None]
         /\ pc' \in [Daemon -> Label]
         /\ seen' \in [Daemon -> Pid \union {None}]
         /\ tries' \in [Daemon -> Nat]
         /\ \A e \in Daemon : tries'[e] < Attempts \/ tries'[e] = 0
BY LeaveTyped, AttemptsAssumption DEF NextAttempt, Leave, Goto, TypeOK, Label, Acquiring

\* The places a process can go to, and the locks it can leave, are typed.
LEMMA Typed ==
  /\ {"down", "acquire", "write", "inspect", "judge", "recheck", "unlink",
      "clearSocket", "listen", "bound", "serving", "release", "unlinkOwn"}
       \subseteq Label
  /\ NoLock \in Lock
  /\ \A d \in Pid : \A w \in BOOLEAN : [owner |-> d, written |-> w] \in Lock
  /\ \A l \in Lock : [l EXCEPT !.written = TRUE] \in Lock
  /\ \A l \in Lock : l.owner \in Pid \union {None}
  /\ Daemon \subseteq Pid
BY DEF Label, Acquiring, Elected, Lock, NoLock, Pid

\* TypeOK is preserved by every step.
LEMMA TypeStep == TypeOK /\ [Next]_vars => TypeOK'
<1> SUFFICES ASSUME TypeOK, [Next]_vars
             PROVE  TypeOK'
  OBVIOUS
<1>1. CASE UNCHANGED vars
  BY <1>1 DEF vars, TypeOK
<1>2. ASSUME NEW d \in Daemon, CreateLock(d) \/ LockExists(d)
      PROVE  TypeOK'
  BY <1>2, Typed DEF CreateLock, LockExists, TypeOK, Goto
<1>3. ASSUME NEW d \in Daemon, WriteLock(d)
      PROVE  TypeOK'
  BY <1>3, Typed DEF WriteLock, TypeOK, Goto
<1>4. ASSUME NEW d \in Daemon, Inspect(d)
      PROVE  TypeOK'
  <2>1. CASE Leave(d) /\ UNCHANGED <<lock, socket, overtaken>>
    BY <2>1, LeaveTyped DEF TypeOK
  <2>2. CASE /\ seen' = [seen EXCEPT ![d] = Holder]
             /\ Goto(d, "judge")
             /\ UNCHANGED <<tries, lock, socket, overtaken>>
    BY <2>2, Typed DEF TypeOK, Goto, Holder
  <2>3. QED
    BY <1>4, <2>1, <2>2 DEF Inspect
<1>5. ASSUME NEW d \in Daemon, Judge(d) \/ Recheck(d) \/ Release(d)
      PROVE  TypeOK'
  <2>1. CASE Leave(d) /\ UNCHANGED <<lock, socket, overtaken>>
    BY <2>1, LeaveTyped DEF TypeOK
  <2>2. CASE NextAttempt(d) /\ UNCHANGED <<lock, socket, overtaken>>
    BY <2>2, NextAttemptTyped DEF TypeOK
  <2>3. CASE /\ Goto(d, "recheck") \/ Goto(d, "unlink") \/ Goto(d, "unlinkOwn")
             /\ UNCHANGED <<seen, tries, lock, socket, overtaken>>
    BY <2>3, Typed DEF TypeOK, Goto
  <2>4. QED
    BY <1>5, <2>1, <2>2, <2>3 DEF Judge, Recheck, Release
<1>6. ASSUME NEW d \in Daemon, UnlinkDead(d)
      PROVE  TypeOK'
  BY <1>6, NextAttemptTyped, Typed DEF UnlinkDead, TypeOK
<1>7. ASSUME NEW d \in Daemon,
             \/ ClearSocket(d) \/ Listen(d) \/ ListenFails(d)
             \/ HandleSignals(d) \/ Stop(d) \/ Start(d)
      PROVE  TypeOK'
  BY <1>7, Typed
     DEF ClearSocket, Listen, ListenFails, HandleSignals, Stop, Start, TypeOK, Goto
<1>8. ASSUME NEW d \in Daemon, UnlinkOwn(d) \/ SignalTooEarly(d) \/ Crash(d)
      PROVE  TypeOK'
  BY <1>8, LeaveTyped, Typed DEF UnlinkOwn, SignalTooEarly, Crash, TypeOK
<1>9. QED
  BY <1>1, <1>2, <1>3, <1>4, <1>5, <1>6, <1>7, <1>8 DEF Next, Advance

\* The invariant holds at the start, when every process is down.
LEMMA InitIInv == Init => IInv
<1> SUFFICES ASSUME Init
             PROVE  IInv
  OBVIOUS
<1>1. TypeOK
  BY Typed, AttemptsAssumption DEF Init, TypeOK, Pid
<1>2. \A d \in Daemon : 
        pc[d] \notin Elected \union {"write", "judge", "recheck", "unlink"}
  BY DEF Init, Elected
<1>3. lock.owner = None => ~lock.written
  BY PidAssumption DEF Init, NoLock
<1>4. QED
  BY <1>1, <1>2, <1>3 DEF IInv, LockInv, SocketInv, Elected

\* What is overtaken stays so.
LEMMA OvertakenStays == [Next]_vars /\ overtaken => overtaken'
BY DEF Next, Advance, vars, Start, CreateLock, LockExists, WriteLock, Inspect,
   Judge, Recheck, UnlinkDead, ClearSocket, Listen, ListenFails, HandleSignals,
   Stop, Release, UnlinkOwn, SignalTooEarly, Crash

\* Every step preserves the invariant, unless it creates a lock within another
\* starter's look and unlink.
LEMMA NextIInv == IInv /\ [Next]_vars => IInv'
<1> SUFFICES ASSUME TypeOK, LockInv, SocketInv, ~overtaken', [Next]_vars
             PROVE  (LockInv /\ SocketInv)'
  BY TypeStep, OvertakenStays DEF IInv
<1> USE PidAssumption
    DEF TypeOK, LockInv, SocketInv, Goto, Alive, Elected, Pid
<1>1. CASE UNCHANGED vars
  BY <1>1 DEF vars
<1>2. ASSUME NEW d \in Daemon, Start(d)
      PROVE  (LockInv /\ SocketInv)'
  BY <1>2 DEF Start
<1>3. ASSUME NEW d \in Daemon, CreateLock(d)
      PROVE  (LockInv /\ SocketInv)'
  BY <1>3 DEF CreateLock, NoLock
<1>4. ASSUME NEW d \in Daemon, LockExists(d)
      PROVE  (LockInv /\ SocketInv)'
  BY <1>4 DEF LockExists
<1>5. ASSUME NEW d \in Daemon, WriteLock(d)
      PROVE  (LockInv /\ SocketInv)'
  <2>1. lock' = [owner |-> d, written |-> TRUE]
    <3>1. /\ lock = [owner |-> d, written |-> FALSE]
          /\ lock.owner = d => lock' = [lock EXCEPT !.written = TRUE]
      BY <1>5 DEF WriteLock
    <3>2. lock.owner = d
      BY ONLY <3>1
    <3>3. QED
      BY ONLY <3>1, <3>2
  <2>2. \A e \in Daemon : e # d => pc[e] \notin Elected \union {"write", "unlink"}
    BY <1>5 DEF WriteLock
  <2>3. QED
    BY <1>5, <2>1, <2>2 DEF WriteLock
<1>6. ASSUME NEW d \in Daemon, Inspect(d)
      PROVE  (LockInv /\ SocketInv)'
  BY <1>6 DEF Inspect, Leave
<1>7. ASSUME NEW d \in Daemon, Judge(d)
      PROVE  (LockInv /\ SocketInv)'
  BY <1>7 DEF Judge, Leave
<1>8. ASSUME NEW d \in Daemon, Recheck(d)
      PROVE  (LockInv /\ SocketInv)'
  <2>2. CASE Holder = seen[d] /\ ~Alive(Holder) /\ Goto(d, "unlink")
             /\ UNCHANGED <<seen, lock, socket>>
    <3>1. lock.owner = seen[d]
      BY <2>2, <1>8 DEF Recheck, Holder
    <3>2. QED
      BY <2>2, <3>1, <1>8 DEF Recheck
  <2>3. CASE NextAttempt(d) /\ UNCHANGED <<lock, socket>>
    BY <2>3, <1>8, NextAttemptTyped DEF Recheck
  <2>4. QED
    BY <1>8, <2>2, <2>3 DEF Recheck
<1>9. ASSUME NEW d \in Daemon, UnlinkDead(d)
      PROVE  (LockInv /\ SocketInv)'
  BY <1>9, NextAttemptTyped DEF UnlinkDead, NoLock
<1>10. ASSUME NEW d \in Daemon, ClearSocket(d)
       PROVE  (LockInv /\ SocketInv)'
  BY <1>10 DEF ClearSocket
<1>11. ASSUME NEW d \in Daemon, Listen(d)
       PROVE  (LockInv /\ SocketInv)'
  BY <1>11 DEF Listen
<1>12. ASSUME NEW d \in Daemon, ListenFails(d) \/ HandleSignals(d)
       PROVE  (LockInv /\ SocketInv)'
  BY <1>12 DEF ListenFails, HandleSignals
<1>13. ASSUME NEW d \in Daemon, Stop(d)
       PROVE  (LockInv /\ SocketInv)'
  BY <1>13 DEF Stop
<1>14. ASSUME NEW d \in Daemon, Release(d)
       PROVE  (LockInv /\ SocketInv)'
  BY <1>14 DEF Release, Leave
<1>15. ASSUME NEW d \in Daemon, UnlinkOwn(d)
       PROVE  (LockInv /\ SocketInv)'
  BY <1>15 DEF UnlinkOwn, Leave, NoLock
<1>16. ASSUME NEW d \in Daemon, SignalTooEarly(d) \/ Crash(d)
       PROVE  (LockInv /\ SocketInv)'
  BY <1>16 DEF SignalTooEarly, Crash, Leave
<1>17. QED
  BY <1>1, <1>2, <1>3, <1>4, <1>5, <1>6, <1>7, <1>8, <1>9, <1>10, <1>11,
     <1>12, <1>13, <1>14, <1>15, <1>16 DEF Next, Advance

-------------------------------------------------------------------------------
\* Types are correct under every fault, whatever is overtaken.
THEOREM TypeCorrect == Spec => []TypeOK
<1>1. Init => TypeOK
  BY InitIInv DEF IInv
<1>2. QED
  BY <1>1, TypeStep, PTL DEF Spec

\* The inductive invariant is one.
LEMMA InductiveInvariant == Spec => []IInv
BY InitIInv, NextIInv, PTL DEF Spec

\* Until an unlink is overtaken at most one daemon is past the election, since
\* the lock names it.
THEOREM OneDaemon == Spec => []OneElected
<1>1. IInv => OneElected
  <2> SUFFICES ASSUME IInv, ~overtaken, NEW d \in Daemon, NEW e \in Daemon,
                      {pc[d], pc[e]} \subseteq Elected
               PROVE  d = e
    BY DEF OneElected, OneDaemonOnly
  <2>1. lock.owner = d /\ lock.owner = e
    BY DEF IInv, LockInv
  <2>2. QED
    BY <2>1
<1>2. QED
  BY <1>1, InductiveInvariant, PTL

\* Until then the serving daemon keeps its socket and its lock.
THEOREM TheDaemonIsFound == Spec => []ServingIsFound
<1>1. IInv => ServingIsFound
  BY DEF IInv, LockInv, SocketInv, ServingIsFound, Elected
<1>2. QED
  BY <1>1, InductiveInvariant, PTL

\* Until then a running process's lock is unlinked by that process alone.
THEOREM LockSurvives == Spec => FreshLockSurvives
<1>1. ASSUME IInv, ~overtaken, [Next]_vars, NEW d \in Daemon,
             lock.owner = d, Alive(d), lock'.owner # d
      PROVE  UnlinkOwn(d)
  <2>1. ~UNCHANGED lock
    BY <1>1
  <2>2. PICK e \in Daemon :
          CreateLock(e) \/ WriteLock(e) \/ UnlinkDead(e) \/ UnlinkOwn(e)
    BY <1>1, <2>1 DEF Next, Advance, vars, Start, LockExists, Inspect, Judge,
       Recheck, ClearSocket, Listen, ListenFails, HandleSignals, Stop, Release,
       SignalTooEarly, Crash
  <2>3. CASE CreateLock(e) \/ WriteLock(e)
    BY <1>1, <2>3, PidAssumption DEF CreateLock, WriteLock, NoLock, IInv, TypeOK, Lock
  <2>4. CASE UnlinkDead(e)
    BY <1>1, <2>4, PidAssumption DEF UnlinkDead, IInv, LockInv
  <2>5. CASE UnlinkOwn(e)
    <3>1. lock.owner = e
      BY <1>1, <2>5 DEF UnlinkOwn, IInv, LockInv, Elected
    <3>2. QED
      BY <1>1, <2>5, <3>1
  <2>6. QED
    BY <2>2, <2>3, <2>4, <2>5
<1>2. IInv /\ [Next]_vars =>
        [~overtaken =>
           \A d \in Daemon :
             lock.owner = d /\ Alive(d) /\ lock'.owner # d => UnlinkOwn(d)]_vars
  BY <1>1
<1>3. QED
  BY <1>2, InductiveInvariant, PTL DEF Spec, FreshLockSurvives

===============================================================================
