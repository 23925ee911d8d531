-------------------------- MODULE DecisionSyncProofs --------------------------
(***************************************************************************)
(* The safety of the decision store, for any set of decisions, of files,   *)
(* of processes and of faults; and, in the last part, what holds besides   *)
(* while calls do not overlap.                                             *)
(***************************************************************************)
EXTENDS DecisionSyncHistory, DecisionRefinement, TLAPS

\* What a pass remembers never runs ahead of the store: rows are never
\* deleted, so every row it saw is still there when it commits.
PassInv ==
  \A p \in Proc :
    /\ pass[p].stored \subseteq stored
    /\ pass[p].present \subseteq pass[p].stored
    /\ pass[p].unread \union pass[p].parsed \subseteq pass[p].listed
    /\ pc[p] \in Inserting => saving[p] \in Decision

IInv == TypeOK /\ PassInv

-------------------------------------------------------------------------------
(***************************************************************************)
(* Links and statuses are well formed.                                     *)
(***************************************************************************)

\* Derived links are edges between known decisions.
LEMMA LinksTyped ==
  ASSUME NEW f \in [Decision -> File], NEW R \in SUBSET Decision,
         NEW K \in SUBSET Decision
  PROVE  /\ DeriveLinks(f, R, K) \subseteq Edge
         /\ \A e \in DeriveLinks(f, R, K) : e.from \in K /\ e.to \in K
<1>1. ASSUME NEW d \in R
      PROVE  EdgesOf(d, f[d]) \subseteq Edge
  <2>1. d \in Decision /\ f[d] \in File
    OBVIOUS
  <2>2. /\ f[d].dependsOn \subseteq Decision
        /\ f[d].conflictsWith \subseteq Decision
        /\ {f[d].replaces} \ {None} \subseteq Decision
        /\ {f[d].archives} \ {None} \subseteq Decision
    BY <2>1 DEF File
  <2>3. QED
    BY <2>1, <2>2 DEF EdgesOf, Edge, Kind
<1>2. Declared(f, R) \subseteq Edge
  BY <1>1 DEF Declared
<1>3. QED
  BY <1>2 DEF DeriveLinks

\* Any set of edges gives every decision a status.
LEMMA StatusesTyped ==
  ASSUME NEW E
  PROVE  Statuses(E) \in [Decision -> Status]
BY DEF Statuses, StatusOf, Status

\* The derived sets of a pass are sets of decisions.
LEMMA PassSets ==
  ASSUME NEW s \in Pass
  PROVE  /\ Arriving(s) \subseteq Decision
         /\ Absent(s) \subseteq Decision
         /\ Restored(s) \subseteq s.stored
         /\ Imported(s) \subseteq s.parsed
         /\ Known(s) \subseteq Decision
         /\ s.parsed \subseteq Known(s)
         /\ s.stored \subseteq Decision
         /\ s.present \subseteq Decision
         /\ s.listed \subseteq Decision
         /\ s.unread \subseteq Decision
         /\ s.parsed \subseteq Decision
         /\ s.full \in BOOLEAN
BY DEF Pass, Arriving, Absent, Restored, Imported, Known

\* A pass that has read nothing yet is a pass.
LEMMA FreshPassTyped ==
  ASSUME NEW full \in BOOLEAN
  PROVE  /\ FreshPass(full) \in Pass
         /\ FreshPass(full).stored = {}
         /\ FreshPass(full).present = {}
         /\ FreshPass(full).unread = {}
         /\ FreshPass(full).parsed = {}
BY DEF FreshPass, Pass

-------------------------------------------------------------------------------
(***************************************************************************)
(* The steps, by what they may change.                                     *)
(***************************************************************************)

\* Only a save's INSERT INTO nodes and a reconcile transaction touch the rows.
LEMMA RowSteps ==
  [Next]_vars =>
    \/ UNCHANGED <<file, rowVars>>
    \/ \E p \in Proc : InsertNode(p) \/ Commit(p)
<1>1. Surroundings => UNCHANGED <<file, rowVars>>
  BY DEF Surroundings, Arrive, Depart, Damage, Mend, storeVars
<1>2. ASSUME NEW p \in Proc, Step(p), ~InsertNode(p), ~Commit(p)
      PROVE  UNCHANGED <<file, rowVars>>
  BY <1>2 DEF Step, Advance, Ensure, Resync, ListFiles, WriteFile, InsertAnchors,
     InsertIndex, InsertLocal, Reconcile, SaveFails, ListPresence, ReadFile,
     CommitFails, Busy, Exit, Crash, diskVars, storeVars
<1>3. UNCHANGED vars => UNCHANGED <<file, rowVars>>
  BY DEF vars, diskVars, storeVars
<1>4. QED
  BY <1>1, <1>2, <1>3 DEF Next

-------------------------------------------------------------------------------
(***************************************************************************)
(* Type correctness.                                                       *)
(***************************************************************************)

\* The invariant holds of the empty store.
LEMMA InitIInv == Init => IInv
<1> SUFFICES ASSUME Init PROVE IInv
  OBVIOUS
<1>1. Statuses({}) \in [Decision -> Status]
  BY StatusesTyped
<1>2. FreshPass(FALSE) \in Pass /\ FreshPass(FALSE).stored = {}
      /\ FreshPass(FALSE).present = {} /\ FreshPass(FALSE).unread = {}
      /\ FreshPass(FALSE).parsed = {}
  BY FreshPassTyped
<1>3. TypeOK
  BY <1>1, <1>2, ContentsAssumption DEF Init, TypeOK, Label, Inserting
<1>4. PassInv
  BY <1>2 DEF Init, PassInv, Inserting
<1>5. QED
  BY <1>3, <1>4 DEF IInv

\* The surroundings move files only.
LEMMA SurroundingsIInv == IInv /\ Surroundings => IInv'
<1> SUFFICES ASSUME IInv, NEW d \in Decision,
                    Arrive(d) \/ Depart(d) \/ Damage(d) \/ Mend(d)
             PROVE  IInv'
  BY DEF Surroundings
<1>1. UNCHANGED <<file, storeVars, procVars>>
  BY DEF Arrive, Depart, Damage, Mend
<1>2. /\ disk' \in [Decision -> {"absent", "readable", "malformed"}]
      /\ authored' \subseteq Decision
  BY DEF IInv, TypeOK, Arrive, Depart, Damage, Mend
<1>3. QED
  BY <1>1, <1>2 DEF IInv, TypeOK, PassInv, storeVars, rowVars, procVars

\* Ending a call clears what the process remembered.
LEMMA ReturnIInv ==
  ASSUME IInv, NEW p \in Proc, NEW report \in BOOLEAN, Return(p, report),
         UNCHANGED <<diskVars, storeVars>>
  PROVE  IInv'
<1>1. FreshPass(FALSE) \in Pass /\ FreshPass(FALSE).stored = {}
      /\ FreshPass(FALSE).present = {} /\ FreshPass(FALSE).unread = {}
      /\ FreshPass(FALSE).parsed = {}
  BY FreshPassTyped
<1>2. TypeOK'
  BY <1>1 DEF IInv, TypeOK, Return, Goto, diskVars, storeVars, rowVars, Label
<1>3. PassInv'
  BY <1>1 DEF IInv, TypeOK, PassInv, Return, Goto, diskVars, storeVars, rowVars,
     Inserting
<1>4. QED
  BY <1>2, <1>3 DEF IInv

\* A pass that starts has listed the directory and nothing more.
LEMMA ListFilesIInv ==
  ASSUME IInv, NEW p \in Proc, NEW full \in BOOLEAN, ListFiles(p, full)
  PROVE  IInv'
<1> DEFINE s == [FreshPass(full) EXCEPT !.listed = OnDisk]
<1>1. s \in Pass /\ s.stored = {} /\ s.present = {} /\ s.unread = {} /\ s.parsed = {}
  BY DEF FreshPass, Pass, OnDisk
<1>2. pass' = [pass EXCEPT ![p] = s]
  BY DEF ListFiles
<1> HIDE DEF s
<1>3. TypeOK'
  BY <1>1, <1>2 DEF IInv, TypeOK, ListFiles, Goto, diskVars, storeVars, rowVars, Label
<1>4. PassInv'
  BY <1>1, <1>2 DEF IInv, TypeOK, PassInv, ListFiles, Goto, diskVars, storeVars,
     rowVars, Inserting
<1>5. QED
  BY <1>3, <1>4 DEF IInv

\* The statements of a save.
LEMMA SaveIInv ==
  ASSUME IInv, NEW p \in Proc,
         \/ \E d \in Decision : WriteFile(p, d)
         \/ InsertNode(p) \/ InsertAnchors(p) \/ InsertIndex(p) \/ InsertLocal(p)
  PROVE  IInv'
<1>1. ASSUME NEW d \in Decision, WriteFile(p, d)
      PROVE  IInv'
  <2>1. TypeOK'
    BY <1>1 DEF IInv, TypeOK, WriteFile, Goto, storeVars, rowVars, Label, Inserting
  <2>2. PassInv'
    BY <1>1 DEF IInv, TypeOK, PassInv, WriteFile, Goto, storeVars, rowVars, Inserting
  <2>3. QED
    BY <2>1, <2>2 DEF IInv
<1>2. CASE InsertNode(p)
  <2>1. saving[p] \in Decision
    BY <1>2 DEF IInv, PassInv, InsertNode, Inserting
  <2>2. TypeOK'
    BY <1>2, <2>1 DEF IInv, TypeOK, InsertNode, Goto, diskVars, Label, Inserting, Status
  <2>3. PassInv'
    BY <1>2, <2>1 DEF IInv, TypeOK, PassInv, InsertNode, Goto, diskVars, Inserting
  <2>4. QED
    BY <2>2, <2>3 DEF IInv
<1>3. CASE InsertAnchors(p)
  BY <1>3 DEF IInv, TypeOK, PassInv, InsertAnchors, Goto, diskVars, storeVars,
     rowVars, Label, Inserting
<1>4. CASE InsertIndex(p)
  BY <1>4 DEF IInv, TypeOK, PassInv, InsertIndex, Goto, diskVars, rowVars, Label,
     Inserting
<1>5. CASE InsertLocal(p)
  BY <1>5 DEF IInv, TypeOK, PassInv, InsertLocal, Goto, diskVars, storeVars,
     rowVars, Label, Inserting
<1>6. QED
  BY <1>1, <1>2, <1>3, <1>4, <1>5

\* The reads of a pass.
LEMMA ReadIInv ==
  ASSUME IInv, NEW p \in Proc, ListPresence(p) \/ \E d \in Decision : ReadFile(p, d)
  PROVE  IInv'
<1>0. pass[p] \in Pass
  BY DEF IInv, TypeOK
<1>1. CASE ListPresence(p)
  <2> DEFINE s == [pass[p] EXCEPT !.stored = stored, !.present = present,
                                  !.unread = pass[p].listed]
  <2>1. /\ s \in Pass /\ s.stored = stored /\ s.present = present
        /\ s.parsed = pass[p].parsed /\ s.listed = pass[p].listed
        /\ s.unread = pass[p].listed
    BY <1>0 DEF Pass, IInv, TypeOK
  <2>2. /\ UNCHANGED <<diskVars, storeVars>>
        /\ \/ pass' = [pass EXCEPT ![p] = s] /\ Goto(p, "read") /\ UNCHANGED <<cached, saving>>
           \/ Return(p, TRUE)
    BY <1>1 DEF ListPresence
  <2> HIDE DEF s
  <2>3. CASE pass' = [pass EXCEPT ![p] = s] /\ Goto(p, "read") /\ UNCHANGED <<cached, saving>>
    <3>1. TypeOK'
      BY <2>1, <2>2, <2>3 DEF IInv, TypeOK, Goto, diskVars, storeVars, rowVars, Label
    <3>2. PassInv'
      BY <2>1, <2>2, <2>3 DEF IInv, TypeOK, PassInv, Goto, diskVars, storeVars,
         rowVars, Inserting
    <3>3. QED
      BY <3>1, <3>2 DEF IInv
  <2>4. CASE Return(p, TRUE)
    BY <2>2, <2>4, ReturnIInv
  <2>5. QED
    BY <2>2, <2>3, <2>4
<1>2. ASSUME NEW d \in Decision, ReadFile(p, d)
      PROVE  IInv'
  <2> DEFINE s == [pass[p] EXCEPT !.unread = @ \ {d},
                                  !.parsed = @ \union ({d} \intersect Readable)]
  <2>1. d \in pass[p].listed
    BY <1>2 DEF ReadFile, IInv, PassInv
  <2>2. /\ s \in Pass /\ s.stored = pass[p].stored /\ s.present = pass[p].present
        /\ s.listed = pass[p].listed /\ s.unread \subseteq pass[p].unread
        /\ s.parsed \subseteq pass[p].parsed \union {d}
    BY <1>0, <1>2 DEF Pass, Readable, ReadFile
  <2>3. /\ pass' = [pass EXCEPT ![p] = s]
        /\ UNCHANGED <<diskVars, storeVars, pc, cached, saving>>
    BY <1>2 DEF ReadFile
  <2> HIDE DEF s
  <2>4. TypeOK'
    BY <2>2, <2>3 DEF IInv, TypeOK, diskVars, storeVars, rowVars
  <2>5. PassInv'
    BY <2>1, <2>2, <2>3 DEF IInv, TypeOK, PassInv, diskVars, storeVars, rowVars,
       Inserting
  <2>6. QED
    BY <2>4, <2>5 DEF IInv
<1>3. QED
  BY <1>1, <1>2

\* The reconcile transaction. It keeps all rows, so what other passes
\* remember is still there.
LEMMA CommitIInv ==
  ASSUME IInv, NEW p \in Proc, Commit(p)
  PROVE  IInv'
<1> DEFINE s == pass[p]
<1>0. s \in Pass
  BY DEF IInv, TypeOK
<1>1. /\ Imported(s) \subseteq Decision
      /\ Restored(s) \subseteq stored
      /\ Links(s) \subseteq Edge
      /\ Statuses(Links(s)) \in [Decision -> Status]
  <2>1. s.stored \subseteq stored /\ file \in [Decision -> File]
    BY DEF IInv, PassInv, TypeOK
  <2>2. Links(s) \subseteq Edge
    BY <1>0, <2>1, PassSets, LinksTyped DEF Links
  <2>3. QED
    BY <1>0, <2>1, <2>2, PassSets, StatusesTyped
<1>2. IndexRows(s) \in [Decision -> Nat]
  BY DEF IndexRows, IInv, TypeOK
<1>3. /\ stored' = stored \union Imported(s)
      /\ indexed' = IndexRows(s)
      /\ present' = ((present \union Imported(s)) \ Absent(s)) \union Restored(s)
      /\ edges' = Links(s)
      /\ status' = Statuses(Links(s))
      /\ Return(p, TRUE)
      /\ UNCHANGED diskVars
  BY DEF Commit
<1>4. FreshPass(FALSE) \in Pass /\ FreshPass(FALSE).stored = {}
      /\ FreshPass(FALSE).present = {} /\ FreshPass(FALSE).unread = {}
      /\ FreshPass(FALSE).parsed = {}
  BY FreshPassTyped
<1> HIDE DEF s
<1>5. TypeOK'
  BY <1>1, <1>2, <1>3, <1>4 DEF IInv, TypeOK, Return, Goto, diskVars, Label
<1>6. PassInv'
  BY <1>1, <1>3, <1>4 DEF IInv, TypeOK, PassInv, Return, Goto, diskVars, Inserting
<1>7. QED
  BY <1>5, <1>6 DEF IInv

\* Every step of the surroundings and of a process preserves the invariant.
LEMMA NextIInv == IInv /\ [Next]_vars => IInv'
<1> SUFFICES ASSUME IInv, [Next]_vars PROVE IInv'
  OBVIOUS
<1>1. CASE Surroundings
  BY <1>1, SurroundingsIInv
<1>2. ASSUME NEW p \in Proc, Step(p)
      PROVE  IInv'
  <2>0. cached[p] \in BOOLEAN
    BY DEF IInv, TypeOK
  <2>1. CASE Ensure(p) \/ Resync(p) \/ Reconcile(p)
    BY <2>1, ListFilesIInv DEF Ensure, Resync, Reconcile
  <2>2. CASE \/ \E d \in Decision : WriteFile(p, d)
             \/ InsertNode(p) \/ InsertAnchors(p) \/ InsertIndex(p) \/ InsertLocal(p)
    BY <2>2, SaveIInv
  <2>3. CASE ListPresence(p) \/ \E d \in Decision : ReadFile(p, d)
    BY <2>3, ReadIInv
  <2>4. CASE Commit(p)
    BY <2>4, CommitIInv
  <2>5. CASE SaveFails(p) \/ CommitFails(p) \/ Busy(p) \/ Exit(p) \/ Crash(p)
    BY <2>0, <2>5, ReturnIInv DEF SaveFails, CommitFails, Busy, Exit, Crash
  <2>6. QED
    BY <1>2, <2>1, <2>2, <2>3, <2>4, <2>5 DEF Step, Advance
<1>3. CASE UNCHANGED vars
  BY <1>3 DEF IInv, TypeOK, PassInv, vars, diskVars, storeVars, rowVars, procVars
<1>4. QED
  BY <1>1, <1>2, <1>3 DEF Next

\* So it holds throughout.
LEMMA InductiveInvariant == Spec => []IInv
<1>1. QED
  BY InitIInv, NextIInv, PTL DEF Spec

\* Every variable of the store keeps its type, and only stored decisions are
\* ever present, whatever the faults.
THEOREM TypeCorrect == Spec => []TypeOK
<1>1. IInv => TypeOK
  BY DEF IInv
<1>2. QED
  BY <1>1, InductiveInvariant, PTL

-------------------------------------------------------------------------------
(***************************************************************************)
(* Foreign keys, statuses, memory.                                         *)
(***************************************************************************)

\* A file that was parsed is of a decision stored before the pass or imported
\* by it: what is known to a pass has a row once it has committed.
LEMMA KnownGetsARow ==
  ASSUME IInv, NEW p \in Proc
  PROVE  Known(pass[p]) \subseteq stored \union Imported(pass[p])
BY DEF IInv, PassInv, Known, Imported, Arriving

\* No reconcile ever dies on a foreign key, for any number of processes.
THEOREM LinksAlwaysResolve == Spec => []LinksResolve
<1>1. IInv => LinksResolve
  <2> SUFFICES ASSUME IInv, NEW p \in Proc, NEW e \in Links(pass[p])
               PROVE  {e.from, e.to} \subseteq stored \union Imported(pass[p])
    BY DEF LinksResolve
  <2>1. pass[p] \in Pass /\ file \in [Decision -> File]
    BY DEF IInv, TypeOK
  <2>2. e.from \in Known(pass[p]) /\ e.to \in Known(pass[p])
    BY <2>1, PassSets, LinksTyped DEF Links
  <2>3. QED
    BY <2>2, KnownGetsARow
<1>2. QED
  BY <1>1, InductiveInvariant, PTL

\* The status column is a function of the edges, and edges end in stored
\* decisions: a save inserts "active" for an id no edge can touch yet, and every
\* reconcile rewrites both together.
StatusFollowsEdges ==
  /\ \A e \in edges : {e.from, e.to} \subseteq stored
  /\ \A d \in Decision : status[d] = StatusOf(edges, d)

LEMMA StatusAgreesWithEdges == Spec => []StatusFollowsEdges
<1>1. Init => StatusFollowsEdges
  BY DEF Init, StatusFollowsEdges, Statuses
<1>2. IInv /\ StatusFollowsEdges /\ [Next]_vars => StatusFollowsEdges'
  <2> SUFFICES ASSUME IInv, StatusFollowsEdges, [Next]_vars
               PROVE  StatusFollowsEdges'
    OBVIOUS
  <2>1. CASE UNCHANGED <<file, rowVars>>
    BY <2>1 DEF StatusFollowsEdges, rowVars, StatusOf, Retired
  <2>2. ASSUME NEW p \in Proc, InsertNode(p)
        PROVE  StatusFollowsEdges'
    <3>1. /\ saving[p] \notin stored
          /\ stored' = stored \union {saving[p]}
          /\ status' = [status EXCEPT ![saving[p]] = "active"]
          /\ edges' = edges
      BY <2>2 DEF InsertNode
    <3>2. StatusOf(edges, saving[p]) = "active"
      BY <3>1 DEF StatusFollowsEdges, StatusOf, Retired
    <3>3. QED
      BY <3>1, <3>2 DEF StatusFollowsEdges, IInv, TypeOK
  <2>3. ASSUME NEW p \in Proc, Commit(p)
        PROVE  StatusFollowsEdges'
    <3>1. /\ stored' = stored \union Imported(pass[p])
          /\ edges' = Links(pass[p])
          /\ status' = Statuses(Links(pass[p]))
      BY <2>3 DEF Commit
    <3>2. \A e \in Links(pass[p]) : {e.from, e.to} \subseteq stored \union Imported(pass[p])
      BY <2>3 DEF Commit, CanCommit
    <3>3. QED
      BY <3>1, <3>2 DEF StatusFollowsEdges, Statuses
  <2>4. QED
    BY <2>1, <2>2, <2>3, RowSteps
<1>3. QED
  BY <1>1, <1>2, InductiveInvariant, PTL DEF Spec

\* Rows are never deleted, and only a listing without a decision's file makes
\* it absent.
THEOREM NothingIsForgotten == Spec => NeverForgotten
<1>1. IInv /\ [Next]_vars =>
        [ /\ stored \subseteq stored'
          /\ \A d \in present \ present' :
               \E p \in Proc : ReadAll(p) /\ d \notin pass[p].listed ]_vars
  <2> SUFFICES ASSUME IInv, [Next]_vars
               PROVE  /\ stored \subseteq stored'
                      /\ \A d \in present \ present' :
                           \E p \in Proc : ReadAll(p) /\ d \notin pass[p].listed
    OBVIOUS
  <2>1. CASE UNCHANGED <<file, rowVars>>
    BY <2>1 DEF rowVars
  <2>2. CASE \E p \in Proc : InsertNode(p)
    BY <2>2 DEF InsertNode
  <2>3. ASSUME NEW p \in Proc, Commit(p)
        PROVE  /\ stored \subseteq stored'
               /\ \A d \in present \ present' : ReadAll(p) /\ d \notin pass[p].listed
    BY <2>3 DEF Commit, Absent
  <2>4. QED
    BY <2>1, <2>2, <2>3, RowSteps
<1>2. QED
  BY <1>1, InductiveInvariant, PTL DEF Spec, NeverForgotten

\* A pass whose reads are still true when it commits leaves a perfect mirror
\* of the files.
LEMMA CommitMirrors ==
  ASSUME IInv, NEW p \in Proc, Commit(p), UpToDate(p)
  PROVE  Mirrored'
<1> DEFINE s == pass[p]
<1>1. /\ s.listed = OnDisk /\ s.parsed = Readable
      /\ s.stored = stored /\ s.present = present /\ present \subseteq stored
      /\ Readable \subseteq OnDisk
  BY DEF UpToDate, IInv, TypeOK, Readable, OnDisk
<1>2. /\ OnDisk' = OnDisk /\ Readable' = Readable /\ file' = file
  BY DEF Commit, diskVars, OnDisk, Readable
<1>3. /\ stored' = stored \union Imported(s)
      /\ present' = ((present \union Imported(s)) \ Absent(s)) \union Restored(s)
      /\ edges' = Links(s)
      /\ status' = Statuses(Links(s))
  BY DEF Commit
<1> HIDE DEF s
<1>4. stored' = stored \union Readable
  BY <1>1, <1>3 DEF Imported, Arriving
<1>5. present' = (OnDisk \intersect stored)'
  BY <1>1, <1>2, <1>3, <1>4 DEF Imported, Arriving, Absent, Restored
<1>6. edges' = DeriveLinks(file, Readable, stored)'
  BY <1>1, <1>2, <1>3, <1>4 DEF Links, Known, DeriveLinks, Declared
<1>7. \A d \in stored' : status'[d] = StatusOf(edges', d)
  <2>1. stored' \subseteq Decision
    BY <1>4 DEF IInv, TypeOK, Readable
  <2>2. QED
    BY <1>3, <2>1 DEF Statuses
<1>8. QED
  BY <1>2, <1>4, <1>5, <1>6, <1>7 DEF Mirrored, StatusOf, Retired

\* So every such pass does, from whatever the store was left in.
THEOREM UpToDatePassMirrors == Spec => PassMirrors
<1>1. IInv /\ [Next]_vars => [\A p \in Proc : Commit(p) /\ UpToDate(p) => Mirrored']_vars
  BY CommitMirrors
<1>2. QED
  BY <1>1, InductiveInvariant, PTL DEF Spec, PassMirrors

-------------------------------------------------------------------------------
(***************************************************************************)
(* One full-text row per decision.                                         *)
(***************************************************************************)

\* The id a save is inserting is its own: drawn fresh, never drawn again. Until
\* its full-text row goes in, the decision has none.
SavingInv ==
  /\ \A d \in Decision : indexed[d] <= 1 /\ (d \notin stored => indexed[d] = 0)
  /\ \A p \in Proc :
       /\ saving[p] # None => saving[p] \in authored
       /\ pc[p] \in Inserting => saving[p] \in Decision
       /\ pc[p] \in {"insertAnchors", "insertIndex"} => indexed[saving[p]] = 0
       /\ pc[p] \in {"insertAnchors", "insertIndex"} => saving[p] \in stored
  /\ \A p, q \in Proc : p # q /\ saving[p] # None => saving[p] # saving[q]

\* Nothing is being saved at the start.
LEMMA InitSavingInv == Init => SavingInv
BY NoneAssumption DEF Init, SavingInv, Inserting

\* A call that ends forgets the id it was saving.
LEMMA ReturnSavingInv ==
  ASSUME IInv, SavingInv, NEW p \in Proc, NEW report, Return(p, report),
         stored \subseteq stored', indexed' \in [Decision -> Nat],
         authored' = authored,
         \A d \in stored : indexed'[d] = indexed[d],
         \A d \in stored' \ stored : indexed'[d] <= 1,
         \A d \in Decision \ stored' : indexed'[d] = 0
  PROVE  SavingInv'
BY NoneAssumption DEF IInv, TypeOK, SavingInv, Return, Goto, Inserting

\* The statements of a save and the imports of others keep it.
LEMMA SavingStep == IInv /\ SavingInv /\ [Next]_vars => SavingInv'
<1> SUFFICES ASSUME IInv, SavingInv, [Next]_vars
             PROVE  SavingInv'
  OBVIOUS
<1>1. CASE Surroundings
  <2>1. UNCHANGED <<storeVars, procVars>> /\ authored \subseteq authored'
    BY <1>1 DEF Surroundings, Arrive, Depart, Damage, Mend
  <2>2. QED
    BY <2>1 DEF SavingInv, storeVars, rowVars, procVars
<1>2. ASSUME NEW p \in Proc, Step(p)
      PROVE  SavingInv'
  <2>1. CASE Ensure(p) \/ Resync(p) \/ Reconcile(p)
    BY <2>1 DEF SavingInv, IInv, TypeOK, Ensure, Resync, Reconcile, ListFiles, Goto,
       diskVars, storeVars, rowVars, Inserting
  <2>2. ASSUME NEW d \in Decision, WriteFile(p, d)
        PROVE  SavingInv'
    BY <2>2, NoneAssumption DEF SavingInv, IInv, TypeOK, WriteFile, Goto, storeVars,
       rowVars, Inserting
  <2>3. CASE InsertNode(p)
    BY <2>3, NoneAssumption DEF SavingInv, IInv, TypeOK, InsertNode, Goto, diskVars,
       Inserting
  <2>4. CASE InsertAnchors(p) \/ InsertLocal(p)
    BY <2>4 DEF SavingInv, IInv, TypeOK, InsertAnchors, InsertLocal, Goto, diskVars,
       storeVars, rowVars, Inserting
  <2>5. CASE InsertIndex(p)
    BY <2>5, NoneAssumption DEF SavingInv, IInv, TypeOK, InsertIndex, Goto, diskVars,
       rowVars, Inserting
  <2>6. CASE Commit(p)
    <3>1. /\ stored' = stored \union Imported(pass[p])
          /\ Imported(pass[p]) \intersect stored = {}
          /\ indexed' = IndexRows(pass[p])
          /\ Return(p, TRUE) /\ authored' = authored
      BY <2>6 DEF Commit, CanCommit, diskVars
    <3>2. /\ indexed' \in [Decision -> Nat]
          /\ \A d \in Imported(pass[p]) : d \in Decision => indexed'[d] = indexed[d] + 1
          /\ \A d \in Decision \ Imported(pass[p]) : indexed'[d] = indexed[d]
      BY <3>1 DEF IndexRows, IInv, TypeOK
    <3>3. /\ stored \subseteq Decision
          /\ \A d \in Decision \ stored : indexed[d] = 0
          /\ indexed \in [Decision -> Nat]
          /\ Imported(pass[p]) \subseteq Decision
      BY PassSets DEF IInv, TypeOK, SavingInv
    <3>4. /\ stored \subseteq stored'
          /\ \A d \in stored : indexed'[d] = indexed[d]
          /\ \A d \in stored' \ stored : indexed'[d] <= 1
          /\ \A d \in Decision \ stored' : indexed'[d] = 0
      BY <3>1, <3>2, <3>3
    <3>5. QED
      BY <3>1, <3>2, <3>4, ReturnSavingInv
  <2>7. CASE ListPresence(p) \/ \E d \in Decision : ReadFile(p, d)
    <3>1. UNCHANGED <<diskVars, storeVars>>
      BY <2>7 DEF ListPresence, ReadFile
    <3>2. CASE Return(p, TRUE)
      BY <3>1, <3>2, ReturnSavingInv DEF IInv, TypeOK, SavingInv, diskVars,
         storeVars, rowVars
    <3>3. CASE UNCHANGED saving /\ (Goto(p, "read") \/ UNCHANGED pc)
      BY <3>1, <3>3 DEF SavingInv, IInv, TypeOK, Goto, diskVars, storeVars, rowVars,
         Inserting
    <3>4. QED
      BY <2>7, <3>2, <3>3 DEF ListPresence, ReadFile
  <2>8. CASE SaveFails(p) \/ CommitFails(p) \/ Busy(p) \/ Exit(p) \/ Crash(p)
    <3>1. UNCHANGED <<diskVars, storeVars>> /\ \E report : Return(p, report)
      BY <2>8 DEF SaveFails, CommitFails, Busy, Exit, Crash
    <3>2. QED
      BY <3>1, ReturnSavingInv DEF IInv, TypeOK, SavingInv, diskVars, storeVars,
         rowVars
  <2>9. QED
    BY <1>2, <2>1, <2>2, <2>3, <2>4, <2>5, <2>6, <2>7, <2>8 DEF Step, Advance
<1>3. CASE UNCHANGED vars
  BY <1>3 DEF SavingInv, vars, diskVars, storeVars, rowVars, procVars
<1>4. QED
  BY <1>1, <1>2, <1>3 DEF Next

LEMMA SavingInvariant == Spec => []SavingInv
BY SavingStep, InitSavingInv, InductiveInvariant, PTL DEF Spec

\* The full-text table holds at most one row per decision, however a save and
\* the imports of other processes interleave: the primary key of nodes, taken
\* first, guards the keyless table.
THEOREM OneRowPerDecision == Spec => []IndexedOnce
<1>1. SavingInv => IndexedOnce
  BY DEF SavingInv, IndexedOnce
<1>2. QED
  BY <1>1, SavingInvariant, PTL

-------------------------------------------------------------------------------
(***************************************************************************)
(* Refinement.                                                             *)
(***************************************************************************)

\* The mirror's links and statuses are those of the store.
LEMMA SameDerivation ==
  /\ \A f, R, K : Mirror!DeriveLinks(f, R, K) = DeriveLinks(f, R, K)
  /\ \A E : Mirror!Statuses(E) = Statuses(E)
<1>1. \A d, f : Mirror!EdgesOf(d, f) = EdgesOf(d, f)
  BY DEF EdgesOf, Mirror!EdgesOf
<1>2. \A f, R : Mirror!Declared(f, R) = Declared(f, R)
  BY <1>1 DEF Declared, Mirror!Declared
<1>3. \A E, d : Mirror!StatusOf(E, d) = StatusOf(E, d)
  BY DEF StatusOf, Mirror!StatusOf, Retired, Mirror!Retired
<1>4. QED
  BY <1>2, <1>3 DEF DeriveLinks, Mirror!DeriveLinks, Statuses, Mirror!Statuses

\* The store implements the abstract mirror: each step is a Record, an Adopt
\* of the files the pass parsed, or leaves the rows alone.
THEOREM StoreImplementsMirror == Spec => ImplementsMirror
<1>1. Init => Mirror!Init
  BY SameDerivation DEF Init, Mirror!Init
<1>2. IInv /\ [Next]_vars => [Mirror!Next]_(Mirror!vars)
  <2> SUFFICES ASSUME IInv, [Next]_vars
               PROVE  Mirror!Next \/ UNCHANGED Mirror!vars
    OBVIOUS
  <2>1. CASE UNCHANGED <<file, rowVars>>
    BY <2>1 DEF rowVars, Mirror!vars
  <2>2. ASSUME NEW p \in Proc, InsertNode(p)
        PROVE  Mirror!Next
    <3>1. saving[p] \in Decision
      BY <2>2 DEF InsertNode, IInv, PassInv, Inserting
    <3>2. Mirror!Record(saving[p])
      BY <2>2 DEF InsertNode, diskVars, Mirror!Record
    <3>3. QED
      BY <3>1, <3>2 DEF Mirror!Next
  <2>3. ASSUME NEW p \in Proc, Commit(p)
        PROVE  Mirror!Next
    <3> DEFINE s == pass[p]
    <3>0. s \in Pass
      BY DEF IInv, TypeOK
    <3>1. /\ stored' = stored \union Imported(s)
          /\ present' = ((present \union Imported(s)) \ Absent(s)) \union Restored(s)
          /\ edges' = DeriveLinks(file, s.parsed, Known(s))
          /\ status' = Statuses(Links(s))
          /\ file' = file
          /\ Links(s) = DeriveLinks(file, s.parsed, Known(s))
      BY <2>3 DEF Commit, Links, diskVars
    <3>2. /\ s.stored \subseteq stored /\ s.present \subseteq s.stored
          /\ present \subseteq stored
      BY DEF IInv, PassInv, TypeOK
    <3>3. Known(s) \subseteq stored'
      BY <3>1, KnownGetsARow
    <3>4. Mirror!Adopt(s.parsed, Known(s))
      <4>1. /\ stored' \ stored \subseteq s.parsed
            /\ s.parsed \subseteq Known(s)
            /\ present' \subseteq stored'
            /\ stored' \ stored \subseteq present'
        BY <3>0, <3>1, <3>2, PassSets DEF Imported, Arriving, Absent, Restored
      <4>2. /\ edges' = Mirror!DeriveLinks(file, s.parsed, Known(s))
            /\ status' = Mirror!Statuses(edges')
        BY <3>1, SameDerivation
      <4> HIDE DEF s
      <4>3. QED
        BY <3>1, <3>3, <4>1, <4>2 DEF Mirror!Adopt
    <3>5. s.parsed \in SUBSET Decision /\ Known(s) \in SUBSET Decision
      BY <3>0, PassSets
    <3>6. QED
      BY <3>4, <3>5 DEF Mirror!Next
  <2>4. QED
    BY <2>1, <2>2, <2>3, RowSteps
<1>3. QED
  BY <1>1, <1>2, InductiveInvariant, PTL DEF Spec, ImplementsMirror, Mirror!Spec

-------------------------------------------------------------------------------
(***************************************************************************)
(* The decision store while the calls of its processes do not overlap, for *)
(* any number of processes: what a single user at a single terminal sees,  *)
(* and what the cheap path of a reconcile relies on.                       *)
(***************************************************************************)

\* The files stay put while a call runs.
FilesStay == "overlap" \notin Faults

-------------------------------------------------------------------------------
(***************************************************************************)
(* The steps, when calls do not overlap.                                   *)
(***************************************************************************)

\* A step of one process is no business of the others.
LEMMA OthersKeep ==
  ASSUME IInv, NEW p \in Proc, Step(p)
  PROVE  \A q \in Proc : q # p =>
           pc'[q] = pc[q] /\ saving'[q] = saving[q] /\ pass'[q] = pass[q]
BY DEF IInv, TypeOK, Step, Advance, Ensure, Resync, ListFiles, WriteFile, InsertNode,
   InsertAnchors, InsertIndex, InsertLocal, Reconcile, SaveFails, ListPresence,
   ReadFile, Commit, CommitFails, Busy, Exit, Crash, Return, Goto

\* Only the end of a process may happen during another's call.
LEMMA Alone ==
  ASSUME IInv, OneCallAtATime, OneCallAtATime', NEW p \in Proc, Step(p), ~Exit(p)
  PROVE  \A q \in Proc : q # p => pc[q] = "idle" /\ pc'[q] = "idle"
<1>1. CASE pc[p] # "idle"
  BY <1>1, OthersKeep DEF OneCallAtATime
<1>2. CASE pc[p] = "idle"
  <2>1. Ensure(p) \/ Resync(p) \/ \E d \in Decision : WriteFile(p, d)
    BY <1>2 DEF Step, Advance, InsertNode, InsertAnchors, InsertIndex, InsertLocal,
       Reconcile, SaveFails, ListPresence, ReadFile, Commit, CommitFails, ReadAll,
       Busy, Crash, Inserting
  <2>2. pc'[p] # "idle"
    BY <2>1 DEF IInv, TypeOK, Ensure, Resync, WriteFile, ListFiles, Goto
  <2>3. QED
    BY <2>2, OthersKeep DEF OneCallAtATime
<1>3. QED
  BY <1>1, <1>2

\* Reading one file changes what one pass knows of that file.
LEMMA ReadFileReads ==
  ASSUME IInv, NEW p \in Proc, NEW d \in Decision, ReadFile(p, d)
  PROVE  /\ pass'[p].full = pass[p].full /\ pass'[p].listed = pass[p].listed
         /\ pass'[p].stored = pass[p].stored /\ pass'[p].present = pass[p].present
         /\ pass'[p].unread = pass[p].unread \ {d}
         /\ pass'[p].parsed = pass[p].parsed \union ({d} \intersect Readable)
         /\ \A q \in Proc : q # p => pass'[q] = pass[q]
<1> DEFINE s == [pass[p] EXCEPT !.unread = @ \ {d},
                                !.parsed = @ \union ({d} \intersect Readable)]
<1>1. pass \in [Proc -> Pass]
  BY DEF IInv, TypeOK
<1>2. /\ s.full = pass[p].full /\ s.listed = pass[p].listed
      /\ s.stored = pass[p].stored /\ s.present = pass[p].present
      /\ s.unread = pass[p].unread \ {d}
      /\ s.parsed = pass[p].parsed \union ({d} \intersect Readable)
  BY <1>1 DEF Pass
<1>3. pass' = [pass EXCEPT ![p] = s]
  BY <1>1 DEF ReadFile
<1> HIDE DEF s
<1>4. QED
  BY <1>1, <1>2, <1>3

-------------------------------------------------------------------------------
(***************************************************************************)
(* What a pass has read is what is there.                                  *)
(***************************************************************************)

\* What p's call has read or written so far still stands.
View(p) ==
  /\ pc[p] \in {"presence", "read"} => pass[p].listed = OnDisk
  /\ pc[p] = "presence" => pass[p].parsed = {}
  /\ pc[p] = "read" =>
       /\ pass[p].stored = stored /\ pass[p].present = present
       /\ pass[p].parsed = (pass[p].listed \ pass[p].unread) \intersect Readable
  /\ pc[p] \in {"insertNode", "insertAnchors"} => saving[p] \in Readable

ViewInv == \A p \in Proc : View(p)

\* Nobody has read anything at the start.
LEMMA InitView == Init => ViewInv
BY DEF Init, ViewInv, View

\* Every step keeps it, whichever faults end calls.
LEMMA ViewStep ==
  ASSUME Surroundings => AtRest, IInv, OneCallAtATime, OneCallAtATime', ViewInv, [Next]_vars
  PROVE  ViewInv'
<1>1. CASE Surroundings
  <2>1. (\A p \in Proc : pc[p] = "idle") /\ UNCHANGED procVars
    BY <1>1 DEF Surroundings, Arrive, Depart, Damage, Mend, AtRest
  <2>2. QED
    BY <2>1 DEF ViewInv, View, procVars
<1>2. ASSUME NEW p \in Proc, Step(p)
      PROVE  ViewInv'
  <2>1. CASE Exit(p)
    <3>1. /\ UNCHANGED <<diskVars, storeVars>>
          /\ pc'[p] = "idle" /\ pc[p] = "idle"
      BY <2>1 DEF Exit, Return, Goto, IInv, TypeOK
    <3>2. \A q \in Proc : View(q) => View(q)'
      BY <1>2, <3>1, OthersKeep DEF View, OnDisk, Readable, diskVars, storeVars, rowVars
    <3>3. QED
      BY <3>2 DEF ViewInv
  <2>2. CASE ~Exit(p)
    <3>1. \A q \in Proc : q # p => View(q)'
      BY <1>2, <2>2, Alone DEF View
    <3>2. View(p)'
      <4>0. View(p) /\ pc \in [Proc -> Label] /\ pass \in [Proc -> Pass]
        BY DEF ViewInv, IInv, TypeOK
      <4>1. CASE Ensure(p) \/ Resync(p) \/ Reconcile(p)
        <5>1. PICK full \in BOOLEAN : ListFiles(p, full)
          BY <4>1 DEF Ensure, Resync, Reconcile
        <5>2. /\ pass'[p] = [FreshPass(full) EXCEPT !.listed = OnDisk]
              /\ pc'[p] = "presence" /\ OnDisk' = OnDisk
          BY <4>0, <5>1 DEF ListFiles, Goto, diskVars, OnDisk
        <5>3. pass'[p].listed = OnDisk' /\ pass'[p].parsed = {}
          BY <5>2 DEF FreshPass
        <5>4. QED
          BY <5>2, <5>3 DEF View
      <4>2. ASSUME NEW d \in Decision, WriteFile(p, d)
            PROVE  View(p)'
        BY <4>2 DEF WriteFile, View, Goto, IInv, TypeOK, Readable
      <4>3. CASE InsertNode(p) \/ InsertAnchors(p) \/ InsertIndex(p) \/ InsertLocal(p)
        BY <4>0, <4>3 DEF InsertNode, InsertAnchors, InsertIndex, InsertLocal, Goto, View,
           diskVars, Readable
      <4>4. CASE ListPresence(p)
        <5> DEFINE s == [pass[p] EXCEPT !.stored = stored, !.present = present,
                                        !.unread = pass[p].listed]
        <5>1. /\ s.stored = stored /\ s.present = present /\ s.parsed = pass[p].parsed
              /\ s.listed = pass[p].listed /\ s.unread = pass[p].listed
          BY <4>0 DEF Pass
        <5>2. /\ UNCHANGED <<diskVars, storeVars>> /\ pc[p] = "presence"
              /\ \/ pass' = [pass EXCEPT ![p] = s] /\ Goto(p, "read")
                 \/ Return(p, TRUE)
          BY <4>4 DEF ListPresence
        <5> HIDE DEF s
        <5>3. QED
          BY <4>0, <5>1, <5>2 DEF View, Return, Goto, diskVars, storeVars, rowVars,
             OnDisk, Readable
      <4>5. ASSUME NEW d \in Decision, ReadFile(p, d)
            PROVE  View(p)'
        <5>1. /\ UNCHANGED <<diskVars, storeVars>> /\ pc[p] = "read" /\ pc'[p] = "read"
              /\ d \in pass[p].listed
          BY <4>0, <4>5 DEF ReadFile, IInv, PassInv
        <5>2. QED
          BY <4>0, <4>5, <5>1, ReadFileReads
          DEF View, diskVars, storeVars, rowVars, OnDisk, Readable
      <4>6. CASE Commit(p) \/ SaveFails(p) \/ CommitFails(p) \/ Busy(p) \/ Crash(p)
        <5>1. pc'[p] = "idle"
          BY <4>0, <4>6 DEF Commit, SaveFails, CommitFails, Busy, Crash, Return, Goto
        <5>2. QED
          BY <5>1 DEF View
      <4>7. QED
        BY <1>2, <2>2, <4>1, <4>2, <4>3, <4>4, <4>5, <4>6 DEF Step, Advance
    <3>3. QED
      BY <3>1, <3>2 DEF ViewInv
  <2>3. QED
    BY <2>1, <2>2
<1>3. CASE UNCHANGED vars
  BY <1>3 DEF ViewInv, View, vars, diskVars, storeVars, rowVars, procVars, OnDisk, Readable
<1>4. QED
  BY <1>1, <1>2, <1>3 DEF Next

\* So what a pass has read is true when its transaction runs.
LEMMA CommitIsUpToDate ==
  ASSUME IInv, ViewInv, NEW p \in Proc, Commit(p)
  PROVE  UpToDate(p)
<1>1. /\ pc[p] = "read" /\ pass[p].unread = {} /\ View(p)
  BY DEF Commit, ReadAll, ViewInv
<1>2. Readable \subseteq OnDisk
  BY DEF Readable, OnDisk
<1>3. QED
  BY <1>1, <1>2 DEF View, UpToDate

\* The view is kept throughout a behaviour in which calls do not overlap.
LEMMA ViewInvariant ==
  ASSUME FilesStay
  PROVE  Spec /\ []OneCallAtATime => []ViewInv
<1>1. IInv /\ OneCallAtATime /\ OneCallAtATime' /\ ViewInv /\ [Next]_vars => ViewInv'
  <2>1. Surroundings => AtRest
    BY DEF Surroundings, Arrive, Depart, Damage, Mend, FilesMayMove, FilesStay, AtRest
  <2>2. QED
    BY <2>1, ViewStep
<1>2. QED
  BY <1>1, InitView, InductiveInvariant, PTL DEF Spec

-------------------------------------------------------------------------------
(***************************************************************************)
(* Convergence.                                                            *)
(***************************************************************************)

\* Once the files are at rest no step spoils a mirror: a save that has written
\* its file finds the mirror broken already, and every pass leaves one.
LEMMA MirrorKept ==
  ASSUME IInv, ViewInv, Mirrored, [Next]_vars, UNCHANGED disk
  PROVE  Mirrored'
<1>1. CASE UNCHANGED <<file, rowVars>>
  BY <1>1 DEF Mirrored, rowVars, Readable, OnDisk, DeriveLinks, Declared, StatusOf,
     Retired
<1>2. ASSUME NEW p \in Proc, InsertNode(p)
      PROVE  FALSE
  BY <1>2 DEF InsertNode, ViewInv, View, Mirrored
<1>3. ASSUME NEW p \in Proc, Commit(p)
      PROVE  Mirrored'
  BY <1>3, CommitIsUpToDate, CommitMirrors
<1>4. QED
  BY <1>1, <1>2, <1>3, RowSteps

\* Once the files stop moving, and as long as full passes keep completing, the
\* store ends as their mirror and stays so, for any number of processes and
\* whatever crashes, lock timeouts and unreadable files there were before: a
\* reconcile owes nothing to the state it finds (reconcile.ts).
THEOREM StoreConverges ==
  ASSUME FilesStay
  PROVE  Spec /\ []OneCallAtATime => Converges
<1> DEFINE FullPass == \E p \in Proc : pass[p].full /\ Commit(p)
           Quiet == UNCHANGED disk
<1>1. IInv /\ ViewInv /\ <<FullPass>>_vars => Mirrored'
  BY CommitIsUpToDate, CommitMirrors
<1>2. IInv /\ ViewInv /\ Mirrored /\ [Next]_vars /\ [Quiet]_vars => Mirrored'
  <2>1. UNCHANGED vars => UNCHANGED disk
    BY DEF vars, diskVars
  <2>2. QED
    BY <2>1, MirrorKept
<1> HIDE DEF FullPass
<1>3. Spec /\ []OneCallAtATime =>
        (<>[][Quiet]_vars /\ []<><<FullPass>>_vars => <>[]Mirrored)
  BY <1>1, <1>2, InductiveInvariant, ViewInvariant, PTL DEF Spec
<1>4. QED
  BY <1>3 DEF Converges, FullPass, Quiet

-------------------------------------------------------------------------------
(***************************************************************************)
(* The cheap path.                                                         *)
(***************************************************************************)

\* A file is written once for each id, every file parses, and every save ends
\* in a pass of its own that reads all.
CallsInv ==
  /\ OnDisk = Readable
  /\ stored \subseteq authored /\ OnDisk \subseteq authored
  /\ \A p \in Proc :
       /\ pc[p] = "idle" <=> saving[p] = None /\ pc[p] \notin {"presence", "read"}
       /\ pc[p] = "insertNode" => saving[p] \notin stored
       /\ pc[p] \in {"presence", "read"} /\ saving[p] # None => pass[p].full

\* Unless a save is under way, the edges are those of the decisions present.
EdgesInv ==
  (\A p \in Proc : saving[p] = None) => edges = DeriveLinks(file, present, stored)

\* Unless a save has not come to it yet, a decision is in the full-text table.
RowsInv ==
  \A d \in stored :
    \/ indexed[d] = 1
    \/ \E p \in Proc : saving[p] = d /\ pc[p] \in {"insertAnchors", "insertIndex"}

SerialInv == CallsInv /\ EdgesInv /\ RowsInv

\* No call fails by itself: what a pass read still holds when it commits, and the
\* id of a save is its own.
LEMMA NoCallFails ==
  ASSUME FilesAreSound, IInv, ViewInv, LinksResolve, SerialInv, NEW p \in Proc
  PROVE  ~SaveFails(p) /\ ~CommitFails(p)
<1>1. \A d \in Readable : file[d].anchorsDistinct
  BY DEF FilesAreSound, Readable, OnDisk
<1>2. ~SaveFails(p)
  BY <1>1 DEF SaveFails, SerialInv, CallsInv, ViewInv, View
<1>3. ASSUME ReadAll(p) PROVE CanCommit(pass[p])
  <2>1. pc[p] = "read" /\ pass[p].stored = stored /\ pass[p].parsed \subseteq Readable
    BY <1>3 DEF ReadAll, ViewInv, View
  <2>2. Imported(pass[p]) \intersect stored = {}
    BY <2>1 DEF Imported, Arriving
  <2>3. \A d \in Imported(pass[p]) : file[d].anchorsDistinct
    BY <1>1, <2>1 DEF Imported
  <2>4. \A e \in Links(pass[p]) : {e.from, e.to} \subseteq stored \union Imported(pass[p])
    BY <2>1 DEF LinksResolve
  <2>5. QED
    BY <2>2, <2>3, <2>4 DEF CanCommit
<1>4. QED
  BY <1>2, <1>3 DEF CommitFails

\* An empty store, nobody at work.
LEMMA InitSerial == Init => SerialInv
<1> SUFFICES ASSUME Init PROVE SerialInv
  OBVIOUS
<1>1. CallsInv
  BY DEF Init, CallsInv, OnDisk, Readable
<1>2. EdgesInv
  BY DEF Init, EdgesInv, DeriveLinks, Declared
<1>3. RowsInv
  BY DEF Init, RowsInv
<1>4. QED
  BY <1>1, <1>2, <1>3 DEF SerialInv

\* Files come and go, all of them sound.
LEMMA SurroundingsSerial ==
  ASSUME FilesAreSound', IInv, SerialInv, Surroundings
  PROVE  SerialInv'
<1>1. /\ UNCHANGED <<file, storeVars, procVars>>
      /\ OnDisk' = Readable'
      /\ authored \subseteq authored' /\ OnDisk' \subseteq OnDisk \union authored'
  <2>1. OnDisk' = Readable'
    BY DEF FilesAreSound, OnDisk, Readable
  <2>2. QED
    BY <2>1 DEF Surroundings, Arrive, Depart, Damage, Mend, OnDisk, IInv, TypeOK
<1>2. CallsInv'
  BY <1>1 DEF SerialInv, CallsInv, storeVars, rowVars, procVars
<1>3. EdgesInv' /\ RowsInv'
  BY <1>1 DEF SerialInv, EdgesInv, RowsInv, storeVars, rowVars, procVars
<1>4. QED
  BY <1>2, <1>3 DEF SerialInv

\* A pass starts, of whichever kind.
LEMMA ListFilesSerial ==
  ASSUME IInv, SerialInv, NEW p \in Proc, Ensure(p) \/ Resync(p) \/ Reconcile(p)
  PROVE  SerialInv'
<1>1. PICK full \in BOOLEAN : ListFiles(p, full) /\ (saving[p] # None => full)
  BY DEF Ensure, Resync, Reconcile, SerialInv, CallsInv
<1>2. /\ pass' = [pass EXCEPT ![p] = [FreshPass(full) EXCEPT !.listed = OnDisk]]
      /\ pc' = [pc EXCEPT ![p] = "presence"]
      /\ UNCHANGED <<diskVars, storeVars, saving>>
      /\ pc[p] \in {"idle", "reconcile"}
  BY <1>1 DEF ListFiles, Goto, Ensure, Resync, Reconcile
<1>3. pass'[p].full = full
  BY <1>2 DEF IInv, TypeOK, FreshPass
<1>4. CallsInv'
  BY <1>1, <1>2, <1>3 DEF SerialInv, CallsInv, IInv, TypeOK, diskVars, storeVars,
     rowVars, OnDisk, Readable
<1>5. EdgesInv' /\ RowsInv'
  BY <1>2 DEF SerialInv, EdgesInv, RowsInv, IInv, TypeOK, diskVars, storeVars, rowVars
<1>6. QED
  BY <1>4, <1>5 DEF SerialInv

\* A save, up to its own pass. The row it owes to the full-text table is the one
\* of the decision it is saving.
LEMMA SaveSerial ==
  ASSUME IInv, SavingInv, SerialInv, NEW p \in Proc,
         \/ \E d \in Decision : WriteFile(p, d)
         \/ InsertNode(p) \/ InsertAnchors(p) \/ InsertIndex(p) \/ InsertLocal(p)
  PROVE  SerialInv'
<1>0. UNCHANGED file
  BY DEF WriteFile, InsertNode, InsertAnchors, InsertIndex, InsertLocal, diskVars
<1>1. saving'[p] # None
  BY NoneAssumption DEF IInv, TypeOK, SerialInv, CallsInv, WriteFile, InsertNode,
     InsertAnchors, InsertIndex, InsertLocal
<1>2. EdgesInv'
  BY <1>1 DEF EdgesInv
<1>3. ASSUME NEW d \in Decision, WriteFile(p, d)
      PROVE  CallsInv' /\ RowsInv'
  <2>1. d \notin stored
    BY <1>3 DEF WriteFile, SerialInv, CallsInv
  <2>2. CallsInv'
    BY <1>3, <2>1, NoneAssumption DEF WriteFile, Goto, IInv, TypeOK, SerialInv, CallsInv, storeVars,
       rowVars, OnDisk, Readable
  <2>3. RowsInv'
    BY <1>3 DEF WriteFile, Goto, IInv, TypeOK, SerialInv, RowsInv, storeVars, rowVars
  <2>4. QED
    BY <2>2, <2>3
<1>4. CASE InsertNode(p)
  <2>1. saving[p] \in authored /\ saving[p] \in Decision
    BY <1>4, NoneAssumption DEF InsertNode, SavingInv, Inserting
  <2>2. CallsInv'
    <3>1. \A q \in Proc : pc'[q] = "insertNode" => saving[q] # saving[p]
      BY <1>4, <2>1, NoneAssumption DEF InsertNode, Goto, IInv, TypeOK, SavingInv
    <3>2. QED
      BY <1>4, <2>1, <3>1 DEF InsertNode, Goto, IInv, TypeOK, SerialInv, CallsInv,
         diskVars, OnDisk, Readable
  <2>3. RowsInv'
    BY <1>4, <2>1 DEF InsertNode, Goto, IInv, TypeOK, SerialInv, RowsInv
  <2>4. QED
    BY <1>2, <2>2, <2>3 DEF SerialInv
<1>5. CASE InsertAnchors(p) \/ InsertLocal(p)
  <2>1. CallsInv'
    BY <1>5 DEF InsertAnchors, InsertLocal, Goto, IInv, TypeOK, SerialInv, CallsInv,
       diskVars, storeVars, rowVars, OnDisk, Readable
  <2>2. RowsInv'
    BY <1>5 DEF InsertAnchors, InsertLocal, Goto, IInv, TypeOK, SerialInv, RowsInv,
       storeVars, rowVars
  <2>3. QED
    BY <1>2, <2>1, <2>2 DEF SerialInv
<1>6. CASE InsertIndex(p)
  <2>1. indexed[saving[p]] = 0 /\ saving[p] \in Decision
    BY <1>6 DEF InsertIndex, SavingInv, Inserting
  <2>2. indexed'[saving[p]] = 1 /\ \A d \in Decision \ {saving[p]} : indexed'[d] = indexed[d]
    BY <1>6, <2>1 DEF InsertIndex, IInv, TypeOK
  <2>3. CallsInv'
    BY <1>6 DEF InsertIndex, Goto, IInv, TypeOK, SerialInv, CallsInv, diskVars, rowVars,
       OnDisk, Readable
  <2>4. RowsInv'
    BY <1>6, <2>2 DEF InsertIndex, Goto, IInv, TypeOK, SerialInv, RowsInv, rowVars
  <2>5. QED
    BY <1>2, <2>3, <2>4 DEF SerialInv
<1>7. QED
  BY <1>2, <1>3, <1>4, <1>5, <1>6 DEF SerialInv

\* Files are read while no other call runs: the pass goes on or, when it was not
\* a save's own and there is no drift, ends with nothing to do.
LEMMA ReadSerial ==
  ASSUME IInv, SerialInv, NEW p \in Proc,
         ListPresence(p) \/ \E d \in Decision : ReadFile(p, d)
  PROVE  SerialInv'
<1>1. UNCHANGED <<diskVars, storeVars>>
  BY DEF ListPresence, ReadFile
<1>2. CASE /\ UNCHANGED saving /\ pc' = [pc EXCEPT ![p] = "read"]
           /\ pass'[p].full = pass[p].full
           /\ \A q \in Proc : q # p => pass'[q] = pass[q]
           /\ pc[p] \in {"presence", "read"}
  <2>1. CallsInv'
    BY <1>1, <1>2 DEF SerialInv, CallsInv, IInv, TypeOK, diskVars, storeVars, rowVars,
       OnDisk, Readable
  <2>2. EdgesInv' /\ RowsInv'
    BY <1>1, <1>2 DEF SerialInv, EdgesInv, RowsInv, IInv, TypeOK, diskVars, storeVars,
       rowVars
  <2>3. QED
    BY <2>1, <2>2 DEF SerialInv
<1>3. CASE Return(p, TRUE) /\ pc[p] = "presence" /\ ~pass[p].full
  <2>1. saving[p] = None
    BY <1>3 DEF SerialInv, CallsInv
  <2>2. UNCHANGED saving /\ pc' = [pc EXCEPT ![p] = "idle"]
        /\ \A q \in Proc : q # p => pass'[q] = pass[q]
    BY <1>3, <2>1 DEF Return, Goto, IInv, TypeOK
  <2>3. CallsInv'
    BY <1>1, <2>1, <2>2 DEF SerialInv, CallsInv, IInv, TypeOK, diskVars, storeVars,
       rowVars, OnDisk, Readable
  <2>4. EdgesInv' /\ RowsInv'
    BY <1>1, <1>3, <2>2 DEF SerialInv, EdgesInv, RowsInv, IInv, TypeOK, diskVars, storeVars,
       rowVars
  <2>5. QED
    BY <2>3, <2>4 DEF SerialInv
<1>4. QED
  <2>1. CASE ListPresence(p)
    <3> DEFINE s == [pass[p] EXCEPT !.stored = stored, !.present = present,
                                    !.unread = pass[p].listed]
    <3>1. CASE /\ pass' = [pass EXCEPT ![p] = s]
               /\ Goto(p, "read") /\ UNCHANGED saving
      <4>1. pass \in [Proc -> Pass] /\ pc \in [Proc -> Label] /\ pc[p] = "presence"
        BY <2>1 DEF ListPresence, IInv, TypeOK
      <4>2. s.full = pass[p].full
        BY <4>1 DEF Pass
      <4> HIDE DEF s
      <4>3. pass'[p] = s /\ \A q \in Proc : q # p => pass'[q] = pass[q]
        BY <3>1, <4>1
      <4>4. QED
        BY <1>2, <3>1, <4>1, <4>2, <4>3 DEF Goto
    <3>2. CASE ~s.full /\ Return(p, TRUE)
      <4>1. s.full = pass[p].full
        BY DEF IInv, TypeOK, Pass
      <4>2. QED
        BY <1>3, <2>1, <3>2, <4>1 DEF ListPresence
    <3>3. QED
      BY <2>1, <3>1, <3>2 DEF ListPresence
  <2>2. ASSUME NEW d \in Decision, ReadFile(p, d)
        PROVE  SerialInv'
    <3>1. pc[p] = "read" /\ pc' = [pc EXCEPT ![p] = "read"]
      BY <2>2, ZenonT(60) DEF ReadFile, IInv, TypeOK
    <3>2. /\ UNCHANGED saving /\ pass'[p].full = pass[p].full
          /\ \A q \in Proc : q # p => pass'[q] = pass[q]
      BY <2>2, ReadFileReads DEF ReadFile
    <3>3. QED
      BY <1>2, <3>1, <3>2
  <2>3. QED
    BY <2>1, <2>2

\* The transaction: nobody else is saving, so afterwards nobody is.
LEMMA CommitSerial ==
  ASSUME IInv, SavingInv, ViewInv, SerialInv, NEW p \in Proc, Commit(p),
         \A q \in Proc : q # p => pc[q] = "idle"
  PROVE  SerialInv'
<1> DEFINE s == pass[p]
<1>1. /\ pc[p] = "read" /\ s.stored = stored /\ s.present = present
      /\ s.listed = OnDisk /\ s.parsed = Readable /\ OnDisk = Readable
  BY CommitIsUpToDate DEF UpToDate, Commit, ReadAll, SerialInv, CallsInv
<1>2. /\ stored' = stored \union Imported(s)
      /\ indexed' = IndexRows(s)
      /\ present' = ((present \union Imported(s)) \ Absent(s)) \union Restored(s)
      /\ edges' = Links(s)
      /\ Return(p, TRUE) /\ UNCHANGED diskVars
  BY DEF Commit
<1> HIDE DEF s
<1>3. /\ stored' = stored \union Readable
      /\ present' = Readable
      /\ edges' = DeriveLinks(file, Readable, stored')
  BY <1>1, <1>2 DEF Imported, Arriving, Absent, Restored, Links, Known, IInv, TypeOK
<1>4. \A q \in Proc : pc'[q] = "idle" /\ saving'[q] = None
  BY <1>2 DEF Return, Goto, IInv, TypeOK, SerialInv, CallsInv
<1>5. OnDisk' = OnDisk /\ Readable' = Readable /\ file' = file /\ authored' = authored
  BY <1>2 DEF diskVars, OnDisk, Readable
<1>6. CallsInv'
  <2>1. \A q \in Proc : pc'[q] \notin {"presence", "read", "insertNode"}
    BY <1>4
  <2>2. QED
    BY <1>1, <1>3, <1>4, <1>5, <2>1 DEF SerialInv, CallsInv
<1>7. EdgesInv'
  BY <1>3, <1>5 DEF EdgesInv, DeriveLinks, Declared
<1>8. RowsInv'
  <2>1. Imported(s) = Readable \ stored
    BY <1>1 DEF Imported, Arriving
  <2>2. \A d \in Decision : d \notin stored => indexed[d] = 0
    BY DEF SavingInv
  <2>3. \A d \in stored : indexed[d] = 1
    BY <1>1 DEF SerialInv, RowsInv
  <2>4. \A d \in stored' : indexed'[d] = 1
    BY <1>2, <1>3, <2>1, <2>2, <2>3 DEF IndexRows, IInv, TypeOK, Readable
  <2>5. QED
    BY <2>4 DEF RowsInv
<1>9. QED
  BY <1>6, <1>7, <1>8 DEF SerialInv

\* Every step of a calm store keeps the invariant.
LEMMA SerialStep ==
  ASSUME CalmStep, OneCallAtATime, FilesAreSound, IInv, SavingInv, ViewInv,
         LinksResolve, SerialInv, Next
  PROVE  SerialInv'
<1>1. CASE Surroundings
  BY <1>1, SurroundingsSerial DEF CalmStep
<1>2. ASSUME NEW p \in Proc, Step(p)
      PROVE  SerialInv'
  <2>1. CASE Ensure(p) \/ Resync(p) \/ Reconcile(p)
    BY <2>1, ListFilesSerial
  <2>2. CASE \/ \E d \in Decision : WriteFile(p, d)
             \/ InsertNode(p) \/ InsertAnchors(p) \/ InsertIndex(p) \/ InsertLocal(p)
    BY <2>2, SaveSerial
  <2>3. CASE ListPresence(p) \/ \E d \in Decision : ReadFile(p, d)
    BY <2>3, ReadSerial
  <2>4. CASE Commit(p)
    <3>1. ~Exit(p)
      BY <2>4 DEF Commit, ReadAll, Exit
    <3>2. QED
      BY <1>2, <2>4, <3>1, Alone, CommitSerial DEF CalmStep
  <2>5. CASE Exit(p)
    <3>1. UNCHANGED <<diskVars, storeVars, pc, saving>>
          /\ pc[p] = "idle" /\ \A q \in Proc : q # p => pass'[q] = pass[q]
      BY <2>5 DEF Exit, Return, Goto, IInv, TypeOK, SerialInv, CallsInv
    <3>2. CallsInv'
      BY <3>1 DEF SerialInv, CallsInv, diskVars, storeVars, rowVars, OnDisk, Readable
    <3>3. EdgesInv' /\ RowsInv'
      BY <3>1 DEF SerialInv, EdgesInv, RowsInv, diskVars, storeVars, rowVars
    <3>4. QED
      BY <3>2, <3>3 DEF SerialInv
  <2>6. CASE Busy(p) \/ Crash(p)
    BY <2>4, <2>6 DEF CalmStep
  <2>7. QED
    BY <1>2, <2>1, <2>2, <2>3, <2>4, <2>5, <2>6, NoCallFails DEF Step, Advance
<1>3. QED
  BY <1>1, <1>2 DEF Next

\* For as long as a behaviour is calm.
CalmInv == calm => OneCallAtATime /\ FilesAreSound /\ ViewInv /\ SerialInv

\* The history variable only watches.
LEMMA HistoryWatches == HistorySpec => Spec
<1>1. HistoryInit => Init
  BY DEF HistoryInit
<1>2. [HistoryNext]_historyVars => [Next]_vars
  BY DEF HistoryNext, historyVars
<1>3. QED
  BY <1>1, <1>2, PTL DEF HistorySpec, Spec

LEMMA CalmInvariant == HistorySpec => []CalmInv
<1>1. HistoryInit => CalmInv
  <2>1. Init => OneCallAtATime /\ FilesAreSound
    BY DEF Init, OneCallAtATime, FilesAreSound, OnDisk
  <2>2. QED
    BY <2>1, InitView, InitSerial DEF HistoryInit, CalmInv
<1>2. /\ IInv /\ SavingInv /\ LinksResolve /\ CalmInv /\ [HistoryNext]_historyVars
      => CalmInv'
  <2> SUFFICES ASSUME IInv, SavingInv, LinksResolve, CalmInv,
                      [HistoryNext]_historyVars, calm'
               PROVE  /\ OneCallAtATime' /\ FilesAreSound' /\ ViewInv' /\ SerialInv'
    BY DEF CalmInv
  <2>1. CASE HistoryNext
    <3>1. /\ Next /\ CalmStep
          /\ OneCallAtATime /\ FilesAreSound /\ ViewInv /\ SerialInv
      BY <2>1 DEF HistoryNext, CalmInv
    <3>2. OneCallAtATime' /\ FilesAreSound' /\ (Surroundings => AtRest)
      BY <3>1 DEF CalmStep
    <3>3. ViewInv'
      BY <3>1, <3>2, ViewStep
    <3>4. SerialInv'
      BY <3>1, SerialStep
    <3>5. QED
      BY <3>2, <3>3, <3>4
  <2>2. CASE UNCHANGED historyVars
    <3>1. /\ UNCHANGED <<diskVars, storeVars, procVars>>
          /\ OneCallAtATime /\ FilesAreSound /\ ViewInv /\ SerialInv
      BY <2>2 DEF historyVars, vars, CalmInv
    <3>2. OnDisk' = OnDisk /\ Readable' = Readable
      BY <3>1 DEF diskVars, OnDisk, Readable
    <3>3. OneCallAtATime' /\ FilesAreSound'
      BY <3>1, <3>2 DEF OneCallAtATime, FilesAreSound, procVars, diskVars
    <3>4. ViewInv'
      BY <3>1, <3>2 DEF ViewInv, View, storeVars, rowVars, procVars
    <3>5. CallsInv'
      BY <3>1, <3>2 DEF SerialInv, CallsInv, diskVars, storeVars, rowVars, procVars
    <3>6. EdgesInv' /\ RowsInv'
      BY <3>1 DEF SerialInv, EdgesInv, RowsInv, diskVars, storeVars, rowVars, procVars
    <3>7. QED
      BY <3>3, <3>4, <3>5, <3>6 DEF SerialInv
  <2>3. QED
    BY <2>1, <2>2
<1>3. QED
  BY <1>1, <1>2, HistoryWatches, InductiveInvariant, SavingInvariant, LinksAlwaysResolve,
     PTL DEF HistorySpec

\* While calls do not overlap and none is cut short, a directory that holds
\* exactly the present decisions is mirrored by the whole store, links and
\* statuses too, though the cheap pass compares nothing but the two sets of ids
\* (reconcile.ts, "drift detection is a set difference"): for any number of
\* processes, decisions and files that arrive and leave between the calls.
\* Without any one of the conditions of CalmStep this is false: the runs
\* ConcurrentPasses and FailedSave show two of the ways.
THEOREM NoDriftIsAMirror == HistorySpec => []CalmNoDriftMeansMirrored
<1>1. IInv /\ StatusFollowsEdges /\ CalmInv => CalmNoDriftMeansMirrored
  <2> SUFFICES ASSUME IInv, StatusFollowsEdges, SerialInv, NothingToDo
               PROVE  Mirrored
    BY DEF CalmNoDriftMeansMirrored, NoDriftMeansMirrored, CalmInv
  <2>1. present = OnDisk /\ OnDisk = Readable /\ present \subseteq stored
    BY DEF NothingToDo, SerialInv, CallsInv, IInv, TypeOK
  <2>2. \A p \in Proc : saving[p] = None
    BY DEF NothingToDo, AtRest, SerialInv, CallsInv
  <2>3. edges = DeriveLinks(file, Readable, stored)
    BY <2>1, <2>2 DEF SerialInv, EdgesInv
  <2>4. \A d \in stored : status[d] = StatusOf(edges, d)
    BY DEF StatusFollowsEdges, IInv, TypeOK
  <2>5. QED
    BY <2>1, <2>3, <2>4 DEF Mirrored
<1>2. QED
  BY <1>1, HistoryWatches, InductiveInvariant, StatusAgreesWithEdges, CalmInvariant, PTL

\* Nor does any decision at rest lack its full-text row.
THEOREM RowsStayWhole == HistorySpec => []CalmRowsAreWhole
<1>1. CalmInv => CalmRowsAreWhole
  BY DEF CalmInv, SerialInv, RowsInv, CalmRowsAreWhole, RowsAreWhole, AtRest
<1>2. QED
  BY <1>1, CalmInvariant, PTL

===============================================================================
