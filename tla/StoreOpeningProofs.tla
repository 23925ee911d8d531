-------------------------- MODULE StoreOpeningProofs --------------------------
(***************************************************************************)
(* Opening a store, for any processes, decisions, replacements in the old  *)
(* store and number of crashes.                                            *)
(***************************************************************************)
EXTENDS StoreOpeningProps, FiniteSetTheorems, TLAPS

\* All but the bound on projects.
Typed ==
  /\ crashes \in 0..Crashes
  /\ created \in BOOLEAN
  /\ applied \subseteq Migration
  /\ stored \subseteq Decision /\ hidden \subseteq stored
  /\ replaces \in [Decision -> Replaced]
  /\ projects \in Nat
  /\ file \in [Decision -> Replaced \union {NoFile}]
  /\ away \in [Decision -> Replaced \union {NoFile}]
  /\ config \in Labelled
  /\ pc \in [Proc -> Label]
  /\ job \in [Proc -> JobType]
  /\ disturbed \in BOOLEAN
  /\ \A p \in Proc : pc[p] = "applies" => job[p].next \in Migration

\* Every process that is about to add a node still fits under the bound.
Adders == {p \in Proc : pc[p] = "adds project"}
ProjectsInv == projects + Cardinality(Adders) <= Cardinality(Proc)

TypeInv == Typed /\ ProjectsInv

-------------------------------------------------------------------------------
\* A process starts with a job, and each thing it learns leaves it one.
LEMMA JobTyped ==
  /\ \A command \in {"open", "init"} : Fresh(command) \in JobType
  /\ \A j \in JobType : \A n \in 1..4 : [j EXCEPT !.next = n] \in JobType
  /\ \A j \in JobType : \A n \in 1..4, m \in Migration :
       [j EXCEPT !.next = n, !.mine = @ \union {m}] \in JobType
  /\ \A j \in JobType : \A e \in [Decision -> Replaced \union {NoFile}] :
       [j EXCEPT !.export = e] \in JobType
  /\ \A j \in JobType : \A d \in Decision : [j EXCEPT !.export[d] = NoFile] \in JobType
<1>1. \A command \in {"open", "init"} : Fresh(command) \in JobType
  BY DEF Fresh, NoFiles, JobType
<1>2. \A j \in JobType : \A n \in 1..4 : [j EXCEPT !.next = n] \in JobType
  BY DEF JobType
<1>3. \A j \in JobType : \A n \in 1..4, m \in Migration :
        [j EXCEPT !.next = n, !.mine = @ \union {m}] \in JobType
  <2>1. SUFFICES ASSUME NEW j \in JobType, NEW n \in 1..4, NEW m \in Migration
                 PROVE  [j EXCEPT !.next = n, !.mine = @ \union {m}] \in JobType
    OBVIOUS
  <2>2. j.mine \union {m} \in SUBSET Migration
    BY DEF JobType
  <2>3. QED
    BY <2>2 DEF JobType
<1>4. \A j \in JobType : \A e \in [Decision -> Replaced \union {NoFile}] :
        [j EXCEPT !.export = e] \in JobType
  BY DEF JobType
<1>5. \A j \in JobType : \A d \in Decision : [j EXCEPT !.export[d] = NoFile] \in JobType
  <2>1. SUFFICES ASSUME NEW j \in JobType, NEW d \in Decision
                 PROVE  [j EXCEPT !.export[d] = NoFile] \in JobType
    OBVIOUS
  <2>2. [j.export EXCEPT ![d] = NoFile] \in [Decision -> Replaced \union {NoFile}]
    BY DEF JobType
  <2>3. QED
    BY <1>4, <2>2
<1>6. QED
  BY <1>1, <1>2, <1>3, <1>4, <1>5

\* Every step keeps the types.
LEMMA TypedStep == Typed /\ [Next]_vars => Typed'
<1> SUFFICES ASSUME Typed, [Next]_vars
             PROVE  Typed'
  OBVIOUS
<1> USE DEF Typed
<1>1. CASE UNCHANGED vars
  BY <1>1 DEF vars, storeVars
<1>2. ASSUME NEW p \in Proc, NEW command \in {"open", "init"}, Begin(p, command)
      PROVE  Typed'
  BY <1>2, JobTyped DEF Begin, Goto, Label
<1>3. ASSUME NEW p \in Proc, CheckMigration(p)
      PROVE  Typed'
  <2>1. job[p] \in JobType /\ job[p].next + 1 \in 1..4
    BY <1>3 DEF CheckMigration, JobType, Migration
  <2>2. CASE job[p].next \in applied
    <3>1. [job[p] EXCEPT !.next = @ + 1] \in JobType
      BY <2>1, JobTyped
    <3>2. job' \in [Proc -> JobType] /\ UNCHANGED pc
      BY <1>3, <2>2, <3>1 DEF CheckMigration
    <3>3. \A q \in Proc : pc'[q] = "applies" => job'[q].next \in Migration
      BY <1>3, <2>2, <3>2 DEF CheckMigration
    <3>4. QED
      BY <1>3, <3>2, <3>3 DEF CheckMigration, storeVars
  <2>3. CASE job[p].next \notin applied
    BY <1>3, <2>3 DEF CheckMigration, Goto, storeVars, Label
  <2>4. QED
    BY <2>2, <2>3
<1>4. ASSUME NEW p \in Proc, ApplyMigration(p)
      PROVE  Typed'
  <2>1. job[p] \in JobType /\ job[p].next \in Migration /\ job[p].next + 1 \in 1..4
    BY <1>4 DEF ApplyMigration, Migration
  <2>2. [job[p] EXCEPT !.next = @ + 1, !.mine = @ \union {job[p].next}] \in JobType
    BY <2>1, JobTyped
  <2>3. job' \in [Proc -> JobType]
    BY <1>4, <2>2 DEF ApplyMigration
  <2>4. /\ pc' = [pc EXCEPT ![p] = "migrates"]
        /\ \A q \in Proc : q # p => job'[q] = job[q]
        /\ applied' \subseteq Migration
    BY <1>4, <2>1 DEF ApplyMigration, Goto
  <2>5. \A q \in Proc : pc'[q] = "applies" => job'[q].next \in Migration
    BY <2>4
  <2>6. QED
    BY <1>4, <2>3, <2>4, <2>5 DEF ApplyMigration, Label
<1>5. ASSUME NEW p \in Proc, Leave(p), crashes' \in 0..Crashes, disturbed' \in BOOLEAN,
             UNCHANGED <<storeVars, file, away, config>>
      PROVE  Typed'
  <2>1. pc' = [pc EXCEPT ![p] = "closed"] /\ job' = [job EXCEPT ![p] = Fresh("open")]
    BY <1>5 DEF Leave, Goto
  <2>2. job' \in [Proc -> JobType]
    BY <2>1, JobTyped
  <2>3. \A q \in Proc : pc'[q] = "applies" => job'[q].next \in Migration
    BY <2>1
  <2>4. QED
    BY <1>5, <2>1, <2>2, <2>3 DEF storeVars, Label
<1>6. ASSUME NEW p \in Proc, ApplyFails(p) \/ Close(p) \/ Crash(p)
      PROVE  Typed'
  <2>1. crashes' \in 0..Crashes
    BY <1>6, CrashesAssumption DEF ApplyFails, Close, Crash
  <2>2. disturbed' \in BOOLEAN
    BY <1>6 DEF ApplyFails, Close, Crash, Exporting
  <2>3. QED
    BY <1>5, <1>6, <2>1, <2>2 DEF ApplyFails, Close, Crash
<1>7. ASSUME NEW p \in Proc, NEW l \in Label \ {"applies"}, Goto(p, l),
             config' \in Labelled, projects' \in Nat,
             UNCHANGED <<created, applied, stored, replaces, hidden, file, away, job, crashes,
                         disturbed>>
      PROVE  Typed'
  <2>1. pc' = [pc EXCEPT ![p] = l]
    BY <1>7 DEF Goto
  <2>2. pc' \in [Proc -> Label]
    BY <2>1
  <2>3. \A q \in Proc : pc'[q] = "applies" => job'[q].next \in Migration
    BY <1>7, <2>1
  <2>4. QED
    BY <1>7, <2>2, <2>3
<1>8. ASSUME NEW p \in Proc,
             \/ Migrated(p) \/ Exported(p)
             \/ ReadConfig(p) \/ TruncateConfig(p) \/ FillConfig(p)
             \/ SeekProject(p) \/ AddProject(p)
      PROVE  Typed'
  <2>1. UNCHANGED <<created, applied, stored, replaces, hidden, file, away, job, crashes,
                    disturbed>>
    BY <1>8 DEF Migrated, Exported, ReadConfig, TruncateConfig, FillConfig, SeekProject,
                AddProject, storeVars
  <2>2. UNCHANGED config \/ config' = Unreadable \/ config' = SchemaVersion
    BY <1>8 DEF Migrated, Exported, ReadConfig, TruncateConfig, FillConfig, SeekProject,
                AddProject, storeVars
  <2>3. UNCHANGED projects \/ projects' = projects + 1
    BY <1>8 DEF Migrated, Exported, ReadConfig, TruncateConfig, FillConfig, SeekProject,
                AddProject, storeVars
  <2>4. \E l \in Label \ {"applies"} : Goto(p, l)
    BY <1>8 DEF Migrated, Exported, ReadConfig, TruncateConfig, FillConfig, SeekProject,
                AddProject, AfterExport, AfterConfig, AfterProject, Label
  <2>5. config' \in Labelled /\ projects' \in Nat
    BY <2>2, <2>3 DEF Labelled, SchemaVersion
  <2>6. QED
    BY <1>7, <2>1, <2>4, <2>5
<1>9. ASSUME NEW p \in Proc, ListExportRows(p)
      PROVE  Typed'
  <2>1. DEFINE e == [d \in Decision |-> IF d \in stored THEN replaces[d] ELSE NoFile]
  <2>2. e \in [Decision -> Replaced \union {NoFile}]
    OBVIOUS
  <2>3. job' \in [Proc -> JobType]
    BY <1>9, <2>2, JobTyped DEF ListExportRows
  <2>4. pc' = [pc EXCEPT ![p] = "writes files"]
    BY <1>9 DEF ListExportRows, Goto
  <2>5. \A q \in Proc : pc'[q] = "applies" => job'[q].next \in Migration
    BY <1>9, <2>4 DEF ListExportRows
  <2>6. QED
    BY <1>9, <2>3, <2>4, <2>5 DEF ListExportRows, storeVars, Label
<1>10. ASSUME NEW p \in Proc, NEW d \in Decision, ExportFile(p, d)
       PROVE  Typed'
  <2>1. [job[p] EXCEPT !.export[d] = NoFile] \in JobType
    BY JobTyped
  <2>2. job' \in [Proc -> JobType] /\ UNCHANGED pc
    BY <1>10, <2>1 DEF ExportFile
  <2>3. file' \in [Decision -> Replaced \union {NoFile}]
    <3>1. job[p].export[d] \in Replaced \union {NoFile}
      BY DEF JobType
    <3>2. QED
      BY <1>10, <3>1 DEF ExportFile
  <2>4. \A q \in Proc : pc'[q] = "applies" => job'[q].next \in Migration
    BY <1>10, <2>2 DEF ExportFile
  <2>5. QED
    BY <1>10, <2>2, <2>3, <2>4 DEF ExportFile, storeVars
<1>11. ASSUME NEW p \in Proc, Reconcile(p)
       PROVE  Typed'
  BY <1>11 DEF Reconcile, OnDisk, Goto, Label, Replaced, Exporting
<1>12. ASSUME NEW branch \in Branch, Checkout(branch)
       PROVE  Typed'
  BY <1>12 DEF Checkout, storeVars
<1>13. QED
  BY <1>1, <1>2, <1>3, <1>4, <1>6, <1>8, <1>9, <1>10, <1>11, <1>12 DEF Next, Advance

\* A store begins with typed rows, and at most one project node.
LEMMA InitTypeInv == Init => TypeInv
<1> SUFFICES ASSUME Init
             PROVE  TypeInv
  OBVIOUS
<1>1. Typed
  <2>1. /\ file \in [Decision -> Replaced \union {NoFile}]
        /\ away \in [Decision -> Replaced \union {NoFile}]
    BY LegacyAssumption DEF Init, NoFiles, Replaced
  <2>2. replaces \in [Decision -> Replaced]
    BY LegacyAssumption DEF Init, Replaced
  <2>3. job \in [Proc -> JobType]
    BY JobTyped DEF Init
  <2>4. applied \subseteq Migration /\ stored \subseteq Decision /\ hidden \subseteq stored
    BY DEF Init, Migration
  <2>5. config \in Labelled /\ crashes \in 0..Crashes /\ projects \in Nat
    BY CrashesAssumption DEF Init, Labelled, Missing
  <2>6. QED
    BY <2>1, <2>2, <2>3, <2>4, <2>5 DEF Init, Typed, Label
<1>2. ProjectsInv
  <2>1. projects \in 0..1
    BY DEF Init
  <2>2. Cardinality(Adders) = 0
    <3>1. \A p \in Proc : pc[p] = "closed"
      BY DEF Init
    <3>2. QED
      BY <3>1, FS_EmptySet DEF Adders
  <2>3. Cardinality(Proc) \in Nat /\ Cardinality(Proc) # 0
    BY ProcAssumption, FS_CardinalityType, FS_EmptySet
  <2>4. QED
    BY <2>1, <2>2, <2>3 DEF ProjectsInv
<1>3. QED
  BY <1>1, <1>2 DEF TypeInv

\* The bound on project nodes is kept: those who saw none may still all add one,
\* but nobody joins them once there is one.
LEMMA ProjectsStep == TypeInv /\ [Next]_vars => ProjectsInv'
<1> SUFFICES ASSUME TypeInv, [Next]_vars
             PROVE  ProjectsInv'
  OBVIOUS
<1>1. /\ IsFiniteSet(Proc) /\ IsFiniteSet(Adders)
      /\ Cardinality(Proc) \in Nat /\ Cardinality(Adders) \in Nat
  BY ProcAssumption, FS_Subset, FS_CardinalityType DEF Adders
<1>2. ASSUME Adders' \subseteq Adders, projects' = projects
      PROVE  ProjectsInv'
  <2>1. Cardinality(Adders') \in Nat /\ Cardinality(Adders') <= Cardinality(Adders)
    BY <1>1, <1>2, FS_Subset, FS_CardinalityType
  <2>2. QED
    BY <1>1, <1>2, <2>1 DEF TypeInv, Typed, ProjectsInv
<1>3. ASSUME NEW p \in Proc, SeekProject(p)
      PROVE  ProjectsInv'
  <2>1. CASE projects > 0
    <3>1. Adders' \subseteq Adders
      BY <1>3, <2>1 DEF SeekProject, Goto, AfterProject, Adders, TypeInv, Typed
    <3>2. projects' = projects
      BY <1>3 DEF SeekProject, storeVars
    <3>3. QED
      BY <1>2, <3>1, <3>2
  <2>2. CASE projects = 0
    <3>1. Adders' \subseteq Proc /\ projects' = 0
      BY <1>3, <2>2 DEF SeekProject, storeVars, Adders
    <3>2. Cardinality(Adders') \in Nat /\ Cardinality(Adders') <= Cardinality(Proc)
      BY <1>1, <3>1, FS_Subset, FS_CardinalityType
    <3>3. QED
      BY <1>1, <3>1, <3>2 DEF ProjectsInv
  <2>3. QED
    BY <2>1, <2>2 DEF TypeInv, Typed
<1>4. ASSUME NEW p \in Proc, AddProject(p)
      PROVE  ProjectsInv'
  <2>1. p \in Adders /\ Adders' = Adders \ {p} /\ projects' = projects + 1
    BY <1>4 DEF AddProject, Goto, AfterProject, Adders, TypeInv, Typed
  <2>2. Cardinality(Adders') = Cardinality(Adders) - 1
    BY <1>1, <2>1, FS_RemoveElement
  <2>3. QED
    BY <1>1, <2>1, <2>2 DEF TypeInv, Typed, ProjectsInv
<1>5. CASE UNCHANGED vars
  BY <1>2, <1>5 DEF vars, storeVars, Adders
<1>6. ASSUME NEW p \in Proc, NEW command \in {"open", "init"}, Begin(p, command)
      PROVE  ProjectsInv'
  BY <1>2, <1>6 DEF Begin, Goto, Adders, TypeInv, Typed
<1>7. ASSUME NEW p \in Proc,
             \/ CheckMigration(p) \/ ApplyMigration(p) \/ ApplyFails(p) \/ Migrated(p)
             \/ ListExportRows(p) \/ Exported(p) \/ Close(p) \/ Crash(p)
             \/ \E d \in Decision : ExportFile(p, d)
      PROVE  ProjectsInv'
  <2>1. projects' = projects
    BY <1>7 DEF CheckMigration, ApplyMigration, ApplyFails, Migrated, ListExportRows, Exported,
                Close, Crash, ExportFile, storeVars
  <2>2. UNCHANGED pc \/ \E l \in Label \ {"adds project"} : pc' = [pc EXCEPT ![p] = l]
    BY <1>7 DEF CheckMigration, ApplyMigration, ApplyFails, Migrated, ListExportRows, Exported,
                Close, Crash, ExportFile, Leave, Goto, AfterExport, Label
  <2>3. Adders' \subseteq Adders
    BY <2>2 DEF Adders, TypeInv, Typed
  <2>4. QED
    BY <1>2, <2>1, <2>3
<1>8. ASSUME NEW p \in Proc,
             ReadConfig(p) \/ TruncateConfig(p) \/ FillConfig(p) \/ Reconcile(p)
      PROVE  ProjectsInv'
  <2>1. projects' = projects
    BY <1>8 DEF ReadConfig, TruncateConfig, FillConfig, Reconcile, storeVars
  <2>2. \E l \in Label \ {"adds project"} : pc' = [pc EXCEPT ![p] = l]
    BY <1>8 DEF ReadConfig, TruncateConfig, FillConfig, Reconcile, Goto, AfterConfig, Label
  <2>3. Adders' \subseteq Adders
    BY <2>2 DEF Adders, TypeInv, Typed
  <2>4. QED
    BY <1>2, <2>1, <2>3
<1>9. ASSUME NEW branch \in Branch, Checkout(branch)
      PROVE  ProjectsInv'
  BY <1>2, <1>9 DEF Checkout, storeVars, Adders
<1>10. QED
  BY <1>3, <1>4, <1>5, <1>6, <1>7, <1>8, <1>9 DEF Next, Advance

LEMMA TypesKept == TypeInv /\ [Next]_vars => TypeInv'
BY TypedStep, ProjectsStep DEF TypeInv

LEMMA TypeInvOK == TypeInv => TypeOK
<1> SUFFICES ASSUME TypeInv
             PROVE  TypeOK
  OBVIOUS
<1>1. Cardinality(Proc) \in Nat /\ Cardinality(Adders) \in Nat
  BY ProcAssumption, FS_Subset, FS_CardinalityType DEF Adders
<1>2. projects \in 0..Cardinality(Proc)
  BY <1>1 DEF TypeInv, Typed, ProjectsInv
<1>3. QED
  BY <1>2 DEF TypeInv, Typed, TypeOK

\* However many processes open a store, its variables are typed, and there are
\* no more project nodes than processes.
THEOREM TypeCorrect == Spec => []TypeOK
<1>1. Spec => []TypeInv
  BY InitTypeInv, TypesKept, PTL DEF Spec
<1>2. QED
  BY <1>1, TypeInvOK, PTL

-------------------------------------------------------------------------------
(***************************************************************************)
(* The schema.  A process knows of every migration below the one it is at  *)
(* that somebody has applied it, and has seen them all when it goes on.    *)
(***************************************************************************)
Early == {"closed", "migrates", "applies"}

SchemaInv ==
  /\ \A m \in applied : 1..m \subseteq applied
  /\ \A p, q \in Proc : p # q => job[p].mine \intersect job[q].mine = {}
  /\ \A p \in Proc : job[p].mine \subseteq applied
  /\ \A p \in Proc : pc[p] \in {"migrates", "applies"} => 1..(job[p].next - 1) \subseteq applied
  /\ \A p \in Proc : pc[p] \notin Early => applied = Migration

LEMMA InitSchemaInv == Init => SchemaInv
BY DEF Init, SchemaInv, Early, Fresh

\* A process that applies no migration, and takes up none, disturbs nothing.
LEMMA SchemaFrame ==
  ASSUME Typed, SchemaInv, UNCHANGED applied,
         \A q \in Proc : job'[q].mine \subseteq job[q].mine,
         \A q \in Proc : \/ pc'[q] = pc[q] /\ job'[q].next = job[q].next
                         \/ pc'[q] = "closed"
                         \/ pc[q] \notin Early /\ pc'[q] \notin {"migrates", "applies"}
  PROVE  SchemaInv'
<1>1. \A p, q \in Proc : p # q => job'[p].mine \intersect job'[q].mine = {}
  BY DEF SchemaInv
<1>2. \A p \in Proc : job'[p].mine \subseteq applied
  BY DEF SchemaInv
<1>3. \A p \in Proc : pc'[p] \in {"migrates", "applies"} => 1..(job'[p].next - 1) \subseteq applied
  BY DEF SchemaInv, Early
<1>4. \A p \in Proc : pc'[p] \notin Early => applied = Migration
  BY DEF SchemaInv, Early
<1>5. QED
  BY <1>1, <1>2, <1>3, <1>4 DEF SchemaInv

\* Every step keeps the schema in order.
LEMMA SchemaStep == Typed /\ SchemaInv /\ [Next]_vars => SchemaInv'
<1> SUFFICES ASSUME Typed, SchemaInv, [Next]_vars
             PROVE  SchemaInv'
  OBVIOUS
<1>1. CASE UNCHANGED vars
  BY <1>1 DEF vars, storeVars, SchemaInv
<1>2. ASSUME NEW p \in Proc, NEW command \in {"open", "init"}, Begin(p, command)
      PROVE  SchemaInv'
  <2>1. /\ UNCHANGED applied
        /\ pc' = [pc EXCEPT ![p] = "migrates"]
        /\ job' = [job EXCEPT ![p] = Fresh(command)]
    BY <1>2 DEF Begin, Goto
  <2>2. \A q \in Proc : q # p => job'[q] = job[q] /\ pc'[q] = pc[q]
    BY <2>1
  <2>3. job'[p].mine = {} /\ job'[p].next = 1 /\ pc'[p] = "migrates"
    BY <2>1 DEF Typed, Fresh
  <2>4. 1..(job'[p].next - 1) = {}
    BY <2>3
  <2>5. QED
    BY <2>1, <2>2, <2>3, <2>4 DEF SchemaInv, Early
<1>3. ASSUME NEW p \in Proc, CheckMigration(p)
      PROVE  SchemaInv'
  <2>1. CASE job[p].next \in applied
    <3>1. /\ UNCHANGED <<applied, pc>> /\ pc[p] = "migrates"
          /\ job' = [job EXCEPT ![p].next = @ + 1]
      BY <1>3, <2>1 DEF CheckMigration, storeVars
    <3>2. \A q \in Proc : job'[q].mine = job[q].mine
      BY <3>1 DEF Typed, JobType
    <3>3. \A q \in Proc : q # p => job'[q].next = job[q].next
      BY <3>1 DEF Typed, JobType
    <3>4. job'[p].next - 1 = job[p].next
      BY <3>1 DEF Typed, JobType
    <3>5. 1..job[p].next \subseteq applied
      BY <2>1 DEF SchemaInv
    <3>6. QED
      BY <3>1, <3>2, <3>3, <3>4, <3>5 DEF SchemaInv
  <2>2. CASE job[p].next \notin applied
    <3>1. UNCHANGED <<applied, job>> /\ pc' = [pc EXCEPT ![p] = "applies"] /\ pc[p] = "migrates"
      BY <1>3, <2>2 DEF CheckMigration, storeVars, Goto
    <3>2. QED
      BY <3>1 DEF Typed, SchemaInv, Early
  <2>3. QED
    BY <2>1, <2>2
<1>4. ASSUME NEW p \in Proc, ApplyMigration(p)
      PROVE  SchemaInv'
  <2> DEFINE m == job[p].next
  <2>1. /\ pc[p] = "applies" /\ m \notin applied /\ m \in Migration
        /\ applied' = applied \union {m}
        /\ pc' = [pc EXCEPT ![p] = "migrates"]
    BY <1>4 DEF ApplyMigration, Goto, Typed
  <2>2. job'[p].mine = job[p].mine \union {m} /\ job'[p].next = m + 1
    BY <1>4 DEF ApplyMigration, Typed, JobType
  <2>3. \A q \in Proc : q # p => job'[q] = job[q]
    BY <1>4 DEF ApplyMigration, Typed
  <2>4. 1..(m - 1) \subseteq applied
    BY <2>1 DEF SchemaInv
  <2>5. 1..m \subseteq applied'
    BY <2>1, <2>4 DEF Migration
  <2>6. \A q \in Proc : job[q].mine \subseteq applied /\ m \notin job[q].mine
    BY <2>1 DEF SchemaInv
  <2>7. \A q \in Proc : pc[q] \in Early
    BY <2>1 DEF SchemaInv
  <2>8. \A n \in applied' : 1..n \subseteq applied'
    BY <2>1, <2>5 DEF SchemaInv
  <2>9. \A q, r \in Proc : q # r => job'[q].mine \intersect job'[r].mine = {}
    BY <2>2, <2>3, <2>6 DEF SchemaInv
  <2>10. \A q \in Proc : job'[q].mine \subseteq applied'
    BY <2>1, <2>2, <2>3, <2>6
  <2>11. \A q \in Proc : pc'[q] \in {"migrates", "applies"}
                           => 1..(job'[q].next - 1) \subseteq applied'
    <3>1. job'[p].next - 1 = m
      BY <2>1, <2>2 DEF Migration
    <3>2. \A q \in Proc : q # p => pc'[q] = pc[q]
      BY <2>1
    <3>3. QED
      BY <2>1, <2>3, <2>5, <3>1, <3>2 DEF SchemaInv
  <2>12. \A q \in Proc : pc'[q] \in Early
    BY <2>1, <2>7 DEF Typed, Early
  <2>13. QED
    BY <2>8, <2>9, <2>10, <2>11, <2>12 DEF SchemaInv
<1>5. ASSUME NEW p \in Proc, Migrated(p)
      PROVE  SchemaInv'
  <2>1. UNCHANGED <<applied, job>> /\ pc[p] = "migrates" /\ job[p].next \notin Migration
    BY <1>5 DEF Migrated, storeVars
  <2>2. pc'[p] \notin {"migrates", "applies"} /\ \A q \in Proc : q # p => pc'[q] = pc[q]
    BY <1>5 DEF Migrated, Goto, AfterExport, Typed
  <2>3. job[p].next - 1 = 3
    BY <2>1 DEF Typed, JobType, Migration
  <2>4. applied = Migration
    BY <2>1, <2>3 DEF SchemaInv, Typed, Migration
  <2>5. QED
    BY <2>1, <2>2, <2>4 DEF SchemaInv, Early
<1>6. ASSUME NEW p \in Proc, ApplyFails(p) \/ Close(p) \/ Crash(p)
      PROVE  SchemaInv'
  <2>1. /\ UNCHANGED applied
        /\ pc' = [pc EXCEPT ![p] = "closed"]
        /\ job' = [job EXCEPT ![p] = Fresh("open")]
    BY <1>6 DEF ApplyFails, Close, Crash, Leave, Goto, storeVars
  <2>2. \A q \in Proc : q # p => job'[q] = job[q] /\ pc'[q] = pc[q]
    BY <2>1
  <2>3. job'[p].mine = {} /\ pc'[p] = "closed"
    BY <2>1 DEF Typed, Fresh
  <2>4. QED
    BY <2>1, <2>2, <2>3, SchemaFrame
<1>7. ASSUME NEW p \in Proc, NEW l \in Label \ Early, Goto(p, l), pc[p] \notin Early,
             UNCHANGED applied, \A q \in Proc : job'[q].mine = job[q].mine,
             \A q \in Proc : job'[q].next = job[q].next
      PROVE  SchemaInv'
  <2>1. \A q \in Proc : \/ pc'[q] = pc[q]
                        \/ pc[q] \notin Early /\ pc'[q] \notin {"migrates", "applies"}
    BY <1>7 DEF Goto, Typed, Early
  <2>2. QED
    BY <1>7, <2>1, SchemaFrame
<1>8. ASSUME NEW p \in Proc,
             \/ ListExportRows(p) \/ Exported(p)
             \/ ReadConfig(p) \/ TruncateConfig(p) \/ FillConfig(p)
             \/ SeekProject(p) \/ AddProject(p) \/ Reconcile(p)
      PROVE  SchemaInv'
  <2>1. UNCHANGED applied
    BY <1>8 DEF ListExportRows, Exported, ReadConfig, TruncateConfig, FillConfig, SeekProject,
                AddProject, Reconcile, storeVars
  <2>2. \A q \in Proc : job'[q].mine = job[q].mine /\ job'[q].next = job[q].next
    <3>1. CASE ListExportRows(p)
      BY <3>1 DEF ListExportRows, Typed, JobType
    <3>2. CASE ~ListExportRows(p)
      BY <1>8, <3>2 DEF Exported, ReadConfig, TruncateConfig, FillConfig, SeekProject,
                        AddProject, Reconcile
    <3>3. QED
      BY <3>1, <3>2
  <2>3. pc[p] \notin Early
    BY <1>8 DEF ListExportRows, Exported, ReadConfig, TruncateConfig, FillConfig, SeekProject,
                AddProject, Reconcile, Early
  <2>4. \E l \in Label \ Early : Goto(p, l)
    BY <1>8 DEF ListExportRows, Exported, ReadConfig, TruncateConfig, FillConfig, SeekProject,
                AddProject, Reconcile, AfterExport, AfterConfig, AfterProject, Label, Early
  <2>5. QED
    BY <1>7, <2>1, <2>2, <2>3, <2>4
<1>9. ASSUME NEW p \in Proc, NEW d \in Decision, ExportFile(p, d)
      PROVE  SchemaInv'
  <2>1. UNCHANGED <<applied, pc>>
    BY <1>9 DEF ExportFile, storeVars
  <2>2. job' = [job EXCEPT ![p] = [job[p] EXCEPT !.export = [@ EXCEPT ![d] = NoFile]]]
    BY <1>9 DEF ExportFile
  <2>3. \A q \in Proc : job'[q].mine = job[q].mine /\ job'[q].next = job[q].next
    BY <2>2 DEF Typed, JobType
  <2>4. QED
    BY <2>1, <2>3, SchemaFrame
<1>10. ASSUME NEW branch \in Branch, Checkout(branch)
       PROVE  SchemaInv'
  BY <1>10 DEF Checkout, storeVars, SchemaInv
<1>11. QED
  BY <1>1, <1>2, <1>3, <1>4, <1>5, <1>6, <1>8, <1>9, <1>10 DEF Next, Advance

\* Whoever is past migrate() has the schema of this build, and each migration
\* was applied once and in its order, by however many processes.
THEOREM SchemaStaysCurrent == Spec => []SchemaIsCurrent
<1>1. SchemaInv => SchemaIsCurrent
  BY DEF SchemaInv, SchemaIsCurrent, Early
<1>2. TypeInv /\ SchemaInv /\ [Next]_vars => (TypeInv /\ SchemaInv)'
  BY TypesKept, SchemaStep DEF TypeInv
<1>3. Spec => [](TypeInv /\ SchemaInv)
  BY InitTypeInv, InitSchemaInv, <1>2, PTL DEF Spec
<1>4. QED
  BY <1>1, <1>3, PTL

-------------------------------------------------------------------------------
(***************************************************************************)
(* The export.  Until its last file is written, the rows are those of the  *)
(* old store, and what is in no file of any branch is still to be written. *)
(* Branches exchange files, but a decision keeps the copies it has.        *)
(***************************************************************************)
RowsAreLegacy ==
  /\ \A d \in stored : replaces[d] = Legacy[d]
  /\ hidden = {}

Copies(d) == {file[d], away[d]}

FilesAreLegacy == \A d \in Decision : Copies(d) \subseteq {NoFile, Legacy[d]}
NothingIsWritten == \A d \in stored : Copies(d) = {NoFile}

\* What p has still to write is right and in no file, and nothing else is missing.
ExportIsRight(p) ==
  /\ \A d \in Decision :
       job[p].export[d] # NoFile => job[p].export[d] = Legacy[d] /\ Copies(d) = {NoFile}
  /\ \A d \in stored : job[p].export[d] = NoFile => Legacy[d] \in Copies(d)

ExportInv ==
  /\ \A p \in Proc : pc[p] \in {"exports", "writes files"} => MustExport(p)
  /\ Presence \notin applied => RowsAreLegacy /\ NothingIsWritten
  /\ ~disturbed =>
       /\ FilesAreLegacy
       /\ NothingScattered
       /\ ExportIsComplete
       /\ \A p \in Proc : Exporting(p) => RowsAreLegacy
       /\ \A p \in Proc : Exporting(p) /\ pc[p] # "writes files" => NothingIsWritten
       /\ \A p \in Proc : pc[p] = "writes files" => ExportIsRight(p)

LEMMA InitExportInv == Init => ExportInv
<1> SUFFICES ASSUME Init
             PROVE  ExportInv
  OBVIOUS
<1>1. \A p \in Proc : pc[p] = "closed"
  BY DEF Init
<1>2. RowsAreLegacy
  BY DEF Init, RowsAreLegacy
<1>3. FilesAreLegacy /\ NothingScattered /\ (Presence \notin applied => NothingIsWritten)
  BY DEF Init, FilesAreLegacy, NothingScattered, NothingIsWritten, Copies, NoFiles, Presence
<1>4. ExportIsComplete
  BY DEF Init, ExportIsComplete, Presence, NoFiles
<1>5. QED
  BY <1>1, <1>2, <1>3, <1>4 DEF ExportInv, Exporting

\* A step that leaves the rows and the copies of each decision alone, and after
\* which the same processes are in the middle of an export, or it is disturbed.
LEMMA ExportFrame ==
  ASSUME Typed, ExportInv, UNCHANGED <<stored, replaces, hidden>>,
         \A d \in Decision : {file'[d], away'[d]} = {file[d], away[d]},
         Presence \in applied => Presence \in applied',
         Presence \in applied' => Presence \in applied,
         disturbed => disturbed',
         ~disturbed' => \A p \in Proc : Exporting(p) <=> Exporting(p)',
         \A p \in Proc : pc'[p] \in {"exports", "writes files"} => MustExport(p)',
         \A p \in Proc : pc'[p] = "writes files" =>
           pc[p] = "writes files" /\ job'[p].export = job[p].export,
         \A p \in Proc : Exporting(p)' /\ pc'[p] # "writes files" => pc[p] # "writes files"
  PROVE  ExportInv'
<1>1. \A d \in Decision : Copies(d)' = Copies(d)
  BY DEF Copies
<1>2. /\ Presence \notin applied' => RowsAreLegacy'
      /\ Presence \notin applied' => NothingIsWritten'
  BY <1>1 DEF ExportInv, RowsAreLegacy, NothingIsWritten, Typed
<1>3. ASSUME ~disturbed'
      PROVE  /\ FilesAreLegacy' /\ NothingScattered' /\ ExportIsComplete'
             /\ \A p \in Proc : Exporting(p)' => RowsAreLegacy'
             /\ \A p \in Proc : Exporting(p)' /\ pc'[p] # "writes files" => NothingIsWritten'
             /\ \A p \in Proc : pc'[p] = "writes files" => ExportIsRight(p)'
  <2>1. FilesAreLegacy' /\ NothingScattered'
    BY <1>1, <1>3 DEF ExportInv, FilesAreLegacy, NothingScattered
  <2>2. ExportIsComplete'
    <3>1. SUFFICES ASSUME Presence \in applied, \A p \in Proc : ~Exporting(p), NEW d \in stored
                   PROVE  Legacy[d] \in {file'[d], away'[d]}
      BY <1>3 DEF ExportIsComplete
    <3>2. Legacy[d] \in {file[d], away[d]}
      BY <1>3, <3>1 DEF ExportInv, ExportIsComplete
    <3>3. QED
      BY <3>2 DEF Typed
  <2>3. \A p \in Proc : Exporting(p)' => RowsAreLegacy'
    BY <1>3 DEF ExportInv, RowsAreLegacy
  <2>4. \A p \in Proc : Exporting(p)' /\ pc'[p] # "writes files" => NothingIsWritten'
    BY <1>1, <1>3 DEF ExportInv, NothingIsWritten, Typed
  <2>5. \A p \in Proc : pc'[p] = "writes files" => ExportIsRight(p)'
    <3>1. SUFFICES ASSUME NEW p \in Proc, pc'[p] = "writes files"
                   PROVE  ExportIsRight(p)'
      OBVIOUS
    <3>2. ExportIsRight(p) /\ job'[p].export = job[p].export
      BY <1>3, <3>1 DEF ExportInv
    <3>3. QED
      BY <1>1, <3>2 DEF ExportIsRight, Typed
  <2>6. QED
    BY <2>1, <2>2, <2>3, <2>4, <2>5
<1>4. QED
  BY <1>2, <1>3 DEF ExportInv

\* Every step keeps the export right.
LEMMA ExportStep == Typed /\ SchemaInv /\ ExportInv /\ [Next]_vars => ExportInv'
<1> SUFFICES ASSUME Typed, SchemaInv, ExportInv, [Next]_vars
             PROVE  ExportInv'
  OBVIOUS
<1>1. CASE UNCHANGED vars
  <2>1. /\ UNCHANGED <<stored, replaces, hidden, file, away, applied, disturbed, pc, job>>
        /\ \A q \in Proc : Exporting(q) <=> Exporting(q)'
    BY <1>1 DEF vars, storeVars, Exporting
  <2>2. \A q \in Proc : pc'[q] \in {"exports", "writes files"} => MustExport(q)'
    BY <2>1 DEF ExportInv, MustExport
  <2>3. QED
    BY <2>1, <2>2, ExportFrame
<1>2. ASSUME NEW p \in Proc, NEW l \in {"closed", "migrates"}, NEW command \in {"open", "init"},
             UNCHANGED <<stored, replaces, hidden, file, away, applied>>,
             Goto(p, l), job' = [job EXCEPT ![p] = Fresh(command)],
             disturbed => disturbed', Exporting(p) => disturbed'
      PROVE  ExportInv'
  <2>1. \A q \in Proc : q # p => pc'[q] = pc[q] /\ job'[q] = job[q]
    BY <1>2 DEF Goto
  <2>2. pc'[p] = l /\ job'[p].mine = {}
    BY <1>2 DEF Goto, Typed, Fresh
  <2>3. ~disturbed' => \A q \in Proc : Exporting(q) <=> Exporting(q)'
    BY <1>2, <2>1, <2>2 DEF Exporting, MustExport
  <2>4. \A q \in Proc : pc'[q] \in {"exports", "writes files"} => MustExport(q)'
    BY <1>2, <2>1, <2>2 DEF ExportInv, MustExport
  <2>5. \A q \in Proc : Exporting(q)' /\ pc'[q] # "writes files" => pc[q] # "writes files"
    BY <2>1, <2>2 DEF Exporting
  <2>6. QED
    BY <1>2, <2>1, <2>2, <2>3, <2>4, <2>5, ExportFrame
<1>3. ASSUME NEW p \in Proc, NEW command \in {"open", "init"}, Begin(p, command)
      PROVE  ExportInv'
  BY <1>2, <1>3 DEF Begin, Exporting
<1>4. ASSUME NEW p \in Proc, ApplyFails(p) \/ Close(p) \/ Crash(p)
      PROVE  ExportInv'
  <2>1. /\ UNCHANGED <<stored, replaces, hidden, file, away, applied>>
        /\ Goto(p, "closed") /\ job' = [job EXCEPT ![p] = Fresh("open")]
    BY <1>4 DEF ApplyFails, Close, Crash, Leave, storeVars
  <2>2. disturbed => disturbed'
    BY <1>4 DEF ApplyFails, Close, Crash, Typed
  <2>3. Exporting(p) => disturbed'
    <3>1. CASE Close(p)
      BY <3>1 DEF Close, Exporting
    <3>2. CASE ApplyFails(p) \/ Crash(p)
      BY <3>2 DEF ApplyFails, Crash
    <3>3. QED
      BY <1>4, <3>1, <3>2
  <2>4. QED
    BY <1>2, <2>1, <2>2, <2>3
<1>5. ASSUME NEW p \in Proc, CheckMigration(p)
      PROVE  ExportInv'
  <2>1. UNCHANGED <<stored, replaces, hidden, file, away, applied, disturbed>>
    BY <1>5 DEF CheckMigration, storeVars
  <2>2. pc[p] = "migrates" /\ pc'[p] \in {"migrates", "applies"}
    BY <1>5 DEF CheckMigration, Goto, Typed
  <2>3. \A q \in Proc : q # p => pc'[q] = pc[q]
    BY <1>5 DEF CheckMigration, Goto, Typed
  <2>4. \A q \in Proc : job'[q].mine = job[q].mine /\ job'[q].export = job[q].export
    <3>1. UNCHANGED job \/ job' = [job EXCEPT ![p] = [job[p] EXCEPT !.next = @ + 1]]
      BY <1>5 DEF CheckMigration
    <3>2. QED
      BY <3>1 DEF Typed, JobType
  <2>5. \A q \in Proc : Exporting(q) <=> Exporting(q)'
    BY <2>2, <2>3, <2>4 DEF Exporting, MustExport
  <2>6. \A q \in Proc : pc'[q] \in {"exports", "writes files"} => MustExport(q)'
    BY <2>2, <2>3, <2>4 DEF ExportInv, MustExport
  <2>7. QED
    BY <2>1, <2>2, <2>3, <2>4, <2>5, <2>6, ExportFrame
<1>6. ASSUME NEW p \in Proc, ApplyMigration(p)
      PROVE  ExportInv'
  <2>1. /\ UNCHANGED <<stored, replaces, hidden, file, away, disturbed>>
        /\ applied' = applied \union {job[p].next}
        /\ job[p].next \notin applied
        /\ pc[p] = "applies" /\ pc' = [pc EXCEPT ![p] = "migrates"]
    BY <1>6 DEF ApplyMigration, Goto
  <2>2. job'[p].mine = job[p].mine \union {job[p].next}
    BY <1>6 DEF ApplyMigration, Typed, JobType
  <2>3. \A q \in Proc : q # p => pc'[q] = pc[q] /\ job'[q] = job[q]
    BY <1>6, <2>1 DEF ApplyMigration, Typed
  <2>4. pc'[p] = "migrates"
    BY <2>1 DEF Typed
  <2>5. \A q \in Proc : pc'[q] \in {"exports", "writes files"} => MustExport(q)'
    BY <2>3, <2>4 DEF ExportInv, MustExport
  <2>6. CASE job[p].next # Presence
    <3>1. \A q \in Proc : Exporting(q) <=> Exporting(q)'
      BY <2>1, <2>2, <2>3, <2>4, <2>6 DEF Exporting, MustExport
    <3>2. QED
      BY <2>1, <2>3, <2>4, <2>5, <2>6, <3>1, ExportFrame
  <2>7. CASE job[p].next = Presence
    <3>1. RowsAreLegacy' /\ NothingIsWritten'
      BY <2>1, <2>7 DEF ExportInv, RowsAreLegacy, NothingIsWritten, Copies
    <3>2. Exporting(p)'
      BY <2>2, <2>4, <2>7 DEF Exporting, MustExport
    <3>3. ExportIsComplete'
      BY <3>2 DEF ExportIsComplete
    <3>4. ~disturbed' => FilesAreLegacy' /\ NothingScattered'
      BY <2>1 DEF ExportInv, FilesAreLegacy, NothingScattered, Copies
    <3>5. \A q \in Proc : ~disturbed' /\ pc'[q] = "writes files" => ExportIsRight(q)'
      <4>1. SUFFICES ASSUME NEW q \in Proc, ~disturbed', pc'[q] = "writes files"
                     PROVE  ExportIsRight(q)'
        OBVIOUS
      <4>2. q # p
        BY <2>4, <4>1
      <4>3. job'[q] = job[q] /\ ExportIsRight(q)
        BY <2>1, <2>3, <4>1, <4>2 DEF ExportInv
      <4>4. QED
        BY <2>1, <4>3 DEF ExportIsRight, Copies
    <3>6. Presence \in applied'
      BY <2>1, <2>7
    <3>7. ~disturbed' =>
            /\ \A q \in Proc : Exporting(q)' => RowsAreLegacy'
            /\ \A q \in Proc : Exporting(q)' /\ pc'[q] # "writes files" => NothingIsWritten'
      BY <3>1
    <3>8. QED
      BY <2>5, <3>3, <3>4, <3>5, <3>6, <3>7, Zenon DEF ExportInv
  <2>8. QED
    BY <2>6, <2>7
<1>7. ASSUME NEW p \in Proc, Migrated(p)
      PROVE  ExportInv'
  <2>1. UNCHANGED <<stored, replaces, hidden, file, away, applied, disturbed, job>> /\ pc[p] = "migrates"
    BY <1>7 DEF Migrated, storeVars
  <2>2. IF MustExport(p) THEN pc'[p] = "exports"
        ELSE pc'[p] \in {"seeks project", "reads config"}
    BY <1>7 DEF Migrated, Goto, AfterExport, Typed
  <2>3. \A q \in Proc : q # p => pc'[q] = pc[q]
    BY <1>7 DEF Migrated, Goto, Typed
  <2>4. \A q \in Proc : Exporting(q) <=> Exporting(q)'
    BY <2>1, <2>2, <2>3 DEF Exporting, MustExport
  <2>5. \A q \in Proc : pc'[q] \in {"exports", "writes files"} => MustExport(q)'
    BY <2>1, <2>2, <2>3 DEF ExportInv, MustExport
  <2>6. QED
    BY <2>1, <2>2, <2>3, <2>4, <2>5, ExportFrame
<1>8. ASSUME NEW p \in Proc, ListExportRows(p)
      PROVE  ExportInv'
  <2>1. /\ UNCHANGED <<stored, replaces, hidden, file, away, applied, disturbed>>
        /\ pc[p] = "exports" /\ pc' = [pc EXCEPT ![p] = "writes files"]
    BY <1>8 DEF ListExportRows, storeVars, Goto
  <2>2. \A d \in Decision :
          job'[p].export[d] = IF d \in stored THEN replaces[d] ELSE NoFile
    BY <1>8 DEF ListExportRows, Typed, JobType
  <2>3. \A q \in Proc : job'[q].mine = job[q].mine /\ (q # p => job'[q] = job[q])
    BY <1>8 DEF ListExportRows, Typed, JobType
  <2>4. Exporting(p) /\ Exporting(p)' /\ MustExport(p)
    BY <2>1, <2>3 DEF ExportInv, Exporting, MustExport, Typed
  <2>5. \A q \in Proc : Exporting(q) <=> Exporting(q)'
    BY <2>1, <2>3, <2>4 DEF Exporting, MustExport, Typed
  <2>6. \A q \in Proc : pc'[q] \in {"exports", "writes files"} => MustExport(q)'
    BY <2>1, <2>3, <2>4 DEF ExportInv, MustExport, Typed
  <2>7. ~disturbed' => /\ FilesAreLegacy' /\ NothingScattered' /\ ExportIsComplete'
                       /\ RowsAreLegacy' /\ NothingIsWritten'
    BY <2>1, <2>4 DEF ExportInv, FilesAreLegacy, NothingScattered, ExportIsComplete, RowsAreLegacy,
                      NothingIsWritten, Copies
  <2>8. ~disturbed' => ExportIsRight(p)'
    BY <2>1, <2>2, <2>7 DEF ExportIsRight, NothingIsWritten, RowsAreLegacy, Typed
  <2>9. \A q \in Proc : ~disturbed' /\ pc'[q] = "writes files" => ExportIsRight(q)'
    <3>1. \A q \in Proc : pc'[q] = "writes files" => MustExport(q) /\ MustExport(p)
      BY <2>4, <2>3, <2>6 DEF MustExport
    <3>2. \A q \in Proc : pc'[q] = "writes files" => q = p
      BY <3>1 DEF MustExport, SchemaInv
    <3>3. QED
      BY <2>8, <3>2
  <2>10. Presence \notin applied' => RowsAreLegacy' /\ NothingIsWritten'
    BY <2>1 DEF ExportInv, RowsAreLegacy, NothingIsWritten, Copies
  <2>11. QED
    BY <2>6, <2>7, <2>9, <2>10 DEF ExportInv
<1>9. ASSUME NEW p \in Proc, NEW d \in Decision, ExportFile(p, d)
      PROVE  ExportInv'
  <2>1. /\ UNCHANGED <<stored, replaces, hidden, applied, disturbed, pc>>
        /\ pc[p] = "writes files"
        /\ file' = [file EXCEPT ![d] = job[p].export[d]]
        /\ UNCHANGED away
        /\ job[p].export[d] # NoFile
    BY <1>9 DEF ExportFile, storeVars, ToExport
  <2>2. job' = [job EXCEPT ![p] = [job[p] EXCEPT !.export = [@ EXCEPT ![d] = NoFile]]]
    BY <1>9 DEF ExportFile
  <2>3. \A q \in Proc : job'[q].mine = job[q].mine /\ (q # p => job'[q] = job[q])
    BY <2>2 DEF Typed, JobType
  <2>4. job'[p].export = [job[p].export EXCEPT ![d] = NoFile]
    BY <2>2 DEF Typed, JobType
  <2>5. job[p].export \in [Decision -> Replaced \union {NoFile}]
    BY DEF Typed, JobType
  <2>6. \A q \in Proc : Exporting(q) <=> Exporting(q)'
    BY <2>1, <2>3 DEF Exporting, MustExport
  <2>7. Exporting(p)
    BY <2>1 DEF ExportInv, Exporting, MustExport
  <2>8. \A q \in Proc : pc'[q] \in {"exports", "writes files"} => MustExport(q)'
    BY <2>1, <2>3 DEF ExportInv, MustExport
  <2>9. Presence \in applied'
    BY <2>1 DEF ExportInv, MustExport, SchemaInv
  <2>10. ASSUME ~disturbed'
         PROVE  /\ FilesAreLegacy' /\ NothingScattered' /\ ExportIsComplete' /\ RowsAreLegacy'
                /\ \A q \in Proc : Exporting(q)' => pc'[q] = "writes files"
                /\ \A q \in Proc : pc'[q] = "writes files" => ExportIsRight(q)'
    <3>1. /\ FilesAreLegacy /\ NothingScattered /\ RowsAreLegacy
          /\ \A q \in Proc : pc[q] = "writes files" => ExportIsRight(q)
      BY <2>1, <2>7, <2>10 DEF ExportInv
    <3>2. job[p].export[d] = Legacy[d] /\ Copies(d) = {NoFile}
      BY <2>1, <3>1 DEF ExportIsRight
    <3>3. /\ Copies(d)' = {NoFile, Legacy[d]}
          /\ \A e \in Decision : e # d => Copies(e)' = Copies(e)
      <4>1. away[d] = NoFile
        BY <3>2 DEF Copies
      <4>2. file'[d] = Legacy[d] /\ away'[d] = NoFile
        BY <2>1, <3>2, <4>1 DEF Typed
      <4>3. \A e \in Decision : e # d => file'[e] = file[e] /\ away'[e] = away[e]
        BY <2>1 DEF Typed
      <4>4. Copies(d)' = {NoFile, Legacy[d]}
        BY <4>2 DEF Copies
      <4>5. QED
        BY <4>3, <4>4 DEF Copies
    <3>4. FilesAreLegacy' /\ NothingScattered'
      <4>1. FilesAreLegacy'
        BY <3>1, <3>3 DEF FilesAreLegacy
      <4>2. \A e \in Decision : NoFile \in Copies(e)
        BY <2>1, <2>10, <3>1 DEF NothingScattered, Copies
      <4>3. \A e \in Decision : NoFile \in Copies(e)'
        BY <3>3, <4>2
      <4>4. NothingScattered'
        BY <4>3 DEF NothingScattered, Copies
      <4>5. QED
        BY <4>1, <4>4
    <3>5. ExportIsComplete'
      BY <2>6, <2>7 DEF ExportIsComplete
    <3>6. RowsAreLegacy'
      BY <2>1, <3>1 DEF RowsAreLegacy
    <3>7. \A q \in Proc : Exporting(q) => q = p
      BY <2>7 DEF Exporting, SchemaInv
    <3>8. ExportIsRight(p)'
      <4>1. ExportIsRight(p)
        BY <2>1, <3>1
      <4>2. \A e \in Decision : job'[p].export[e] = IF e = d THEN NoFile ELSE job[p].export[e]
        BY <2>4, <2>5
      <4>3. QED
        BY <2>1, <3>3, <4>1, <4>2 DEF ExportIsRight, Typed
    <3>9. \A q \in Proc : Exporting(q)' => q = p
      BY <2>6, <3>7
    <3>10. \A q \in Proc : pc'[q] = "writes files" => q = p
      BY <2>1, <3>7 DEF ExportInv, Exporting, MustExport
    <3>11. QED
      BY <2>1, <3>4, <3>5, <3>6, <3>8, <3>9, <3>10
  <2>11. QED
    BY <2>8, <2>9, <2>10 DEF ExportInv
<1>10. ASSUME NEW p \in Proc, Exported(p)
       PROVE  ExportInv'
  <2>1. /\ UNCHANGED <<stored, replaces, hidden, file, away, applied, disturbed, job>>
        /\ pc[p] = "writes files" /\ ToExport(p) = {}
        /\ pc'[p] \in {"seeks project", "reads config"}
        /\ \A q \in Proc : q # p => pc'[q] = pc[q]
    BY <1>10 DEF Exported, storeVars, Goto, AfterExport, Typed
  <2>2. \A q \in Proc : pc'[q] \in {"exports", "writes files"} => MustExport(q)'
    BY <2>1 DEF ExportInv, MustExport
  <2>3. /\ Presence \notin applied' => RowsAreLegacy' /\ NothingIsWritten'
        /\ \A d \in Decision : Copies(d)' = Copies(d)
    BY <2>1 DEF ExportInv, RowsAreLegacy, NothingIsWritten, Copies
  <2>4. ASSUME ~disturbed'
        PROVE  /\ FilesAreLegacy' /\ NothingScattered' /\ ExportIsComplete'
               /\ \A q \in Proc : Exporting(q)' => RowsAreLegacy'
               /\ \A q \in Proc : Exporting(q)' /\ pc'[q] # "writes files" => NothingIsWritten'
               /\ \A q \in Proc : pc'[q] = "writes files" => ExportIsRight(q)'
    <3>1. FilesAreLegacy /\ NothingScattered /\ ExportIsRight(p)
      BY <2>1, <2>4 DEF ExportInv
    <3>2. \A d \in stored : Legacy[d] \in {file[d], away[d]}
      BY <2>1, <3>1 DEF ExportIsRight, ToExport, Copies, Typed
    <3>3. FilesAreLegacy' /\ NothingScattered' /\ ExportIsComplete'
      BY <2>1, <3>1, <3>2 DEF FilesAreLegacy, NothingScattered, ExportIsComplete, Copies
    <3>4. \A q \in Proc : Exporting(q)' => Exporting(q) /\ pc'[q] = pc[q]
      BY <2>1 DEF Exporting
    <3>5. \A q \in Proc : Exporting(q)' => RowsAreLegacy'
      BY <2>1, <2>4, <3>4 DEF ExportInv, RowsAreLegacy
    <3>6. \A q \in Proc : Exporting(q)' /\ pc'[q] # "writes files" => NothingIsWritten'
      BY <2>1, <2>4, <3>4 DEF ExportInv, NothingIsWritten, Copies
    <3>7. \A q \in Proc : pc'[q] # "writes files"
      <4>1. \A q \in Proc : pc[q] = "writes files" => MustExport(q)
        BY DEF ExportInv
      <4>2. \A q \in Proc : pc[q] = "writes files" => q = p
        BY <2>1, <4>1 DEF MustExport, SchemaInv
      <4>3. QED
        BY <2>1, <4>2
    <3>8. QED
      BY <3>3, <3>5, <3>6, <3>7
  <2>5. QED
    BY <2>2, <2>3, <2>4 DEF ExportInv
<1>11. ASSUME NEW p \in Proc,
              \/ ReadConfig(p) \/ TruncateConfig(p) \/ FillConfig(p)
              \/ SeekProject(p) \/ AddProject(p)
       PROVE  ExportInv'
  <2>1. UNCHANGED <<stored, replaces, hidden, file, away, applied, disturbed, job>>
    BY <1>11 DEF ReadConfig, TruncateConfig, FillConfig, SeekProject, AddProject, storeVars
  <2>2. pc[p] \notin {"migrates", "applies", "exports", "writes files"}
    BY <1>11 DEF ReadConfig, TruncateConfig, FillConfig, SeekProject, AddProject
  <2>3. pc'[p] \notin {"migrates", "applies", "exports", "writes files"}
    BY <1>11 DEF ReadConfig, TruncateConfig, FillConfig, SeekProject, AddProject, Goto,
                 AfterConfig, AfterProject, Typed
  <2>4. \A q \in Proc : q # p => pc'[q] = pc[q]
    BY <1>11 DEF ReadConfig, TruncateConfig, FillConfig, SeekProject, AddProject, Goto, Typed
  <2>5. \A q \in Proc : Exporting(q) <=> Exporting(q)'
    BY <2>1, <2>2, <2>3, <2>4 DEF Exporting, MustExport
  <2>6. \A q \in Proc : pc'[q] \in {"exports", "writes files"} => MustExport(q)'
    BY <2>1, <2>3, <2>4 DEF ExportInv, MustExport
  <2>7. QED
    BY <2>1, <2>2, <2>3, <2>4, <2>5, <2>6, ExportFrame
<1>12. ASSUME NEW p \in Proc, Reconcile(p)
       PROVE  ExportInv'
  <2>1. /\ UNCHANGED <<applied, file, away, job>> /\ applied = Migration
        /\ pc[p] = "reconciles" /\ pc'[p] = "open"
        /\ \A q \in Proc : q # p => pc'[q] = pc[q]
    BY <1>12 DEF Reconcile, Goto, Typed, SchemaInv, Early
  <2>2. \A q \in Proc : Exporting(q) <=> Exporting(q)'
    BY <2>1 DEF Exporting, MustExport
  <2>3. \A q \in Proc : pc'[q] \in {"exports", "writes files"} => MustExport(q)'
    BY <2>1 DEF ExportInv, MustExport
  <2>4. CASE OnDisk = stored \ hidden
    <3>1. UNCHANGED <<stored, hidden, replaces, disturbed>>
      BY <1>12, <2>4 DEF Reconcile
    <3>2. QED
      BY <2>1, <2>2, <2>3, <3>1, ExportFrame
  <2>5. CASE OnDisk # stored \ hidden
    <3>1. /\ stored' = stored \union OnDisk
          /\ disturbed' = (disturbed \/ \E q \in Proc : Exporting(q))
      BY <1>12, <2>5 DEF Reconcile
    <3>2. ASSUME ~disturbed'
          PROVE  /\ FilesAreLegacy' /\ NothingScattered' /\ ExportIsComplete'
                 /\ \A q \in Proc : ~Exporting(q)' /\ pc'[q] # "writes files"
      <4>1. ~disturbed /\ \A q \in Proc : ~Exporting(q)
        BY <3>1, <3>2
      <4>2. FilesAreLegacy /\ NothingScattered /\ ExportIsComplete
        BY <4>1 DEF ExportInv
      <4>3. Presence \in applied
        BY <2>1 DEF Presence, Migration
      <4>4. \A d \in stored : Legacy[d] \in {file[d], away[d]}
        BY <4>1, <4>2, <4>3 DEF ExportIsComplete
      <4>5. \A d \in stored' : Legacy[d] \in {file'[d], away'[d]}
        BY <2>1, <3>1, <4>2, <4>4 DEF OnDisk, FilesAreLegacy, Copies
      <4>6. FilesAreLegacy' /\ NothingScattered' /\ ExportIsComplete'
        <5>1. FilesAreLegacy'
          BY <2>1, <4>2 DEF FilesAreLegacy, Copies
        <5>2. NothingScattered'
          BY <2>1, <3>2, <4>1, <4>2 DEF NothingScattered
        <5>3. ExportIsComplete'
          BY <4>5 DEF ExportIsComplete
        <5>4. QED
          BY <5>1, <5>2, <5>3
      <4>7. \A q \in Proc : ~Exporting(q)' /\ pc'[q] # "writes files"
        BY <2>2, <2>3, <4>1 DEF Exporting, MustExport
      <4>8. QED
        BY <4>6, <4>7
    <3>3. Presence \in applied'
      BY <2>1 DEF Presence, Migration
    <3>4. QED
      BY <2>3, <3>2, <3>3 DEF ExportInv
  <2>6. QED
    BY <2>4, <2>5
<1>13. ASSUME NEW branch \in Branch, Checkout(branch)
       PROVE  ExportInv'
  <2>1. UNCHANGED <<stored, replaces, hidden, applied, disturbed, pc, job>>
    BY <1>13 DEF Checkout, storeVars
  <2>2. \A d \in Decision : {file'[d], away'[d]} = {file[d], away[d]}
    BY <1>13 DEF Checkout
  <2>3. \A q \in Proc : Exporting(q) <=> Exporting(q)'
    BY <2>1 DEF Exporting
  <2>4. \A q \in Proc : pc'[q] \in {"exports", "writes files"} => MustExport(q)'
    BY <2>1 DEF ExportInv, MustExport
  <2>5. QED
    BY <2>1, <2>2, <2>3, <2>4, ExportFrame
<1>14. QED
  BY <1>1, <1>3, <1>4, <1>5, <1>6, <1>7, <1>8, <1>9, <1>10, <1>11, <1>12, <1>13
  DEF Next, Advance

LEMMA ExportAlwaysRight == Spec => [](Typed /\ SchemaInv /\ ExportInv)
<1>1. TypeInv /\ SchemaInv /\ ExportInv /\ [Next]_vars
        => (TypeInv /\ SchemaInv /\ ExportInv)'
  BY TypesKept, SchemaStep, ExportStep DEF TypeInv
<1>2. Spec => [](TypeInv /\ SchemaInv /\ ExportInv)
  BY InitTypeInv, InitSchemaInv, InitExportInv, <1>1, PTL DEF Spec
<1>3. TypeInv => Typed
  BY DEF TypeInv
<1>4. QED
  BY <1>2, <1>3, PTL

\* The decisions of a store that predates decision files all come to be files,
\* if only on another branch, that say what the store said, whoever else opens it
\* and whatever is checked out meanwhile, unless the export dies, throws or is
\* overtaken by a reconcile.
THEOREM ExportsComplete == Spec => []UndisturbedExportIsComplete
<1>1. ExportInv => UndisturbedExportIsComplete
  BY DEF ExportInv, UndisturbedExportIsComplete
<1>2. QED
  BY ExportAlwaysRight, <1>1, PTL

\* With the same exception no opening writes a file that another branch has,
\* whatever branches there are and however often they are switched.
THEOREM NothingIsScattered == Spec => []NothingScattered
<1>1. ExportInv => NothingScattered
  BY DEF ExportInv, NothingScattered
<1>2. QED
  BY ExportAlwaysRight, <1>1, PTL

===============================================================================
