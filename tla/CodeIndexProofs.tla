---------------------------- MODULE CodeIndexProofs ----------------------------
(***************************************************************************)
(* The code index, for any processes, paths, contents, extractors and      *)
(* number of edits.                                                        *)
(***************************************************************************)
EXTENDS CodeIndexProps, TLAPS

\* The file that run j has read and not stored yet.
Reading(j) == IF j.at = "read" THEN {j.reading} ELSE {}

\* What a run is to do is within its walk, a full run has an entry for whatever
\* it has read, and it is over when all of them are written.
JobInv(j) ==
  /\ j.todo \subseteq Sources(j)
  /\ j.gone \subseteq Path \ Sources(j)
  /\ j.at = "read" =>
       ~j.full /\ j.reading \in Sources(j) \ j.todo /\ j.content \in Content
  /\ j.at = "rebuilt" => j.full /\ j.todo = {}
  /\ j.at \in {"indexing", "rebuilt"} /\ j.full =>
       \A f \in Sources(j) \ j.todo : j.entries[f] # None

JobsInv == \A p \in Proc : JobInv(job[p])

-------------------------------------------------------------------------------
\* The steps of a run leave it a run.
LEMMA JobTyped ==
  /\ Idle \in JobType
  /\ \A j \in JobType, a \in {"idle", "walked", "indexing", "read", "rebuilt"} :
       [j EXCEPT !.at = a] \in JobType
  /\ \A j \in JobType, b \in BOOLEAN : [j EXCEPT !.full = b] \in JobType
  /\ \A j \in JobType, s \in [Path -> Optional(Stamps)] : [j EXCEPT !.sources = s] \in JobType
  /\ \A j \in JobType, k \in [Path -> Optional(RowType)] : [j EXCEPT !.known = k] \in JobType
  /\ \A j \in JobType, S \in SUBSET Path : [j EXCEPT !.todo = S] \in JobType
  /\ \A j \in JobType, S \in SUBSET Path : [j EXCEPT !.gone = S] \in JobType
  /\ \A j \in JobType, e \in [Path -> Optional(RowType)] : [j EXCEPT !.entries = e] \in JobType
  /\ \A j \in JobType, r \in Optional(Path) : [j EXCEPT !.reading = r] \in JobType
  /\ \A j \in JobType, c \in Optional(Content) : [j EXCEPT !.content = c] \in JobType
BY DEF Idle, JobType, Optional

LEMMA RowTyped ==
  ASSUME NEW j \in JobType, NEW f \in Sources(j), NEW c \in Content
  PROVE  Entry(j, f, c) \in RowType
BY CurrentAssumption DEF Entry, Row, RowType, JobType, Optional, Sources

\* Only p goes on.
LEMMA GoesOn ==
  ASSUME TypeOK, NEW p \in Proc, NEW j \in JobType, Go(p, j)
  PROVE  /\ job' \in [Proc -> JobType]
         /\ job'[p] = j
         /\ \A q \in Proc : q # p => job'[q] = job[q]
         /\ UNCHANGED <<tree, clock, overlapped>>
BY DEF Go, TypeOK

LEMMA WalkedTyped == TypeOK => Walked \in [Path -> Optional(Stamps)]
BY DEF TypeOK, Walked, Optional

\* No row is mistaken for none.
LEMMA RowIsSome == \A r \in RowType : r # None
BY NoneAssumption, LastStampAssumption DEF RowType, Stamps

-------------------------------------------------------------------------------
LEMMA InitTyped == Init => TypeOK /\ JobsInv
<1> SUFFICES ASSUME Init
             PROVE  TypeOK /\ JobsInv
  OBVIOUS
<1>1. tree \in [Path -> Optional([stamp : Stamps, content : Content])]
  BY LastStampAssumption DEF Init, Optional, SourceFile, Stamps
<1>2. rows \in [Path -> Optional(RowType)] /\ version \in Optional(Version)
  <2>1. CASE rows = NoRows /\ version = None
    BY <2>1 DEF NoRows, Optional
  <2>2. CASE version \in Version /\ rows = Indexed(tree, version)
    BY <1>1, <2>2 DEF Indexed, Row, Files, RowType, Optional
  <2>3. QED
    BY <2>1, <2>2 DEF Init
<1>3. job \in [Proc -> JobType]
  BY JobTyped DEF Init
<1>4. clock \in Stamps /\ overlapped \in BOOLEAN
  <2>1. clock = 0
    BY Zenon DEF Init
  <2>2. overlapped \in BOOLEAN
    BY Zenon DEF Init
  <2>3. QED
    BY <2>1, <2>2, LastStampAssumption DEF Stamps
<1>5. JobsInv
  <2>1. JobInv(Idle)
    BY DEF JobInv, Idle
  <2>2. \A p \in Proc : job[p] = Idle
    BY DEF Init
  <2>3. QED
    BY <2>1, <2>2 DEF JobsInv
<1>6. QED
  BY <1>1, <1>2, <1>3, <1>4, <1>5 DEF TypeOK

\* What an action of a run has to give for the types to be kept.
LEMMA RunTyped ==
  ASSUME TypeOK, JobsInv, NEW p \in Proc, NEW j \in JobType, Go(p, j), JobInv(j),
         rows' \in [Path -> Optional(RowType)], version' \in Optional(Version)
  PROVE  (TypeOK /\ JobsInv)'
BY GoesOn DEF TypeOK, JobsInv

LEMMA ReturnTyped ==
  ASSUME TypeOK, JobsInv, NEW p \in Proc, Return(p),
         rows' \in [Path -> Optional(RowType)], version' \in Optional(Version)
  PROVE  (TypeOK /\ JobsInv)'
<1>1. JobInv(Idle)
  BY DEF JobInv, Idle
<1>2. QED
  BY <1>1, JobTyped, RunTyped DEF Return

\* Every step keeps the types, and the runs in order.
LEMMA TypeStep == TypeOK /\ JobsInv /\ [Next]_vars => (TypeOK /\ JobsInv)'
<1> SUFFICES ASSUME TypeOK, JobsInv, [Next]_vars
             PROVE  (TypeOK /\ JobsInv)'
  OBVIOUS
<1>1. CASE UNCHANGED vars
  BY <1>1 DEF vars, TypeOK, JobsInv
<1>2. ASSUME NEW f \in Path, NEW c \in Content, Edit(f, c)
      PROVE  (TypeOK /\ JobsInv)'
  <2>1. clock' \in Stamps /\ UNCHANGED <<rows, version, job, overlapped>>
    BY <1>2, LastStampAssumption DEF Edit, TypeOK, Stamps, codeDb
  <2>2. tree' = [tree EXCEPT ![f] = SourceFile(clock', c)]
    BY <1>2 DEF Edit
  <2>3. SourceFile(clock', c) \in [stamp : Stamps, content : Content]
    BY <2>1 DEF SourceFile
  <2>4. tree' \in [Path -> Optional([stamp : Stamps, content : Content])]
    BY <2>2, <2>3 DEF TypeOK, Optional
  <2>5. QED
    BY <2>1, <2>4 DEF TypeOK, JobsInv
<1>3. ASSUME NEW f \in Path, Delete(f)
      PROVE  (TypeOK /\ JobsInv)'
  <2>1. clock' \in Stamps /\ UNCHANGED <<rows, version, job, overlapped>>
    BY <1>3, LastStampAssumption DEF Delete, TypeOK, Stamps, codeDb
  <2>2. tree' \in [Path -> Optional([stamp : Stamps, content : Content])]
    BY <1>3 DEF Delete, TypeOK, Optional
  <2>3. QED
    BY <2>1, <2>2 DEF TypeOK, JobsInv
<1>4. ASSUME NEW p \in Proc, NEW force \in BOOLEAN, Walk(p, force)
      PROVE  (TypeOK /\ JobsInv)'
  <2> DEFINE j == [[[Idle EXCEPT !.at = "walked"] EXCEPT !.full = force] EXCEPT !.sources = Walked]
  <2>1. j \in JobType
    BY JobTyped, WalkedTyped
  <2>2. job' = [job EXCEPT ![p] = j] /\ UNCHANGED <<tree, clock, rows, version>>
    BY <1>4 DEF Walk, codeDb, Idle
  <2>3. JobInv(j)
    BY DEF JobInv, Idle
  <2>4. overlapped' \in BOOLEAN
    BY <1>4 DEF Walk, TypeOK
  <2>5. QED
    BY <2>1, <2>2, <2>3, <2>4 DEF TypeOK, JobsInv
<1>5. ASSUME NEW p \in Proc, Plan(p)
      PROVE  (TypeOK /\ JobsInv)'
  <2> DEFINE full == job[p].full \/ NeedsFullIndex
             S == Sources(job[p])
             stale == Drift(job[p].sources, rows)
             todo == IF full THEN S ELSE stale \intersect S
             gone == IF full THEN {} ELSE stale \ S
             known == IF full THEN NoRows ELSE rows
             j == [[[[[job[p] EXCEPT !.at = "indexing"] EXCEPT !.full = full]
                     EXCEPT !.known = known] EXCEPT !.todo = todo] EXCEPT !.gone = gone]
  <2>1. todo \in SUBSET Path /\ gone \in SUBSET Path /\ full \in BOOLEAN
    BY DEF Drift, Sources, NeedsFullIndex, TypeOK, JobType
  <2>2. known \in [Path -> Optional(RowType)]
    BY DEF NoRows, TypeOK, Optional
  <2>3. job[p] \in JobType
    BY DEF TypeOK
  <2>4. j \in JobType
    BY <2>1, <2>2, <2>3, JobTyped
  <2>5. Go(p, j) /\ UNCHANGED <<rows, version>>
    BY <1>5, <2>3 DEF Plan, codeDb, JobType
  <2>6. j.at = "indexing" /\ j.todo = todo /\ j.gone = gone /\ j.full = full /\ Sources(j) = S
    BY <2>3 DEF JobType, Sources
  <2>7. todo \subseteq S /\ gone \subseteq Path \ S /\ (full => S \ todo = {})
    BY <2>1
  <2> HIDE DEF full, todo, gone, known, j
  <2>8. JobInv(j)
    BY <2>6, <2>7 DEF JobInv
  <2>9. QED
    BY <2>4, <2>5, <2>8, RunTyped DEF TypeOK
<1>6. ASSUME NEW p \in Proc, NEW f \in Path, ReadForRebuild(p, f)
      PROVE  (TypeOK /\ JobsInv)'
  <2> DEFINE c == tree[f].content
             e == [job[p].entries EXCEPT ![f] = Entry(job[p], f, c)]
             todo == job[p].todo \ {f}
             j == [[job[p] EXCEPT !.todo = todo] EXCEPT !.entries = e]
  <2>1. job[p] \in JobType /\ JobInv(job[p])
    BY DEF TypeOK, JobsInv
  <2>2. f \in Sources(job[p]) /\ c \in Content /\ todo \in SUBSET Path
    BY <1>6, <2>1 DEF ReadForRebuild, TypeOK, Optional, JobInv, JobType
  <2>3. Entry(job[p], f, c) \in RowType
    BY <2>1, <2>2, RowTyped
  <2>4. e \in [Path -> Optional(RowType)]
    BY <2>1, <2>3 DEF JobType, Optional
  <2>5. j \in JobType
    BY <2>1, <2>2, <2>4, JobTyped
  <2>6. Go(p, j) /\ UNCHANGED <<rows, version>>
    BY <1>6, <2>1 DEF ReadForRebuild, codeDb, JobType
  <2>7. /\ j.at = job[p].at /\ j.full = job[p].full /\ j.todo = todo /\ j.gone = job[p].gone
        /\ j.entries = e /\ Sources(j) = Sources(job[p]) /\ j.reading = job[p].reading
    BY <2>1 DEF JobType, Sources
  <2>8. \A g \in Path : e[g] = IF g = f THEN Entry(job[p], f, c) ELSE job[p].entries[g]
    BY <2>1 DEF JobType
  <2>9. job[p].at = "indexing" /\ Entry(job[p], f, c) # None
    BY <1>6, <2>3, RowIsSome DEF ReadForRebuild
  <2>10. JobInv(j)
    BY <2>1, <2>7, <2>8, <2>9 DEF JobInv, Sources
  <2>11. QED
    BY <2>5, <2>6, <2>10, RunTyped DEF TypeOK
<1>7. ASSUME NEW p \in Proc, NEW f \in Path, ReadChanged(p, f)
      PROVE  (TypeOK /\ JobsInv)'
  <2> DEFINE c == tree[f].content
             todo == job[p].todo \ {f}
             j == [[[[job[p] EXCEPT !.at = "read"] EXCEPT !.todo = todo]
                     EXCEPT !.reading = f] EXCEPT !.content = c]
  <2>1. job[p] \in JobType /\ JobInv(job[p])
    BY DEF TypeOK, JobsInv
  <2>2. f \in Sources(job[p]) /\ c \in Content /\ todo \in SUBSET Path /\ ~job[p].full
    BY <1>7, <2>1 DEF ReadChanged, TypeOK, Optional, JobInv, JobType
  <2>3. c \in Optional(Content) /\ f \in Optional(Path)
    BY <2>2 DEF Optional
  <2>4. j \in JobType
    BY <2>1, <2>2, <2>3, JobTyped
  <2>5. Go(p, j) /\ UNCHANGED <<rows, version>>
    BY <1>7, <2>1 DEF ReadChanged, codeDb, JobType
  <2>6. /\ j.at = "read" /\ j.full = job[p].full /\ j.todo = todo /\ j.gone = job[p].gone
        /\ j.reading = f /\ j.content = c /\ Sources(j) = Sources(job[p])
    BY <2>1 DEF JobType, Sources
  <2>7. JobInv(j)
    BY <2>1, <2>2, <2>6 DEF JobInv
  <2>8. QED
    BY <2>4, <2>5, <2>7, RunTyped DEF TypeOK
<1>8. ASSUME NEW p \in Proc, NEW f \in Path, ReadFails(p, f)
      PROVE  (TypeOK /\ JobsInv)'
  BY <1>8, ReturnTyped DEF ReadFails, codeDb, TypeOK
<1>9. ASSUME NEW p \in Proc, Touch(p) \/ Upsert(p)
      PROVE  (TypeOK /\ JobsInv)'
  <2> DEFINE f == job[p].reading
             c == job[p].content
             j == [[[job[p] EXCEPT !.at = "indexing"] EXCEPT !.reading = None]
                     EXCEPT !.content = None]
  <2>1. job[p] \in JobType /\ JobInv(job[p]) /\ job[p].at = "read"
    BY <1>9 DEF TypeOK, JobsInv, Touch, Upsert
  <2>2. f \in Sources(job[p]) /\ c \in Content /\ ~job[p].full
    BY <2>1 DEF JobInv
  <2>3. None \in Optional(Path) /\ None \in Optional(Content)
    BY DEF Optional
  <2>4. j \in JobType
    BY <2>1, <2>3, JobTyped
  <2>5. Go(p, j) /\ UNCHANGED version
    BY <1>9, <2>1 DEF Touch, Upsert, JobType
  <2>6. /\ j.at = "indexing" /\ j.full = job[p].full /\ j.todo = job[p].todo
        /\ j.gone = job[p].gone /\ Sources(j) = Sources(job[p])
    BY <2>1 DEF JobType, Sources
  <2>7. JobInv(j)
    BY <2>1, <2>2, <2>6 DEF JobInv
  <2>8. rows' \in [Path -> Optional(RowType)]
    <3>1. CASE Upsert(p)
      <4>1. Entry(job[p], f, c) \in RowType
        BY <2>1, <2>2, RowTyped
      <4>2. QED
        BY <3>1, <4>1 DEF Upsert, TypeOK, Optional
    <3>2. CASE Touch(p)
      <4>1. CASE rows[f] = None
        BY <3>2, <4>1 DEF Touch, TypeOK
      <4>2. CASE rows[f] # None
        <5>1. rows[f] \in RowType /\ job[p].sources[f] \in Stamps /\ f \in Path
          BY <2>1, <2>2, <4>2 DEF TypeOK, Optional, JobType, Sources
        <5>2. [[rows[f] EXCEPT !.stamp = job[p].sources[f]] EXCEPT !.hash = c] \in RowType
          BY <2>2, <5>1 DEF RowType
        <5>3. rows' = [rows EXCEPT ![f] =
                        [[rows[f] EXCEPT !.stamp = job[p].sources[f]] EXCEPT !.hash = c]]
          BY <3>2, <4>2, <5>1 DEF Touch, TypeOK
        <5>4. QED
          BY <5>2, <5>3 DEF TypeOK, Optional
      <4>3. QED
        BY <4>1, <4>2
    <3>3. QED
      BY <1>9, <3>1, <3>2
  <2>9. QED
    BY <2>4, <2>5, <2>7, <2>8, RunTyped DEF TypeOK
<1>10. ASSUME NEW p \in Proc, NEW f \in Path, Remove(p, f)
       PROVE  (TypeOK /\ JobsInv)'
  <2> DEFINE gone == job[p].gone \ {f}
             j == [job[p] EXCEPT !.gone = gone]
  <2>1. job[p] \in JobType /\ JobInv(job[p]) /\ gone \in SUBSET Path
    BY DEF TypeOK, JobsInv, JobType
  <2>2. j \in JobType
    BY <2>1, JobTyped
  <2>3. Go(p, j) /\ UNCHANGED version
    BY <1>10 DEF Remove
  <2>4. /\ j.at = job[p].at /\ j.full = job[p].full /\ j.todo = job[p].todo /\ j.gone = gone
        /\ j.reading = job[p].reading /\ j.content = job[p].content
        /\ j.entries = job[p].entries /\ Sources(j) = Sources(job[p])
    BY <2>1 DEF JobType, Sources
  <2>5. JobInv(j)
    BY <2>1, <2>4 DEF JobInv
  <2>6. rows' \in [Path -> Optional(RowType)]
    BY <1>10 DEF Remove, TypeOK, Optional
  <2>7. QED
    BY <2>2, <2>3, <2>5, <2>6, RunTyped DEF TypeOK
<1>11. ASSUME NEW p \in Proc, FinishIncremental(p) \/ Crash(p)
       PROVE  (TypeOK /\ JobsInv)'
  BY <1>11, ReturnTyped DEF FinishIncremental, Crash, codeDb, TypeOK
<1>12. ASSUME NEW p \in Proc, Rebuild(p)
       PROVE  (TypeOK /\ JobsInv)'
  <2> DEFINE j == [job[p] EXCEPT !.at = "rebuilt"]
  <2>1. job[p] \in JobType /\ JobInv(job[p])
    BY DEF TypeOK, JobsInv
  <2>2. j \in JobType
    BY <2>1, JobTyped
  <2>3. Go(p, j) /\ UNCHANGED version
    BY <1>12 DEF Rebuild
  <2>4. /\ j.at = "rebuilt" /\ j.full = job[p].full /\ j.todo = job[p].todo
        /\ j.gone = job[p].gone /\ j.entries = job[p].entries /\ Sources(j) = Sources(job[p])
    BY <2>1 DEF JobType, Sources
  <2>5. JobInv(j)
    BY <1>12, <2>1, <2>4 DEF JobInv, Rebuild
  <2>6. rows' \in [Path -> Optional(RowType)]
    BY <1>12, <2>1 DEF Rebuild, JobType
  <2>7. QED
    BY <2>2, <2>3, <2>5, <2>6, RunTyped DEF TypeOK
<1>13. ASSUME NEW p \in Proc, Stamp(p)
       PROVE  (TypeOK /\ JobsInv)'
  BY <1>13, ReturnTyped, CurrentAssumption DEF Stamp, TypeOK, Optional
<1>14. QED
  BY <1>1, <1>2, <1>3, <1>4, <1>5, <1>6, <1>7, <1>8, <1>9, <1>10, <1>11, <1>12, <1>13
     DEF Next, Advance, Completes

LEMMA TypesKept == Spec => [](TypeOK /\ JobsInv)
BY InitTyped, TypeStep, PTL DEF Spec

\* However many processes index a tree that moves, the variables are typed.
THEOREM TypeCorrect == Spec => []TypeOK
BY TypesKept, PTL

-------------------------------------------------------------------------------
(***************************************************************************)
(* What runs hold and the store says of contents.                          *)
(***************************************************************************)

\* The file at f is the one that run j has walked.
Unedited(j, f) == tree[f] # None /\ tree[f].stamp = j.sources[f]

\* A run has extracted what it read, and what it read is what the file says,
\* unless the file was edited after the walk.
ContentInv(j) ==
  /\ \A f \in Sources(j) : j.sources[f] <= clock
  /\ \A f \in Path : j.entries[f] # None =>
       /\ f \in Sources(j)
       /\ \E c \in Content :
            j.entries[f] = Entry(j, f, c) /\ (Unedited(j, f) => c = tree[f].content)
  /\ j.at = "read" /\ Unedited(j, j.reading) => j.content = tree[j.reading].content

\* No stamp is newer than the clock, so that an edit's is new to all.
ClockInv ==
  \A f \in Path :
    /\ tree[f] # None => tree[f].stamp <= clock
    /\ rows[f] # None => rows[f].stamp <= clock

\* From a rebuild on, all rows are this build's, before they are stamped so.
ExtractorInv ==
  version = Current \/ (\E p \in Proc : job[p].at = "rebuilt")
    => \A f \in Files(rows) : rows[f].by = Current

\* What is left to do is all that the rows lack of the walk.
RunInv(j) ==
  /\ j.at \in {"indexing", "read"} /\ ~j.full =>
       /\ \A f \in j.todo \union Reading(j) : j.known[f] = rows[f]
       /\ Drift(j.sources, rows) \subseteq j.todo \union j.gone \union Reading(j)
  /\ j.at = "rebuilt" => Drift(j.sources, rows) = {}

OneRun ==
  \A p, q \in Proc : job[p].at # "idle" /\ job[q].at # "idle" => p = q

RowsRight ==
  \A f \in Files(rows) :
    /\ rows[f].hash = rows[f].extracted
    /\ Clean(f) => rows[f].extracted = tree[f].content

SerialInv == ~overlapped => OneRun /\ RowsRight /\ \A p \in Proc : RunInv(job[p])

IInv ==
  /\ TypeOK /\ JobsInv
  /\ ClockInv /\ \A p \in Proc : ContentInv(job[p])
  /\ ExtractorInv /\ SerialInv

-------------------------------------------------------------------------------
\* An idle run holds nothing.
LEMMA IdleHolds ==
  /\ Idle.at = "idle" /\ Sources(Idle) = {} /\ Reading(Idle) = {}
  /\ ContentInv(Idle) /\ ContentInv(Idle)'
  /\ RunInv(Idle) /\ RunInv(Idle)'
BY DEF Idle, Sources, Reading, ContentInv, RunInv

LEMMA RowFields ==
  ASSUME NEW s, NEW c, NEW files, NEW v
  PROVE  /\ Row(s, c, files, v).stamp = s /\ Row(s, c, files, v).by = v
         /\ Row(s, c, files, v).hash = c /\ Row(s, c, files, v).extracted = c
BY DEF Row

LEMMA InitIInv == Init => IInv
<1> SUFFICES ASSUME Init
             PROVE  IInv
  OBVIOUS
<1>1. TypeOK /\ JobsInv
  BY InitTyped
<1>2. \A p \in Proc : job[p] = Idle
  BY Zenon DEF Init
<1>3. clock = 0
  BY Zenon DEF Init
<1>4. \A f \in Path : tree[f] # None => tree[f].stamp = 0
  BY DEF Init, SourceFile
<1>5. \/ rows = NoRows /\ version = None
      \/ version \in Version /\ rows = Indexed(tree, version)
  BY Zenon DEF Init
<1>6. \A f \in Files(rows) :
        /\ tree[f] # None
        /\ rows[f] = Row(tree[f].stamp, tree[f].content, Files(tree), version)
  BY <1>5 DEF NoRows, Indexed, Files
<1>7. ClockInv
  <2>1. \A f \in Files(rows) : rows[f].stamp = tree[f].stamp
    BY <1>6, RowFields
  <2>2. \A f \in Files(rows) : rows[f].stamp = 0
    BY <1>4, <1>6, <2>1 DEF Files
  <2>3. \A f \in Path : /\ tree[f] # None => tree[f].stamp <= 0
                        /\ rows[f] # None => rows[f].stamp <= 0
    BY <1>4, <2>2 DEF Files
  <2>4. QED
    BY <1>3, <2>3 DEF ClockInv
<1>8. \A p \in Proc : ContentInv(job[p]) /\ RunInv(job[p])
  BY <1>2, IdleHolds
<1>9. ExtractorInv
  <2>1. \A p \in Proc : job[p].at = "idle"
    BY <1>2, IdleHolds
  <2>2. \A f \in Files(rows) : rows[f].by = version
    BY <1>6, RowFields
  <2>3. QED
    BY <2>1, <2>2 DEF ExtractorInv
<1>10. RowsRight /\ OneRun
  <2>1. \A p \in Proc : job[p].at = "idle"
    BY <1>2, IdleHolds
  <2>2. \A f \in Files(rows) : rows[f].hash = tree[f].content /\ rows[f].extracted = tree[f].content
    BY <1>6, RowFields
  <2>3. QED
    BY <2>1, <2>2 DEF RowsRight, OneRun
<1>11. QED
  BY <1>1, <1>7, <1>8, <1>9, <1>10 DEF IInv, SerialInv

\* What a run holds stays right when it goes on with the same walk and entries.
LEMMA ContentKept ==
  ASSUME NEW i \in JobType, NEW j \in JobType, ContentInv(i), UNCHANGED <<tree, clock>>,
         j.sources = i.sources, j.entries = i.entries,
         j.at = "read" /\ Unedited(j, j.reading) => j.content = tree[j.reading].content
  PROVE  ContentInv(j)'
<1>1. Sources(j) = Sources(i)
  BY DEF Sources
<1>2. \A f, c : Entry(j, f, c) = Entry(i, f, c)
  BY <1>1 DEF Entry
<1>3. \A f : (Unedited(j, f) <=> Unedited(i, f)) /\ (Unedited(j, f)' <=> Unedited(j, f))
  BY DEF Unedited
<1>4. QED
  BY <1>1, <1>2, <1>3 DEF ContentInv

\* What a run has gathered stays good when another process moves.
LEMMA OthersKeepContent ==
  ASSUME IInv, NEW q \in Proc, job'[q] = job[q], UNCHANGED <<tree, clock>>
  PROVE  ContentInv(job[q])'
<1>1. PICK k \in JobType : k = job[q] /\ k = job'[q]
  BY DEF IInv, TypeOK
<1>2. ContentInv(k)
  BY <1>1 DEF IInv
<1>3. ContentInv(k)'
  BY <1>2 DEF ContentInv, Unedited, Entry, Sources
<1>4. QED
  BY <1>1, <1>3

\* Moving the tree: the stamp is new, so nothing that was there is taken for it.
LEMMA EditStep ==
  ASSUME IInv, NEW f \in Path, Delete(f) \/ \E c \in Content : Edit(f, c),
         TypeOK', JobsInv'
  PROVE  IInv'
<1>1. /\ UNCHANGED <<rows, version, job, overlapped>>
      /\ clock' = clock + 1 /\ clock \in Nat
      /\ \A g \in Path : g # f => tree'[g] = tree[g]
      /\ tree'[f] = None \/ tree'[f].stamp = clock + 1
  BY LastStampAssumption DEF IInv, TypeOK, Delete, Edit, SourceFile, codeDb, Stamps
<1>2. ClockInv'
  <2>1. \A g \in Path : /\ tree[g] # None => tree[g].stamp \in Nat
                        /\ rows[g] # None => rows[g].stamp \in Nat
    BY LastStampAssumption DEF IInv, TypeOK, Optional, RowType, Stamps
  <2>2. QED
    BY <1>1, <2>1 DEF IInv, ClockInv
<1>3. ASSUME NEW p \in Proc
      PROVE  ContentInv(job[p])' /\ (RunInv(job[p])' <=> RunInv(job[p]))
  <2> DEFINE j == job[p]
  <2>1. j' = j /\ ContentInv(j) /\ JobInv(j) /\ j \in JobType
    BY <1>1 DEF IInv, JobsInv, TypeOK
  <2>2. \A g \in Sources(j) : j.sources[g] \in Nat /\ j.sources[g] <= clock
    BY <2>1, LastStampAssumption DEF ContentInv, Sources, JobType, Optional, Stamps
  <2>3. \A g \in Sources(j) : Unedited(j, g)' => g # f /\ Unedited(j, g) /\ tree'[g] = tree[g]
    BY <1>1, <2>1, <2>2 DEF Unedited, Sources
  <2>4. j.at = "read" => j.reading \in Sources(j)
    BY <2>1 DEF JobInv
  <2>5. \A g \in Path : j.entries[g] # None =>
          /\ g \in Sources(j)
          /\ \E c \in Content :
               j.entries[g] = Entry(j, g, c) /\ (Unedited(j, g)' => c = tree'[g].content)
    BY <2>1, <2>3 DEF ContentInv
  <2>6. Sources(j)' = Sources(j) /\ \A g \in Path, c \in Content : Entry(j, g, c)' = Entry(j, g, c)
    BY <2>1 DEF Sources, Entry, Row
  <2>7. \A g \in Sources(j)' : j'.sources[g] <= clock'
    BY <1>1, <2>1, <2>2, <2>6
  <2>8. j'.at = "read" /\ Unedited(j, j.reading)' => j'.content = tree'[j'.reading].content
    BY <2>1, <2>3, <2>4 DEF ContentInv
  <2>9. ContentInv(j)'
    BY <2>1, <2>5, <2>6, <2>7, <2>8 DEF ContentInv
  <2>10. RunInv(j)' <=> RunInv(j)
    BY <1>1, <2>1 DEF RunInv, Drift, IsUnchanged, Reading
  <2>11. QED
    BY <2>9, <2>10
<1>4. ExtractorInv'
  BY <1>1 DEF IInv, ExtractorInv, Files
<1>5. SerialInv'
  <2>1. OneRun' <=> OneRun
    BY <1>1 DEF OneRun
  <2>2. RowsRight => RowsRight'
    <3> SUFFICES ASSUME RowsRight, NEW g \in Files(rows)
                 PROVE  /\ rows[g].hash = rows[g].extracted
                        /\ Clean(g)' => rows[g].extracted = tree'[g].content
      BY <1>1 DEF RowsRight, Files
    <3>1. g \in Path /\ rows[g].stamp \in Nat /\ rows[g].stamp <= clock
      BY LastStampAssumption DEF IInv, ClockInv, TypeOK, Optional, RowType, Stamps, Files
    <3>2. Clean(g)' => g # f /\ Clean(g) /\ tree'[g] = tree[g]
      BY <1>1, <3>1 DEF Clean
    <3>3. QED
      BY <3>2 DEF RowsRight
  <2>3. QED
    BY <1>1, <1>3, <2>1, <2>2 DEF IInv, SerialInv
<1>6. QED
  BY <1>2, <1>3, <1>4, <1>5 DEF IInv

\* The end of a run, which writes nothing any more.
LEMMA ReturnStep ==
  ASSUME IInv, NEW p \in Proc, Return(p), UNCHANGED rows,
         UNCHANGED version \/ job[p].at = "rebuilt",
         TypeOK', JobsInv'
  PROVE  IInv'
<1>1. /\ job'[p] = Idle /\ \A q \in Proc : q # p => job'[q] = job[q]
      /\ UNCHANGED <<tree, clock, overlapped>>
  BY GoesOn, JobTyped DEF IInv, Return
<1>2. \A q \in Proc : ContentInv(job[q])'
  <2>1. ASSUME NEW q \in Proc, q # p
        PROVE  ContentInv(job[q])'
    BY <1>1, <2>1, OthersKeepContent
  <2>2. ContentInv(job[p])'
    BY <1>1, IdleHolds DEF ContentInv, Sources, Unedited, Idle
  <2>3. QED
    BY <2>1, <2>2
<1>3. ClockInv'
  BY <1>1 DEF IInv, ClockInv
<1>4. ExtractorInv'
  BY <1>1, IdleHolds DEF IInv, ExtractorInv, Files
<1>5. SerialInv'
  <2>1. ASSUME NEW q \in Proc, RunInv(job[q])
        PROVE  RunInv(job[q])'
    <3>1. CASE q = p
      <4>1. job'[q] = Idle
        BY <1>1, <3>1
      <4>2. job'[q].at = "idle"
        BY <4>1, IdleHolds
      <4>3. QED
        BY <4>2 DEF RunInv
    <3>2. CASE q # p
      BY <1>1, <2>1, <3>2 DEF RunInv, Reading, Drift, IsUnchanged
    <3>3. QED
      BY <3>1, <3>2
  <2>2. OneRun => OneRun'
    BY <1>1, IdleHolds DEF OneRun
  <2>3. RowsRight => RowsRight'
    BY <1>1 DEF RowsRight, Files, Clean
  <2>4. QED
    BY <1>1, <2>1, <2>2, <2>3 DEF IInv, SerialInv
<1>6. QED
  BY <1>2, <1>3, <1>4, <1>5 DEF IInv

\* A step of run p that writes nothing: what it now holds must be right, and
\* what the rows lack must still be to be done.
LEMMA ReadOnlyStep ==
  ASSUME IInv, NEW p \in Proc, NEW j \in JobType, Go(p, j), UNCHANGED <<rows, version>>,
         job[p].at # "idle", j.at # "rebuilt", ContentInv(j)', TypeOK', JobsInv',
         ~overlapped => RunInv(j)'
  PROVE  IInv'
<1>1. /\ job'[p] = j /\ \A q \in Proc : q # p => job'[q] = job[q]
      /\ UNCHANGED <<tree, clock, overlapped>>
  BY GoesOn DEF IInv
<1>2. ASSUME NEW q \in Proc
      PROVE  ContentInv(job[q])' /\ (~overlapped /\ RunInv(job[q]) => RunInv(job[q])')
  <2>1. CASE q = p
    BY <1>1, <2>1 DEF ContentInv, RunInv, Reading, Sources, Unedited, Entry
  <2>2. CASE q # p
    <3>1. job'[q] = job[q]
      BY <1>1, <2>2
    <3>2. ContentInv(job[q])'
      BY <1>1, <3>1, OthersKeepContent
    <3>3. RunInv(job[q])' <=> RunInv(job[q])
      BY <3>1 DEF RunInv, Reading, Drift, IsUnchanged
    <3>4. QED
      BY <3>2, <3>3 DEF IInv
  <2>3. QED
    BY <2>1, <2>2
<1>3. ClockInv'
  BY <1>1 DEF IInv, ClockInv
<1>4. ExtractorInv'
  BY <1>1 DEF IInv, ExtractorInv, Files
<1>5. SerialInv'
  <2>1. OneRun => OneRun'
    BY <1>1 DEF OneRun
  <2>2. RowsRight => RowsRight'
    BY <1>1 DEF RowsRight, Files, Clean
  <2>3. QED
    BY <1>1, <1>2, <2>1, <2>2 DEF IInv, SerialInv
<1>6. QED
  BY <1>2, <1>3, <1>4, <1>5 DEF IInv

\* A step of run p that writes rows: they must be of this build if they were,
\* and, for as long as runs have not overlapped, right and lack no more than
\* what is still to be done.
LEMMA WriteStep ==
  ASSUME IInv, NEW p \in Proc, NEW j \in JobType, Go(p, j), UNCHANGED version,
         job[p].at # "idle", j.sources = job[p].sources, j.entries = job[p].entries,
         j.at # "read", TypeOK', JobsInv',
         \A f \in Path : rows'[f] # None => rows'[f].stamp <= clock,
         \/ \A f \in Files(rows') : rows'[f].by = Current
         \/ /\ j.at # "rebuilt"
            /\ \A f \in Files(rows') :
                 rows'[f].by = Current \/ (f \in Files(rows) /\ rows'[f].by = rows[f].by),
         ~overlapped => RowsRight' /\ RunInv(j)'
  PROVE  IInv'
<1>1. /\ job'[p] = j /\ \A q \in Proc : q # p => job'[q] = job[q]
      /\ UNCHANGED <<tree, clock, overlapped>>
  BY GoesOn DEF IInv
<1>2. ContentInv(j)'
  BY <1>1, ContentKept DEF IInv, TypeOK
<1>3. \A q \in Proc : ContentInv(job[q])'
  <2>1. ASSUME NEW q \in Proc, q # p
        PROVE  ContentInv(job[q])'
    BY <1>1, <2>1, OthersKeepContent
  <2>2. ContentInv(job[p])'
    BY <1>1, <1>2 DEF ContentInv, Sources, Unedited, Entry
  <2>3. QED
    BY <2>1, <2>2
<1>4. ClockInv'
  BY <1>1 DEF IInv, ClockInv
<1>5. ExtractorInv'
  BY <1>1 DEF IInv, ExtractorInv
<1>6. ASSUME ~overlapped'
      PROVE  OneRun' /\ RowsRight' /\ \A q \in Proc : RunInv(job[q])'
  <2>1. ~overlapped /\ OneRun
    BY <1>1, <1>6 DEF IInv, SerialInv
  <2>2. \A q \in Proc : q # p => job'[q].at = "idle"
    BY <1>1, <2>1 DEF OneRun
  <2>3. OneRun'
    BY <2>2 DEF OneRun
  <2>4. \A q \in Proc : q # p => RunInv(job[q])'
    BY <2>2 DEF RunInv
  <2>5. RunInv(job[p])'
    BY <1>1, <2>1 DEF RunInv, Reading
  <2>6. QED
    BY <2>1, <2>3, <2>4, <2>5
<1>7. QED
  BY <1>3, <1>4, <1>5, <1>6 DEF IInv, SerialInv

\* Every step of a run but its beginning and its end.
LEMMA RunStep ==
  ASSUME IInv, NEW p \in Proc, TypeOK', JobsInv',
         \/ Plan(p) \/ Touch(p) \/ Upsert(p) \/ Rebuild(p)
         \/ \E f \in Path : ReadForRebuild(p, f) \/ ReadChanged(p, f) \/ Remove(p, f)
  PROVE  IInv'
<1> DEFINE i == job[p]
<1>1. i \in JobType /\ JobInv(i) /\ ContentInv(i) /\ (~overlapped => RunInv(i))
  BY DEF IInv, TypeOK, JobsInv, SerialInv
<1>2. UNCHANGED <<tree, clock, overlapped>>
  BY DEF Plan, Touch, Upsert, Rebuild, ReadForRebuild, ReadChanged, Remove, Go
<1>3. job'[p] \in JobType
  BY DEF TypeOK
<1>4. CASE Plan(p)
  <2> DEFINE full == i.full \/ NeedsFullIndex
             S == Sources(i)
             stale == Drift(i.sources, rows)
             new == [[[[[i EXCEPT !.at = "indexing"] EXCEPT !.full = full]
                     EXCEPT !.known = IF full THEN NoRows ELSE rows]
                     EXCEPT !.todo = IF full THEN S ELSE stale \intersect S]
                     EXCEPT !.gone = IF full THEN {} ELSE stale \ S]
  <2>1. Go(p, new) /\ UNCHANGED <<rows, version>> /\ i.at = "walked"
    BY <1>1, <1>4 DEF Plan, codeDb, JobType
  <2>2. job' = [job EXCEPT ![p] = new]
    BY <2>1 DEF Go
  <2>3. job'[p] = new
    BY <2>2 DEF IInv, TypeOK
  <2>4. PICK j \in JobType : j = new
    BY <1>3, <2>3
  <2>5. /\ j.at = "indexing" /\ j.full = full /\ j.sources = i.sources
        /\ j.entries = i.entries
        /\ ~full => j.known = rows /\ j.todo = stale \intersect S /\ j.gone = stale \ S
    BY <1>1, <2>4 DEF JobType
  <2> HIDE DEF new
  <2>6. ContentInv(j)'
    <3>1. j.at # "read"
      BY <2>5
    <3>2. QED
      BY <1>1, <1>2, <2>4, <2>5, <3>1, ContentKept
  <2>7. RunInv(j)'
    <3>1. Reading(j) = {} /\ j.at # "rebuilt"
      BY <2>5 DEF Reading
    <3>2. ASSUME ~full
          PROVE  /\ \A f \in j.todo : j.known[f] = rows[f]
                 /\ Drift(j.sources, rows) \subseteq j.todo \union j.gone
      BY <2>5, <3>2
    <3>3. QED
      BY <2>1, <2>5, <3>1, <3>2 DEF RunInv, Reading, Drift, IsUnchanged
  <2>8. QED
    BY <2>1, <2>4, <2>5, <2>6, <2>7, ReadOnlyStep
<1>5. ASSUME NEW f \in Path, ReadForRebuild(p, f)
      PROVE  IInv'
  <2> DEFINE c == tree[f].content
             new == [[i EXCEPT !.todo = @ \ {f}] EXCEPT !.entries = [@ EXCEPT ![f] = Entry(i, f, c)]]
  <2>1. /\ Go(p, new) /\ UNCHANGED <<rows, version>> /\ i.at = "indexing" /\ i.full
        /\ f \in i.todo /\ tree[f] # None
    BY <1>1, <1>5 DEF ReadForRebuild, codeDb, JobType
  <2>2. job' = [job EXCEPT ![p] = new]
    BY <2>1 DEF Go
  <2>3. job'[p] = new
    BY <2>2 DEF IInv, TypeOK
  <2>4. PICK j \in JobType : j = new
    BY <1>3, <2>3
  <2>5. /\ j.at = "indexing" /\ j.full /\ j.sources = i.sources
        /\ j.entries = [i.entries EXCEPT ![f] = Entry(i, f, c)]
    BY <1>1, <2>1, <2>4 DEF JobType
  <2> HIDE DEF new
  <2>6. Sources(j) = Sources(i) /\ \A g, b : Entry(j, g, b) = Entry(i, g, b)
    BY <2>5 DEF Sources, Entry
  <2>7. UNCHANGED <<tree, clock>>
    BY <1>2
  <2>8. \A g \in Path : j.entries[g] = IF g = f THEN Entry(i, f, c) ELSE i.entries[g]
    BY <1>1, <2>5 DEF JobType
  <2>9. f \in Sources(i) /\ c \in Content
    BY <1>1, <2>1 DEF JobInv, IInv, TypeOK, Optional
  <2>10. ContentInv(j)'
    <3>1. \A g \in Sources(j) : j.sources[g] <= clock
      BY <1>1, <2>5, <2>6 DEF ContentInv
    <3>2. ASSUME NEW g \in Path, j.entries[g] # None
          PROVE  /\ g \in Sources(j)
                 /\ \E b \in Content :
                      j.entries[g] = Entry(j, g, b) /\ (Unedited(j, g) => b = tree[g].content)
      <4>1. CASE g = f
        BY <2>6, <2>8, <2>9, <4>1
      <4>2. CASE g # f
        BY <1>1, <2>5, <2>6, <2>8, <3>2, <4>2 DEF ContentInv, Unedited
      <4>3. QED
        BY <4>1, <4>2
    <3>3. QED
      BY <2>5, <2>7, <3>1, <3>2 DEF ContentInv, Sources, Entry, Unedited
  <2>11. RunInv(j)'
    BY <2>5 DEF RunInv
  <2>12. QED
    BY <2>1, <2>4, <2>5, <2>10, <2>11, ReadOnlyStep
<1>6. ASSUME NEW f \in Path, ReadChanged(p, f)
      PROVE  IInv'
  <2> DEFINE c == tree[f].content
             new == [[[[i EXCEPT !.at = "read"] EXCEPT !.todo = @ \ {f}]
                     EXCEPT !.reading = f] EXCEPT !.content = c]
  <2>1. /\ Go(p, new) /\ UNCHANGED <<rows, version>> /\ i.at = "indexing" /\ ~i.full
        /\ f \in i.todo
    BY <1>1, <1>6 DEF ReadChanged, codeDb, JobType
  <2>2. job' = [job EXCEPT ![p] = new]
    BY <2>1 DEF Go
  <2>3. job'[p] = new
    BY <2>2 DEF IInv, TypeOK
  <2>4. PICK j \in JobType : j = new
    BY <1>3, <2>3
  <2>5. /\ j.at = "read" /\ ~j.full /\ j.sources = i.sources /\ j.entries = i.entries
        /\ j.reading = f /\ j.content = c /\ j.todo = i.todo \ {f} /\ j.gone = i.gone
        /\ j.known = i.known
    BY <1>1, <2>1, <2>4 DEF JobType
  <2> HIDE DEF new
  <2>6. ContentInv(j)'
    <3>1. j.content = tree[j.reading].content
      BY <2>5
    <3>2. QED
      BY <1>1, <1>2, <2>4, <2>5, <3>1, ContentKept
  <2>7. RunInv(i) => RunInv(j)'
    <3>1. j.todo \union Reading(j) = i.todo /\ Reading(i) = {}
      BY <2>1, <2>5 DEF Reading
    <3>2. Reading(j)' = Reading(j) /\ Drift(j.sources, rows)' = Drift(i.sources, rows)
      BY <2>1, <2>5 DEF Reading, Drift, IsUnchanged
    <3>3. QED
      BY <2>1, <2>5, <3>1, <3>2 DEF RunInv
  <2>8. QED
    BY <1>1, <2>1, <2>4, <2>5, <2>6, <2>7, ReadOnlyStep
<1>7. ASSUME Touch(p) \/ Upsert(p)
      PROVE  IInv'
  <2> DEFINE f == i.reading
             new == [[[i EXCEPT !.at = "indexing"] EXCEPT !.reading = None]
                       EXCEPT !.content = None]
  <2>1. Go(p, new) /\ UNCHANGED version /\ i.at = "read"
    BY <1>1, <1>7 DEF Touch, Upsert, JobType
  <2>2. job' = [job EXCEPT ![p] = new]
    BY <2>1 DEF Go
  <2>3. job'[p] = new
    BY <2>2 DEF IInv, TypeOK
  <2>4. PICK j \in JobType : j = new
    BY <1>3, <2>3
  <2>5. /\ j.at = "indexing" /\ j.full = i.full /\ j.sources = i.sources
        /\ j.entries = i.entries /\ j.todo = i.todo /\ j.gone = i.gone /\ j.known = i.known
    BY <1>1, <2>4 DEF JobType
  <2> HIDE DEF new
  <2>6. /\ ~i.full /\ f \in Sources(i) \ i.todo /\ f \in Path /\ i.content \in Content
        /\ i.sources[f] # None /\ i.sources[f] <= clock
        /\ Unedited(i, f) => i.content = tree[f].content
    BY <1>1, <2>1 DEF JobInv, ContentInv, Sources
  <2>7. \A g \in Path : g # f => rows'[g] = rows[g]
    BY <1>7 DEF Touch, Upsert, IInv, TypeOK
  <2>8. ASSUME /\ rows'[f] # None
               /\ rows'[f].stamp = i.sources[f] /\ rows'[f].hash = i.content
               /\ rows'[f].by = Current \/ (f \in Files(rows) /\ rows'[f].by = rows[f].by),
               ~overlapped => rows'[f].extracted = i.content
        PROVE  IInv'
    <3>1. \A g \in Path : rows'[g] # None => rows'[g].stamp <= clock
      BY <2>6, <2>7, <2>8 DEF IInv, ClockInv
    <3>2. \A g \in Files(rows') :
            rows'[g].by = Current \/ (g \in Files(rows) /\ rows'[g].by = rows[g].by)
      BY <2>7, <2>8 DEF Files
    <3>3. ASSUME ~overlapped
          PROVE  RowsRight' /\ RunInv(j)'
      <4>1. RowsRight /\ RunInv(i)
        BY <1>1, <3>3 DEF IInv, SerialInv
      <4>2. ASSUME NEW g \in Files(rows')
            PROVE  /\ rows'[g].hash = rows'[g].extracted
                   /\ Clean(g)' => rows'[g].extracted = tree'[g].content
        <5>1. CASE g = f
          BY <1>2, <2>6, <2>8, <3>3, <5>1 DEF Clean, Unedited
        <5>2. CASE g # f
          BY <1>2, <2>7, <4>1, <4>2, <5>2 DEF RowsRight, Files, Clean
        <5>3. QED
          BY <5>1, <5>2
      <4>3. \A g \in j.todo : j.known[g] = rows'[g]
        BY <1>1, <2>1, <2>5, <2>6, <2>7, <4>1 DEF RunInv, JobInv, Sources
      <4>4. Drift(j.sources, rows') \subseteq j.todo \union j.gone
        <5>1. Drift(i.sources, rows) \subseteq i.todo \union i.gone \union {f}
          BY <2>1, <2>6, <4>1 DEF RunInv, Reading
        <5>2. f \notin Drift(j.sources, rows')
          BY <2>5, <2>6, <2>8 DEF Drift, IsUnchanged
        <5>3. \A g \in Path : g # f => (g \in Drift(j.sources, rows') <=> g \in Drift(i.sources, rows))
          BY <2>5, <2>7 DEF Drift, IsUnchanged
        <5>4. Drift(j.sources, rows') \subseteq Path
          BY DEF Drift
        <5>5. QED
          BY <2>5, <5>1, <5>2, <5>3, <5>4
      <4>5. Reading(j) = {} /\ j.at # "rebuilt"
        BY <2>5 DEF Reading
      <4>6. RunInv(j)'
        BY <2>5, <4>3, <4>4, <4>5 DEF RunInv, Reading, Drift, IsUnchanged
      <4>7. QED
        BY <4>2, <4>6 DEF RowsRight
    <3>4. QED
      BY <2>1, <2>4, <2>5, <3>1, <3>2, <3>3, WriteStep
  <2>9. CASE Touch(p) /\ rows[f] # None
    <3>1. rows[f] \in RowType
      BY <2>6, <2>9 DEF IInv, TypeOK, Optional
    <3>2. rows'[f] = [[rows[f] EXCEPT !.stamp = i.sources[f]] EXCEPT !.hash = i.content]
      BY <2>6, <2>9, <3>1 DEF Touch, IInv, TypeOK, RowType
    <3>3. /\ rows'[f].stamp = i.sources[f] /\ rows'[f].hash = i.content
          /\ rows'[f].extracted = rows[f].extracted /\ rows'[f].by = rows[f].by
      BY <3>1, <3>2 DEF RowType
    <3>4. rows'[f] # None
      BY RowIsSome, <1>1, <2>6, <3>1, <3>2, ZenonT(60)
         DEF RowType, JobType, Sources, Optional
    <3>5. ~overlapped => rows'[f].extracted = i.content
      <4>1. ~overlapped => i.known[f] = rows[f]
        BY <1>1, <2>1, <2>6 DEF RunInv, Reading
      <4>2. i.known[f].hash = i.content
        BY <2>9 DEF Touch, HashIsKnown
      <4>3. ~overlapped => rows[f].hash = rows[f].extracted
        BY <2>6, <2>9 DEF IInv, SerialInv, RowsRight, Files
      <4>4. QED
        BY <3>3, <4>1, <4>2, <4>3
    <3>6. f \in Files(rows)
      BY <2>6, <2>9 DEF Files
    <3>7. QED
      BY <2>8, <3>3, <3>4, <3>5, <3>6
  <2>10. CASE Touch(p) /\ rows[f] = None
    <3>1. UNCHANGED rows
      BY <2>10 DEF Touch
    <3>2. overlapped
      BY <1>1, <2>1, <2>6, <2>10 DEF RunInv, Reading, Touch, HashIsKnown, IInv, TypeOK
    <3>3. \A g \in Path : rows'[g] # None => rows'[g].stamp <= clock
      BY <3>1 DEF IInv, ClockInv
    <3>4. QED
      BY <2>1, <2>4, <2>5, <3>1, <3>2, <3>3, WriteStep DEF Files
  <2>11. CASE Upsert(p)
    <3>1. rows'[f] = Entry(i, f, i.content)
      BY <2>6, <2>11 DEF Upsert, IInv, TypeOK
    <3>2. rows'[f] # None
      BY <1>1, <2>6, <3>1, RowTyped, RowIsSome
    <3>3. /\ rows'[f].stamp = i.sources[f] /\ rows'[f].hash = i.content
          /\ rows'[f].extracted = i.content /\ rows'[f].by = Current
      BY <3>1, RowFields DEF Entry
    <3>4. QED
      BY <2>8, <3>2, <3>3
  <2>12. QED
    BY <1>7, <2>9, <2>10, <2>11
<1>8. ASSUME NEW f \in Path, Remove(p, f)
      PROVE  IInv'
  <2> DEFINE new == [i EXCEPT !.gone = @ \ {f}]
  <2>1. /\ Go(p, new) /\ UNCHANGED version /\ i.at = "indexing" /\ i.todo = {} /\ f \in i.gone
        /\ rows' = [rows EXCEPT ![f] = None]
    BY <1>8 DEF Remove
  <2>2. job' = [job EXCEPT ![p] = new]
    BY <2>1 DEF Go
  <2>3. job'[p] = new
    BY <2>2 DEF IInv, TypeOK
  <2>4. PICK j \in JobType : j = new
    BY <1>3, <2>3
  <2>5. /\ j.at = "indexing" /\ j.full = i.full /\ j.sources = i.sources
        /\ j.entries = i.entries /\ j.todo = {} /\ j.gone = i.gone \ {f} /\ j.known = i.known
    BY <1>1, <2>1, <2>4 DEF JobType
  <2> HIDE DEF new
  <2>6. \A g \in Path : rows'[g] = IF g = f THEN None ELSE rows[g]
    BY <2>1 DEF IInv, TypeOK
  <2>7. \A g \in Path : rows'[g] # None => rows'[g].stamp <= clock
    BY <2>6 DEF IInv, ClockInv
  <2>8. \A g \in Files(rows') : g \in Files(rows) /\ rows'[g] = rows[g]
    BY <2>6 DEF Files
  <2>9. RowsRight => RowsRight'
    BY <1>2, <2>8 DEF RowsRight, Clean, Files
  <2>10. RunInv(i) => RunInv(j)'
    <3>1. f \notin Sources(i) /\ f \in Path
      BY <1>1, <2>1 DEF JobInv
    <3>2. f \notin Drift(j.sources, rows')
      BY <2>5, <2>6, <3>1 DEF Drift, Sources
    <3>3. \A g \in Path : g # f => (g \in Drift(j.sources, rows') <=> g \in Drift(i.sources, rows))
      BY <2>5, <2>6 DEF Drift, IsUnchanged
    <3>4. Drift(j.sources, rows') \subseteq Path
      BY DEF Drift
    <3>5. Reading(i) = {} /\ Reading(j) = {}
      BY <2>1, <2>5 DEF Reading
    <3>6. RunInv(i) /\ ~i.full => Drift(j.sources, rows') \subseteq j.gone
      BY <2>1, <2>5, <3>2, <3>3, <3>4, <3>5 DEF RunInv
    <3>7. QED
      BY <2>5, <3>5, <3>6 DEF RunInv, Reading, Drift, IsUnchanged
  <2>11. QED
    BY <1>1, <2>1, <2>4, <2>5, <2>7, <2>8, <2>9, <2>10, WriteStep DEF IInv, SerialInv
<1>9. CASE Rebuild(p)
  <2> DEFINE new == [i EXCEPT !.at = "rebuilt"]
  <2>1. /\ Go(p, new) /\ UNCHANGED version /\ i.at = "indexing" /\ i.full /\ i.todo = {}
        /\ rows' = i.entries
    BY <1>9 DEF Rebuild
  <2>2. job' = [job EXCEPT ![p] = new]
    BY <2>1 DEF Go
  <2>3. job'[p] = new
    BY <2>2 DEF IInv, TypeOK
  <2>4. PICK j \in JobType : j = new
    BY <1>3, <2>3
  <2>5. /\ j.at = "rebuilt" /\ j.full /\ j.sources = i.sources /\ j.entries = i.entries
        /\ j.todo = {} /\ j.gone = i.gone /\ j.known = i.known
    BY <1>1, <2>1, <2>4 DEF JobType
  <2> HIDE DEF new
  <2>6. \A g \in Path : rows'[g] # None =>
          /\ g \in Sources(i)
          /\ \E c \in Content :
               rows'[g] = Entry(i, g, c) /\ (Unedited(i, g) => c = tree[g].content)
    BY <1>1, <2>1 DEF ContentInv
  <2>7. \A g \in Path : rows'[g] # None =>
          /\ g \in Sources(i) /\ rows'[g].stamp = i.sources[g] /\ rows'[g].by = Current
          /\ rows'[g].hash = rows'[g].extracted
          /\ Unedited(i, g) => rows'[g].extracted = tree[g].content
    <3> SUFFICES ASSUME NEW g \in Path, rows'[g] # None
                 PROVE  /\ g \in Sources(i) /\ rows'[g].stamp = i.sources[g]
                        /\ rows'[g].by = Current /\ rows'[g].hash = rows'[g].extracted
                        /\ Unedited(i, g) => rows'[g].extracted = tree[g].content
      OBVIOUS
    <3>1. PICK c \in Content :
            rows'[g] = Entry(i, g, c) /\ (Unedited(i, g) => c = tree[g].content)
      BY <2>6
    <3>2. /\ rows'[g].stamp = i.sources[g] /\ rows'[g].by = Current
          /\ rows'[g].hash = c /\ rows'[g].extracted = c
      BY <3>1, RowFields DEF Entry
    <3>3. QED
      BY <2>6, <3>1, <3>2
  <2>8. \A g \in Path : rows'[g] # None => rows'[g].stamp <= clock
    BY <1>1, <2>7 DEF ContentInv
  <2>9. \A g \in Files(rows') : rows'[g].by = Current
    BY <2>7 DEF Files
  <2>10. RowsRight'
    <3>1. \A g \in Path : Clean(g)' => rows'[g] # None /\ (rows'[g].stamp = i.sources[g] => Unedited(i, g))
      BY <1>2 DEF Clean, Unedited
    <3>2. QED
      BY <1>2, <2>7, <3>1 DEF RowsRight, Files
  <2>11. Drift(j.sources, rows') = {}
    <3>1. \A g \in Sources(i) : rows'[g] # None
      BY <1>1, <2>1 DEF JobInv
    <3>2. \A g \in Path : IF i.sources[g] = None THEN rows'[g] = None
                          ELSE rows'[g] # None /\ rows'[g].stamp = i.sources[g]
      BY <2>7, <3>1 DEF Sources
    <3>3. QED
      BY <2>5, <3>2 DEF Drift, IsUnchanged
  <2>12. RunInv(j)'
    BY <2>5, <2>11 DEF RunInv, Drift, IsUnchanged
  <2>13. QED
    BY <2>1, <2>4, <2>5, <2>8, <2>9, <2>10, <2>12, WriteStep
<1>10. QED
  BY <1>4, <1>5, <1>6, <1>7, <1>8, <1>9

\* A run begins: another one under way makes them overlap.
LEMMA WalkStep ==
  ASSUME IInv, NEW p \in Proc, NEW force \in BOOLEAN, Walk(p, force), TypeOK', JobsInv'
  PROVE  IInv'
<1> DEFINE new == [[[Idle EXCEPT !.at = "walked"] EXCEPT !.full = force]
                     EXCEPT !.sources = Walked]
<1>1. /\ job' = [job EXCEPT ![p] = new] /\ UNCHANGED <<tree, clock, rows, version>>
      /\ job[p].at = "idle"
      /\ ~overlapped' => ~overlapped /\ \A q \in Proc : job[q].at = "idle"
  BY DEF Walk, codeDb, Idle, IInv, TypeOK
<1>2. PICK j \in JobType : j = new
  BY JobTyped, WalkedTyped DEF IInv
<1>3. /\ j.at = "walked" /\ j.sources = Walked /\ \A f \in Path : j.entries[f] = None
  BY <1>2 DEF Idle
<1> HIDE DEF new
<1>4. job'[p] = j /\ \A q \in Proc : q # p => job'[q] = job[q]
  BY <1>1, <1>2 DEF IInv, TypeOK
<1>5. ContentInv(j)'
  <2>1. \A f \in Sources(j) : j.sources[f] <= clock
    BY <1>3 DEF Sources, Walked, IInv, ClockInv
  <2>2. QED
    BY <1>1, <1>3, <2>1 DEF ContentInv, Sources
<1>6. \A q \in Proc : ContentInv(job[q])'
  <2>1. ASSUME NEW q \in Proc, q # p
        PROVE  ContentInv(job[q])'
    BY <1>1, <1>4, <2>1, OthersKeepContent
  <2>2. ContentInv(job[p])'
    BY <1>4, <1>5 DEF ContentInv, Sources, Unedited, Entry
  <2>3. QED
    BY <2>1, <2>2
<1>7. ClockInv' /\ ExtractorInv'
  BY <1>1, <1>3, <1>4 DEF IInv, ClockInv, ExtractorInv, Files
<1>8. SerialInv'
  <2> SUFFICES ASSUME ~overlapped'
               PROVE  OneRun' /\ RowsRight' /\ \A q \in Proc : RunInv(job[q])'
    BY DEF SerialInv
  <2>1. ~overlapped /\ \A q \in Proc : q # p => job'[q].at = "idle"
    BY <1>1, <1>4
  <2>2. OneRun'
    BY <2>1 DEF OneRun
  <2>3. RowsRight'
    BY <1>1, <2>1 DEF IInv, SerialInv, RowsRight, Files, Clean
  <2>4. \A q \in Proc : job'[q].at \in {"idle", "walked"}
    BY <1>3, <1>4, <2>1
  <2>5. \A q \in Proc : RunInv(job[q])'
    BY <2>4 DEF RunInv
  <2>6. QED
    BY <2>2, <2>3, <2>5
<1>9. QED
  BY <1>6, <1>7, <1>8 DEF IInv

LEMMA Inductive == IInv /\ [Next]_vars => IInv'
<1> SUFFICES ASSUME IInv, [Next]_vars
             PROVE  IInv'
  OBVIOUS
<1>1. TypeOK' /\ JobsInv'
  BY TypeStep DEF IInv
<1>2. CASE UNCHANGED vars
  <2>1. ASSUME NEW q \in Proc
        PROVE  ContentInv(job[q])' /\ (RunInv(job[q]) => RunInv(job[q])')
    <3>1. ContentInv(job[q])'
      BY <1>2, OthersKeepContent DEF vars
    <3>2. RunInv(job[q])' <=> RunInv(job[q])
      BY <1>2 DEF vars, codeDb, RunInv, Reading, Drift, IsUnchanged
    <3>3. QED
      BY <3>1, <3>2
  <2>2. ClockInv' /\ ExtractorInv' /\ (OneRun' <=> OneRun) /\ (RowsRight' <=> RowsRight)
    BY <1>2 DEF vars, codeDb, IInv, ClockInv, ExtractorInv, OneRun, RowsRight, Files, Clean
  <2>3. overlapped' = overlapped
    BY <1>2 DEF vars
  <2>4. QED
    BY <1>1, <2>1, <2>2, <2>3 DEF IInv, SerialInv
<1>3. ASSUME NEW f \in Path, Delete(f) \/ \E c \in Content : Edit(f, c)
      PROVE  IInv'
  BY <1>1, <1>3, EditStep
<1>4. ASSUME NEW p \in Proc, NEW force \in BOOLEAN, Walk(p, force)
      PROVE  IInv'
  BY <1>1, <1>4, WalkStep
<1>5. ASSUME NEW p \in Proc,
             FinishIncremental(p) \/ Stamp(p) \/ Crash(p) \/ \E f \in Path : ReadFails(p, f)
      PROVE  IInv'
  <2>1. Return(p) /\ UNCHANGED rows /\ (UNCHANGED version \/ job[p].at = "rebuilt")
    BY <1>5 DEF FinishIncremental, Stamp, Crash, ReadFails, codeDb
  <2>2. QED
    BY <1>1, <2>1, ReturnStep
<1>6. ASSUME NEW p \in Proc,
             \/ Plan(p) \/ Touch(p) \/ Upsert(p) \/ Rebuild(p)
             \/ \E f \in Path : ReadForRebuild(p, f) \/ ReadChanged(p, f) \/ Remove(p, f)
      PROVE  IInv'
  BY <1>1, <1>6, RunStep
<1>7. QED
  BY <1>2, <1>3, <1>4, <1>5, <1>6 DEF Next, Advance, Completes

LEMMA AlwaysIInv == Spec => []IInv
BY InitIInv, Inductive, PTL DEF Spec

-------------------------------------------------------------------------------
\* Whatever crashes and overlaps, a store stamped with this build's version holds
\* no row of an older extractor.
THEOREM StampIsTrue == Spec => []StampTellsExtractor
<1>1. IInv => StampTellsExtractor
  BY DEF IInv, ExtractorInv, StampTellsExtractor, CheckCodeVersions
<1>2. QED
  BY AlwaysIInv, <1>1, PTL

\* As long as runs do not overlap, what doctor finds no drift in is indexed.
THEOREM SerialRunsAreRight == Spec => []SerialRunsIndex
<1>1. IInv => SerialRunsIndex
  <2> SUFFICES ASSUME IInv, ~overlapped
               PROVE  NoDriftMeansIndexed
    BY DEF SerialRunsIndex
  <2>1. \A f \in Path : Clean(f) => rows[f].extracted = tree[f].content
    BY DEF IInv, SerialInv, RowsRight, Clean, Files
  <2>2. ASSUME CheckCodeDrift
        PROVE  Files(rows) = Files(tree) /\ \A f \in Files(tree) : Clean(f)
    <3>1. \A f \in Path : tree[f] # None => tree[f].stamp # None
      BY NoneAssumption, LastStampAssumption DEF IInv, TypeOK, Optional, Stamps
    <3>2. \A f \in Path : IF tree[f] = None THEN rows[f] = None
                          ELSE rows[f] # None /\ rows[f].stamp = tree[f].stamp
      BY <2>2, <3>1 DEF CheckCodeDrift, Drift, IsUnchanged, Walked
    <3>3. QED
      BY <3>2 DEF Files, Clean
  <2>3. QED
    BY <2>1, <2>2 DEF NoDriftMeansIndexed
<1>2. QED
  BY AlwaysIInv, <1>1, PTL

\* A run over a tree that rests leaves no drift, and a rebuild gives the index of
\* the tree.
THEOREM RunsDoCatchUp == Spec => RunsCatchUp
<1> DEFINE CatchesUp(p) ==
      job[p].sources = Walked =>
        /\ (~overlapped /\ Completes(p)) => Drift(Walked, rows') = {}
        /\ Rebuild(p) => rows' = Indexed(tree, Current)
<1>1. IInv /\ [Next]_vars => [\A p \in Proc : CatchesUp(p)]_vars
  <2> SUFFICES ASSUME IInv, Next, NEW p \in Proc, job[p].sources = Walked
               PROVE  /\ (~overlapped /\ Completes(p)) => Drift(Walked, rows') = {}
                      /\ Rebuild(p) => rows' = Indexed(tree, Current)
    OBVIOUS
  <2> DEFINE i == job[p]
  <2>1. i \in JobType /\ JobInv(i) /\ ContentInv(i) /\ (~overlapped => RunInv(i))
    BY DEF IInv, TypeOK, JobsInv, SerialInv
  <2>2. ASSUME ~overlapped, Completes(p)
        PROVE  Drift(Walked, rows') = {}
    <3>1. UNCHANGED rows
      BY <2>2 DEF Completes, FinishIncremental, Stamp, codeDb
    <3>2. Drift(i.sources, rows) = {}
      BY <2>1, <2>2 DEF Completes, FinishIncremental, Stamp, RunInv, Reading
    <3>3. QED
      BY <3>1, <3>2 DEF Drift, IsUnchanged
  <2>3. ASSUME Rebuild(p)
        PROVE  rows' = Indexed(tree, Current)
    <3>1. rows' = i.entries /\ i.at = "indexing" /\ i.full /\ i.todo = {}
      BY <2>3 DEF Rebuild
    <3>2. \A f \in Path : /\ i.sources[f] = None <=> tree[f] = None
                          /\ tree[f] # None => Unedited(i, f)
      BY NoneAssumption, LastStampAssumption
         DEF IInv, TypeOK, Optional, Stamps, Walked, Unedited
    <3>3. Sources(i) = Files(tree)
      BY <3>2 DEF Sources, Files
    <3>4. ASSUME NEW f \in Path
          PROVE  i.entries[f] = Indexed(tree, Current)[f]
      <4>1. CASE tree[f] = None
        BY <2>1, <3>2, <4>1 DEF ContentInv, Sources, Indexed
      <4>2. CASE tree[f] # None
        <5>1. i.entries[f] # None
          BY <2>1, <3>1, <3>3, <4>2 DEF JobInv, Files
        <5>2. i.entries[f] = Entry(i, f, tree[f].content)
          BY <2>1, <3>2, <4>2, <5>1 DEF ContentInv
        <5>3. i.sources[f] = tree[f].stamp
          BY <3>2, <4>2 DEF Unedited
        <5>4. QED
          BY <3>3, <4>2, <5>2, <5>3 DEF Entry, Indexed
      <4>3. QED
        BY <4>1, <4>2
    <3>5. i.entries = [f \in Path |-> i.entries[f]]
      BY <2>1 DEF JobType
    <3>6. QED
      BY <3>1, <3>4, <3>5 DEF Indexed
  <2>4. QED
    BY <2>2, <2>3
<1>2. QED
  BY AlwaysIInv, <1>1, PTL DEF Spec, RunsCatchUp

===============================================================================
