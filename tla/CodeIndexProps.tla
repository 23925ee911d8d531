---------------------------- MODULE CodeIndexProps ----------------------------
(***************************************************************************)
(* What must be true of the code index.                                    *)
(***************************************************************************)
EXTENDS CodeIndex

Stamps == 0..LastStamp
RowType ==
  [ stamp : Stamps, hash : Content, extracted : Content,
    against : SUBSET Path, by : Version ]
Optional(S) == S \union {None}

JobType ==
  [ at : {"idle", "walked", "indexing", "read", "rebuilt"}, full : BOOLEAN,
    sources : [Path -> Optional(Stamps)], known : [Path -> Optional(RowType)],
    todo : SUBSET Path, gone : SUBSET Path, entries : [Path -> Optional(RowType)],
    reading : Optional(Path), content : Optional(Content) ]

\* Every variable holds a value of its type.
TypeOK ==
  /\ tree \in [Path -> Optional([stamp : Stamps, content : Content])]
  /\ clock \in Stamps
  /\ rows \in [Path -> Optional(RowType)]
  /\ version \in Optional(Version)
  /\ job \in [Proc -> JobType]
  /\ overlapped \in BOOLEAN

\* extraction-version.ts: "a stale (or absent) stamp forces a full re-index".
\* A crash between the rebuild and its stamp, or anywhere else, never leaves
\* rows of an older extractor behind a current stamp, where incremental runs
\* would keep them for ever.
StampTellsExtractor ==
  CheckCodeVersions => \A f \in Files(rows) : rows[f].by = Current

\* A file that is there, and indexed with the stamp it has.
Clean(f) == tree[f] # None /\ rows[f] # None /\ rows[f].stamp = tree[f].stamp

\* code-indexer.ts: index and doctor "have to agree on what 'stale' means or
\* doctor calls a stale index clean". A file that doctor finds no drift in has
\* its present content in symbols and imports.
NoDriftMeansIndexed ==
  /\ \A f \in Path : Clean(f) => rows[f].extracted = tree[f].content
  /\ CheckCodeDrift => Files(rows) = Files(tree) /\ \A f \in Files(tree) : Clean(f)

\* As long as one run ends before the next begins, edits, crashes and failed
\* reads in the middle of runs do not break that agreement.
SerialRunsIndex == ~overlapped => NoDriftMeansIndexed

\* A run that found the tree as it still is leaves none of the files added,
\* changed, renamed or deleted since the last run out, if no other run has
\* touched the rows; and a rebuild then gives exactly the tree's index, imports
\* included, whatever rows were there before: `cortex index --force` repairs what
\* incremental runs leave (an import whose target came or went later).
RunsCatchUp ==
  [][\A p \in Proc : job[p].sources = Walked =>
       /\ (~overlapped /\ Completes(p)) => Drift(Walked, rows') = {}
       /\ Rebuild(p) => rows' = Indexed(tree, Current)]_vars

===============================================================================
