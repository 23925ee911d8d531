---------------------------- MODULE DecisionLinks ----------------------------
(***************************************************************************)
(* What decision files say about one another, and what the store derives   *)
(* from it: the pure half of src/src/decisions/reconcile.ts (edgesOf,      *)
(* deriveLinks) and the status rule of DecisionSyncRepository.             *)
(***************************************************************************)

CONSTANTS
  Decision, \* decision ids; a file is named after its id
  None      \* the null of `replaces` and `archives`

ASSUME NoneAssumption == None \notin Decision

Kind == {"DEPENDS_ON", "CONFLICTS_WITH", "REPLACED_BY", "ARCHIVED_BY"}

Status == {"active", "replaced", "archived"}

\* What a file carries that derivation and import tell apart. Title, body,
\* keywords, module, commit and provenance change no step and are left out; of
\* the anchors only whether one is named twice matters, because the anchors
\* table refuses a second row.
File == [ replaces        : Decision \union {None},
          archives        : Decision \union {None},
          dependsOn       : SUBSET Decision,
          conflictsWith   : SUBSET Decision,
          anchorsDistinct : BOOLEAN ]

Edge == [from : Decision, kind : Kind, to : Decision]

\* Every decision a file names.
LinkedIn(f) ==
  f.dependsOn \union f.conflictsWith \union ({f.replaces, f.archives} \ {None})

\* The edges the file f of decision d asks for. `replaces` and `archives` are
\* written in the new file but their edges start at the decision they retire.
EdgesOf(d, f) ==
  {[from |-> d, kind |-> "DEPENDS_ON", to |-> t] : t \in f.dependsOn}
    \union
  {[from |-> d, kind |-> "CONFLICTS_WITH", to |-> t] : t \in f.conflictsWith}
    \union
  {[from |-> t, kind |-> "REPLACED_BY", to |-> d] : t \in {f.replaces} \ {None}}
    \union
  {[from |-> t, kind |-> "ARCHIVED_BY", to |-> d] : t \in {f.archives} \ {None}}

\* All that the files of the decisions in `readable` ask for.
Declared(files, readable) == UNION {EdgesOf(d, files[d]) : d \in readable}

\* The declared edges that can be stored: an edge with an endpoint the store
\* does not know is skipped, for foreign keys are on.
DeriveLinks(files, readable, known) ==
  {e \in Declared(files, readable) : e.from \in known /\ e.to \in known}

Retired(edgeSet, kind) == {e.from : e \in {x \in edgeSet : x.kind = kind}}

\* The status a set of stored edges gives decision d: replaced wins over
\* archived, and a decision nothing retires is active again.
StatusOf(edgeSet, d) ==
  IF d \in Retired(edgeSet, "REPLACED_BY") THEN "replaced"
  ELSE IF d \in Retired(edgeSet, "ARCHIVED_BY") THEN "archived"
  ELSE "active"

Statuses(edgeSet) == [d \in Decision |-> StatusOf(edgeSet, d)]

===============================================================================
