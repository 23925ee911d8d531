----------------------------- MODULE ImpactQueries -----------------------------
(***************************************************************************)
(* What a change touches: the walks over the import graph of code.db and   *)
(* the edges of decisions.db behind get_impact (storage/queries,           *)
(* app/code-impact.ts, app/decision-impact.ts), and the conflicts that     *)
(* search and get_context report (storage/edge-repository.ts).             *)
(*                                                                         *)
(* imports is a set of [from, to, provenance], dependsOn and conflictsWith *)
(* sets of pairs <<from, to>>; store maps a decision to its row [status,   *)
(* present, anchors]. The answers of a walk are a set: where its rows are  *)
(* more than its LIMIT, the order of the tables says which are left out.   *)
(***************************************************************************)
EXTENDS Naturals, FiniteSets

CONSTANTS None, IMPACT_ROW_LIMIT, IMPORTERS_ROW_LIMIT

Visible(store) == {d \in DOMAIN store : store[d].status = "active" /\ store[d].present}

Present(store) == {d \in DOMAIN store : store[d].present}

Least(S) == CHOOSE n \in S : \A m \in S : n <= m

\* What the LIMIT of a recursive query may leave of its rows: those added first,
\* and they are added depth by depth, within one depth in any order.
AddedFirst(rows, limit) ==
  IF Cardinality(rows) <= limit THEN {rows}
  ELSE LET nearer(n) == {row \in rows : row.depth < n}
           at(n) == {row \in rows : row.depth = n}
       IN  {R \in UNION {{nearer(n) \union S : S \in SUBSET at(n)} :
                         n \in {row.depth : row \in rows}} :
              Cardinality(R) = limit}

-------------------------------------------------------------------------------
\* Mutant: one exact hop makes the chain exact.
Optimistic(p, q) == IF "exact" \in {p, q} THEN "exact" ELSE "heuristic"

\* One heuristic hop taints the chain.
Pessimistic(p, q) == IF "heuristic" \in {p, q} THEN "heuristic" ELSE "exact"

\* The rows of the recursive query, by their depth: for every importer a row per
\* provenance it is reached with, through a seed again if need be.
ImporterLayers(imports, seeds, maxDepth) ==
  LET layer[n \in 1..maxDepth] ==
        IF n = 1
        THEN {[path |-> i.from, depth |-> 1, provenance |-> i.provenance] :
                i \in {i \in imports : i.to \in seeds}}
        ELSE UNION {
               {[path |-> i.from, depth |-> n,
                 provenance |-> Pessimistic(i.provenance, row.provenance)] :
                  i \in {i \in imports : i.to = row.path}} : row \in layer[n - 1]}
  IN  layer

ImporterRows(imports, seeds, maxDepth) ==
  UNION {ImporterLayers(imports, seeds, maxDepth)[n] : n \in 1..maxDepth}

\* Per importer the least depth and, of all its rows, the better provenance.
ImportersOf(rows, seeds) ==
  LET rowsOf(path) == {row \in rows : row.path = path} IN
  [path \in {row.path : row \in rows} \ seeds |->
    [ depth |-> Least({row.depth : row \in rowsOf(path)}),
      provenance |-> IF \E row \in rowsOf(path) : row.provenance = "exact"
                     THEN "exact" ELSE "heuristic" ]]

\* The answers CodeRepository.transitiveImporters may give.
TransitiveImporters(imports, seeds, maxDepth) ==
  {ImportersOf(rows, seeds) :
     rows \in AddedFirst(ImporterRows(imports, seeds, maxDepth), IMPORTERS_ROW_LIMIT)}

\* CodeImpactAnalysis.forDecision: the active decisions anchored to an importer
\* of a file the decision is anchored to.
ForDecision(store, imports, id, maxDepth) ==
  LET impacted(importers) ==
        UNION {{[id |-> d, file |-> f, found |-> importers[f]] :
                  f \in store[d].anchors \intersect DOMAIN importers} :
               d \in Visible(store) \ {id}}
  IN  {impacted(importers) :
         importers \in TransitiveImporters(imports, store[id].anchors, maxDepth)}

-------------------------------------------------------------------------------
\* The other ends of the DEPENDS_ON edges at d.
Linked(dependsOn, d) ==
  {IF e[1] = d THEN e[2] ELSE e[1] : e \in {e \in dependsOn : d \in {e[1], e[2]}}}

\* The rows of the recursive query, by their depth.
LinkLayers(dependsOn, id, maxDepth) ==
  LET layer[n \in 0..maxDepth] ==
        IF n = 0 THEN {id} ELSE UNION {Linked(dependsOn, d) : d \in layer[n - 1]}
  IN  layer

LinkRows(dependsOn, id, maxDepth) ==
  LET layer == LinkLayers(dependsOn, id, maxDepth) IN
  UNION {{[node |-> d, depth |-> n] : d \in layer[n]} : n \in 0..maxDepth}

\* The depth of every other decision that is linked.
DepthsOf(rows, id) ==
  [d \in {row.node : row \in rows} \ {id} |->
    Least({row.depth : row \in {row \in rows : row.node = d}})]

\* The answers EdgeRepository.getImpact may give.
GetImpact(dependsOn, id, maxDepth) ==
  {DepthsOf(rows, id) :
     rows \in AddedFirst(LinkRows(dependsOn, id, maxDepth), IMPACT_ROW_LIMIT)}

\* The answers of decisionImpact: None when the decision is not in the working
\* tree; one the walk reaches that is not is dropped, what lies behind it is not.
DecisionImpact(store, dependsOn, imports, id, maxDepth, codeDepth, codeIndexed) ==
  IF id \notin Present(store) THEN {None}
  ELSE LET shown(walked) == [d \in DOMAIN walked \intersect Present(store) |-> walked[d]] IN
       [ impacted : {shown(walked) : walked \in GetImpact(dependsOn, id, maxDepth)},
         codeImpacted : IF store[id].anchors = {} \/ ~codeIndexed THEN {{}}
                        ELSE ForDecision(store, imports, id, codeDepth),
         codeWarning : {store[id].anchors # {} /\ ~codeIndexed} ]

-------------------------------------------------------------------------------
\* EdgeRepository.listConflictPartners: declared on one side, binding on both,
\* until the partner is retired or on another branch.
ConflictPartners(store, conflictsWith, ids) ==
  [d \in ids |->
    {p \in Visible(store) : <<d, p>> \in conflictsWith \/ <<p, d>> \in conflictsWith}]

===============================================================================
