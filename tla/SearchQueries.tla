----------------------------- MODULE SearchQueries -----------------------------
(***************************************************************************)
(* Which decisions a question brings up: search and get_context            *)
(* (app/search-decisions.ts, embedding/semantic-search.ts), the hook on    *)
(* every prompt (app/prompt-gate.ts), and the candidates for a conflict    *)
(* that a save reports (app/conflict-candidates.ts).                       *)
(*                                                                         *)
(* A decision is its id, a number in the order of creation; store maps it  *)
(* to its row [status, present, module, commit, keywords, title, body],    *)
(* the texts as the sequences of their terms. What the full-text index     *)
(* ranks is given as the ranking of all the rows that match, best first.   *)
(***************************************************************************)
EXTENDS Integers, FiniteSets, SequencesExt

CONSTANT None

Shown(store) == {d \in DOMAIN store : store[d].status = "active" /\ store[d].present}

FirstOf(s, n) == SubSeq(s, 1, IF Len(s) < n THEN Len(s) ELSE n)

\* Where ranking s, which names nothing twice, has d.
Place(s, d) == CHOOSE i \in DOMAIN s : s[i] = d

\* ORDER BY and sort: the members of S as order, a set of pairs, has them.
Ranked(S, order) ==
  CHOOSE s \in [1..Cardinality(S) -> S] :
    \A i, j \in DOMAIN s : i < j => <<s[i], s[j]>> \in order

\* JOIN and filter: what ranking s has of S, in its order.
Among(s, S) ==
  Ranked(ToSet(s) \intersect S,
         {p \in ToSet(s) \X ToSet(s) : Place(s, p[1]) < Place(s, p[2])})

-------------------------------------------------------------------------------
\* Mutant: nodes_fts is not joined with nodes.
SearchExactOfAll(store, matching, limit) == FirstOf(matching, limit)

\* SearchRepository.match: the index keeps what was ever inserted, the join
\* with nodes takes out the retired and the absent before the limit.
SearchExact(store, matching, limit) ==
  FirstOf(Among(matching, Shown(store)), limit)

RRF_K == 60

\* What a place in a ranking is worth, as a fraction, and nothing without one.
Worth(ranking, d) ==
  IF d \in ToSet(ranking) THEN [num |-> 1, den |-> RRF_K + Place(ranking, d)]
  ELSE [num |-> 0, den |-> 1]

Plus(a, b) == [num |-> a.num * b.den + b.num * a.den, den |-> a.den * b.den]

Exceeds(a, b) == a.num * b.den > b.num * a.den

\* fuseRankings of the two rankings it is given: the sum of the reciprocal
\* ranks, and of two as good the one whose id comes first. (The code adds
\* doubles, so sums of different places may differ there by a rounding.)
FuseRankings(vectorLeg, bm25Leg) ==
  LET ranked == ToSet(vectorLeg) \union ToSet(bm25Leg)
      score == [d \in ranked |-> Plus(Worth(vectorLeg, d), Worth(bm25Leg, d))]
  IN  Ranked(ranked, {p \in ranked \X ranked :
                        \/ Exceeds(score[p[1]], score[p[2]])
                        \/ ~Exceeds(score[p[2]], score[p[1]]) /\ p[1] < p[2]})

\* SemanticSearch.search: similar is the ranking of the decisions near enough
\* to the intent, cached those with a vector in the cache. What was retired
\* since the cache was filled still takes its place, and is dropped at the end.
SemanticSearch(store, cached, similar, matching, topK) ==
  LET vectorLeg == Among(similar, cached)
      bm25Leg == SearchExact(store, matching, topK)
  IN  Among(FirstOf(FuseRankings(vectorLeg, bm25Leg), topK), Shown(store))

\* get_context with an intent: the module narrows the answer, not the search.
IntentContext(store, cached, similar, matching, topK, module) ==
  Among(SemanticSearch(store, cached, similar, matching, topK),
        {d \in DOMAIN store : module # None => store[d].module = module})

\* searchDecisions: the full-text index alone, or fused with the vectors.
SearchDecisions(store, cached, similar, matching, topK, exact) ==
  IF exact THEN SearchExact(store, matching, 20)
  ELSE SemanticSearch(store, cached, similar, matching, topK)

-------------------------------------------------------------------------------
\* promptTerms: the first MaxTerms of the prompt's tokens that say something.
\* A token is [fold, says]: its text without case and accents, and whether it
\* is neither short nor a stop word.
PromptTerms(prompt, maxTerms) ==
  LET terms[i \in 0..Len(prompt)] ==
        IF i = 0 THEN {}
        ELSE IF Cardinality(terms[i - 1]) < maxTerms /\ prompt[i].says
             THEN terms[i - 1] \union {prompt[i].fold}
             ELSE terms[i - 1]
  IN  terms[Len(prompt)]

Matching(store, column, terms) ==
  {d \in Shown(store) : ToSet(store[d][column]) \intersect terms # {}}

\* gatePrompt: keywords before titles, and bodies not at all. (Of those that
\* match, the three or five best are shown.)
GatePrompt(store, prompt, maxTerms) ==
  LET terms == PromptTerms(prompt, maxTerms)
      strong == Matching(store, "keywords", terms)
      weak == Matching(store, "title", terms)
  IN  IF strong # {} THEN [tier |-> "high", matching |-> strong]
      ELSE IF weak # {} THEN [tier |-> "medium", matching |-> weak]
      ELSE [tier |-> "none", matching |-> {}]

-------------------------------------------------------------------------------
\* The decisions recorded at a commit, on whatever branch, retired or not.
RecordedAt(store, sha) == {d \in DOMAIN store : store[d].commit = sha}

\* listActive, newest first; of one module, or since the first decision of a
\* commit, if one is given. An unknown commit matches nothing.
ListActive(store, module, sinceSha) ==
  LET listed == {d \in Shown(store) :
                   /\ module # None => store[d].module = module
                   /\ sinceSha # None =>
                        \E first \in RecordedAt(store, sinceSha) : first <= d}
  IN  Ranked(listed, {p \in listed \X listed : p[1] > p[2]})

\* Of any decision present, the retired ones too.
ListModules(store) ==
  {store[d].module : d \in {d \in DOMAIN store : store[d].present}} \ {None}

\* get_context without an intent.
OverviewContext(store, module, limit) ==
  [ modules |-> ListModules(store),
    decisions |-> FirstOf(ListActive(store, module, None), limit) ]

\* `cortex log`: None when no decision was recorded at the commit.
RunLog(store, module, since) ==
  IF since # None /\ RecordedAt(store, since) = {} THEN None
  ELSE ListActive(store, module, since)

-------------------------------------------------------------------------------
LinkedIds(input) ==
  input.dependsOn \union input.conflictsWith
    \union ({input.replaces, input.archives} \ {None})

\* How many keywords of d input names too; one given twice counts twice.
SharedKeywords(store, input, d) ==
  Cardinality({i \in DOMAIN store[d].keywords :
                 store[d].keywords[i] \in ToSet(input.keywords)})

\* With a module, two keywords, or one and a match of the text; without one the
\* pool is the whole store and both signals must agree.
Qualifies(store, input, matching, d) ==
  LET shared == SharedKeywords(store, input, d) IN
  IF input.module = None THEN shared >= 2 /\ d \in ToSet(matching)
  ELSE shared >= 2 \/ (d \in ToSet(matching) /\ shared >= 1)

\* bm25 ranks are negative, the best is the least; 0 is for no match.
FtsRank(matching, d) ==
  IF d \in ToSet(matching)
  THEN Place(matching, d) - Len(matching) - 1
  ELSE 0

\* byRelevance; the sort is stable, the pool has the newest first.
ByRelevance(store, input, matching, d, e) ==
  LET shared(x) == SharedKeywords(store, input, x) IN
  \/ shared(d) > shared(e)
  \/ /\ shared(d) = shared(e)
     /\ \/ FtsRank(matching, d) < FtsRank(matching, e)
        \/ FtsRank(matching, d) = FtsRank(matching, e) /\ d > e

\* conflictCandidates: hits is what the full-text index ranks for the title and
\* the keywords of input, which also has its module and its links.
ConflictCandidates(store, input, hits, limit) ==
  LET matching == SearchExact(store, hits, 20)
      pool == {d \in ToSet(ListActive(store, input.module, None)) \ LinkedIds(input) :
                 Qualifies(store, input, matching, d)}
  IN  FirstOf(Ranked(pool, {p \in pool \X pool :
                              ByRelevance(store, input, matching, p[1], p[2])}),
              limit)

===============================================================================
