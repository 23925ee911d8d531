----------------------------- MODULE QueriesProps ------------------------------
(***************************************************************************)
(* The queries against reference definitions: one input is drawn and       *)
(* stays, and what each query makes of it is compared with what it should. *)
(***************************************************************************)
EXTENDS Naturals, FiniteSets, SequencesExt

CONSTANTS
  None, IMPACT_ROW_LIMIT, IMPORTERS_ROW_LIMIT,
  ImportGraphs, LinkGraphs, ConflictGraphs,
  PathLike, NameLike, AnchoredCode, Intents, Prompts, Saves, Commits, Files, Drafts, Specifiers

Impact == INSTANCE ImpactQueries
Anchor == INSTANCE AnchorQueries
Search == INSTANCE SearchQueries
File == INSTANCE DecisionFiles
Import == INSTANCE ImportResolution

VARIABLE input

Kinds ==
  [ imports |-> ImportGraphs, links |-> LinkGraphs, conflicts |-> ConflictGraphs,
    anchors |-> AnchoredCode, intent |-> Intents, prompt |-> Prompts, save |-> Saves,
    commit |-> Commits, file |-> Files, draft |-> Drafts, specifier |-> Specifiers ]

Init == \E kind \in DOMAIN Kinds : \E x \in Kinds[kind] : input = [kind |-> kind, of |-> x]

Next == UNCHANGED input

Spec == Init /\ [][Next]_input

Is(kind) == input.kind = kind

-------------------------------------------------------------------------------
\* All the ways from path to a seed along at most n imports.
Chains(imports, path, seeds, n) ==
  {c \in UNION {[1..k -> imports] : k \in 1..n} :
     /\ c[1].from = path /\ c[Len(c)].to \in seeds
     /\ \A k \in 1..(Len(c) - 1) : c[k].to = c[k + 1].from}

\* What is shown is there and as near as it says, and what is not shown for the
\* row limit's sake is no nearer than any that is.
ShowsNearest(g, found) ==
  LET seeds == g.store[g.id].anchors
      whole == Cardinality(Impact!ImporterRows(g.imports, seeds, g.depth))
                 <= IMPORTERS_ROW_LIMIT
      chains(f) == Chains(g.imports, f, seeds, g.depth)
      exact(c) == \A k \in DOMAIN c : c[k].provenance = "exact"
      expected(d, f) ==
        /\ g.codeIndexed /\ d # g.id /\ f \in g.store[d].anchors \ seeds
        /\ g.store[d].status = "active" /\ g.store[d].present
        /\ chains(f) # {}
  IN  /\ \A d \in DOMAIN g.store : \A f \in g.store[d].anchors :
           LET shown == \E x \in found : x.id = d /\ x.file = f IN
           /\ shown => expected(d, f)
           /\ expected(d, f) /\ ~shown =>
                ~whole /\ \A x \in found : \A c \in chains(f) : x.found.depth <= Len(c)
      /\ \A x \in found :
           /\ \A c \in chains(x.file) : x.found.depth <= Len(c)
           /\ \E c \in chains(x.file) : x.found.depth = Len(c)
           /\ x.found.provenance = "exact" => \E c \in chains(x.file) : exact(c)
           /\ whole /\ (\E c \in chains(x.file) : exact(c)) => x.found.provenance = "exact"

CodeImpactIsNearest(g) ==
  \A impact \in Impact!DecisionImpact(
                  g.store, {}, g.imports, g.id, 1, g.depth, g.codeIndexed) :
    ShowsNearest(g, impact.codeImpacted)

\* All the ways from d to e along at most n links, whichever way they point.
Routes(dependsOn, d, e, n) ==
  {r \in UNION {[1..(k + 1) -> {d, e} \union UNION {{l[1], l[2]} : l \in dependsOn}] :
                  k \in 1..n} :
     /\ r[1] = d /\ r[Len(r)] = e
     /\ \A k \in 1..(Len(r) - 1) :
          <<r[k], r[k + 1]>> \in dependsOn \/ <<r[k + 1], r[k]>> \in dependsOn}

LinkImpactIsNearest(g) ==
  LET whole(d) == Cardinality(Impact!LinkRows(g.dependsOn, d, g.depth)) <= IMPACT_ROW_LIMIT IN
  \A impact \in Impact!DecisionImpact(g.store, g.dependsOn, {}, g.id, g.depth, 1, TRUE) :
    IF ~g.store[g.id].present THEN impact = None
    ELSE \A e \in DOMAIN g.store \ {g.id} :
           LET routes == Routes(g.dependsOn, g.id, e, g.depth) IN
           /\ e \in DOMAIN impact.impacted =>
                /\ g.store[e].present
                /\ \A r \in routes : impact.impacted[e] <= Len(r) - 1
                /\ \E r \in routes : impact.impacted[e] = Len(r) - 1
                /\ \A back \in Impact!GetImpact(g.dependsOn, e, g.depth) :
                     IF g.id \in DOMAIN back THEN back[g.id] = impact.impacted[e]
                     ELSE ~whole(e)
           /\ g.store[e].present /\ routes # {} /\ e \notin DOMAIN impact.impacted =>
                /\ ~whole(g.id)
                /\ \A d \in DOMAIN impact.impacted : \A r \in routes :
                     impact.impacted[d] <= Len(r) - 1

ConflictBindsBoth(g) ==
  LET partners == Impact!ConflictPartners(g.store, g.conflictsWith, DOMAIN g.store) IN
  \A d, e \in Impact!Visible(g.store) :
    /\ e \in partners[d] <=> d \in partners[e]
    /\ e \in partners[d] <=> {<<d, e>>, <<e, d>>} \intersect g.conflictsWith # {}

\* Of what is visible, doctor reports the symbol anchors through which why shows
\* nothing, and those alone; asked for the symbol, why does show the others, save
\* where some anchored path begins with the symbol's name or is LIKE it (App and
\* app/): then it answers with the decisions of that path. What save_decision warns of is what
\* doctor will report. Whatever why tells of a symbol it tells of its file. A
\* symbol that moved, to another file or owner, is hinted at, and hints are all
\* of the anchor's file or none is.
AnchorsAreTold(q) ==
  LET why(target) == Anchor!BuildReport(q.store, q.code, target)
      report(symbol) == Anchor!SymbolReport(q.store, q.code, symbol)
      orphans == Anchor!OrphanSymbolAnchors(q.store, q.code)
      shows(answer, d, a) ==
        /\ answer.matchedBy = "symbol"
        /\ a.file \in DOMAIN answer.locations
        /\ d \in answer.locations[a.file]
      shadowed(symbol) == \E d \in Anchor!Present(q.store) :
                            \E a \in q.store[d].anchors :
                              a.file[1] = symbol \/ <<a.file, <<symbol>>>> \in PathLike
  IN  /\ \A d \in Anchor!ListActive(q.store) : \A a \in q.store[d].anchors :
           a.symbol # <<>> =>
             LET orphan == \E o \in orphans : o.id = d /\ o.anchor = a IN
             /\ orphan <=> ~shows(report(a.symbol), d, a)
             /\ shadowed(a.symbol) => why(<<a.symbol>>).matchedBy = "path"
             /\ ~shadowed(a.symbol) => (orphan <=> ~shows(why(<<a.symbol>>), d, a))
      /\ \A d \in Anchor!ListActive(q.store) :
           LET anchors == q.store[d].anchors IN
           /\ Anchor!AnchorWarnings(q.tree, anchors) =
                {o.anchor : o \in {o \in Anchor!OrphanAnchors(q.store, q.tree) : o.id = d}}
           /\ Anchor!SymbolWarnings(q.code, anchors) =
                {[anchor |-> o.anchor, hint |-> o.hint] : o \in {o \in orphans : o.id = d}}
      /\ \A s \in q.code.symbols :
           Anchor!ListByFileAnchorOrSymbol(q.store, s.file, s.name)
             \subseteq Anchor!ListByAnchorPath(q.store, s.file)
      /\ \A o \in orphans :
           /\ (\E s \in q.code.symbols : Last(s.name) = Last(o.anchor.symbol)) => o.hint # {}
           /\ LET ofFile(n) == Anchor!HasSymbol(q.code, o.anchor.file, n) IN
              \A n, m \in o.hint : ofFile(n) => ofFile(m)

\* get_impact says of every decision how near it is by the shortest way, through
\* decisions of other branches too, calls an import chain exact only when some
\* chain within reach is exact throughout, and shows nothing that is retired
\* (for code) or absent; where there are more rows than its limit it leaves out
\* none that is nearer than one it shows. A conflict shows from both of its sides. What doctor and
\* save_decision say of anchors is what why makes of them.
CodeTellsItsDecisions ==
  /\ Is("imports") => CodeImpactIsNearest(input.of)
  /\ Is("links") => LinkImpactIsNearest(input.of)
  /\ Is("conflicts") => ConflictBindsBoth(input.of)
  /\ Is("anchors") => AnchorsAreTold(input.of)

-------------------------------------------------------------------------------
\* answer is of S, names nothing twice, and has nothing without all that is
\* better, further up; better is a set of pairs, the first before the second.
AreRanked(answer, S, better) ==
  /\ ToSet(answer) \subseteq S
  /\ Cardinality(ToSet(answer)) = Len(answer)
  /\ \A d, e \in S : <<d, e>> \in better /\ Contains(answer, e) =>
       Contains(answer, d) /\ Search!Place(answer, d) < Search!Place(answer, e)

LesserOf(m, n) == IF m < n THEN m ELSE n

\* And it is as long as it may be.
AreBest(answer, S, n, better) ==
  AreRanked(answer, S, better) /\ Len(answer) = LesserOf(Cardinality(S), n)

\* In ranking s, of which only S counts, d does at least as well as e.
AheadIn(s, S, d, e) ==
  e \in S /\ Contains(s, e) =>
    d \in S /\ Contains(s, d) /\ Search!Place(s, d) <= Search!Place(s, e)

Ahead(s) == {p \in ToSet(s) \X ToSet(s) : Search!Place(s, p[1]) < Search!Place(s, p[2])}

SearchIsRanked(q) ==
  LET search(exact) == Search!SearchDecisions(
                         q.store, q.cached, q.similar, q.matching, q.topK, exact)
      answer == search(FALSE)
      narrowed(module) ==
        Search!IntentContext(q.store, q.cached, q.similar, q.matching, q.topK, module)
      shown == Search!Shown(q.store)
      vector == ToSet(q.similar) \intersect q.cached
      text == ToSet(q.matching) \intersect shown
      found == vector \union text
      better == {p \in found \X found :
                   /\ p[1] # p[2]
                   /\ AheadIn(q.similar, q.cached, p[1], p[2])
                   /\ AheadIn(q.matching, shown, p[1], p[2])}
  IN  /\ AreRanked(answer, found \intersect shown, better)
      /\ vector \subseteq shown => Len(answer) = LesserOf(Cardinality(found), q.topK)
      /\ AreBest(search(TRUE), text, 20, Ahead(q.matching))
      /\ vector = {} => AreBest(answer, text, q.topK, Ahead(q.matching))
      /\ \A module \in {q.store[d].module : d \in DOMAIN q.store} \ {None} :
           AreBest(narrowed(module), {d \in ToSet(answer) : q.store[d].module = module},
                   q.topK, Ahead(answer))

\* Some decision shown has in column one of the first terms that say something.
Hits(p, column) ==
  {d \in Search!Shown(p.store) : \E i \in DOMAIN p.prompt :
     LET before == {p.prompt[j].fold : j \in {j \in 1..(i - 1) : p.prompt[j].says}} IN
     /\ p.prompt[i].says /\ Contains(p.store[d][column], p.prompt[i].fold)
     /\ Cardinality(before \ {p.prompt[i].fold}) < p.maxTerms}

GateIsPrecise(p) ==
  LET gate == Search!GatePrompt(p.store, p.prompt, p.maxTerms) IN
  IF Hits(p, "keywords") # {} THEN gate = [tier |-> "high", matching |-> Hits(p, "keywords")]
  ELSE IF Hits(p, "title") # {} THEN gate = [tier |-> "medium", matching |-> Hits(p, "title")]
  ELSE gate.tier = "none"

\* Of decisions d and e, d shares more keywords with what is saved, or as
\* many and its text matches better.
Nearer(s, matching, d, e) ==
  LET shared(x) == Search!SharedKeywords(s.store, s.input, x) IN
  \/ shared(d) > shared(e)
  \/ /\ shared(d) = shared(e) /\ d # e
     /\ Contains(matching, d) /\ AheadIn(matching, Search!Shown(s.store), d, e)

CandidatesAreNearest(s) ==
  LET candidates == Search!ConflictCandidates(s.store, s.input, s.hits, s.limit)
      matching == Search!SearchExact(s.store, s.hits, 20)
      named == s.input.dependsOn \union s.input.conflictsWith
                 \union {s.input.replaces, s.input.archives}
      qualified == {d \in Search!Shown(s.store) \ named :
                      /\ s.input.module # None => s.store[d].module = s.input.module
                      /\ Search!Qualifies(s.store, s.input, matching, d)}
      unfenced == Search!ConflictCandidates(
                    s.store, [s.input EXCEPT !.module = None], s.hits, 20)
  IN  /\ AreBest(candidates, qualified, s.limit,
                 {p \in qualified \X qualified : Nearer(s, matching, p[1], p[2])})
      /\ \A d \in ToSet(unfenced) :
           s.input.module # None /\ s.store[d].module = s.input.module => d \in qualified

\* Every module that narrows an answer to something is offered, the newest come
\* first, and `log --since` a commit misses nothing decided at that commit.
BrowsingIsComplete(b) ==
  LET overview(module) == Search!OverviewContext(b.store, module, b.limit)
      log == Search!RunLog(b.store, None, b.since)
      shown == Search!Shown(b.store)
      newer == {p \in shown \X shown : p[1] > p[2]}
  IN  /\ \A m \in {b.store[d].module : d \in shown} \ {None} :
           m \in overview(None).modules /\ overview(m).decisions # <<>>
      /\ \A m \in overview(None).modules \union {None} :
           AreBest(overview(m).decisions,
                   {d \in shown : m \in {None, b.store[d].module}}, b.limit, newer)
      /\ log = None <=> \A d \in DOMAIN b.store : b.store[d].commit # b.since
      /\ log # None =>
           /\ {d \in shown : b.store[d].commit = b.since} \subseteq ToSet(log)
           /\ AreRanked(log, shown, newer)

\* No answer ranks what both of its signals place lower, none holds a decision
\* that is retired or absent, and none is shorter than it could be unless the
\* cache is stale; a prompt brings up only what its first terms are keywords or
\* titles of; a save is compared with whatever shares the most with it. What can
\* be browsed leaves nothing out that its own filters offer.
AnswersAreRanked ==
  /\ Is("commit") => BrowsingIsComplete(input.of)
  /\ Is("intent") => SearchIsRanked(input.of)
  /\ Is("prompt") => GateIsPrecise(input.of)
  /\ Is("save") => CandidatesAreNearest(input.of)

-------------------------------------------------------------------------------
\* One "#" more or less is what an anchor's text cannot tell: those that come
\* back have a symbol without one, or neither a symbol nor one in the path.
ComesBack(anchor) ==
  Len(anchor.symbol) = 1 /\ (anchor.symbol = File!Empty => Len(anchor.filePath) = 1)

\* Neither a path nor a symbol; this is what the text "#" is read as.
Nameless == [filePath |-> File!Empty, symbol |-> File!Empty]

EndsInHash(anchor) == Last(File!AnchorText(anchor)) = File!Blank

Reread(file) == File!ParseDecisionFile(File!FormatDecisionFile(file))

\* What a checkout reads of file: nothing if the body is blank or an anchor
\* nameless, and otherwise the file without the blank around its body, with one
\* carriage return less, and with other anchors for those that do not come back.
ReadsAs(file, back) ==
  IF file.body.text = File!Blank \/ Nameless \in ToSet(file.anchors) THEN back = None
  ELSE /\ back # None
       /\ back = [file EXCEPT !.anchors = back.anchors, !.body =
                    [ text |-> @.text, blanks |-> 0,
                      returns |-> IF @.returns = 0 THEN 0 ELSE @.returns - 1 ]]
       /\ DOMAIN back.anchors = DOMAIN file.anchors
       /\ \A i \in DOMAIN file.anchors :
            back.anchors[i] = file.anchors[i] <=> ComesBack(file.anchors[i])

\* A checkout where git writes CRLF reads what the others read. A file that was
\* read reads the same when it is written again, if none of its anchors ended in
\* "#" (each reading takes one such away) and no line in two carriage returns.
FileComesBack(file) ==
  LET back == Reread(file) IN
  /\ ReadsAs(file, back)
  /\ file.body.returns = 0 => Reread([file EXCEPT !.body.returns = 1]) = back
  /\ back # None =>
       /\ ReadsAs(back, Reread(back))
       /\ (\A i \in DOMAIN file.anchors : ~EndsInHash(file.anchors[i]))
            /\ file.body.returns < 2 => Reread(back) = back

\* What save_decision accepts is written so that it is read, and lacks no
\* keywords in doctor's eyes; except for a body of blanks, which is long enough
\* to be accepted and read by nobody.
DraftComesBack(draft) ==
  File!Accepts(draft.input) =>
    LET file == File!ToDecisionFile(draft.input, draft.context) IN
    /\ FileComesBack(file)
    /\ Reread(file) = None <=> draft.input.body.text = File!Blank
    /\ ~File!HasFewKeywords(file)

\* What is saved here is what every other checkout reads, with whatever line
\* ends git gives it: up to the blank around the body, a carriage return where a
\* line ends in some, and the anchors a "#" makes ambiguous. It is read even
\* where it predates the rules for authors.
FilesComeBack ==
  /\ Is("file") => FileComesBack(input.of)
  /\ Is("draft") => DraftComesBack(input.of)

\* An import is resolved to a source file, exactly when it names that file; and
\* one more file can only be a better target itself: it takes no import's target
\* away and moves none elsewhere; and doctor counts every import that is resolved
\* among those that should be. (What lets an index keep the imports of files
\* that have not changed until the set of files does.)
ImportsStayResolved ==
  Is("specifier") =>
    LET s == input.of
        resolved(files) == Import!Resolve(files, s.aliases, s.from, s.specifier)
        found == resolved(s.files)
    IN  /\ found.to # None => found.to \in s.files
        /\ found.provenance = "exact" <=>
             /\ s.specifier.relative
             /\ Import!Normalize(Import!Parent(s.from) \o s.specifier.path) \in s.files
        /\ found.provenance = "exact" =>
             found.to = Import!Normalize(Import!Parent(s.from) \o s.specifier.path)
        /\ found.to # None => Import!HasResolvableIntent(s.aliases, s.specifier)
        /\ \A f \in s.more :
             resolved(s.files \union {f}).to \in {found.to, f}

-------------------------------------------------------------------------------
(***************************************************************************)
(* The inputs the theorems speak of; those of an instance are among them.  *)
(***************************************************************************)

\* Every text; that the blank one is among them the provers cannot tell.
String == STRING \union {File!Blank}

Word == String \ {File!Blank}

Text == Seq(String) \ {<<>>}

AnchorRecord == [filePath : Text, symbol : Text]

Body == [text : String, returns : Nat, blanks : Nat]

FileRecord ==
  {file \in [ title : Word, keywords : Seq(Word), replaces : Word \union {None},
              dependsOn : Seq(Word), anchors : Seq(AnchorRecord),
              commitSha : Word \union {None}, commitDirty : BOOLEAN, body : Body ] :
     file.commitSha = None => ~file.commitDirty}

\* What an author may send: any texts, accepted or not.
AnchorDraft == [filePath : Text, symbol : Text \union {None}]

DraftRecord ==
  [ input : [ title : String, keywords : Seq(String), replaces : String \union {None},
              dependsOn : Seq(String) \union {None},
              anchors : Seq(AnchorDraft) \union {None}, body : Body ],
    context : {context \in [commitSha : Word \union {None}, commitDirty : BOOLEAN] :
                 context.commitSha = None => ~context.commitDirty} ]

\* The absence of a value is neither a text, a flag, a list nor a record. (Nor
\* the text "symbol", which the provers do not know to be one.)
NoneIsNoValue ==
  None \notin String \union {"symbol"} \union BOOLEAN \union Seq(String) \union Seq(Seq(String))
                \union Seq(Nat) \union FileRecord

\* An import asked about: files lie in the repository, and what the aliases
\* make of the specifier is a list.
IsSpecifier(s) ==
  /\ s.specifier.relative \in BOOLEAN
  /\ None \notin s.files \union s.more
  /\ \A file \in s.files : ~Import!Escapes(file)
  /\ DOMAIN Import!Expand(s.aliases, s.specifier.path) \subseteq Nat

\* An import is exact or a guess.
Graded(imports) == \A i \in imports : i.provenance \in {"exact", "heuristic"}

\* What get_impact is asked of, for code: a decision of the working tree.
IsImportGraph(g) ==
  /\ g.depth \in Nat /\ g.id \in DOMAIN g.store /\ g.store[g.id].present
  /\ g.codeIndexed \in BOOLEAN
  /\ \A d \in DOMAIN g.store : g.store[d].present \in BOOLEAN
  /\ Graded(g.imports)

\* And for decisions: any decision, links between any two.
IsLinkGraph(g) ==
  /\ g.depth \in Nat /\ g.id \in DOMAIN g.store
  /\ \A d \in DOMAIN g.store : g.store[d].present \in BOOLEAN
  /\ \A l \in g.dependsOn : l = <<l[1], l[2]>>

\* What why is asked of: an index that can be read, which lists its names, and
\* paths and names of one part at least.
IsAnchoredCode(q) ==
  /\ q.code # None /\ DOMAIN q.code.byName \subseteq Nat
  /\ \A s \in q.code.symbols :
       /\ s = [file |-> s.file, name |-> s.name] /\ s.name \in Seq(STRING) \ {<<>>}
       /\ \E i \in DOMAIN q.code.byName : q.code.byName[i] = s.name
  /\ \A d \in DOMAIN q.store : \A a \in q.store[d].anchors :
       a.file \in Seq(Seq(STRING)) \ {<<>>}

\* A store of finitely many decisions, which are numbers.
IsStore(store) ==
  /\ DOMAIN store \subseteq Nat /\ IsFiniteSet(DOMAIN store)
  /\ None \notin DOMAIN store

\* A ranking of decisions names none twice.
IsRanking(s) == s \in Seq(Nat) /\ \A i, j \in DOMAIN s : s[i] = s[j] => i = j

IsIntent(q) ==
  IsStore(q.store) /\ IsRanking(q.similar) /\ IsRanking(q.matching) /\ q.topK \in Nat

IsPrompt(p) ==
  /\ IsStore(p.store) /\ p.maxTerms \in Nat
  /\ \A d \in DOMAIN p.store :
       p.store[d].keywords \in Seq(STRING) /\ p.store[d].title \in Seq(STRING)
  /\ p.prompt \in Seq([fold : STRING, says : BOOLEAN])

IsSave(s) ==
  /\ IsStore(s.store) /\ IsRanking(s.hits) /\ s.limit \in Nat
  /\ \A d \in DOMAIN s.store : s.store[d].keywords \in Seq(STRING)
  /\ s.input = [ module |-> s.input.module, keywords |-> s.input.keywords,
                 dependsOn |-> s.input.dependsOn, conflictsWith |-> s.input.conflictsWith,
                 replaces |-> s.input.replaces, archives |-> s.input.archives ]

\* What `log` is asked to begin with is a commit, and an overview shows something.
IsCommit(b) == IsStore(b.store) /\ b.since # None /\ b.limit \in Nat \ {0}

===============================================================================
