------------------------------- MODULE MCQueries -------------------------------
(***************************************************************************)
(* The inputs the queries are checked on.                                  *)
(***************************************************************************)
EXTENDS QueriesProps, TLC, FiniteSetsExt

-------------------------------------------------------------------------------
\* Three files, each importing each of the others or not, exactly or not; the
\* second decision is anchored to all of them, the third is retired.
Sources == {"a", "b", "c"}
Pairs == {p \in Sources \X Sources : p[1] # p[2]}

AnchoredTo(first) ==
  <<[status |-> "active", present |-> TRUE, anchors |-> first],
    [status |-> "active", present |-> TRUE, anchors |-> Sources],
    [status |-> "archived", present |-> TRUE, anchors |-> Sources]>>

MCImportGraphs ==
  {[ imports |-> {[from |-> p[1], to |-> p[2], provenance |-> how[p]] :
                    p \in {p \in Pairs : how[p] # None}},
     store |-> AnchoredTo(anchors), id |-> 1, depth |-> depth, codeIndexed |-> indexed ] :
     how \in [Pairs -> {None, "exact", "heuristic"}],
     anchors \in {{"a"}, {"a", "b"}}, depth \in 1..3, indexed \in {TRUE}}
  \union
  {[ imports |-> {}, store |-> AnchoredTo({"a"}), id |-> 1, depth |-> 1,
     codeIndexed |-> FALSE ]}

\* Four decisions with up to four links, one of them perhaps on another branch.
MCLinkGraphs ==
  {[ store |-> [d \in 1..4 |-> [status |-> "active", present |-> d # away, anchors |-> {}]],
     dependsOn |-> links, id |-> 1, depth |-> depth ] :
     links \in UNION {kSubset(k, (1..4) \X (1..4) \ {<<d, d>> : d \in 1..4}) : k \in 0..4},
     depth \in 1..3, away \in 0..2}

\* Three decisions, any of them retired or absent.
MCConflictGraphs ==
  {[store |-> store, conflictsWith |-> conflicts] :
     store \in [1..3 -> [status : {"active", "archived"}, present : BOOLEAN]],
     conflicts \in SUBSET {<<1, 2>>, <<2, 1>>, <<2, 3>>, <<1, 3>>}}

-------------------------------------------------------------------------------
\* Two files that may have symbols, a file with the name of a symbol, another in a
\* directory with that name but for its case; a decision with any anchors of these
\* or of their directory, and one of a file as a whole.
Name(s) == <<s>>
A == <<Name("src"), Name("a")>>
B == <<Name("src"), Name("b")>>
Root == <<Name("f")>>
Cased == <<Name("F"), Name("a")>>
Symbols == {Name("f"), <<"C", "f">>, <<"C", "fg">>}

\* "F/a" LIKE "f/%"; "C.fg" LIKE "%f%", which every name asked for ends in.
MCPathLike == {<<Cased, Root>>}
MCNameLike == {<<<<"C", "fg">>, Name("f")>>, <<<<"C", "fg">>, <<"C", "f">>>>}

CodeAnchors ==
  { [file |-> A, symbol |-> <<>>], [file |-> A, symbol |-> Name("f")],
    [file |-> A, symbol |-> <<"C", "h">>], [file |-> B, symbol |-> <<"C", "f">>],
    [file |-> Root, symbol |-> <<>>], [file |-> Cased, symbol |-> <<>>],
    [file |-> Front(A), symbol |-> <<>>] }

MCAnchoredCode ==
  {[ store |-> << [status |-> status, present |-> present, anchors |-> anchors],
                  [status |-> "active", present |-> TRUE,
                   anchors |-> {[file |-> B, symbol |-> <<>>]}] >>,
     tree |-> tree,
     code |-> [symbols |-> symbols, byName |-> << <<"C", "f">>, <<"C", "fg">>, Name("f") >>] ] :
     status \in {"active", "replaced"}, present \in BOOLEAN, anchors \in SUBSET CodeAnchors,
     tree \in SUBSET {A, B}, symbols \in SUBSET [file : {A, B}, name : Symbols]}

-------------------------------------------------------------------------------
Rankings == UNION {SetToAllKPermutations(S) : S \in {1..3}}

Row(status, module, keywords, title, body) ==
  [ status |-> status, present |-> TRUE, module |-> module, commit |-> None,
    keywords |-> keywords, title |-> title, body |-> body ]

MCIntents ==
  {[ store |-> [d \in 1..3 |->
       Row(IF d \in shown THEN "active" ELSE "archived",
           IF d = 1 THEN "m" ELSE None, <<>>, <<>>, <<>>)],
     cached |-> cached, similar |-> similar, matching |-> matching, topK |-> topK ] :
     shown \in SUBSET (1..3), cached \in SUBSET (1..3),
     similar \in Rankings, matching \in Rankings, topK \in 1..2}

\* Prompts of up to four tokens of which two count.
Tokens == {[fold |-> f, says |-> TRUE] : f \in {"x", "y", "z"}}
            \union {[fold |-> "x", says |-> FALSE]}

MCPrompts ==
  {[ store |-> <<Row("active", None, k, t, b), Row("archived", None, <<"y">>, <<"z">>, <<>>)>>,
     prompt |-> prompt, maxTerms |-> 2 ] :
     k \in {<<>>, <<"x">>, <<"z">>}, t \in {<<"x">>, <<"y">>}, b \in {<<"x", "y", "z">>},
     prompt \in BoundedSeq(Tokens, 4)}

\* What is saved names decision 1 in one of the ways it can, or not at all.
Unlinked == [ module |-> None, keywords |-> <<"k", "l">>, dependsOn |-> {},
              conflictsWith |-> {}, replaces |-> None, archives |-> None ]

LinksOfASave ==
  {Unlinked, [Unlinked EXCEPT !.dependsOn = {1}], [Unlinked EXCEPT !.conflictsWith = {1}],
   [Unlinked EXCEPT !.replaces = 1], [Unlinked EXCEPT !.archives = 1]}

\* Three decisions against one to be saved, two candidates to be shown.
MCSaves ==
  {[ store |-> [d \in 1..3 |-> Row("active", IF d \in fenced THEN "m" ELSE None,
                                   keywords[d], <<>>, <<>>)],
     input |-> [links EXCEPT !.module = module],
     hits |-> hits, limit |-> 2 ] :
     fenced \in {{1, 2}, {1, 2, 3}}, keywords \in [1..3 -> {<<>>, <<"k">>, <<"k", "l">>}],
     module \in {None, "m"}, links \in LinksOfASave, hits \in Rankings}

\* Four decisions, two to be shown, recorded at either of two commits or at none.
MCCommits ==
  {[ store |-> [d \in 1..4 |->
       [ Row(IF d = retired THEN "replaced" ELSE "active",
             IF d \in fenced THEN "m" ELSE None, <<>>, <<>>, <<>>)
         EXCEPT !.present = (d # away), !.commit = commit[d] ]],
     since |-> "c", limit |-> 2 ] :
     fenced \in SUBSET (1..4), retired \in 0..4, away \in 0..2,
     commit \in [1..4 -> {None, "b", "c"}]}

-------------------------------------------------------------------------------
\* Anchors whose path or symbol holds a "#" or ends in one or two, blank bodies
\* and bodies with carriage returns, few keywords, and a commit that dirty goes
\* with.
Anchors ==
  [ filePath : {File!Empty, <<"a">>, <<"a", "b">>, <<"a", "">>, <<"a", "", "">>},
    symbol : {File!Empty, <<"s">>, <<"s", "p">>, <<"s", "">>} ]

Bodies == [text : {""}, returns : {0}, blanks : {0, 1}]
            \union [text : {"b"}, returns : 0..2, blanks : {0, 1}]

MCFiles ==
  {file \in [ title : {"t"}, keywords : {<<>>, <<"k", "l">>},
              replaces : {None, "d"}, dependsOn : {<<>>, <<"e">>},
              anchors : BoundedSeq(Anchors, 1) \union [1..2 -> Anchors],
              commitSha : {None, "c"}, commitDirty : BOOLEAN, body : Bodies ] :
     /\ file.commitSha = None => ~file.commitDirty
     /\ Len(file.anchors) = 2 =>
          file.keywords = <<>> /\ file.replaces = None /\ file.commitSha = None}

Optional(S) == S \union {None}

\* What an author may send: texts empty, too short or just long enough, anchors
\* with and without a symbol.
MCDrafts ==
  [ input : [ title : {"", "Caching", "Cache it"},
              keywords : {<<"k">>, <<"a", "b", "c", "d">>, <<"a", "b", "c", "d", "e">>,
                          <<"a", "b", "c", "d", "">>},
              replaces : Optional({"", "d"}), dependsOn : Optional({<<>>, <<"e">>}),
              anchors : Optional({<<a>> : a \in [ filePath : {File!Empty, <<"a">>, <<"a", "b">>, <<"a", "">>, <<"", "">>},
                                               symbol : Optional({File!Empty, <<"s">>, <<"s", "">>}) ]}),
              body : [text : {""}, returns : {0}, blanks : {0, 29, 30}]
                       \union [text : {"b"}, returns : {0, 2}, blanks : {0, 27, 29}] ],
    context : {[commitSha |-> "c", commitDirty |-> TRUE],
               [commitSha |-> None, commitDirty |-> FALSE]} ]

-------------------------------------------------------------------------------
\* A module next to its directory, its JavaScript and a target of an alias.
Tree ==
  { <<"/src", "/a", ".ts">>, <<"/src", "/a", ".js">>, <<"/src", "/a", "/index", ".ts">>,
    <<"/a", ".ts">>, <<"/lib", "/a", ".tsx">>, <<"/src", "/index", ".ts">> }

Aliases ==
  { [baseUrl |-> None, patterns |-> <<>>],
    [baseUrl |-> <<"/src">>, patterns |->
       << [key |-> [before |-> <<"/@">>, star |-> TRUE, after |-> <<>>],
           targets |-> <<[before |-> <<"/..", "/lib">>, star |-> TRUE, after |-> <<>>],
                         [before |-> <<>>, star |-> TRUE, after |-> <<>>]>>],
          [key |-> [before |-> <<"/a">>, star |-> FALSE, after |-> <<>>],
           targets |-> <<[before |-> <<"/..", "/lib">>, star |-> TRUE, after |-> <<>>],
                         [before |-> <<"/..", "/lib", "/a">>, star |-> FALSE,
                          after |-> <<>>]>>] >>] }

MCSpecifiers ==
  {[ files |-> files, more |-> Tree, aliases |-> aliases,
     from |-> <<"/src", "/x", ".ts">>,
     specifier |-> [relative |-> relative, path |-> path] ] :
     files \in SUBSET Tree, aliases \in Aliases, relative \in BOOLEAN,
     path \in { <<"/a">>, <<"/a", ".js">>, <<"/a", ".ts">>, <<"/..", "/a">>,
                <<"/..", "/..", "/a">>, <<"/@", "/a">>, <<"/..", "/src">> }}

-------------------------------------------------------------------------------
\* These inputs are of the kind the theorems speak of.
ASSUME InputsAssumption ==
  /\ NoneIsNoValue /\ Len(File!Blank) = 0
  /\ \A file \in MCFiles : file \in FileRecord
  /\ \A draft \in MCDrafts : draft \in DraftRecord
  /\ \A s \in MCSpecifiers : IsSpecifier(s)
  /\ \A g \in MCImportGraphs : IsImportGraph(g)
  /\ \A g \in MCLinkGraphs : IsLinkGraph(g)
  /\ \A q \in MCAnchoredCode : IsAnchoredCode(q)
  /\ \A q \in MCIntents : IsIntent(q)
  /\ \A p \in MCPrompts : IsPrompt(p)
  /\ \A s \in MCSaves : IsSave(s)
  /\ \A b \in MCCommits : IsCommit(b)

\* Every walk has an answer.
ASSUME WalksAnswer ==
  /\ \A g \in MCLinkGraphs : Impact!GetImpact(g.dependsOn, g.id, g.depth) # {}
  /\ \A g \in MCImportGraphs :
       Impact!TransitiveImporters(g.imports, g.store[g.id].anchors, g.depth) # {}

===============================================================================
