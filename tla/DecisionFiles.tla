----------------------------- MODULE DecisionFiles -----------------------------
(***************************************************************************)
(* A decision as a file: decisions/decision-file.ts. A text file is either *)
(* no decision file at all or the frontmatter, a record whose fields are   *)
(* None when their key is left out, with the body below it.                *)
(*                                                                         *)
(* A text that can hold a "#" is the sequence of what stands between them; *)
(* a body is [text, returns, blanks]: what is left of it when it is        *)
(* trimmed, how many carriage returns stand before its line end (one line  *)
(* end stands for all of them), and how many characters are trimmed.       *)
(***************************************************************************)
EXTENDS Naturals, SequencesExt

CONSTANT None

Blank == ""

\* The text without anything: no symbol, or nothing after the last "#".
Empty == <<Blank>>

\* Two texts with a "#" between them.
Hashed(left, right) == left \o right

\* toAnchor: the last "#" wins.
ToAnchor(entry) ==
  IF Len(entry) = 1 THEN [filePath |-> entry, symbol |-> Empty]
  ELSE [filePath |-> Front(entry), symbol |-> <<Last(entry)>>]

\* text
AnchorText(anchor) ==
  IF anchor.symbol = Empty THEN anchor.filePath
  ELSE Hashed(anchor.filePath, anchor.symbol)

Omittable(values) == IF values = <<>> THEN None ELSE values

\* formatDecisionFile: fields without a value are left out; dirty goes with
\* the commit or not at all.
FormatDecisionFile(file) ==
  [ title |-> file.title, keywords |-> file.keywords,
    replaces |-> file.replaces, dependsOn |-> Omittable(file.dependsOn),
    anchors |-> Omittable([i \in DOMAIN file.anchors |-> AnchorText(file.anchors[i])]),
    commit |-> file.commitSha,
    dirty |-> IF file.commitSha = None THEN None ELSE file.commitDirty,
    body |-> file.body ]

\* replaceAll("\r\n", "\n") takes one carriage return from before a line end.
LineEnds(body) == [body EXCEPT !.returns = IF @ = 0 THEN 0 ELSE @ - 1]

\* splitFence trims the body.
Trimmed(body) == [body EXCEPT !.blanks = 0]

OrNone(values) == IF values = None THEN <<>> ELSE values

MINIMUM_KEYWORDS == 5

\* Mutant: the authoring minimum is asked of files too.
HasProblemOfPolicy(data) ==
  \/ data.title = Blank \/ data.body.text = Blank
  \/ Len(data.keywords) < MINIMUM_KEYWORDS \/ Blank \in ToSet(data.keywords)
  \/ data.replaces = Blank \/ Blank \in ToSet(OrNone(data.dependsOn))
  \/ Empty \in ToSet(OrNone(data.anchors))

\* frontmatterProblem: texts are not empty; lists may be.
HasProblem(data) ==
  \/ data.title = Blank \/ data.body.text = Blank
  \/ Blank \in ToSet(data.keywords)
  \/ data.replaces = Blank \/ Blank \in ToSet(OrNone(data.dependsOn))
  \/ Empty \in ToSet(OrNone(data.anchors))

\* parseDecisionFile, None when there is a problem.
ParseDecisionFile(data) ==
  IF HasProblem(data) THEN None
  ELSE [ title |-> data.title, keywords |-> data.keywords,
         replaces |-> data.replaces, dependsOn |-> OrNone(data.dependsOn),
         anchors |-> [i \in DOMAIN OrNone(data.anchors) |-> ToAnchor(data.anchors[i])],
         commitSha |-> data.commit, commitDirty |-> data.dirty = TRUE,
         body |-> Trimmed(LineEnds(data.body)) ]

-------------------------------------------------------------------------------
\* createDecisionSchema, the policy for authors: fields left out are None, the
\* others are neither empty nor too short; the body is measured untrimmed.
Accepts(input) ==
  /\ Len(input.title) >= 8
  /\ Len(input.body.text) + input.body.returns + input.body.blanks >= 30
  /\ Len(input.keywords) >= MINIMUM_KEYWORDS /\ Blank \notin ToSet(input.keywords)
  /\ input.replaces # Blank /\ Blank \notin ToSet(OrNone(input.dependsOn))
  /\ \A anchor \in ToSet(OrNone(input.anchors)) : Empty \notin {anchor.filePath, anchor.symbol}

\* toDecisionFile of save.ts, in the context of the commit at HEAD.
ToDecisionFile(input, context) ==
  [ title |-> input.title, keywords |-> input.keywords, replaces |-> input.replaces,
    dependsOn |-> OrNone(input.dependsOn),
    anchors |-> [i \in DOMAIN OrNone(input.anchors) |->
                  [input.anchors[i] EXCEPT !.symbol = IF @ = None THEN Empty ELSE @]],
    commitSha |-> context.commitSha, commitDirty |-> context.commitDirty,
    body |-> input.body ]

\* What doctor finds deficient (listActiveWithFewKeywords).
HasFewKeywords(file) == Len(file.keywords) < MINIMUM_KEYWORDS

===============================================================================
