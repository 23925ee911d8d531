--------------------------- MODULE ImportResolution ---------------------------
(***************************************************************************)
(* How an import names a source file (indexer/import-resolver.ts and       *)
(* indexer/tsconfig-aliases.ts).  A path is the sequence of its tokens: a  *)
(* directory or file name is a token such as "/src" or "/..", an extension *)
(* is a token of its own, so "src/a.ts" is <<"/src", "/a", ".ts">>.        *)
(***************************************************************************)
EXTENDS Naturals, SequencesExt

CONSTANT None

ExtensionTrials ==
  <<".ts", ".tsx", ".js", ".jsx", ".mts", ".cts", ".mjs", ".cjs">>

Extensions == {ExtensionTrials[i] : i \in 1..Len(ExtensionTrials)}

\* NodeNext-style TypeScript imports "./x.js" for a source file x.ts.
Counterparts(extension) ==
  CASE extension = ".js"  -> <<".ts", ".tsx">>
    [] extension = ".jsx" -> <<".tsx">>
    [] extension = ".mjs" -> <<".mts">>
    [] extension = ".cjs" -> <<".cts">>
    [] OTHER              -> <<>>

Unresolved == [to |-> None, provenance |-> "heuristic"]

-------------------------------------------------------------------------------
\* The path without its last name and the extensions of that name.
Parent(path) ==
  LET names == {i \in DOMAIN path : path[i] \notin Extensions} IN
  IF names = {} THEN <<>>
  ELSE SubSeq(path, 1, (CHOOSE i \in names : \A j \in names : j <= i) - 1)

Escapes(path) == path # <<>> /\ Head(path) = "/.."

\* Every "/.." takes the name before it away; those at the front stay.
Normalize(path) ==
  FoldLeft(LAMBDA done, token :
             IF token = "/.." /\ done # <<>> /\ Last(done) # "/.."
             THEN Parent(done) ELSE Append(done, token),
           <<>>, path)

FirstExisting(files, candidates) ==
  IF \E i \in DOMAIN candidates : candidates[i] \in files
  THEN candidates[CHOOSE i \in DOMAIN candidates :
                    /\ candidates[i] \in files
                    /\ \A j \in 1..(i - 1) : candidates[j] \notin files]
  ELSE None

WithExtensions(stem, extensions) ==
  [i \in DOMAIN extensions |-> Append(stem, extensions[i])]

\* The candidates for a base that names no file: its TypeScript counterparts,
\* the base with an extension, the index file of the base as a directory.
Completions(base) ==
  (IF base = <<>> THEN <<>>
   ELSE WithExtensions(Front(base), Counterparts(Last(base))))
    \o WithExtensions(base, ExtensionTrials)
    \o WithExtensions(Append(base, "/index"), ExtensionTrials)

Complete(files, base) == FirstExisting(files, Completions(base))

-------------------------------------------------------------------------------
\* Mutant: the TypeScript counterpart of a file that exists is preferred to it.
ResolveRelativeCompleted(files, from, path) ==
  LET base == Normalize(Parent(from) \o path)
      completed == Complete(files, base)
  IN  IF Escapes(base) THEN Unresolved
      ELSE IF completed # None THEN [to |-> completed, provenance |-> "heuristic"]
      ELSE IF base \in files THEN [to |-> base, provenance |-> "exact"]
      ELSE Unresolved

ResolveRelative(files, from, path) ==
  LET base == Normalize(Parent(from) \o path) IN
  IF Escapes(base) THEN Unresolved
  ELSE IF base \in files THEN [to |-> base, provenance |-> "exact"]
  ELSE [to |-> Complete(files, base), provenance |-> "heuristic"]

\* A key or target of tsconfig's paths: [before, star, after], with star
\* FALSE when it has no asterisk (its text is then `before`).
Matches(key, path) ==
  IF key.star
  THEN /\ IsPrefix(key.before, path)
       /\ IsSuffix(key.after, path)
       /\ Len(path) >= Len(key.before) + Len(key.after)
  ELSE key.before = path

Middle(key, path) ==
  SubSeq(path, Len(key.before) + 1, Len(path) - Len(key.after))

\* A star that stands for nothing is a file name of its own.
Literal(target) ==
  IF target.star THEN target.before \o <<"/*">> \o target.after ELSE target.before

Substitute(pattern, path) ==
  IF ~Matches(pattern.key, path) THEN <<>>
  ELSE [i \in DOMAIN pattern.targets |->
         LET target == pattern.targets[i] IN
         IF pattern.key.star /\ target.star
         THEN target.before \o Middle(pattern.key, path) \o target.after
         ELSE Literal(target)]

\* aliases is [baseUrl, patterns], with baseUrl None when tsconfig has none.
Expand(aliases, path) ==
  LET root == IF aliases.baseUrl = None THEN <<>> ELSE aliases.baseUrl
      viaPatterns ==
        FlattenSeq([i \in DOMAIN aliases.patterns |->
                     Substitute(aliases.patterns[i], path)])
      viaBaseUrl == IF aliases.baseUrl = None THEN <<>> ELSE <<path>>
      candidates == viaPatterns \o viaBaseUrl
  IN  SelectSeq([i \in DOMAIN candidates |-> Normalize(root \o candidates[i])],
                LAMBDA c : ~Escapes(c))

ResolveAliased(files, aliases, path) ==
  LET tried(candidate) ==
        IF candidate \in files THEN candidate ELSE Complete(files, candidate)
      expanded == Expand(aliases, path)
      found == {i \in DOMAIN expanded : tried(expanded[i]) # None}
  IN  IF found = {} THEN Unresolved
      ELSE [ to |-> tried(expanded[CHOOSE i \in found : \A j \in found : i <= j]),
             provenance |-> "heuristic" ]

\* A specifier is [relative, path]: relative when it starts with ./ or ../.
Resolve(files, aliases, from, specifier) ==
  IF specifier.relative THEN ResolveRelative(files, from, specifier.path)
  ELSE ResolveAliased(files, aliases, specifier.path)

-------------------------------------------------------------------------------
\* Whether doctor expects an import to name a file of the repository.
HasResolvableIntent(aliases, specifier) ==
  specifier.relative \/ Expand(aliases, specifier.path) # <<>>

===============================================================================
