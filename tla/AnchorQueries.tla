----------------------------- MODULE AnchorQueries -----------------------------
(***************************************************************************)
(* How decisions and the code they govern find each other: `cortex why`,   *)
(* the warnings of save_decision and the orphans of `cortex doctor`.       *)
(*                                                                         *)
(* A name is the sequence of the parts between its dots, a path the        *)
(* sequence of the names between its slashes; <<>> is the symbol of an     *)
(* anchor without one.  store maps a decision to its row [status, present, *)
(* anchors], tree is the set of the files there are, code what code.db     *)
(* says: [symbols, byName], the pairs [file, name] and the names in order. *)
(***************************************************************************)
EXTENDS Naturals, SequencesExt

CONSTANTS
  None,
  \* What SQLite's LIKE finds beyond the exact text: it ignores the case of ASCII
  \* letters, and takes "_" and "%" of what is asked for as wildcards.
  PathLike, \* pairs <<path, asked>> with  path LIKE asked || '/%'
  NameLike  \* pairs <<name, asked>> where LIKE finds a part of asked in name

Present(store) == {d \in DOMAIN store : store[d].present}

ListActive(store) == {d \in Present(store) : store[d].status = "active"}

\* listByAnchorPath: the decisions of a file or of all that is in a directory or
\* in one LIKE it, the retired ones among them.
ListByAnchorPath(store, path) ==
  {d \in Present(store) : \E a \in store[d].anchors :
     IsPrefix(path, a.file) \/ <<a.file, path>> \in PathLike}

ListByFileAnchorOrSymbol(store, file, symbol) ==
  {d \in Present(store) :
     \E a \in store[d].anchors : a.file = file /\ a.symbol \in {<<>>, symbol}}

HasSymbol(code, file, name) == [file |-> file, name |-> name] \in code.symbols

FindSymbol(code, name) == {s.file : s \in {s \in code.symbols : s.name = name}}

-------------------------------------------------------------------------------
\* symbolReport; code is None when it cannot be opened or brought up to date.
SymbolReport(store, code, symbol) ==
  IF code = None THEN [matchedBy |-> None, warned |-> TRUE]
  ELSE IF FindSymbol(code, symbol) = {} THEN [matchedBy |-> None, warned |-> FALSE]
  ELSE [ matchedBy |-> "symbol",
         locations |-> [file \in FindSymbol(code, symbol) |->
                         ListByFileAnchorOrSymbol(store, file, symbol)] ]

\* buildReport: anchors on a path first; what has a slash in it is no symbol.
BuildReport(store, code, target) ==
  LET byPath == ListByAnchorPath(store, target) IN
  IF byPath # {} THEN [matchedBy |-> "path", decisions |-> byPath]
  ELSE IF Len(target) > 1 THEN [matchedBy |-> None, warned |-> FALSE]
  ELSE SymbolReport(store, code, target[1])

-------------------------------------------------------------------------------
\* A name is near when it holds the last part of the one asked for (and so when
\* it holds it whole), or is a member of the same owner.
Near(candidate, name) ==
  \/ Last(name) \in ToSet(candidate)
  \/ Len(name) > 1 /\ IsStrictPrefix(Front(name), candidate)
  \/ <<candidate, name>> \in NameLike

\* The first `limit` of the near names.
MatchSymbols(code, name, limit, files) ==
  LET near == {i \in DOMAIN code.byName :
                 /\ Near(code.byName[i], name)
                 /\ \E f \in files : HasSymbol(code, f, code.byName[i])}
  IN  {code.byName[i] : i \in {i \in near : Cardinality({j \in near : j < i}) < limit}}

\* suggestSymbols: those of the file, of the whole index when it has none.
SuggestSymbols(code, file, name, limit) ==
  LET here == MatchSymbols(code, name, limit, {file}) IN
  IF here # {} THEN here
  ELSE MatchSymbols(code, name, limit, {s.file : s \in code.symbols})

SUGGESTION_LIMIT == 3

SymbolHint(code, anchor) ==
  SuggestSymbols(code, anchor.file, anchor.symbol, SUGGESTION_LIMIT)

-------------------------------------------------------------------------------
\* existsSync: a file, or a directory with files in it.
Exists(tree, path) == \E f \in tree : IsPrefix(path, f)

AnchorWarnings(tree, anchors) == {a \in anchors : ~Exists(tree, a.file)}

\* symbolWarnings: one for all of them when there is no index to ask.
SymbolWarnings(code, anchors) ==
  LET anchored == {a \in anchors : a.symbol # <<>>} IN
  IF anchored = {} THEN {}
  ELSE IF code = None THEN {"not validated"}
  ELSE {[anchor |-> a, hint |-> SymbolHint(code, a)] :
          a \in {a \in anchored : ~HasSymbol(code, a.file, a.symbol)}}

\* doctor's checkAnchors and checkSymbolAnchors, the latter of an index that
\* can be read.
OrphanAnchors(store, tree) ==
  UNION {{[id |-> d, anchor |-> a] :
            a \in {a \in store[d].anchors : ~Exists(tree, a.file)}} :
         d \in ListActive(store)}

OrphanSymbolAnchors(store, code) ==
  UNION {{[id |-> d, anchor |-> a, hint |-> SymbolHint(code, a)] :
            a \in {a \in store[d].anchors :
                     a.symbol # <<>> /\ ~HasSymbol(code, a.file, a.symbol)}} :
         d \in ListActive(store)}

===============================================================================
