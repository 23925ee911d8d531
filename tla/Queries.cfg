CONSTANTS
  None = None
  IMPACT_ROW_LIMIT = 7
  IMPORTERS_ROW_LIMIT = 6
  ImportGraphs <- MCImportGraphs
  LinkGraphs <- MCLinkGraphs
  ConflictGraphs <- MCConflictGraphs
  PathLike <- MCPathLike
  NameLike <- MCNameLike
  AnchoredCode <- MCAnchoredCode
  Intents <- MCIntents
  Prompts <- MCPrompts
  Saves <- MCSaves
  Commits <- MCCommits
  Files <- MCFiles
  Drafts <- MCDrafts
  Specifiers <- MCSpecifiers

SPECIFICATION Spec
INVARIANTS
  CodeTellsItsDecisions
  AnswersAreRanked
  FilesComeBack
  ImportsStayResolved
