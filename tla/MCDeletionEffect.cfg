\* The hook is replaced by two patterns and deleted by the third.
CONSTANTS
  LegacyMax = 2
  MaxNew = 6
  Vars <- MCVars
  EdgeIds <- MCEdges
  Inputs <- ReplaceReplaceDelete
  Loaded = "k"
SPECIFICATION Spec
PROPERTIES
  DeletionTakesEffect
