\* A shared object with two containers, one of which is replaced.
CONSTANTS
  LegacyMax = 2
  MaxNew = 6
  Vars <- MCVars
  EdgeIds <- MCEdges
  Inputs <- GatherCollapse
  Loaded = "k"
  Labels <- MCLabels
SPECIFICATION MSpec
INVARIANTS
  NoDanglingReference
