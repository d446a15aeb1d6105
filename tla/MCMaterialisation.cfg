\* The programs whose replacements and containment cross each other.
CONSTANTS
  LegacyMax = 3
  MaxNew = 6
  Vars <- MCVars
  EdgeIds <- MCEdges
  Inputs <- ViewInputs
  Loaded = "k"
  Labels <- MCLabels
SPECIFICATION MSpec
INVARIANTS
  OutputAcyclic
  RootsAreNodes
  EdgesFollowReplacement
PROPERTIES
  EventuallyWritten
