\* One pattern, two entries: the first deletes the vertex of the second.
CONSTANTS
  LegacyMax = 2
  MaxNew = 6
  Vars <- MCVars
  EdgeIds <- MCEdges
  Inputs <- DeleteInputs
  Loaded = "k"
SPECIFICATION Spec
PROPERTIES
  NoEntryOfDeletedVertex
