CONSTANTS
  Alphabet = " @_*.0123456789abcdefghijklmnopqrstuvwxyzKSVWXY"
  MaxNested = 12
  Loaded <- MCLoaded
  Parsed <- MCParsed
  run <- Run
  Tables <- MCTables
  Order <- MCOrder
  EdgeVars <- MCEdgeVars
  Edges <- MCEdges
  Programs <- MCColumnPrograms
  Deltas <- MCDeltas
SPECIFICATION Spec
CHECK_DEADLOCK FALSE
INVARIANT RowVariables
