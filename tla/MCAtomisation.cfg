\* Up to three conditions in all, in one query or in several.
CONSTANTS
    MaxDouble = 4
    MaxChar = 2
    CharLimit = 2
    MaxLength = 2
    a = a
    b = b
    Labels <- MCLabels
    Vars <- MCVars
    TypeOf <- MCTypeOf
    Written <- MCWritten
    Nodes <- MCNodes
    NodeLabel <- MCNodeLabel
    PredLabel <- MCPredLabel
    Disjuncts <- MCDisjuncts
    MaxConditions = 3
SPECIFICATION Spec
INVARIANTS IntersectionIsConjunction AtomsPartition NoMatchIsLost AtomisationIsExact
CHECK_DEADLOCK FALSE
