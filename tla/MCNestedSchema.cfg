\* An edge from the objects in a nested cell.
CONSTANTS
    Null <- MCNull
    Alphabet <- MCAlphabet
    Databases <- MCDatabases
    Queries <- InsideQueries
SPECIFICATION Spec
INVARIANT NestedSchemasAgree
CHECK_DEADLOCK FALSE
