\* Every first graph of up to six edges with and without a second one, every query once.
CONSTANTS
    Null <- MCNull
    Alphabet <- MCAlphabet
    Databases <- MCDatabases
    Queries <- MCQueries
SPECIFICATION Spec
INVARIANTS GroupsAreWhole VariablesAreFound
PROPERTY AnswersAsMeant
CHECK_DEADLOCK FALSE
