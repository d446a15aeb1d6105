\* Every database of one or two of the four graphs, and lists of objects from a program.
CONSTANTS
  Parsed <- MCParsed
  Given <- MCGiven
  PhiLabels = {"x", "y"}
  Keys = {"p", "q"}
  Labels = {"", "a", "b", "c", "d"}
  NoLabel = ""
  Intervals <- MCIntervals
SPECIFICATION Spec
INVARIANTS
  TypeOK
  ObjectsAsLoaded
  PropertyIndicesAgree
  RecordsAreNames
  ContainmentByLabel
  ObjectsByLabel
  LinksInOrder
  RangesExact
  IdentifiersAreDense
