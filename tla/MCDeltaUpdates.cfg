\* Two loaded objects and up to two created ones, so that chains of three
\* replacements and cycles of two, three and four objects all occur.
CONSTANTS
  LegacyMax = 1
  MaxNew = 2
  Vars = {v1, v2}
  EdgeIds = {0}
SYMMETRY VarSymmetry
SPECIFICATION Spec
INVARIANTS
  TypeOK
  MentionsOnlyKnown
  BindingsAreLocal
  ResolvingIsIdempotent
PROPERTIES
  FreshOnCreation
  OnlyLiveObjectsUndelete
