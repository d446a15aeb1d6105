\* Three objects in every acyclic arrangement, and a container of up to three
\* objects for grouped hooks; eight creations are more than any of the programs
\* makes, so the bound never stops one.
CONSTANTS
  LegacyMax = 3
  MaxNew = 8
  Vars <- MCVars
  EdgeIds <- MCEdges
  Inputs <- MCInputs
  Loaded = "k"
SPECIFICATION Spec
INVARIANTS
  TypeOK
  InnerFirst
  FreshStandsForNothing
  NamesAreLocalToEntry
  ReplacementsEnd
PROPERTIES
  DeltaSpec
  AppliedEntryLive
  AssignsCurrentObjects
  Terminates
