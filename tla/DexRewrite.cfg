CONSTANTS
  Group = 8
  Byte = 16
  U4 = 16384
  U2 = 24
  Sample = {"one", "family"}
  Rank <- MCRank
  Shorty <- MCShorty
  Images <- MCImages
  Calls <- MCCalls
  CheckedTypes <- MCCheckedTypes
  FieldUses <- MCFieldUses
  MaxAdded = 2
SPECIFICATION Spec
CHECK_DEADLOCK FALSE
INVARIANTS
  TypeOK
  MeaningPreserved
  TablesSorted
  ReaderAcceptsImage
  MapDescribesImage
  AbortsOnlyOnWideIndex
PROPERTIES
  IndexesKeepTheirNodes
  ImplementsLayout
