CONSTANTS
  Group = 8
  Byte = 16
  U4 = 16384
  U2 = 24
  Sample = {"null"}
  Rank <- MCRank
  Shorty <- MCShorty
  Images <- MCImages
  Calls <- MCCalls
  CheckedTypes <- MCCheckedTypes
  FieldUses <- MCFieldUses
  MaxAdded = 1
SPECIFICATION Spec
CHECK_DEADLOCK FALSE
INVARIANT MirrorsAnyImage
