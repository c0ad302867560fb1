SPECIFICATION ListSpec
CONSTANTS
  Device = {d1, d2}
  Service = {s1, s2}
  Info = {v1}
  NULL = NULL
  MaxNodes = 4
  MaxIndex = 3
INVARIANTS
  ListTypeOK
  PointersSpellList
  NoDanglingPointers
PROPERTIES
  ImplementsSeqList
