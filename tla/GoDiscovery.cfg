SPECIFICATION Spec
CONSTANTS
  Device = {d1, d2}
  Service = {s1}
  Info = {v1}
  NULL = NULL
  LastSub = 3
  Daemon = 2
  MaxCalls = 3
INVARIANTS
  TypeOK
  ScanEndsWithItsCall
  OneDatagramPerCall
PROPERTIES
  ResultIsTrue
  EveryCallReturns
