SPECIFICATION Spec
CONSTANTS
  Device = {d1, d2}
  Service = {s1}
  Info = {v1}
  NULL = NULL
  LastSub = 3
  Host = {1, 3}
  MaxCalls = 2
INVARIANTS
  TypeOK
  FaultNeedsSlowScan
PROPERTIES
  ResultTellsTruth
  InquiryFindsAsked
  EveryCallReturns
