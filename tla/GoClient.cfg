SPECIFICATION ClientSpec
CONSTANTS
  Device = {d1, d2}
  Service = {s1, s2}
  Info = {v1}
  NULL = NULL
  LastSub = 3
  Host = {1, 2}
  Here = 2
  MaxCalls = 2
  MaxHeld = 3
INVARIANTS
  ClientTypeOK
  ScanEndsWithItsCall
PROPERTIES
  InquiryIsTrue
