SPECIFICATION Spec
CONSTANTS
  Device = {d1, d2}
  Service = {s1}
  Info = {v1}
  NULL = NULL
  LastSub = 2
  Daemon = 1
  MaxCalls = 2
PROPERTIES
  DeregistrationIsTrue
