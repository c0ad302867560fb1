SPECIFICATION Spec
CONSTANTS
  Device = {d1, d2}
  Service = {s1}
  Info = {v1}
  NULL = NULL
  Click = {1, 2}
  LastSub = 2
  Daemon = 1
INVARIANTS
  TypeOK
  OneSearchAtATime
  ListIsTrue
PROPERTIES
  EverySearchEnds
