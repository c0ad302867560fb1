SPECIFICATION Spec
CONSTANTS
  Device = {d1, d2}
  Service = {s1, s2}
  Info = {v1}
  NULL = NULL
PROPERTIES
  AllServicesAnswered
