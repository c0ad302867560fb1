SPECIFICATION Spec
CONSTANTS
  ByteRange = 4
  SumRange = 8
  INFO_MAX_LEN = 3
  Behind <- BehindABuffer
  Name <- SmallNames
  Description <- SmallDescriptions
  NULL = NULL
  UDP_COMM_BUF_LEN = 2
  MaxSent = 3
  MaxStarts = 2
INVARIANTS
  TypeOK
  BufferOK
  SuccessIsTrue
  RefusedIff
  ServicesArrive
