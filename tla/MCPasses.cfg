SPECIFICATION PassSpec
INVARIANT Settled
PROPERTIES
  KeepsBehaviour
  KeepsWellFormed
CHECK_DEADLOCK FALSE
CONSTANTS
  Unoptimized <- MCUnoptimized
