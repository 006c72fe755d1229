SPECIFICATION RandSpec
CONSTANTS
  Precision = 3
  RandBits = 10
INVARIANT BelowOne
