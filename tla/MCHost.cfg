SPECIFICATION FairHostSpec
CONSTANTS
  Cell <- MCCell
  Zero = 0
  One = 1
  FEq <- MCFEq
  FLess <- MCFLess
  FArith <- MCFArith
  FNeg <- MCFNeg
  FBuiltin <- MCFBuiltin
  RandomCell <- MCRandom
  Programs <- HostPrograms
  Inputs <- HostInputs
  KeySlots = 2
  GlobalCapacity = 2
  KeyCellCapacity = 5
  StackCapacity = 4
  SIZE_MAX = 15
  Commands <- MCCommands
  RandomAt <- MCRandomAt
  MaxCommands = 4
INVARIANTS Replays NothingSwallowed
PROPERTY Answered
CHECK_DEADLOCK FALSE
