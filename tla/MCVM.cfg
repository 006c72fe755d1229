SPECIFICATION FairSpec
CONSTANTS
  Cell <- MCCell
  Zero = 0
  One = 1
  FEq <- MCFEq
  FLess <- MCFLess
  FArith <- MCFArith
  FNeg <- MCFNeg
  FBuiltin <- MCFBuiltin
  RandomCell <- MCRandom
  Programs <- MCProgramSet
  Accepted <- AcceptedPrograms
  DepthAt <- MCDepthAt
  Inputs <- FewInputs
  KeySlots = 2
  GlobalCapacity = 2
  KeyCellCapacity = 5
  StackCapacity = 4
  SIZE_MAX = 15
INVARIANTS TypeOK FitsStorage MemorySafe DepthPredicted NoStructuralFault
PROPERTIES OnlyOwnRow ColorOfOwnRun ImplementsStore CallsReturn
