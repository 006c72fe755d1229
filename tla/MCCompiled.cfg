SPECIFICATION CompiledSpec
PROPERTIES
  RenderPaints
  MeansWhatItSays
CONSTANTS
  Sources <- MCSources
  Compiler <- Compile
  Programs = {}
  AsIndex <- MCAsIndex
  OfIndex <- MCOfIndex
  Cell <- MCCell
  Zero = 0
  One = 1
  FEq <- MCFEq
  FLess <- MCFLess
  FArith <- MCFArith
  FNeg <- MCFNeg
  FBuiltin <- MCFBuiltin
  RandomCell <- MCRandom
  Inputs <- FewInputs
  KeySlots = 1
  GlobalCapacity = 3
  KeyCellCapacity = 1
  StackCapacity = 8
  SIZE_MAX = 255
