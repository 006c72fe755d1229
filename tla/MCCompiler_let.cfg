SPECIFICATION CompilerSpec
INVARIANT ReportedIsRefused
CHECK_DEADLOCK FALSE
CONSTANTS
  Sources <- MCSources
  Fragments <- MCFragments
  Texts <- MCTexts
  Writer <- ProgramText
  Parser <- Parse
  Compiler <- Compile
  Words <- MCWords
  Numerals <- MCNumerals
  NumberOf <- MCNumberOf
  CellOf <- MCCellOf
  CountOf <- MCCountOf
  AsIndex <- MCAsIndex
  OfIndex <- MCOfIndex
  Cell <- MCCell
  Zero = 0
  One = 1
  FEq <- MCFEq
  FLess <- MCFLess
  FArith <- MCFArith
  FNeg <- MCFNeg
  FBuiltin <- MCFBuiltin
