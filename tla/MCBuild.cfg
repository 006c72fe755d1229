SPECIFICATION BuildSpec
CONSTANTS
  Bytecodes <- MCBytecodes
  Storages <- MCStorages
  SIZE_MAX = 255
  FieldValues <- MCFieldValues
  Tails <- MCTails
  NoProgram = NoProgram
  MaxDamage = 1
  MaxFiles = 2
  Cuts <- MCCuts
  CommandLines <- MCCommandLines
  Compiled <- MCCompiled
  Refused = Refused
INVARIANTS TypeOK CopiesInside CanLoadDecides RoundTrip WrongLengthRefused ExitTells
