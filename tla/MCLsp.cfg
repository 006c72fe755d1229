SPECIFICATION LspSpec
CONSTANTS
  Empty = "empty"
  Garbled = "garbled"
  Uris = {"a.lumi", "b.lumi"}
  Texts = {"t1", "t2"}
  IdType = "primitive"
  Ids <- MCIds
  NoText = "none"
  Asked = {"textDocument/completion", "textDocument/hover", "textDocument/documentSymbol"}
  Bare = {"textDocument/completion", "textDocument/hover", "textDocument/documentSymbol", "initialize", "workspace/symbol"}
  PipeCapacity = 2
  MaxSends = 4
INVARIANTS InSync AnswersFit ExitCodeTells
CHECK_DEADLOCK FALSE
