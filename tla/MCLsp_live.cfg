SPECIFICATION FairLspSpec
CONSTANTS
  Empty = "empty"
  Garbled = "garbled"
  Uris = {"a.lumi"}
  Texts = {"t1", "t2"}
  IdType = "primitive"
  Ids <- MCIds
  NoText = "none"
  Asked = {"textDocument/hover"}
  Bare = {"workspace/symbol"}
  PipeCapacity = 2
  MaxSends = 3
PROPERTIES Answered EndsWithEditor
CHECK_DEADLOCK FALSE
