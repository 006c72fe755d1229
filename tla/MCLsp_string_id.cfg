SPECIFICATION LspSpec
CONSTANTS
  Empty = "empty"
  Garbled = "garbled"
  Uris = {"a.lumi", "b.lumi"}
  Texts = {"t1", "t2"}
  IdType = "string"
  Ids <- MCIds
  NoText = "none"
  Asked = {"textDocument/hover"}
  Bare = {}
  PipeCapacity = 2
  MaxSends = 3
INVARIANT RepliesIdentify
CHECK_DEADLOCK FALSE
