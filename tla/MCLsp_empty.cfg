SPECIFICATION LspSpec
CONSTANTS
  Empty = "empty"
  Garbled = "garbled"
  Uris = {"a.lumi", "b.lumi"}
  Texts = {"t1", "empty"}
  IdType = "primitive"
  Ids <- MCIds
  NoText = "none"
  Asked = {"textDocument/hover"}
  Bare = {}
  PipeCapacity = 2
  MaxSends = 3
INVARIANT ServesEveryText
CHECK_DEADLOCK FALSE
