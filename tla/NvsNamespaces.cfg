SPECIFICATION ClientSpec
CONSTANTS
  NumPages = 8
  EntriesPerPage = 126
  EntriesPerByte = 4
  BytesPerWord = 4
  TableWords = 8
  CacheSize = 64
  KeyHash <- MCKeyHash
  Names <- TwoNames
  Phy <- PhyName
  Keys <- OneKey
  Values <- OneValue
  BlobSpans <- Nothing
  DataSpans <- Nothing
  Apis <- Nothing
  MaxSeq = 2
  MaxResets = 0
  MaxDepth = 4
INVARIANTS
  AbsentIsNotFound
