SPECIFICATION ClientSpec
CONSTANTS
  NumPages = 2
  EntriesPerPage = 31
  EntriesPerByte = 4
  BytesPerWord = 4
  TableWords = 2
  CacheSize = 64
  KeyHash <- MCKeyHash
  Names <- OneName
  Phy <- PhyName
  Keys <- FourKeys
  Values <- TwoValues
  BlobSpans <- Nothing
  DataSpans <- Nothing
  Apis <- Nothing
  MaxSeq = 2
  MaxResets = 0
  MaxDepth = 4
INVARIANTS
  CommittedIsStored
