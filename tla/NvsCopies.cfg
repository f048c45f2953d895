SPECIFICATION Spec
CONSTANTS
  NumPages = 3
  EntriesPerPage = 3
  EntriesPerByte = 1
  BytesPerWord = 2
  TableWords = 2
  CacheSize = 1
  KeyHash <- MCKeyHash
  Names <- OneName
  Phy <- PhyName
  Keys <- OneKey
  Values <- TwoValues
  BlobSpans <- LongBlob
  DataSpans <- ZeroOneTwo
  Apis <- AllApis
  MaxSeq = 4
  MaxResets = 0
  MaxDepth = 3
INVARIANTS
  CopiesAgree
