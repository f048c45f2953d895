SPECIFICATION Spec
CONSTANTS
  NumPages = 3
  EntriesPerPage = 3
  EntriesPerByte = 1
  BytesPerWord = 2
  TableWords = 2
  CacheSize = 1
  KeyHash <- MCKeyHash
  Names <- OneName
  Phy <- PhyName
  Keys <- OneKey
  Values <- OneValue
  BlobSpans <- LongBlob
  DataSpans <- ZeroOne
  Apis <- SomeApis
  MaxSeq = 4
  MaxResets = 1
  MaxDepth = 3
INVARIANTS
  TypeOK
  AtMostOneActive
  ItemsWhole
PROPERTIES
  CallsReturn
