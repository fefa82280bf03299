SPECIFICATION Spec
CONSTANTS
  t1 = t1
  t2 = t2
  Threads <- OneThread
  Values <- AwkwardValues
  Bytes <- EdgeBytes
  Names <- TwoNames
  Streams <- TwoStreams
  MaxParams = 2
  MaxStreams = 3
  Followed <- TestConfig
INVARIANT TypeOK
INVARIANT ReadAsAsked
INVARIANT SignatureIsOwn
INVARIANT ValuesArrive
INVARIANT KeysStayApart
CHECK_DEADLOCK FALSE
