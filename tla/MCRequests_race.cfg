SPECIFICATION Spec
CONSTANTS
  t1 = t1
  t2 = t2
  Threads <- TwoThreads
  Values <- Letters
  Bytes = {}
  Names <- TwoNames
  Streams <- TwoStreams
  MaxParams = 2
  MaxStreams = 3
  Followed <- TestConfig
INVARIANT SignatureIsOwn
CHECK_DEADLOCK FALSE
