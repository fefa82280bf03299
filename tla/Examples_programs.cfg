SPECIFICATION FairSpec
CONSTANTS
  NumScanners = 3
  MaxSpurious = 2
INVARIANT TypeOK
INVARIANT WaitsForOwnReply
INVARIANT OnlyLateRepliesCrash
PROPERTY EndsOrHangs
CHECK_DEADLOCK FALSE
