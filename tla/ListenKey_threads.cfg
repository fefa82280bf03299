SPECIFICATION FairSpec
CONSTANTS
  MaxKeys = 2
  MaxFailures = 1
INVARIANT TypeOK
INVARIANT StreamOnOwnKey
INVARIANT FailureReported
PROPERTY KeepsRenewing
PROPERTY ExtenderEnds
