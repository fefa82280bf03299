SPECIFICATION FairSpec
CONSTANTS
  r1 = r1
  r2 = r2
  r3 = r3
  Requests <- ThreeRequests
  Parent <- OneFollowUp
  Sizes = {0, 1, 3}
  MaxContexts = 2
  NumThreads = 2
  MaxSenders = 2
INVARIANT TypeOK
INVARIANT OneAnswer
INVARIANT ContextsGoFirst
INVARIANT OnlyMisuseCrashes
PROPERTY DestructorEnds
PROPERTY CallsPromised
