SPECIFICATION Spec
CONSTANTS
  t1 = t1
  t2 = t2
  Threads <- TwoThreads
  MaxSessions = 2
  StopsPerToken = 2
  IdMod = 3
SYMMETRY Alike
INVARIANT TypeOK
INVARIANT OnlyOverlapShares
INVARIANT TokenNamesSession
INVARIANT StopReachesOwn
INVARIANT OnlySecondStopCrashes
 
