SPECIFICATION Spec
CONSTANTS
  t1 = t1
  t2 = t2
  Threads <- TwoThreads
  MaxSessions = 1
  StopsPerToken = 2
  IdMod = 3
INVARIANT NoNullSession
