SPECIFICATION FairSpec
CONSTANTS
  QueueCap = 4
  MaxMsgs = 6
  MaxStops = 2
INVARIANT TypeOK
INVARIANT NothingLost
INVARIANT QueueInOrder
INVARIANT DisconnectPerStop
INVARIANT OpenStopCloses
INVARIANT WorkKeepsAlive
PROPERTY DataInOrder
PROPERTY OpenStopFrees
PROPERTY BlockedResumes
PROPERTY StreamPromised
