SPECIFICATION Spec
CONSTANTS
  QueueCap = 4
  MaxMsgs = 3
  MaxStops = 1
INVARIANT NonReentrant
