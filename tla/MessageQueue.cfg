SPECIFICATION FairSpec
CONSTANTS
  Readers = {r1, r2}
  RemoteReaders = {q}
  TimedReaders = {r2}
  MaxChunks = 2
  MaxOutstanding = 2
  Large = {2}
  OutOfBand = {1, 3}
  MaxMsgs = 3
  CanCrash = TRUE
 
PROPERTIES  EveryMessageDelivered ShutdownStops
CHECK_DEADLOCK FALSE
