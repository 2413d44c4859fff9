\* Two workers: the one of the session and one that outlived the session
\* before; a threshold of two pings, and one fault;
\* the periodic synchronisation alone.
CONSTANTS
  Workers = {w1, w2}
  NoWorker = NoWorker
  Periodic = periodic
  Syncers = {periodic}
  Threshold = 2
  MaxFaults = 1
SPECIFICATION PSFairSpec
PROPERTIES  UnreachableEndsSession
CHECK_DEADLOCK FALSE
