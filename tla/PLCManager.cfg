\* One PLC, two runs of runPLC, one connection each, under fairness.
CONSTANTS
  PLCs = {p1}
  Monitors = {m1, m2}
  NoMonitor = NoMonitor
  NoPLC = NoPLC
  MaxSessions = 1
SPECIFICATION FairSpec
INVARIANTS NoOrphanMonitor WorkersSupervised FailureWakesMonitor StopIsFinal
PROPERTIES CancelEndsAll ListIsFollowed
CHECK_DEADLOCK FALSE
