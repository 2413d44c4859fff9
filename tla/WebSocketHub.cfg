\* One client, two PLCs, three messages: either channel can fill up.
CONSTANTS
  Clients = {c1}
  PLCs = {p1, p2}
  NoFilter = NoFilter
  NoClient = NoClient
  BroadcastCap = 1
  SendCap = 1
  MaxMessages = 3
SPECIFICATION FairSpec
INVARIANTS RegisteredIsOpen NoGap
PROPERTIES ClosedIsDisconnected DisconnectedIsDropped PararEndsGoroutines
CHECK_DEADLOCK FALSE
