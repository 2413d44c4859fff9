\* Two goroutines, one client and two bits of one byte.
CONSTANTS
  Clients = {c1}
  Users = {g, h}
  Bits = {b0, b1}
  NoUser = NoUser
SPECIFICATION FairSpec
INVARIANT PanicOnlyIfDropped
PROPERTIES NeighboursKept CallsReturn
CHECK_DEADLOCK FALSE
