\* Two callers, two keys, three clients: both callers can miss and create.
CONSTANTS
  Procs = {a, b}
  Keys = {k1, k2}
  Clients = {c1, c2, c3}
  NoClient = NoClient
  NoProc = NoProc
SYMMETRY Symmetry
SPECIFICATION Spec
INVARIANTS PingSeesPooled LocksReleased
CHECK_DEADLOCK FALSE
