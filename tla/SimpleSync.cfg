\* Two PLCs, one of which is edited: a row that can be read and one that cannot, two
\* lists of tags; two goroutines, one fault.
CONSTANTS
  Ids = {p1, p2}
  Versions = {v1, bad}
  Unreadable = {bad}
  Inactive = Inactive
  TagLists = {g1, g2}
  Nothing = Nothing
  Edited = {p1}
  KeptRow = v1
  KeptTags = g1
  MaxNotices = 1
  MaxFaults = 1
SPECIFICATION FairSpec
PROPERTIES ListIsMirror StaysSynced ListConverges KeysConverge
