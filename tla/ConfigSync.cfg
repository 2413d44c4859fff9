\* One PLC with two contents of its row and two lists of tags, one of them
\* empty; one fault.
CONSTANTS
  Ids = {p1}
  Versions = {v1, v2}
  Inactive = Inactive
  TagLists = {g0, g1}
  NoTags = g0
  Nothing = Nothing
  MaxFaults = 1
SPECIFICATION FairSpec
INVARIANT StartRepairs
PROPERTIES ListIsMirror PLCsConverge TagsConverge
