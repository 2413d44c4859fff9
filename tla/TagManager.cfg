\* One tag with two configurations, three runners, room for one error.
CONSTANTS
  Tags = {t1}
  Configs = {c1, c2}
  Addresses = {a1}
  Runners = {r1, r2, r3}
  NoRunner = NoRunner
  NoTag = NoTag
  ErrChanCap = 1
SPECIFICATION TMFairSpec
INVARIANT NoOrphanRunner
PROPERTY ListIsApplied
CHECK_DEADLOCK FALSE
