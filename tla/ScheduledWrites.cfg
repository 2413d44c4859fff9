\* Three requests over three instants; two identities so that two processors could be launched.
CONSTANTS
  MaxWrites = 3
  MaxTime = 2
  Retention = 1
  Processors = {g1, g2}
  Asleep = Asleep
SPECIFICATION FairSpec
INVARIANTS PendingIsServed OneProcessor PerformedOnce
PROPERTY EventuallySettled
CHECK_DEADLOCK FALSE
