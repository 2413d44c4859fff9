\* The code's limit of five errors; a tag that stores only changes, a writer, a cache that fails at times.
CONSTANTS
  Values = {v1, v2}
  NoValue = NoValue
  MonitorChanges = TRUE
  MaxErrors = 5
  MaxDoublings = 3
SPECIFICATION RTFairSpec
PROPERTIES EventuallyFresh UnreachableIsReported
CHECK_DEADLOCK FALSE
