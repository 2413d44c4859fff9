\* Three concurrent calls, seven in all; two tests close the breaker.
CONSTANTS
  Calls = {a, b, c}
  FailureThreshold = 2
  HalfOpenMaxCalls = 2
  MaxCalls = 7
SYMMETRY Symmetry
SPECIFICATION Spec
INVARIANTS ClosedBelowThreshold HalfOpenHasTest AdmissionBound
CHECK_DEADLOCK FALSE
