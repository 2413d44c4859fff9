------------------------------ MODULE CircuitBreaker ------------------------------
(***************************************************************************)
(* The circuit breaker of internal/common/circuit_breaker.go.  Execute      *)
(* admits or rejects a call under the mutex, runs the operation without it, *)
(* and takes the mutex again to record the result: the state may have       *)
(* changed meanwhile, and the result is applied to the state it finds.      *)
(* An operation that exceeds operationTimeout is recorded as a failure.     *)
(***************************************************************************)
EXTENDS Naturals, FiniteSets

CONSTANTS Calls,            \* identities of calls of Execute
          FailureThreshold, \* failureThreshold
          HalfOpenMaxCalls, \* halfOpenMaxCalls
          MaxCalls          \* bound: calls ever made

ASSUME BreakerAssumption ==
  /\ FailureThreshold \in Nat \ {0}
  /\ HalfOpenMaxCalls \in Nat \ {0}
  /\ MaxCalls \in Nat

VARIABLES
  state, failureCount, halfOpenCallCount, consecutiveSuccess,
  totalCalls, successCalls, failedCalls, rejectedCalls,
  elapsed,    \* time.Since(lastStateChange) > resetTimeout
  inflight,   \* admitted calls whose result is not recorded yet
  tests,      \* those of them admitted since the breaker became half-open
  admitted    \* how many calls it has admitted since then

stateVars == <<state, failureCount, halfOpenCallCount, consecutiveSuccess, elapsed>>
statistics == <<totalCalls, successCalls, failedCalls, rejectedCalls>>
testVars  == <<tests, admitted>>
vars == <<stateVars, statistics, inflight, testVars>>

Init ==
  /\ state = "CLOSED" /\ failureCount = 0 /\ halfOpenCallCount = 0
  /\ consecutiveSuccess = 0 /\ elapsed = FALSE
  /\ totalCalls = 0 /\ successCalls = 0 /\ failedCalls = 0 /\ rejectedCalls = 0
  /\ inflight = {} /\ tests = {} /\ admitted = 0

(* resetTimeout passes. *)
Elapses ==
  /\ state = "OPEN" /\ ~elapsed
  /\ elapsed' = TRUE
  /\ UNCHANGED <<state, failureCount, halfOpenCallCount, consecutiveSuccess, statistics,
                 inflight, testVars>>

-----------------------------------------------------------------------------
StaleTestCount(to) == halfOpenCallCount
TestCount(to) == IF to = "HALF_OPEN" THEN 0 ELSE halfOpenCallCount

(* changeState, called with the counters fails and successes. *)
ChangeState(to, fails, successes) ==
  /\ to # state
  /\ state' = to
  /\ elapsed' = FALSE
  /\ failureCount' = IF to = "CLOSED" THEN 0 ELSE fails
  /\ halfOpenCallCount' = TestCount(to)
  /\ consecutiveSuccess' = IF to \in {"CLOSED", "HALF_OPEN"} THEN 0 ELSE successes

KeepState(fails, successes) ==
  /\ failureCount' = fails
  /\ consecutiveSuccess' = successes
  /\ UNCHANGED <<state, halfOpenCallCount, elapsed>>

-----------------------------------------------------------------------------
(* The first part of Execute. *)

SlotFreeOrOne == halfOpenCallCount <= HalfOpenMaxCalls
SlotFree      == halfOpenCallCount < HalfOpenMaxCalls

Accepts(c) ==
  /\ totalCalls < MaxCalls
  /\ c \notin inflight
  /\ inflight' = inflight \cup {c}
  /\ totalCalls' = totalCalls + 1
  /\ UNCHANGED <<successCalls, failedCalls, rejectedCalls>>

AdmitsClosed(c) ==
  /\ state = "CLOSED"
  /\ Accepts(c)
  /\ UNCHANGED <<stateVars, testVars>>

(* The call that finds resetTimeout elapsed is the first test; it does not *)
(* take one of the half-open slots.                                        *)
AdmitsFirstTest(c) ==
  /\ state = "OPEN" /\ elapsed
  /\ ChangeState("HALF_OPEN", failureCount, consecutiveSuccess)
  /\ Accepts(c)
  /\ tests' = {c} /\ admitted' = 1

AdmitsTest(c) ==
  /\ state = "HALF_OPEN" /\ SlotFree
  /\ halfOpenCallCount' = halfOpenCallCount + 1
  /\ Accepts(c)
  /\ tests' = tests \cup {c} /\ admitted' = admitted + 1
  /\ UNCHANGED <<state, failureCount, consecutiveSuccess, elapsed>>

Rejects ==
  /\ totalCalls < MaxCalls
  /\ \/ state = "OPEN" /\ ~elapsed
     \/ state = "HALF_OPEN" /\ ~SlotFree
  /\ totalCalls' = totalCalls + 1
  /\ rejectedCalls' = rejectedCalls + 1
  /\ UNCHANGED <<stateVars, successCalls, failedCalls, inflight, testVars>>

-----------------------------------------------------------------------------
(* The second part of Execute. *)

(* The call is over; leaving the half-open state ends its tests. *)
Records(c) ==
  /\ c \in inflight
  /\ inflight' = inflight \ {c}
  /\ UNCHANGED <<totalCalls, rejectedCalls>>
  /\ IF state = "HALF_OPEN" /\ state' = "HALF_OPEN"
     THEN tests' = tests \ {c} /\ UNCHANGED admitted
     ELSE tests' = {} /\ admitted' = 0

TripsLate == \/ state = "CLOSED" /\ failureCount + 1 > FailureThreshold
             \/ state = "HALF_OPEN"
Trips == \/ state = "CLOSED" /\ failureCount + 1 >= FailureThreshold
         \/ state = "HALF_OPEN"

Fails(c) ==
  /\ failedCalls' = failedCalls + 1
  /\ IF Trips THEN ChangeState("OPEN", failureCount + 1, 0)
              ELSE KeepState(failureCount + 1, 0)
  /\ Records(c)
  /\ UNCHANGED successCalls

Recovers == state = "HALF_OPEN" /\ consecutiveSuccess + 1 >= HalfOpenMaxCalls

Succeeds(c) ==
  /\ successCalls' = successCalls + 1
  /\ IF Recovers THEN ChangeState("CLOSED", failureCount, consecutiveSuccess + 1)
                 ELSE KeepState(failureCount, consecutiveSuccess + 1)
  /\ Records(c)
  /\ UNCHANGED failedCalls

-----------------------------------------------------------------------------
(* ForceOpen and ForceClose; in the state asked for they change nothing. *)
Forces(to) ==
  /\ to \in {"OPEN", "CLOSED"}
  /\ ChangeState(to, failureCount, consecutiveSuccess)
  /\ tests' = {} /\ admitted' = 0
  /\ UNCHANGED <<statistics, inflight>>

Next ==
  \/ Elapses
  \/ \E c \in Calls :
       \/ AdmitsClosed(c) \/ AdmitsFirstTest(c) \/ AdmitsTest(c)
       \/ Fails(c) \/ Succeeds(c)
  \/ Rejects
  \/ \E to \in {"OPEN", "CLOSED"} : Forces(to)

Spec == Init /\ [][Next]_vars

-----------------------------------------------------------------------------
(* The types of the variables; the half-open slots are never overdrawn. *)
TypeOK ==
  /\ state \in {"CLOSED", "OPEN", "HALF_OPEN"}
  /\ failureCount \in Nat /\ consecutiveSuccess \in Nat
  /\ halfOpenCallCount \in 0..HalfOpenMaxCalls
  /\ totalCalls \in Nat /\ successCalls \in Nat
  /\ failedCalls \in Nat /\ rejectedCalls \in Nat
  /\ elapsed \in BOOLEAN
  /\ inflight \in SUBSET Calls /\ IsFiniteSet(inflight)
  /\ tests \in SUBSET inflight
  /\ admitted \in Nat

(* Every call is counted once: as a success, as a failure, as rejected, or *)
(* it is still in flight.                                                  *)
Conservation ==
  totalCalls = successCalls + failedCalls + rejectedCalls + Cardinality(inflight)

(* A closed breaker has not reached its threshold, late results of calls    *)
(* admitted in other states included.                                       *)
ClosedBelowThreshold == state = "CLOSED" => failureCount < FailureThreshold

(* A half-open breaker that rejects has a test in flight, whose result will *)
(* open or close it or one after it will: it never rejects for ever.        *)
HalfOpenHasTest == state = "HALF_OPEN" /\ ~SlotFree => tests # {}

(* A half-open breaker admits one call more than halfOpenMaxCalls at most. *)
AdmissionBound == state = "HALF_OPEN" => admitted <= HalfOpenMaxCalls + 1

(* circuit_breaker.go:31, "Número máximo de chamadas em estado half-open". *)
TestsWithinLimit == state = "HALF_OPEN" => admitted <= HalfOpenMaxCalls
=============================================================================
