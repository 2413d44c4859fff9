------------------------------ MODULE RecoveryProofs ------------------------------
(***************************************************************************)
(* Safety of the three components that count their failures and find their *)
(* way back from them: the circuit breaker, the dynamic cache and the      *)
(* status of a PLC, for all values of their constants.  They share no      *)
(* state, and nothing here is about two of them.                           *)
(***************************************************************************)
EXTENDS CircuitBreaker, DynamicCache, PLCStatus, FiniteSetTheorems, TLAPS

-----------------------------------------------------------------------------
(* The circuit breaker. *)

USE BreakerAssumption

(* While the breaker is half-open every test is in flight or has succeeded, *)
(* and one more than the slots taken have been admitted.                    *)
TestsAccounted ==
  state = "HALF_OPEN" =>
    /\ admitted = halfOpenCallCount + 1
    /\ admitted <= Cardinality(tests) + consecutiveSuccess
    /\ consecutiveSuccess < HalfOpenMaxCalls

IInv ==
  /\ TypeOK
  /\ Conservation
  /\ ClosedBelowThreshold
  /\ TestsAccounted

-----------------------------------------------------------------------------
(* The sets of calls in flight and of tests have natural cardinalities. *)
LEMMA Sizes ==
  ASSUME TypeOK
  PROVE  /\ IsFiniteSet(inflight) /\ Cardinality(inflight) \in Nat
         /\ IsFiniteSet(tests) /\ Cardinality(tests) \in Nat
BY FS_Subset, FS_CardinalityType DEF TypeOK

(* A call that is accepted enters the calls in flight, and its statistics. *)
LEMMA AcceptsAccounts ==
  ASSUME IInv, NEW c \in Calls, Accepts(c)
  PROVE  /\ inflight' \in SUBSET Calls /\ IsFiniteSet(inflight') /\ inflight \subseteq inflight'
         /\ c \in inflight' /\ c \notin inflight
         /\ totalCalls' \in Nat
         /\ UNCHANGED <<successCalls, failedCalls, rejectedCalls>>
         /\ Conservation'
<1>1. IsFiniteSet(inflight) /\ Cardinality(inflight) \in Nat
  BY Sizes DEF IInv
<1>2. inflight' = inflight \cup {c} /\ c \notin inflight
  BY DEF Accepts
<1>3. IsFiniteSet(inflight') /\ Cardinality(inflight') = Cardinality(inflight) + 1
  BY <1>1, <1>2, FS_AddElement
<1> QED
  BY <1>1, <1>2, <1>3 DEF IInv, TypeOK, Conservation, Accepts

(* A call that ends leaves the calls in flight. *)
LEMMA RecordsAccounts ==
  ASSUME IInv, NEW c \in Calls, Records(c)
  PROVE  /\ inflight' \in SUBSET Calls /\ IsFiniteSet(inflight')
         /\ Cardinality(inflight') = Cardinality(inflight) - 1
         /\ Cardinality(inflight) \in Nat
         /\ tests' \in SUBSET inflight' /\ admitted' \in Nat
         /\ UNCHANGED <<totalCalls, rejectedCalls>>
<1>1. IsFiniteSet(inflight) /\ Cardinality(inflight) \in Nat
  BY Sizes DEF IInv
<1>2. inflight' = inflight \ {c} /\ c \in inflight
  BY DEF Records
<1>3. IsFiniteSet(inflight') /\ Cardinality(inflight') = Cardinality(inflight) - 1
  BY <1>1, <1>2, FS_RemoveElement
<1>4. tests' \in SUBSET inflight' /\ admitted' \in Nat
  BY <1>2 DEF IInv, TypeOK, Records
<1> QED
  BY <1>1, <1>2, <1>3, <1>4 DEF IInv, TypeOK, Records

(* Admitting or rejecting a call preserves the invariant. *)
LEMMA AdmissionPreserves ==
  ASSUME IInv,
         Rejects \/ \E c \in Calls : AdmitsClosed(c) \/ AdmitsFirstTest(c) \/ AdmitsTest(c)
  PROVE  IInv'
<1>1. CASE Rejects
  <2>1. TypeOK'
    BY <1>1 DEF IInv, TypeOK, Rejects, stateVars, testVars
  <2>2. Conservation'
    BY <1>1, Sizes DEF IInv, TypeOK, Conservation, Rejects
  <2>3. ClosedBelowThreshold' /\ TestsAccounted'
    BY <1>1 DEF IInv, ClosedBelowThreshold, TestsAccounted, Rejects, stateVars, testVars
  <2> QED
    BY <2>1, <2>2, <2>3 DEF IInv
<1>2. ASSUME NEW c \in Calls, AdmitsClosed(c) PROVE IInv'
  <2>1. Accepts(c) /\ UNCHANGED <<stateVars, testVars>> /\ state = "CLOSED"
    BY <1>2 DEF AdmitsClosed
  <2>2. TypeOK' /\ Conservation'
    BY <2>1, AcceptsAccounts DEF IInv, TypeOK, stateVars, testVars
  <2>3. ClosedBelowThreshold' /\ TestsAccounted'
    BY <2>1 DEF IInv, ClosedBelowThreshold, TestsAccounted, stateVars, testVars
  <2> QED
    BY <2>2, <2>3 DEF IInv
<1>3. ASSUME NEW c \in Calls, AdmitsFirstTest(c) PROVE IInv'
  <2>1. /\ Accepts(c) /\ tests' = {c} /\ admitted' = 1 /\ state' = "HALF_OPEN"
        /\ failureCount' = failureCount /\ consecutiveSuccess' = 0
        /\ halfOpenCallCount' = 0 /\ elapsed' = FALSE
    BY <1>3 DEF AdmitsFirstTest, ChangeState, TestCount
  <2>2. TypeOK' /\ Conservation'
    <3>1. /\ failureCount' \in Nat /\ consecutiveSuccess' \in Nat
          /\ halfOpenCallCount' \in 0..HalfOpenMaxCalls /\ admitted' \in Nat
      BY <2>1 DEF IInv, TypeOK
    <3>2. /\ inflight' \in SUBSET Calls /\ IsFiniteSet(inflight') /\ tests' \in SUBSET inflight'
          /\ totalCalls' \in Nat /\ Conservation'
          /\ UNCHANGED <<successCalls, failedCalls, rejectedCalls>>
      BY <2>1, AcceptsAccounts
    <3> QED
      BY <2>1, <3>1, <3>2 DEF IInv, TypeOK
  <2>3. Cardinality(tests') = 1
    BY <2>1, FS_Singleton
  <2>4. ClosedBelowThreshold' /\ TestsAccounted'
    BY <2>1, <2>3 DEF ClosedBelowThreshold, TestsAccounted
  <2> QED
    BY <2>2, <2>4 DEF IInv
<1>4. ASSUME NEW c \in Calls, AdmitsTest(c) PROVE IInv'
  <2>1. /\ Accepts(c) /\ tests' = tests \cup {c} /\ admitted' = admitted + 1
        /\ state = "HALF_OPEN" /\ halfOpenCallCount' = halfOpenCallCount + 1
        /\ UNCHANGED <<state, failureCount, consecutiveSuccess, elapsed>>
    BY <1>4 DEF AdmitsTest
  <2>2. halfOpenCallCount' \in 0..HalfOpenMaxCalls
    BY <1>4, <2>1 DEF IInv, TypeOK, AdmitsTest, SlotFree
  <2>3. TypeOK' /\ Conservation'
    <3>1. tests' \in SUBSET inflight' /\ admitted' \in Nat
      BY <2>1, AcceptsAccounts DEF IInv, TypeOK
    <3>2. /\ inflight' \in SUBSET Calls /\ IsFiniteSet(inflight')
          /\ totalCalls' \in Nat /\ Conservation'
          /\ UNCHANGED <<successCalls, failedCalls, rejectedCalls>>
      BY <2>1, AcceptsAccounts
    <3> QED
      BY <2>1, <2>2, <3>1, <3>2 DEF IInv, TypeOK
  <2>4. c \notin tests
    BY <2>1, AcceptsAccounts DEF IInv, TypeOK
  <2>5. Cardinality(tests') = Cardinality(tests) + 1 /\ Cardinality(tests) \in Nat
    BY <2>1, <2>4, Sizes, FS_AddElement DEF IInv
  <2>6. ClosedBelowThreshold' /\ TestsAccounted'
    BY <2>1, <2>5 DEF IInv, TypeOK, ClosedBelowThreshold, TestsAccounted
  <2> QED
    BY <2>3, <2>6 DEF IInv
<1> QED
  BY <1>1, <1>2, <1>3, <1>4

(* Recording a failure preserves the invariant. *)
LEMMA FailurePreserves == ASSUME IInv, NEW c \in Calls, Fails(c) PROVE IInv'
<1>1. Records(c) /\ failedCalls' = failedCalls + 1 /\ UNCHANGED successCalls
  BY DEF Fails
<1>2. Conservation'
  BY <1>1, RecordsAccounts DEF IInv, TypeOK, Conservation
<1>5. /\ inflight' \in SUBSET Calls /\ IsFiniteSet(inflight')
      /\ tests' \in SUBSET inflight' /\ admitted' \in Nat
      /\ UNCHANGED <<totalCalls, rejectedCalls>>
  BY <1>1, RecordsAccounts
<1>3. CASE Trips
  <2>1. /\ state' = "OPEN" /\ elapsed' = FALSE /\ failureCount' = failureCount + 1
        /\ halfOpenCallCount' = halfOpenCallCount /\ consecutiveSuccess' = 0
    BY <1>3 DEF Fails, ChangeState, TestCount
  <2>2. TypeOK'
    <3>1. /\ failureCount' \in Nat /\ consecutiveSuccess' \in Nat
          /\ halfOpenCallCount' \in 0..HalfOpenMaxCalls
          /\ successCalls' \in Nat /\ failedCalls' \in Nat
      BY <1>1, <2>1 DEF IInv, TypeOK
    <3> QED
      BY <1>5, <2>1, <3>1 DEF IInv, TypeOK
  <2> QED
    BY <1>2, <2>1, <2>2 DEF IInv, ClosedBelowThreshold, TestsAccounted
<1>4. CASE ~Trips
  <2>1. /\ failureCount' = failureCount + 1 /\ consecutiveSuccess' = 0
        /\ UNCHANGED <<state, halfOpenCallCount, elapsed>>
    BY <1>4 DEF Fails, KeepState
  <2>2. TypeOK'
    BY <1>1, <2>1, RecordsAccounts DEF IInv, TypeOK
  <2>3. ClosedBelowThreshold' /\ TestsAccounted'
    BY <1>4, <2>1 DEF IInv, TypeOK, Trips, ClosedBelowThreshold, TestsAccounted
  <2> QED
    BY <1>2, <2>2, <2>3 DEF IInv
<1> QED
  BY <1>3, <1>4

(* Recording a success preserves the invariant. *)
LEMMA SuccessPreserves == ASSUME IInv, NEW c \in Calls, Succeeds(c) PROVE IInv'
<1>1. Records(c) /\ successCalls' = successCalls + 1 /\ UNCHANGED failedCalls
  BY DEF Succeeds
<1>2. Conservation'
  BY <1>1, RecordsAccounts DEF IInv, TypeOK, Conservation
<1>5. /\ inflight' \in SUBSET Calls /\ IsFiniteSet(inflight')
      /\ tests' \in SUBSET inflight' /\ admitted' \in Nat
      /\ UNCHANGED <<totalCalls, rejectedCalls>>
  BY <1>1, RecordsAccounts
<1>3. CASE Recovers
  <2>1. /\ state' = "CLOSED" /\ elapsed' = FALSE /\ failureCount' = 0
        /\ halfOpenCallCount' = halfOpenCallCount /\ consecutiveSuccess' = 0
    BY <1>3 DEF Succeeds, ChangeState, TestCount
  <2>2. TypeOK'
    <3>1. /\ failureCount' \in Nat /\ consecutiveSuccess' \in Nat
          /\ halfOpenCallCount' \in 0..HalfOpenMaxCalls
          /\ successCalls' \in Nat /\ failedCalls' \in Nat
      BY <1>1, <2>1 DEF IInv, TypeOK
    <3> QED
      BY <1>5, <2>1, <3>1 DEF IInv, TypeOK
  <2> QED
    BY <1>2, <2>1, <2>2 DEF IInv, ClosedBelowThreshold, TestsAccounted
<1>4. CASE ~Recovers
  <2>1. /\ failureCount' = failureCount /\ consecutiveSuccess' = consecutiveSuccess + 1
        /\ UNCHANGED <<state, halfOpenCallCount, elapsed>>
    BY <1>4 DEF Succeeds, KeepState
  <2>2. TypeOK'
    BY <1>1, <2>1, RecordsAccounts DEF IInv, TypeOK
  <2>3. ClosedBelowThreshold'
    BY <2>1 DEF IInv, ClosedBelowThreshold
  <2>4. ASSUME state = "HALF_OPEN"
        PROVE  /\ admitted' = admitted /\ Cardinality(tests') \in Nat
               /\ Cardinality(tests) <= Cardinality(tests') + 1
    <3>1. tests' = tests \ {c} /\ admitted' = admitted
      BY <1>1, <2>1, <2>4 DEF Records
    <3>2. IsFiniteSet(tests) /\ Cardinality(tests) \in Nat
      BY Sizes DEF IInv
    <3>3. CASE c \in tests
      <4>1. IsFiniteSet(tests') /\ Cardinality(tests') = Cardinality(tests) - 1
        BY <3>1, <3>2, <3>3, FS_RemoveElement
      <4>2. Cardinality(tests') \in Nat
        BY <4>1, FS_CardinalityType
      <4> QED
        BY <3>1, <3>2, <4>1, <4>2
    <3>4. CASE c \notin tests
      <4>1. tests' = tests
        BY <3>1, <3>4
      <4> QED
        BY <3>1, <3>2, <4>1
    <3> QED
      BY <3>1, <3>3, <3>4
  <2>5. TestsAccounted'
    <3> SUFFICES ASSUME state' = "HALF_OPEN"
                 PROVE  /\ admitted' = halfOpenCallCount' + 1
                        /\ admitted' <= Cardinality(tests') + consecutiveSuccess'
                        /\ consecutiveSuccess' < HalfOpenMaxCalls
      BY DEF TestsAccounted
    <3>1. state = "HALF_OPEN"
      BY <2>1
    <3>2. Cardinality(tests) \in Nat
      BY Sizes DEF IInv
    <3>3. admitted' <= Cardinality(tests') + consecutiveSuccess'
      BY <2>1, <2>4, <3>1, <3>2 DEF IInv, TypeOK, TestsAccounted
    <3>4. consecutiveSuccess' < HalfOpenMaxCalls
      BY <1>4, <2>1, <3>1 DEF IInv, TypeOK, Recovers
    <3> QED
      BY <2>1, <2>4, <3>1, <3>3, <3>4 DEF IInv, TestsAccounted
  <2> QED
    BY <1>2, <2>2, <2>3, <2>5 DEF IInv
<1> QED
  BY <1>3, <1>4

(* Time and the forced changes preserve the invariant. *)
LEMMA ForcePreserves ==
  ASSUME IInv, Elapses \/ \E to \in {"OPEN", "CLOSED"} : Forces(to) PROVE IInv'
<1>1. CASE Elapses
  BY <1>1 DEF IInv, TypeOK, Conservation, ClosedBelowThreshold, TestsAccounted, Elapses,
     statistics, testVars
<1>2. ASSUME NEW to \in {"OPEN", "CLOSED"}, Forces(to) PROVE IInv'
  <2>1. /\ state' = to /\ elapsed' = FALSE /\ tests' = {} /\ admitted' = 0
        /\ failureCount' = IF to = "CLOSED" THEN 0 ELSE failureCount
        /\ halfOpenCallCount' = halfOpenCallCount
        /\ consecutiveSuccess' = IF to = "CLOSED" THEN 0 ELSE consecutiveSuccess
        /\ UNCHANGED <<totalCalls, successCalls, failedCalls, rejectedCalls, inflight>>
    BY <1>2 DEF Forces, ChangeState, TestCount, statistics
  <2>2. TypeOK' /\ Conservation'
    BY <2>1 DEF IInv, TypeOK, Conservation
  <2>3. ClosedBelowThreshold' /\ TestsAccounted'
    BY <2>1 DEF ClosedBelowThreshold, TestsAccounted
  <2> QED
    BY <2>2, <2>3 DEF IInv
<1> QED
  BY <1>1, <1>2

(* The invariant holds throughout every behaviour. *)
LEMMA Invariant == Spec => []IInv
<1>1. Init => IInv
  <2> SUFFICES ASSUME Init PROVE IInv
    OBVIOUS
  <2>1. IsFiniteSet(inflight) /\ Cardinality(inflight) = 0
    BY FS_EmptySet DEF Init
  <2>2. TypeOK /\ Conservation
    <3>1. halfOpenCallCount \in 0..HalfOpenMaxCalls
      BY DEF Init
    <3>2. TypeOK
      BY <2>1, <3>1 DEF Init, TypeOK
    <3>3. Conservation
      BY <2>1 DEF Init, Conservation
    <3> QED
      BY <3>2, <3>3
  <2>3. ClosedBelowThreshold /\ TestsAccounted
    BY DEF Init, ClosedBelowThreshold, TestsAccounted
  <2> QED
    BY <2>2, <2>3 DEF IInv
<1>2. IInv /\ [Next]_vars => IInv'
  <2> SUFFICES ASSUME IInv, [Next]_vars PROVE IInv'
    OBVIOUS
  <2>1. CASE Next
    BY <2>1, AdmissionPreserves, FailurePreserves, SuccessPreserves, ForcePreserves DEF Next
  <2>2. CASE UNCHANGED vars
    BY <2>2 DEF IInv, TypeOK, Conservation, ClosedBelowThreshold, TestsAccounted, vars,
       stateVars, statistics, testVars
  <2> QED
    BY <2>1, <2>2
<1> QED
  BY <1>1, <1>2, PTL DEF Spec

(* The variables keep their types. *)
THEOREM BreakerTypes == Spec => []TypeOK
<1>1. IInv => TypeOK
  BY DEF IInv
<1> QED
  BY <1>1, Invariant, PTL

(* circuit_breaker.go, GetStats: the statistics account for every call. *)
THEOREM BreakerConservation == Spec => []Conservation
<1>1. IInv => Conservation
  BY DEF IInv
<1> QED
  BY <1>1, Invariant, PTL

(* circuit_breaker.go, Execute: a breaker at its threshold is not closed. *)
THEOREM BreakerThreshold == Spec => []ClosedBelowThreshold
<1>1. IInv => ClosedBelowThreshold
  BY DEF IInv
<1> QED
  BY <1>1, Invariant, PTL

(* circuit_breaker.go, Execute: a half-open breaker that rejects still waits *)
(* for a test.                                                               *)
THEOREM BreakerRecovers == Spec => []HalfOpenHasTest
<1>1. IInv => HalfOpenHasTest
  <2> SUFFICES ASSUME IInv, state = "HALF_OPEN", ~SlotFree, tests = {} PROVE FALSE
    BY DEF HalfOpenHasTest
  <2>1. Cardinality(tests) = 0
    BY FS_EmptySet
  <2> QED
    BY <2>1 DEF IInv, TypeOK, TestsAccounted, SlotFree
<1> QED
  BY <1>1, Invariant, PTL

(* circuit_breaker.go, Execute: the calls a half-open breaker admits. *)
THEOREM BreakerAdmission == Spec => []AdmissionBound
<1>1. IInv => AdmissionBound
  BY DEF IInv, TypeOK, TestsAccounted, AdmissionBound
<1> QED
  BY <1>1, Invariant, PTL

HIDE BreakerAssumption

-----------------------------------------------------------------------------
(* The dynamic cache. *)

(* A number is so many periods and a rest. *)
LEMMA Division ==
  ASSUME NEW a \in Nat, NEW P \in Nat \ {0}
  PROVE  /\ (a % P) \in Nat /\ (a % P) < P
         /\ (a \div P) \in Nat /\ a = (a \div P) * P + (a % P)
OBVIOUS

LEMMA Rest ==
  ASSUME NEW P \in Nat \ {0}, NEW q \in Nat, NEW r \in Nat, r < P
  PROVE  (q * P + r) % P = r
OBVIOUS

LEMMA RestIsNatural ==
  ASSUME NEW a \in Nat, NEW P \in Nat \ {0}
  PROVE  a > 0 => 0 <= (a - 1) % P
OBVIOUS

(* Counting on, the rest grows by one until it is zero again. *)
LEMMA NextRest ==
  ASSUME NEW a \in Nat, NEW P \in Nat \ {0}, (a + 1) % P # 0
  PROVE  (a % P) + 1 = (a + 1) % P
<1>1. PICK q \in Nat, r \in Nat : r < P /\ a = q * P + r /\ r = a % P
  BY Division
<1>2. CASE r + 1 < P
  <2>1. a + 1 = q * P + (r + 1)
    BY <1>1
  <2> QED
    BY <1>1, <1>2, <2>1, Rest
<1>3. CASE r + 1 = P
  <2>1. a + 1 = (q + 1) * P + 0
    BY <1>1, <1>3
  <2>2. ((q + 1) * P + 0) % P = 0
    BY <1>1, Rest
  <2> QED
    BY <2>1, <2>2
<1> QED
  BY <1>1, <1>2, <1>3

(* The ticks waited are those since the last count that was a whole number *)
(* of periods, at which a connection was tried; when the count starts       *)
(* again, a connection is tried at once.                                   *)
WaitsWithinPeriod ==
  recoveryAttempt > 0 => waited <= (recoveryAttempt - 1) % Period

DCInv ==
  /\ DCTypeOK
  /\ TriesEveryPeriod
  /\ WaitsWithinPeriod
  /\ SwapIsCurrent
  /\ NoStaleMemory

(* Redis, the database, calls and Close leave the routine's counts alone,   *)
(* and no store reaches the map in memory while Redis is active.            *)
LEMMA OutsidePreserves ==
  ASSUME DCInv,
         \/ \E k \in Config, v \in Values : SourceChanges(k, v)
         \/ RedisStops \/ RedisStarts \/ CacheCalls \/ Cancel \/ CloseActive
  PROVE  DCInv'
<1>1. CASE \E k \in Config, v \in Values : SourceChanges(k, v)
  <2>1. DCTypeOK'
    BY <1>1 DEF DCInv, DCTypeOK, SourceChanges, dataVars, healthVars
  <2> QED
    BY <1>1, <2>1 DEF DCInv, TriesEveryPeriod, WaitsWithinPeriod, SwapIsCurrent,
       NoStaleMemory, SourceChanges, dataVars, healthVars
<1>2. CASE RedisStops \/ RedisStarts
  <2>1. redisUp' \in BOOLEAN /\ redisData' \in [Keys -> Values \cup {Nothing}]
    BY <1>2 DEF DCInv, DCTypeOK, RedisStops, RedisStarts, dataVars, Empty
  <2>2. UNCHANGED <<source, memoryData, active, closed, healthVars, ctxDone, closing>>
    BY <1>2 DEF RedisStops, RedisStarts, dataVars
  <2>3. DCTypeOK'
    BY <2>1, <2>2 DEF DCInv, DCTypeOK, healthVars
  <2> QED
    BY <2>2, <2>3 DEF DCInv, TriesEveryPeriod, WaitsWithinPeriod, SwapIsCurrent,
       NoStaleMemory, healthVars, Empty
<1>3. CASE CacheCalls
  <2>1. PICK k \in Keys, v \in Values \cup {Nothing} : Store(k, v)
    BY <1>3, CacheAssumption
       DEF CacheCalls, SetValue, DeleteKey, SetTagValue, DCInv, DCTypeOK
  <2>2. /\ redisData' \in [Keys -> Values \cup {Nothing}]
        /\ memoryData' \in [Keys -> Values \cup {Nothing}]
        /\ active = "redis" => memoryData' = memoryData
    BY <2>1 DEF DCInv, DCTypeOK, Store
  <2>3. UNCHANGED <<source, redisUp, active, closed, healthVars, ctxDone, closing>>
    BY <2>1 DEF Store
  <2>4. DCTypeOK'
    BY <2>2, <2>3 DEF DCInv, DCTypeOK, healthVars
  <2> QED
    BY <2>2, <2>3, <2>4 DEF DCInv, TriesEveryPeriod, WaitsWithinPeriod, SwapIsCurrent,
       NoStaleMemory, healthVars, Empty
<1>4. CASE Cancel
  <2>1. DCTypeOK'
    BY <1>4 DEF DCInv, DCTypeOK, Cancel, dataVars, healthVars
  <2> QED
    BY <1>4, <2>1 DEF DCInv, TriesEveryPeriod, WaitsWithinPeriod, SwapIsCurrent,
       NoStaleMemory, Cancel, dataVars, healthVars
<1>5. CASE CloseActive
  <2>1. closed' = (active = "redis")
    BY <1>5 DEF CloseActive
  <2>2. closed' \in BOOLEAN /\ (closed' => active = "redis")
    BY <2>1, Zenon
  <2>3. closing' = "closed" /\ UNCHANGED <<source, redisUp, dataVars, active, healthVars, ctxDone>>
    BY <1>5 DEF CloseActive
  <2>4. DCTypeOK'
    BY <2>2, <2>3 DEF DCInv, DCTypeOK, dataVars, healthVars
  <2> QED
    BY <2>3, <2>4 DEF DCInv, TriesEveryPeriod, WaitsWithinPeriod, SwapIsCurrent,
       NoStaleMemory, dataVars, healthVars
<1> QED
  BY <1>1, <1>2, <1>3, <1>4, <1>5

(* A tick without an attempt counts on, within the period. *)
LEMMA TickWaitsPreserves == ASSUME DCInv, TickWaits PROVE DCInv'
<1> USE CacheAssumption
<1>1. /\ recoveryAttempt \in Nat /\ waited \in Nat /\ Period \in Nat \ {0}
      /\ recoveryAttempt > 0 /\ recoveryAttempt % Period # 0
      /\ waited < Period /\ waited <= (recoveryAttempt - 1) % Period
  BY DEF DCInv, DCTypeOK, TriesEveryPeriod, WaitsWithinPeriod, TickWaits, ShouldAttempt
<1>2. ((recoveryAttempt - 1) % Period) + 1 = recoveryAttempt % Period
  <2>1. recoveryAttempt - 1 \in Nat /\ (recoveryAttempt - 1) + 1 = recoveryAttempt
    BY <1>1
  <2> QED
    BY <1>1, <2>1, NextRest
<1>3. waited' = waited + 1 /\ waited' <= recoveryAttempt % Period /\ waited' < Period
  <2>1. (recoveryAttempt - 1) % Period \in Nat /\ recoveryAttempt % Period < Period
        /\ recoveryAttempt % Period \in Nat
    BY <1>1, Division
  <2>2. waited' = waited + 1
    BY <1>1 DEF TickWaits
  <2> QED
    BY <1>1, <1>2, <2>1, <2>2
<1>4. /\ recoveryAttempt' \in 0..(MaxBackoff - 1)
      /\ recoveryAttempt' > 0 => recoveryAttempt' = recoveryAttempt + 1
  BY DEF DCInv, DCTypeOK, TickWaits, Advances
<1>5. WaitsWithinPeriod'
  <2> SUFFICES ASSUME recoveryAttempt' > 0 PROVE waited' <= (recoveryAttempt' - 1) % Period
    BY DEF WaitsWithinPeriod
  <2>1. recoveryAttempt' - 1 = recoveryAttempt
    BY <1>1, <1>4
  <2> QED
    BY <1>3, <2>1
<1>6. DCTypeOK'
  BY <1>1, <1>3, <1>4 DEF DCInv, DCTypeOK, TickWaits, dataVars
<1> QED
  BY <1>3, <1>5, <1>6 DEF DCInv, TriesEveryPeriod, SwapIsCurrent, NoStaleMemory, TickWaits,
     dataVars

(* Every other step of the routine leaves the count of ticks alone or at zero. *)
LEMMA RoutinePreserves ==
  ASSUME DCInv,
         \/ PingSucceeds \/ PingFails \/ ConnectSucceeds \/ ConnectFails
         \/ FallBack \/ Reconnect \/ HealthExits
  PROVE  DCInv'
<1> USE CacheAssumption
<1>1. CASE PingSucceeds
  BY <1>1 DEF PingSucceeds, dcVars, DCInv, DCTypeOK, TriesEveryPeriod, WaitsWithinPeriod,
     SwapIsCurrent, NoStaleMemory, dataVars, healthVars
<1>2. CASE PingFails \/ HealthExits
  <2>1. DCTypeOK'
    BY <1>2 DEF DCInv, DCTypeOK, PingFails, HealthExits, dataVars
  <2> QED
    BY <1>2, <2>1 DEF DCInv, TriesEveryPeriod, WaitsWithinPeriod, SwapIsCurrent,
       NoStaleMemory, PingFails, HealthExits, dataVars
<1>3. CASE ConnectSucceeds \/ ConnectFails
  <2>1. recoveryAttempt' \in 0..(MaxBackoff - 1) /\ waited' = 0
    BY <1>3 DEF DCInv, DCTypeOK, ConnectSucceeds, ConnectFails, Advances
  <2>2. DCTypeOK'
    BY <1>3, <2>1 DEF DCInv, DCTypeOK, ConnectSucceeds, ConnectFails, dataVars
  <2>3. WaitsWithinPeriod'
    <3>1. recoveryAttempt' \in Nat
      BY <2>1
    <3>2. recoveryAttempt' > 0 => 0 <= (recoveryAttempt' - 1) % Period
      BY <3>1, RestIsNatural
    <3> QED
      BY <2>1, <3>2 DEF WaitsWithinPeriod
  <2> QED
    BY <1>3, <2>1, <2>2, <2>3 DEF DCInv, TriesEveryPeriod, SwapIsCurrent, NoStaleMemory,
       ConnectSucceeds, ConnectFails, dataVars
<1>4. CASE FallBack \/ Reconnect
  <2>1. memoryData' = Empty /\ memoryData' \in [Keys -> Values \cup {Nothing}]
    BY <1>4 DEF FallBack, Reconnect, Empty
  <2>2. /\ recoveryAttempt' = 0 /\ waited' \in 0..Period /\ waited' < Period
        /\ health' = "select" /\ active' \in {"redis", "memory"} /\ closed' = FALSE
    BY <1>4 DEF DCInv, DCTypeOK, TriesEveryPeriod, FallBack, Reconnect
  <2>3. UNCHANGED <<source, redisUp, redisData, ctxDone, closing>>
    BY <1>4 DEF FallBack, Reconnect
  <2>4. recoveryAttempt' \in 0..(MaxBackoff - 1)
    BY <2>2
  <2>5. DCTypeOK'
    BY <2>1, <2>2, <2>3, <2>4 DEF DCInv, DCTypeOK
  <2> QED
    BY <2>1, <2>2, <2>5 DEF DCInv, TriesEveryPeriod, WaitsWithinPeriod, SwapIsCurrent,
       NoStaleMemory
<1> QED
  BY <1>1, <1>2, <1>3, <1>4

(* The invariant holds throughout every behaviour. *)
LEMMA CacheInvariant == DCSpec => []DCInv
<1>1. DCInit => DCInv
  <2> SUFFICES ASSUME DCInit PROVE DCInv
    OBVIOUS
  <2>1. active \in {"redis", "memory"} /\ memoryData \in [Keys -> Values \cup {Nothing}]
    BY DEF DCInit, Empty
  <2>2. recoveryAttempt \in 0..(MaxBackoff - 1) /\ waited \in 0..Period /\ waited < Period
    BY CacheAssumption DEF DCInit
  <2>3. DCTypeOK
    BY <2>1, <2>2 DEF DCInit, DCTypeOK
  <2> QED
    BY <2>2, <2>3 DEF DCInit, DCInv, TriesEveryPeriod, WaitsWithinPeriod,
       SwapIsCurrent, NoStaleMemory
<1>2. DCInv /\ [DCNext]_dcVars => DCInv'
  <2> SUFFICES ASSUME DCInv, [DCNext]_dcVars PROVE DCInv'
    OBVIOUS
  <2>1. CASE DCNext
    BY <2>1, OutsidePreserves, TickWaitsPreserves, RoutinePreserves
       DEF DCNext, HealthStep, Tick
  <2>2. CASE UNCHANGED dcVars
    BY <2>2 DEF dcVars, DCInv, DCTypeOK, TriesEveryPeriod, WaitsWithinPeriod,
       SwapIsCurrent, NoStaleMemory, dataVars, healthVars
  <2> QED
    BY <2>1, <2>2
<1> QED
  BY <1>1, <1>2, PTL DEF DCSpec

(* The variables keep their types: the count stays below its limit. *)
THEOREM CacheTypes == DCSpec => []DCTypeOK
<1>1. DCInv => DCTypeOK
  BY DEF DCInv
<1> QED
  BY <1>1, CacheInvariant, PTL

(* dynamic_cache.go, healthCheckRoutine: whatever the limit, the burst and  *)
(* the period, a period of ticks never passes without an attempt.          *)
THEOREM CacheTriesEveryPeriod == DCSpec => []TriesEveryPeriod
<1>1. DCInv => TriesEveryPeriod
  BY DEF DCInv
<1> QED
  BY <1>1, CacheInvariant, PTL

(* dynamic_cache.go, healthCheckRoutine: what was read without the lock     *)
(* still holds when the lock is taken, and a failover finds an empty map.   *)
THEOREM CacheSwapsSoundly == DCSpec => [](SwapIsCurrent /\ NoStaleMemory)
<1>1. DCInv => SwapIsCurrent /\ NoStaleMemory
  BY DEF DCInv
<1> QED
  BY <1>1, CacheInvariant, PTL

HIDE CacheAssumption

-----------------------------------------------------------------------------
(* The status of a PLC. *)

(* Workers told to stop still run, for a session that was left; a worker     *)
(* holds a finding only while it has it to write, and counts below the      *)
(* threshold while it waits.                                               *)
CancelledRun == \A w \in cancelled : wpc[w] # "none" /\ w # current

PingsAccounted ==
  \A w \in Workers :
    /\ seen[w] = Absent <=> wpc[w] # "write"
    /\ wpc[w] \in {"none", "first"} => failCount[w] = 0
    /\ wpc[w] = "wait" => failCount[w] < Threshold

PSInv ==
  /\ PSTypeOK
  /\ WorkersWatch
  /\ CancelledRun
  /\ PingsAccounted

(* What a write, successful or not, leaves. *)
LEMMA RowWritten ==
  ASSUME PSTypeOK, NEW s \in Statuses, WritesRow(s)
  PROVE  row' \in {row, s} /\ row' \in Statuses /\ faults' \in 0..MaxFaults
BY StatusAssumption DEF PSTypeOK, WritesRow, Faulty

LEMMA KeyWritten ==
  ASSUME PSTypeOK, NEW s \in Statuses, WritesKey(s)
  PROVE  /\ key' \in {key, s} /\ key' \in Statuses \cup {Absent}
         /\ faults' \in 0..MaxFaults
BY StatusAssumption DEF PSTypeOK, WritesKey, Faulty

(* The PLC, the cache, the pool, writers, probes and the synchroniser leave   *)
(* monitor and workers alone, apart from the workers' clients.             *)
LEMMA OthersPreserve ==
  ASSUME PSInv,
         \/ LinkChanges \/ CacheLost
         \/ \E W \in SUBSET Workers : ClientCloses(W)
         \/ \E w \in Workers : Redials(w)
         \/ WriterAdmitted \/ WriterConnects \/ WriterCannotConnect
         \/ ForcePing \/ StoresProbe
         \/ \E s \in Syncers : SyncReads(s) \/ SyncStores(s)
  PROVE  PSInv'
<1> DEFINE Stored ==
             /\ reachable' \in BOOLEAN /\ row' \in Statuses
             /\ key' \in Statuses \cup {Absent}
             /\ probed' \in {"online", "offline", "admitted", Absent}
             /\ copied' \in [Syncers -> Statuses \cup {Absent}]
             /\ faults' \in 0..MaxFaults
             /\ noHandler' \in SUBSET Workers
<1>1. UNCHANGED <<monitorVars, wpc, seen, failCount, cancelled>>
  BY DEF workerVars, LinkChanges, CacheLost, ClientCloses, Redials, WriterAdmitted, WriterConnects, WriterCannotConnect,
     ForcePing, StoresProbe, SyncReads, SyncStores
<1>2. Stored
  <2> USE DEF PSInv, PSTypeOK, otherVars, workerVars
  <2>1. CASE LinkChanges
    BY <2>1 DEF LinkChanges, Running
  <2>a. ASSUME NEW W \in SUBSET Workers, ClientCloses(W) PROVE Stored
    BY <2>a, StatusAssumption DEF ClientCloses, Faulty
  <2>b. ASSUME NEW w \in Workers, Redials(w) PROVE Stored
    BY <2>b DEF Redials
  <2>2. CASE CacheLost
    BY <2>2, StatusAssumption DEF CacheLost, Faulty
  <2>3. CASE WriterAdmitted \/ WriterConnects \/ WriterCannotConnect
    BY <2>3 DEF WriterAdmitted, WriterConnects, WriterCannotConnect
  <2>4. CASE ForcePing
    BY <2>4 DEF ForcePing, Status
  <2>5. CASE StoresProbe
    <3>1. probed \in Statuses
      BY <2>5 DEF StoresProbe, Statuses
    <3> QED
      BY <2>5, <3>1, RowWritten DEF StoresProbe
  <2>6. ASSUME NEW s \in Syncers, SyncReads(s) \/ SyncStores(s) PROVE Stored
    <3>1. CASE SyncReads(s)
      BY <2>6, <3>1 DEF SyncReads
    <3>2. CASE SyncStores(s)
      <4>1. copied[s] \in Statuses
        BY <2>6, <3>2 DEF SyncStores
      <4> QED
        BY <2>6, <3>2, <4>1, KeyWritten DEF SyncStores
    <3> QED
      BY <2>6, <3>1, <3>2
  <2> QED
    <3> HIDE DEF Stored
    <3> QED
      BY <2>1, <2>a, <2>b, <2>2, <2>3, <2>4, <2>5, <2>6
<1>3. PSTypeOK'
  BY <1>1, <1>2 DEF PSInv, PSTypeOK, monitorVars
<1> QED
  BY <1>1, <1>3 DEF PSInv, WorkersWatch, CancelledRun, PingsAccounted, monitorVars

(* Between sessions the monitor leaves the workers alone, and has none. *)
LEMMA RetryPreserves ==
  ASSUME PSInv,
         \/ CannotConnect \/ MarksKeyOffline \/ MarksRowOffline
         \/ Connects \/ MarksKeyOnline
  PROVE  PSInv'
<1>1. /\ UNCHANGED <<reachable, current, errChan, workerVars, otherVars>>
      /\ pc' \in {"connect", "markKey", "markRow", "connected", "start"}
      /\ pc # "session"
  BY DEF CannotConnect, MarksKeyOffline, MarksRowOffline, Connects, MarksKeyOnline,
     Goes
<1>2. row' \in Statuses /\ key' \in Statuses \cup {Absent} /\ faults' \in 0..MaxFaults
  <2>1. CASE CannotConnect \/ Connects
    BY <2>1 DEF PSInv, PSTypeOK, CannotConnect, Connects
  <2>2. CASE MarksRowOffline
    BY <2>2, RowWritten DEF PSInv, PSTypeOK, Statuses, MarksRowOffline
  <2>3. CASE MarksKeyOffline \/ MarksKeyOnline
    BY <2>3, KeyWritten DEF PSInv, PSTypeOK, Statuses, MarksKeyOffline, MarksKeyOnline
  <2> QED
    BY <2>1, <2>2, <2>3
<1>3. PSTypeOK'
  BY <1>1, <1>2 DEF PSInv, PSTypeOK, workerVars, otherVars
<1> QED
  BY <1>1, <1>3 DEF PSInv, WorkersWatch, CancelledRun, PingsAccounted, workerVars

(* A session starts with a worker that is nobody's, and leaves it told to stop. *)
LEMMA SessionPreserves ==
  ASSUME PSInv, TagsFail \/ SessionEnds \/ \E w \in Workers : StartsSession(w)
  PROVE  PSInv'
<1> USE DEF PSInv, PSTypeOK, workerVars, otherVars
<1>1. CASE TagsFail
  BY <1>1 DEF TagsFail, WorkersWatch, CancelledRun, PingsAccounted
<1>2. CASE SessionEnds
  <2>1. /\ pc = "session" /\ pc' = "connect" /\ current' = NoWorker /\ errChan' = FALSE
        /\ cancelled' = IF wpc[current] = "none" THEN cancelled
                        ELSE cancelled \cup {current}
        /\ UNCHANGED <<reachable, row, key, wpc, seen, failCount, noHandler, otherVars, faults>>
    BY <1>2 DEF SessionEnds, Goes, ToldToStop
  <2>2. current \in Workers
    BY <2>1
  <2>3. PSTypeOK'
    BY <2>1, <2>2
  <2>4. WorkersWatch' /\ CancelledRun'
    BY <2>1, <2>2, StatusAssumption DEF WorkersWatch, CancelledRun
  <2> QED
    BY <2>1, <2>3, <2>4 DEF PingsAccounted
<1>3. ASSUME NEW w \in Workers, StartsSession(w) PROVE PSInv'
  <2>1. /\ pc = "start" /\ pc' = "session" /\ wpc[w] = "none" /\ current' = w
        /\ errChan' = FALSE
        /\ wpc' = [wpc EXCEPT ![w] = "first"]
        /\ failCount' = [failCount EXCEPT ![w] = 0]
        /\ UNCHANGED <<reachable, row, key, seen, cancelled, noHandler, otherVars, faults>>
    BY <1>3 DEF StartsSession, Goes
  <2>2. w # NoWorker /\ current = NoWorker
    BY <1>3, <2>1, StatusAssumption
  <2>3. PSTypeOK'
    <3>1. failCount' \in [Workers -> 0..Threshold]
      BY <2>1, StatusAssumption
    <3>2. /\ wpc' \in [Workers -> {"none", "first", "firstWrite", "wait", "write"}]
          /\ current' \in Workers \cup {NoWorker} /\ errChan' \in BOOLEAN
          /\ pc' = "session" <=> current' # NoWorker
      BY <1>3, <2>1, <2>2
    <3> QED
      BY <2>1, <3>1, <3>2
  <2>4. WorkersWatch' /\ CancelledRun'
    BY <2>1, <2>2, StatusAssumption DEF WorkersWatch, CancelledRun
  <2>5. PingsAccounted'
    BY <2>1 DEF PingsAccounted
  <2> QED
    BY <2>3, <2>4, <2>5
<1> QED
  BY <1>1, <1>2, <1>3

(* A ping counts on, and what it found is kept to be written. *)
LEMMA PingPreserves ==
  ASSUME PSInv, NEW w \in Workers, FirstPing(w) \/ PingsAtTick(w)
  PROVE  PSInv'
<1> USE DEF PSInv, PSTypeOK, workerVars, otherVars, monitorVars
<1>1. /\ wpc[w] \in {"first", "wait"}
      /\ wpc' = [wpc EXCEPT ![w] = "write"]
      /\ seen' = [seen EXCEPT ![w] = IF Pings(w) THEN "online" ELSE "offline"]
      /\ failCount' = [failCount EXCEPT ![w] = Counted(w)]
      /\ UNCHANGED <<reachable, row, key, monitorVars, cancelled, noHandler, otherVars, faults>>
  BY DEF FirstPing, PingsAtTick, PingsOf
<1>2. \A s \in {"online", "offline"} : s # Absent
  BY DEF Absent
<1>3. Counted(w) \in 0..Threshold
  <2>1. failCount[w] \in Nat /\ failCount[w] < Threshold
    BY <1>1, StatusAssumption DEF PingsAccounted
  <2> QED
    BY <2>1, StatusAssumption DEF Counted
<1>4. PSTypeOK'
  BY <1>1, <1>2, <1>3
<1>5. WorkersWatch' /\ CancelledRun'
  BY <1>1 DEF WorkersWatch, CancelledRun
<1>6. PingsAccounted'
  BY <1>1, <1>2, <1>3 DEF PingsAccounted
<1> QED
  BY <1>4, <1>5, <1>6

(* A worker ends when it failed, which the monitor is told, or was told to stop. *)
LEMMA WorkerPreserves ==
  ASSUME PSInv, NEW w \in Workers, StoresStatus(w) \/ WorkerStops(w)
  PROVE  PSInv'
<1> USE DEF PSInv, PSTypeOK, workerVars, otherVars, monitorVars
<1>1. row' \in Statuses /\ faults' \in 0..MaxFaults
  <2>1. CASE StoresStatus(w)
    <3>1. seen[w] \in Statuses
      BY <2>1 DEF StoresStatus, PingsAccounted, Statuses
    <3> QED
      BY <2>1, <3>1, RowWritten DEF StoresStatus
  <2>2. CASE WorkerStops(w)
    BY <2>2 DEF WorkerStops
  <2> QED
    BY <2>1, <2>2
<1>2. /\ wpc[w] \in {"wait", "write"}
      /\ seen' = [seen EXCEPT ![w] = Absent]
      /\ UNCHANGED <<reachable, key, pc, current, otherVars>>
  <2>1. CASE StoresStatus(w)
    BY <2>1 DEF StoresStatus
  <2>2. CASE WorkerStops(w)
    <3>1. seen[w] = Absent
      BY <2>2 DEF WorkerStops, PingsAccounted
    <3> QED
      BY <2>2, <3>1 DEF WorkerStops
  <2> QED
    BY <2>1, <2>2
<1>3. CASE /\ EndsWorker(w)
           /\ errChan' \in BOOLEAN /\ (errChan => errChan') /\ (current = w => errChan')
  <2>1. PSTypeOK'
    BY <1>1, <1>2, <1>3, StatusAssumption DEF EndsWorker
  <2>2. WorkersWatch' /\ CancelledRun'
    BY <1>2, <1>3 DEF EndsWorker, WorkersWatch, CancelledRun
  <2>3. PingsAccounted'
    BY <1>2, <1>3 DEF EndsWorker, PingsAccounted
  <2> QED
    BY <2>1, <2>2, <2>3
<1>4. CASE /\ wpc' = [wpc EXCEPT ![w] = "wait"] /\ failCount[w] < Threshold
           /\ UNCHANGED <<failCount, cancelled, noHandler, errChan>>
  <2>1. PSTypeOK'
    BY <1>1, <1>2, <1>4
  <2>2. WorkersWatch' /\ CancelledRun'
    BY <1>2, <1>4 DEF WorkersWatch, CancelledRun
  <2>3. PingsAccounted'
    BY <1>2, <1>4 DEF PingsAccounted
  <2> QED
    BY <2>1, <2>2, <2>3
<1> QED
  <2>1. CASE WorkerStops(w)
    <3>1. current # w
      BY <2>1 DEF WorkerStops, CancelledRun
    <3> QED
      BY <1>3, <2>1, <3>1 DEF WorkerStops
  <2>2. CASE StoresStatus(w) /\ failCount[w] >= Threshold
    <3>1. EndsWorker(w) /\ errChan' = (errChan \/ current = w)
      BY <2>2 DEF StoresStatus
    <3>2. errChan' \in BOOLEAN /\ (errChan => errChan') /\ (current = w => errChan')
      BY <3>1, Zenon
    <3> QED
      BY <1>3, <3>1, <3>2
  <2>3. CASE StoresStatus(w) /\ ~(failCount[w] >= Threshold)
    <3>1. failCount[w] < Threshold
      BY <2>3, StatusAssumption
    <3> QED
      BY <1>4, <2>3, <3>1 DEF StoresStatus
  <2> QED
    BY <2>1, <2>2, <2>3

(* The invariant holds throughout every behaviour. *)
LEMMA StatusInvariant == PSSpec => []PSInv
<1>1. PSInit => PSInv
  <2> SUFFICES ASSUME PSInit PROVE PSInv
    OBVIOUS
  <2>1. PSTypeOK
    <3>1. 0 \in 0..Threshold /\ 0 \in 0..MaxFaults
      BY StatusAssumption
    <3>2. pc # "session" /\ current = NoWorker /\ errChan \in BOOLEAN
      BY DEF PSInit
    <3> QED
      BY <3>1, <3>2 DEF PSInit, PSTypeOK
  <2>2. WorkersWatch /\ CancelledRun
    BY DEF PSInit, WorkersWatch, CancelledRun
  <2>3. PingsAccounted
    BY StatusAssumption DEF PSInit, PingsAccounted, Absent
  <2> QED
    BY <2>1, <2>2, <2>3 DEF PSInv
<1>2. PSInv /\ [PSNext]_psVars => PSInv'
  <2> SUFFICES ASSUME PSInv, [PSNext]_psVars PROVE PSInv'
    OBVIOUS
  <2>1. CASE PSNext
    BY <2>1, OthersPreserve, RetryPreserves, SessionPreserves, PingPreserves,
       WorkerPreserves DEF PSNext, MonitorStep, WorkerStep
  <2>2. CASE UNCHANGED psVars
    BY <2>2 DEF psVars, monitorVars, workerVars, otherVars, PSInv, PSTypeOK, WorkersWatch,
       CancelledRun, PingsAccounted
  <2> QED
    BY <2>1, <2>2
<1> QED
  BY <1>1, <1>2, PTL DEF PSSpec

(* The variables keep their types: a worker counts no further than the      *)
(* threshold.                                                              *)
THEOREM StatusTypes == PSSpec => []PSTypeOK
<1>1. PSInv => PSTypeOK
  BY DEF PSInv
<1> QED
  BY <1>1, StatusInvariant, PTL

(* manager.go, runPLC: a session has a worker that pings or an error to      *)
(* receive, and every other worker has been told to stop.                  *)
THEOREM StatusWorkersWatch == PSSpec => []WorkersWatch
<1>1. PSInv => WorkersWatch
  BY DEF PSInv
<1> QED
  BY <1>1, StatusInvariant, PTL

(* A settled status stays so at every step of the program. *)
LEMMA SettledStays ==
  ASSUME PSInv, PSNext, Settled, reachable' = reachable, key' # Absent,
         ~ \E W \in SUBSET Workers : ClientCloses(W)
  PROVE  Settled'
<1> USE DEF Settled, monitorVars, workerVars, otherVars
<1>1. /\ Status' = Status /\ Status \in {"online", "offline"}
      /\ reachable <=> Status = "online"
  BY DEF Status, PSInv, PSTypeOK
<1>2. Status \in Statuses
  BY <1>1 DEF Statuses
<1>3. CASE LinkChanges \/ CacheLost
  BY <1>3 DEF LinkChanges, CacheLost, PSInv, PSTypeOK
<1>4. CASE MonitorStep \/ TagsFail
  <2>1. UNCHANGED <<seen, noHandler, otherVars>>
    BY <1>4 DEF MonitorStep, CannotConnect, MarksKeyOffline, MarksRowOffline, Connects,
       MarksKeyOnline, StartsSession, SessionEnds, TagsFail
  <2>2. pc' \notin (IF reachable THEN {"markKey", "markRow"} ELSE {"connected"})
    BY <1>4 DEF MonitorStep, CannotConnect, MarksKeyOffline, MarksRowOffline, Connects,
       MarksKeyOnline, StartsSession, SessionEnds, TagsFail, Goes
  <2>3. row' = Status /\ key' = Status
    <3>1. CASE MarksKeyOffline \/ MarksRowOffline
      <4>1. Status = "offline"
        BY <1>1, <3>1 DEF MarksKeyOffline, MarksRowOffline, Goes
      <4> QED
        BY <3>1, <4>1 DEF MarksKeyOffline, MarksRowOffline, WritesKey, WritesRow
    <3>2. CASE MarksKeyOnline
      <4>1. Status = "online"
        BY <1>1, <3>2 DEF MarksKeyOnline, Goes
      <4> QED
        BY <3>2, <4>1 DEF MarksKeyOnline, WritesKey
    <3>3. CASE ~(MarksKeyOffline \/ MarksRowOffline \/ MarksKeyOnline)
      BY <1>4, <3>3 DEF MonitorStep, CannotConnect, Connects, StartsSession, SessionEnds,
         TagsFail
    <3> QED
      BY <3>1, <3>2, <3>3
  <2> QED
    BY <1>1, <2>1, <2>2, <2>3
<1>5. ASSUME NEW w \in Workers, WorkerStep(w) \/ WorkerStops(w) PROVE Settled'
  <2>1. UNCHANGED <<key, pc, otherVars>> /\ noHandler' = {}
    BY <1>5 DEF WorkerStep, FirstPing, PingsAtTick, PingsOf, StoresStatus, WorkerStops,
       EndsWorker
  <2>2. \A v \in Workers : seen'[v] \in {Status, Absent}
    <3>1. \/ seen' = [seen EXCEPT ![w] = Status]
          \/ seen' = [seen EXCEPT ![w] = Absent]
          \/ seen' = seen
      BY <1>5 DEF WorkerStep, FirstPing, PingsAtTick, PingsOf, Pings, Status,
         StoresStatus, WorkerStops
    <3> QED
      BY <3>1 DEF PSInv, PSTypeOK
  <2>3. row' = Status
    <3>1. CASE StoresStatus(w)
      <4>1. seen[w] = Status
        BY <1>5, <3>1 DEF StoresStatus, PSInv, PingsAccounted
      <4> QED
        BY <3>1, <4>1 DEF StoresStatus, WritesRow
    <3>2. CASE ~StoresStatus(w)
      BY <1>5, <3>2 DEF WorkerStep, FirstPing, PingsAtTick, PingsOf, WorkerStops
    <3> QED
      BY <3>1, <3>2
  <2> QED
    BY <1>1, <2>1, <2>2, <2>3
<1>6. CASE WriterAdmitted \/ WriterConnects \/ WriterCannotConnect \/ ForcePing
  <2>1. probed' \in {Status, "admitted", Absent}
    BY <1>1, <1>6 DEF WriterAdmitted, WriterConnects, WriterCannotConnect, ForcePing
  <2>2. UNCHANGED <<row, key, monitorVars, workerVars, copied>>
    BY <1>6 DEF WriterAdmitted, WriterConnects, WriterCannotConnect, ForcePing
  <2> QED
    BY <1>1, <2>1, <2>2
<1>7. CASE StoresProbe
  <2>1. probed = Status
    BY <1>7 DEF StoresProbe, Absent
  <2> QED
    BY <1>1, <1>7, <2>1 DEF StoresProbe, WritesRow
<1>8. ASSUME NEW s \in Syncers, SyncReads(s) \/ SyncStores(s) PROVE Settled'
  <2>1. row' = Status /\ key' = Status
    <3>1. CASE SyncReads(s)
      BY <3>1 DEF SyncReads
    <3>2. CASE SyncStores(s)
      <4>1. copied[s] = Status
        BY <1>8, <3>2 DEF SyncStores
      <4> QED
        BY <3>2, <4>1 DEF SyncStores, WritesKey
    <3> QED
      BY <1>8, <3>1, <3>2
  <2>2. \A x \in Syncers : copied'[x] \in {Status, Absent}
    <3>1. \/ copied' = [copied EXCEPT ![s] = Status]
          \/ copied' = [copied EXCEPT ![s] = Absent]
      BY <1>8 DEF SyncReads, SyncStores
    <3> QED
      BY <3>1 DEF PSInv, PSTypeOK
  <2>3. UNCHANGED <<monitorVars, workerVars, probed>>
    BY <1>8 DEF SyncReads, SyncStores
  <2> QED
    BY <1>1, <2>1, <2>2, <2>3
<1> QED
  BY <1>3, <1>4, <1>5, <1>6, <1>7, <1>8 DEF PSNext, Redials

(* The row and the key, once they agree with the PLC and nobody holds an     *)
(* older finding, part from it only when it changes, the cache is lost or   *)
(* the client of a worker is closed: the safety half of StatusFollowsPLC.  *)
THEOREM StatusStaysSettled == PSSpec => StaysSettled
<1> DEFINE Kept == Settled => \/ Settled' \/ reachable' # reachable \/ key' = Absent
                              \/ \E W \in SUBSET Workers : ClientCloses(W)
<1>1. PSInv /\ [PSNext]_psVars => [Kept]_psVars
  <2> SUFFICES ASSUME PSInv, PSNext PROVE Kept
    OBVIOUS
  <2> QED
    BY SettledStays
<1> QED
  BY <1>1, StatusInvariant, PTL DEF PSSpec, StaysSettled
=============================================================================
