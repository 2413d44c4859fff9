--------------------------- MODULE ConnectionPoolProofs ---------------------------
(***************************************************************************)
(* Safety of the connection pool for any number of callers, keys and       *)
(* clients.                                                                *)
(***************************************************************************)
EXTENDS ConnectionPool, TLAPS

USE DEF Labels, WriteLockFree, poolVars, lockVars, procVars

(* The read lock is held exactly while pinging. *)
ReadersPing == \A p \in Procs : pc[p] = "ping" => p \in readers

IInv ==
  /\ TypeOK
  /\ PooledHasTimestamp
  /\ LocksReleased
  /\ ReadersPing
  /\ PingSeesPooled

(* What a step of GetConnection does to the types. *)
LEMMA GetTypes == ASSUME IInv, NEW p \in Procs, GetStep(p) PROVE TypeOK'
<1> USE PoolAssumption DEF IInv, TypeOK
<1>1. CASE PingFails(p) \/ PingSucceeds(p)
  BY <1>1 DEF PingFails, PingSucceeds
<1>2. CASE Reconnects(p)
  BY <1>2 DEF Reconnects
<1>3. CASE DropsBroken(p) \/ DropsExpired(p)
  BY <1>3 DEF DropsBroken, DropsExpired, RemoveEntry
<1>4. CASE Touches(p) \/ Stores(p)
  BY <1>4 DEF Touches, Stores
<1>5. CASE Creates(p)
  BY <1>5 DEF Creates, Fresh
<1>6. CASE CreateErr(p)
  BY <1>6 DEF CreateErr
<1> QED
  BY <1>1, <1>2, <1>3, <1>4, <1>5, <1>6 DEF GetStep

(* A step of GetConnection preserves the invariant. *)
LEMMA GetInv == ASSUME IInv, NEW p \in Procs, GetStep(p) PROVE IInv'
<1>1. TypeOK'
  BY GetTypes
<1> USE PoolAssumption DEF IInv, TypeOK, PooledHasTimestamp, LocksReleased,
        ReadersPing, PingSeesPooled
<1>2. CASE PingFails(p) \/ PingSucceeds(p)
  BY <1>1, <1>2 DEF PingFails, PingSucceeds
<1>3. CASE Reconnects(p)
  BY <1>1, <1>3 DEF Reconnects
<1>4. CASE DropsBroken(p) \/ DropsExpired(p)
  BY <1>1, <1>4 DEF DropsBroken, DropsExpired, RemoveEntry
<1>5. CASE Touches(p) \/ Stores(p)
  BY <1>1, <1>5 DEF Touches, Stores
<1>6. CASE Creates(p) \/ CreateErr(p)
  BY <1>1, <1>6 DEF Creates, CreateErr, Fresh
<1> QED
  BY <1>2, <1>3, <1>4, <1>5, <1>6 DEF GetStep

(* A step of a caller outside GetConnection preserves the invariant. *)
LEMMA UserInv == ASSUME IInv, NEW p \in Procs, UserStep(p) PROVE IInv'
<1> USE PoolAssumption DEF IInv, TypeOK, PooledHasTimestamp, LocksReleased,
        ReadersPing, PingSeesPooled
<1>1. CASE \E k \in Keys : Lookup(p, k)
  <2> PICK k \in Keys : Lookup(p, k)
    BY <1>1
  <2>1. CASE connections[k] = NoClient
    BY <2>1 DEF Lookup
  <2>2. CASE connections[k] # NoClient
    BY <2>2 DEF Lookup
  <2> QED
    BY <2>1, <2>2
<1>2. CASE Uses(p)
  BY <1>2 DEF Uses
<1>3. CASE Releases(p)
  BY <1>3 DEF Releases
<1>4. CASE ClosesItself(p)
  BY <1>4 DEF ClosesItself
<1> QED
  BY <1>1, <1>2, <1>3, <1>4 DEF UserStep

(* A step of the cleanup goroutine, of Close or of time preserves it. *)
LEMMA PoolInv == ASSUME IInv, PoolStep PROVE IInv'
<1> USE PoolAssumption DEF IInv, TypeOK, PooledHasTimestamp, LocksReleased,
        ReadersPing, PingSeesPooled
<1>1. ASSUME NEW K \in SUBSET Keys, RemoveAll(K), WriteLockFree, running' \in BOOLEAN,
             UNCHANGED <<lockVars, procVars>>
      PROVE  IInv'
  BY <1>1 DEF RemoveAll
<1>2. CASE \E K \in SUBSET Keys : VerifyFails(K)
  BY <1>1, <1>2 DEF VerifyFails
<1>3. CASE Cleanup
  BY <1>1, <1>3 DEF Cleanup, Stale, Occupied
<1>4. CASE Close
  BY <1>1, <1>4 DEF Close, Occupied
<1>5. CASE \E k \in Keys : VerifyReconnects(k)
  BY <1>5 DEF VerifyReconnects, Occupied
<1>6. CASE \E k \in Keys : Ages(k)
  BY <1>6 DEF Ages
<1> QED
  BY <1>2, <1>3, <1>4, <1>5, <1>6 DEF PoolStep

(* The invariant holds throughout every behaviour. *)
LEMMA Invariant == Spec => []IInv
<1>1. Init => IInv
  BY PoolAssumption DEF Init, IInv, TypeOK, PooledHasTimestamp, LocksReleased,
     ReadersPing, PingSeesPooled
<1>2. IInv /\ [Next]_vars => IInv'
  <2> SUFFICES ASSUME IInv, [Next]_vars PROVE IInv'
    OBVIOUS
  <2>1. CASE Next
    BY <2>1, GetInv, UserInv, PoolInv DEF Next
  <2>2. CASE UNCHANGED vars
    BY <2>2 DEF vars, IInv, TypeOK, PooledHasTimestamp, LocksReleased,
       ReadersPing, PingSeesPooled
  <2> QED
    BY <2>1, <2>2
<1> QED
  BY <1>1, <1>2, PTL DEF Spec

(* The variables keep their types, and no caller returns a nil client. *)
THEOREM PoolTypes == Spec => []TypeOK
<1>1. IInv => TypeOK
  BY DEF IInv
<1> QED
  BY <1>1, Invariant, PTL

(* connection_pool.go: the cleanup can find every pooled connection. *)
THEOREM PoolTimestamps == Spec => []PooledHasTimestamp
<1>1. IInv => PooledHasTimestamp
  BY DEF IInv
<1> QED
  BY <1>1, Invariant, PTL

(* connection_pool.go: the ping under the read lock is of a pooled client, *)
(* although every other method replaces entries.                           *)
THEOREM PoolPings == Spec => []PingSeesPooled
<1>1. IInv => PingSeesPooled
  BY DEF IInv
<1> QED
  BY <1>1, Invariant, PTL

(* connection_pool.go: no early return leaves the pool's mutex locked. *)
THEOREM PoolUnlocks == Spec => []LocksReleased
<1>1. IInv => LocksReleased
  BY DEF IInv
<1> QED
  BY <1>1, Invariant, PTL
=============================================================================
