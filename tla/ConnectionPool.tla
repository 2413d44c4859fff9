------------------------------ MODULE ConnectionPool ------------------------------
(***************************************************************************)
(* The pool of PLC connections, internal/plc/connection_pool.go.           *)
(*                                                                         *)
(* Two maps, connections and lastUsed, share one RWMutex.  A caller of     *)
(* GetConnection looks up and pings under the read lock, then gives it up  *)
(* and takes the write lock to touch, reconnect or remove the entry; a new *)
(* connection is dialled and then stored under the write lock.  A cleanup  *)
(* goroutine verifies and expires entries, Close empties the pool.         *)
(*                                                                         *)
(* GetConnection and GetConnectionWithConfig are the same algorithm over   *)
(* the same maps, so one set of actions stands for both.  A client         *)
(* (client.go) is reduced to whether its handler holds an open session.    *)
(***************************************************************************)
EXTENDS Naturals, FiniteSets

CONSTANTS Procs,     \* goroutines that use the pool
          Keys,      \* ip:rack:slot
          Clients,   \* identities of *Client values
          NoClient,  \* no entry, or a nil client
          NoProc     \* the write lock is free

ASSUME PoolAssumption == NoClient \notin Clients /\ NoProc \notin Procs

VARIABLES
  connections,  \* p.connections
  lastUsed,     \* p.lastUsed: "none", "recent", or "expired" (older than maxAge)
  writer,       \* the goroutine that keeps the write lock between two steps
  readers,      \* the goroutines that hold the read lock
  running,      \* p.running
  open,         \* the clients whose handler holds a session with the PLC
  pc,           \* where each goroutine is
  key,          \* the key it asked for
  held          \* its local variable client or newClient

poolVars == <<connections, lastUsed>>
lockVars == <<writer, readers>>
procVars == <<pc, key, held>>
vars == <<poolVars, lockVars, running, open, procVars>>

Labels == {"idle", "ping", "broken", "expired", "touch", "create", "store", "using"}

WriteLockFree == writer = NoProc /\ readers = {}
Pooled   == {c \in Clients : \E k \in Keys : connections[k] = c}
(* A client nobody refers to and without a session may stand for a new one. *)
Fresh    == {c \in Clients : c \notin open \cup Pooled /\ \A p \in Procs : held[p] # c}

Init ==
  /\ connections = [k \in Keys |-> NoClient]
  /\ lastUsed = [k \in Keys |-> "none"]
  /\ writer = NoProc
  /\ readers = {}
  /\ running = TRUE
  /\ open = {}
  /\ pc = [p \in Procs |-> "idle"]
  /\ key \in [Procs -> Keys]
  /\ held = [p \in Procs |-> NoClient]

-----------------------------------------------------------------------------
(* GetConnection. *)

(* The read lock is kept while the client found is pinged. *)
Lookup(p, k) ==
  /\ pc[p] = "idle"
  /\ writer = NoProc
  /\ key' = [key EXCEPT ![p] = k]
  /\ held' = [held EXCEPT ![p] = connections[k]]
  /\ IF connections[k] = NoClient
     THEN /\ pc' = [pc EXCEPT ![p] = "create"]
          /\ UNCHANGED readers
     ELSE /\ pc' = [pc EXCEPT ![p] = "ping"]
          /\ readers' = readers \cup {p}
  /\ UNCHANGED <<poolVars, writer, running, open>>

(* Ping fails for want of a handler, or because the PLC cannot be dialled. *)
PingFails(p) ==
  /\ pc[p] = "ping"
  /\ readers' = readers \ {p}
  /\ pc' = [pc EXCEPT ![p] = "broken"]
  /\ UNCHANGED <<poolVars, writer, running, open, key, held>>

PingSucceeds(p) ==
  /\ pc[p] = "ping"
  /\ held[p] \in open
  /\ readers' = readers \ {p}
  /\ pc' = [pc EXCEPT ![p] = IF lastUsed[key[p]] = "expired" THEN "expired" ELSE "touch"]
  /\ UNCHANGED <<poolVars, writer, running, open, key, held>>

(* The entry, if it is still there, is reconnected and returned. *)
Reconnects(p) ==
  /\ pc[p] = "broken"
  /\ WriteLockFree
  /\ LET c == connections[key[p]] IN
     /\ c # NoClient
     /\ open' = open \cup {c}
     /\ held' = [held EXCEPT ![p] = c]
  /\ lastUsed' = [lastUsed EXCEPT ![key[p]] = "recent"]
  /\ pc' = [pc EXCEPT ![p] = "using"]
  /\ UNCHANGED <<connections, lockVars, running, key>>

RemoveEntry(k) ==
  /\ open' = open \ {connections[k]}
  /\ connections' = [connections EXCEPT ![k] = NoClient]
  /\ lastUsed' = [lastUsed EXCEPT ![k] = "none"]

(* Otherwise it is removed; the write lock is kept until the return, by defer. *)
DropsBroken(p) ==
  /\ pc[p] = "broken"
  /\ WriteLockFree
  /\ writer' = p
  /\ IF connections[key[p]] # NoClient
     THEN RemoveEntry(key[p]) ELSE UNCHANGED <<poolVars, open>>
  /\ pc' = [pc EXCEPT ![p] = "create"]
  /\ UNCHANGED <<readers, running, key, held>>

DropsExpired(p) ==
  /\ pc[p] = "expired"
  /\ WriteLockFree
  /\ writer' = p
  /\ IF connections[key[p]] # NoClient /\ lastUsed[key[p]] = "expired"
     THEN RemoveEntry(key[p]) ELSE UNCHANGED <<poolVars, open>>
  /\ pc' = [pc EXCEPT ![p] = "create"]
  /\ UNCHANGED <<readers, running, key, held>>

(* The healthy client is returned, whatever happened to its entry meanwhile. *)
Touches(p) ==
  /\ pc[p] = "touch"
  /\ WriteLockFree
  /\ lastUsed' = [lastUsed EXCEPT ![key[p]] = "recent"]
  /\ pc' = [pc EXCEPT ![p] = "using"]
  /\ UNCHANGED <<connections, lockVars, running, open, key, held>>

(* NewClient is called with or without the write lock. *)
Creates(p) ==
  /\ pc[p] = "create"
  /\ \E c \in Fresh :
       /\ open' = open \cup {c}
       /\ held' = [held EXCEPT ![p] = c]
  /\ pc' = [pc EXCEPT ![p] = "store"]
  /\ UNCHANGED <<poolVars, lockVars, running, key>>

CreateErrKeepsLock(p) ==
  /\ pc[p] = "create"
  /\ pc' = [pc EXCEPT ![p] = "idle"]
  /\ held' = [held EXCEPT ![p] = NoClient]
  /\ UNCHANGED <<poolVars, lockVars, running, open, key>>

(* The deferred Unlock, if any, runs when the error is returned. *)
CreateErr(p) ==
  /\ pc[p] = "create"
  /\ writer' = IF writer = p THEN NoProc ELSE writer
  /\ pc' = [pc EXCEPT ![p] = "idle"]
  /\ held' = [held EXCEPT ![p] = NoClient]
  /\ UNCHANGED <<poolVars, readers, running, open, key>>

(* sync.RWMutex is not reentrant: Lock waits even for the caller's own lock. *)
Stores(p) ==
  /\ pc[p] = "store"
  /\ WriteLockFree
  /\ connections' = [connections EXCEPT ![key[p]] = held[p]]
  /\ lastUsed' = [lastUsed EXCEPT ![key[p]] = "recent"]
  /\ pc' = [pc EXCEPT ![p] = "using"]
  /\ UNCHANGED <<lockVars, running, open, key, held>>

-----------------------------------------------------------------------------
(* The caller and its connection. *)

(* An operation on the client reconnects it when its session is lost; a     *)
(* failed reconnection leaves it without a handler.                         *)
Uses(p) ==
  /\ pc[p] = "using"
  /\ open' \in {open \cup {held[p]}, open \ {held[p]}}
  /\ UNCHANGED <<poolVars, lockVars, running, procVars>>

(* Release, or a caller that closes the pooled client itself. *)
Releases(p) ==
  /\ pc[p] = "using"
  /\ WriteLockFree
  /\ lastUsed' = [lastUsed EXCEPT ![key[p]] = IF connections[key[p]] # NoClient
                                              THEN "recent" ELSE @]
  /\ pc' = [pc EXCEPT ![p] = "idle"]
  /\ held' = [held EXCEPT ![p] = NoClient]
  /\ UNCHANGED <<connections, lockVars, running, open, key>>

ClosesItself(p) ==
  /\ pc[p] = "using"
  /\ open' = open \ {held[p]}
  /\ pc' = [pc EXCEPT ![p] = "idle"]
  /\ held' = [held EXCEPT ![p] = NoClient]
  /\ UNCHANGED <<poolVars, lockVars, running, key>>

-----------------------------------------------------------------------------
(* The cleanup goroutine, Close, and time. *)

(* The client of every key in K is closed and its entry removed. *)
RemoveAll(K) ==
  /\ open' = open \ {connections[k] : k \in K}
  /\ connections' = [k \in Keys |-> IF k \in K THEN NoClient ELSE connections[k]]
  /\ lastUsed' = [k \in Keys |-> IF k \in K THEN "none" ELSE lastUsed[k]]

Occupied == {k \in Keys : connections[k] # NoClient}

VerifyUnlocked(K) ==
  /\ running /\ K # {} /\ K \subseteq Occupied
  /\ RemoveAll(K)
  /\ UNCHANGED <<lockVars, running, procVars>>

(* VerifyConnections: of the clients that do not answer, those in K cannot *)
(* be reconnected; the others are, and only their timestamps change.       *)
VerifyFails(K) ==
  /\ running /\ K # {} /\ K \subseteq Occupied
  /\ WriteLockFree
  /\ RemoveAll(K)
  /\ UNCHANGED <<lockVars, running, procVars>>

VerifyReconnects(k) ==
  /\ running
  /\ WriteLockFree
  /\ k \in Occupied
  /\ open' = open \cup {connections[k]}
  /\ lastUsed' = [lastUsed EXCEPT ![k] = "recent"]
  /\ UNCHANGED <<connections, lockVars, running, procVars>>

Stale == {k \in Occupied : lastUsed[k] = "expired"}

Cleanup ==
  /\ running
  /\ WriteLockFree
  /\ Stale # {}
  /\ RemoveAll(Stale)
  /\ UNCHANGED <<lockVars, running, procVars>>

Close ==
  /\ WriteLockFree
  /\ running' = FALSE
  /\ RemoveAll(Occupied)
  /\ UNCHANGED <<lockVars, procVars>>

Ages(k) ==
  /\ lastUsed[k] = "recent"
  /\ lastUsed' = [lastUsed EXCEPT ![k] = "expired"]
  /\ UNCHANGED <<connections, lockVars, running, open, procVars>>

-----------------------------------------------------------------------------
GetStep(p) ==
  \/ PingFails(p)
  \/ PingSucceeds(p)
  \/ Reconnects(p)
  \/ DropsBroken(p)
  \/ DropsExpired(p)
  \/ Touches(p)
  \/ Creates(p)
  \/ CreateErr(p)
  \/ Stores(p)

UserStep(p) ==
  \/ \E k \in Keys : Lookup(p, k)
  \/ Uses(p)
  \/ Releases(p)
  \/ ClosesItself(p)

PoolStep ==
  \/ \E K \in SUBSET Keys : VerifyFails(K)
  \/ \E k \in Keys : VerifyReconnects(k)
  \/ Cleanup
  \/ Close
  \/ \E k \in Keys : Ages(k)

Next ==
  \/ \E p \in Procs : GetStep(p) \/ UserStep(p)
  \/ PoolStep

Spec == Init /\ [][Next]_vars

(* The same pool while every PLC answers: no ping and no reconnection fails. *)
HealthyNext ==
  \/ \E p \in Procs :
       \/ PingSucceeds(p) \/ DropsExpired(p) \/ Touches(p)
       \/ Creates(p) \/ Stores(p) \/ UserStep(p)
  \/ Cleanup
  \/ \E k \in Keys : Ages(k)

HealthySpec == Init /\ [][HealthyNext]_vars

(* A goroutine inside GetConnection is scheduled, and gets the lock when it *)
(* is free again and again (Go's mutexes do not starve a waiter).           *)
FairSpec == Spec /\ \A p \in Procs : SF_vars(GetStep(p))

-----------------------------------------------------------------------------
(* The types of the variables; who is inside a call holds a client. *)
TypeOK ==
  /\ connections \in [Keys -> Clients \cup {NoClient}]
  /\ lastUsed \in [Keys -> {"none", "recent", "expired"}]
  /\ writer \in Procs \cup {NoProc}
  /\ readers \in SUBSET Procs
  /\ running \in BOOLEAN
  /\ open \in SUBSET Clients
  /\ pc \in [Procs -> Labels]
  /\ key \in [Procs -> Keys]
  /\ held \in [Procs -> Clients \cup {NoClient}]
  /\ \A p \in Procs : pc[p] \in {"ping", "touch", "store", "using"} => held[p] # NoClient

(* A pooled connection has a timestamp, so the cleanup, which walks        *)
(* lastUsed, can find it.                                                  *)
PooledHasTimestamp ==
  \A k \in Keys : connections[k] # NoClient => lastUsed[k] # "none"

(* The client being pinged under the read lock is the pooled one. *)
PingSeesPooled ==
  \A p \in Procs : pc[p] = "ping" => connections[key[p]] = held[p]

(* No return, of a connection or of an error, leaves the pool locked. *)
LocksReleased ==
  /\ \A p \in Procs : writer = p => pc[p] \in {"create", "store"}
  /\ \A p \in readers : pc[p] = "ping"
  /\ writer # NoProc => readers = {}

(* connection_pool.go:87, "Se expirou, remove e cria uma nova": a caller   *)
(* that finds its connection expired gets a new one or an error.           *)
ExpiredIsReplaced ==
  \A p \in Procs : pc[p] = "expired" ~> pc[p] \in {"using", "idle"}

(* connection_pool.go:289, "cleanupRoutine verifica periodicamente conexões *)
(* não utilizadas": while every PLC answers and the pool is not closed, no  *)
(* step takes out of the pool the connection that a caller is using.        *)
UsedStaysPooled ==
  [][\A p \in Procs :
       pc[p] = "using" /\ connections[key[p]] = held[p] => connections'[key[p]] = held[p]]_vars

(* connection_pool.go:235, "Close fecha todas as conexões no pool": the    *)
(* closed pool holds no connection.                                        *)
ClosedPoolIsEmpty == ~running => Occupied = {}
=============================================================================
