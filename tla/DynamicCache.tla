------------------------------ MODULE DynamicCache ------------------------------
(***************************************************************************)
(* The failover of internal/cache/dynamic_cache.go: calls go to the active *)
(* cache, Redis or a map in memory, and healthCheckRoutine replaces it     *)
(* every 5 s as Redis fails or comes back.  It reads dc.active and pings   *)
(* or connects without the lock, and takes the lock only to swap.          *)
(*                                                                         *)
(* The keys of Config are written again and again by the synchroniser      *)
(* (module SimpleSync) with what the database holds; the others are values *)
(* of tags.                                                                *)
(*                                                                         *)
(* The definitions every component has (Init, Next, ...) are prefixed DC,  *)
(* so that RecoveryProofs can extend several components.                   *)
(***************************************************************************)
EXTENDS Naturals

CONSTANTS Keys, Config, Values, Nothing,
          MaxBackoff, Burst, Period  \* 60, 5 and 12 in the code

ASSUME CacheAssumption ==
  /\ Config \subseteq Keys /\ Nothing \notin Values
  /\ MaxBackoff \in Nat \ {0} /\ Burst \in Nat \ {0} /\ Period \in Nat \ {0}

VARIABLES
  source,    \* what the database holds for the keys of Config
  redisUp, redisData, memoryData,
  active,    \* the type of dc.active
  closed,    \* the client of the active Redis cache is closed
  health,    \* where healthCheckRoutine is
  recoveryAttempt,
  waited,    \* history: ticks since it last tried to connect, Period at most
  ctxDone, closing  \* dc.ctx; where Close is

dataVars   == <<redisData, memoryData>>
healthVars == <<health, recoveryAttempt, waited>>
dcVars == <<source, redisUp, dataVars, active, closed, healthVars, ctxDone, closing>>

Empty == [k \in Keys |-> Nothing]

(* NewDynamicCache: Redis if it answers. *)
DCInit ==
  /\ source \in [Config -> Values]
  /\ redisUp \in BOOLEAN /\ redisData \in [Keys -> Values \cup {Nothing}]
  /\ memoryData = Empty
  /\ active = IF redisUp THEN "redis" ELSE "memory"
  /\ closed = FALSE
  /\ health = "select" /\ recoveryAttempt = 0 /\ waited = 0
  /\ ctxDone = FALSE /\ closing = "open"

-----------------------------------------------------------------------------
SourceChanges(k, v) ==
  /\ source' = [source EXCEPT ![k] = v]
  /\ UNCHANGED <<redisUp, dataVars, active, closed, healthVars, ctxDone, closing>>

(* Redis stops, or starts with the data it had or without any. *)
RedisStops ==
  /\ redisUp /\ redisUp' = FALSE
  /\ UNCHANGED <<source, dataVars, active, closed, healthVars, ctxDone, closing>>

RedisStarts ==
  /\ ~redisUp /\ redisUp' = TRUE
  /\ redisData' \in {redisData, Empty}
  /\ UNCHANGED <<source, memoryData, active, closed, healthVars, ctxDone, closing>>

(* A call of the delegating methods; it holds the read lock throughout, and *)
(* fails, changing nothing, when the active cache does not answer.         *)
Answers == active = "memory" \/ (redisUp /\ ~closed)
Get(k)  == IF active = "memory" THEN memoryData[k] ELSE redisData[k]

Store(k, v) ==
  /\ Answers
  /\ IF active = "memory"
     THEN memoryData' = [memoryData EXCEPT ![k] = v] /\ UNCHANGED redisData
     ELSE redisData' = [redisData EXCEPT ![k] = v] /\ UNCHANGED memoryData
  /\ UNCHANGED <<source, redisUp, active, closed, healthVars, ctxDone, closing>>

SetIfAbsent(k) == k \in Config /\ Get(k) = Nothing /\ Store(k, source[k])
SetValue(k)  == k \in Config /\ Store(k, source[k])
SetTagValue(k, v) == k \notin Config /\ Store(k, v)
DeleteKey(k) == k \notin Config /\ Store(k, Nothing)

-----------------------------------------------------------------------------
(* The first attempts at every tick, then one of Period ticks; the count     *)
(* starts again at MaxBackoff.                                             *)
FirstOnesOnly == recoveryAttempt < Burst
ShouldAttempt == recoveryAttempt < Burst \/ recoveryAttempt % Period = 0
StaysAtLimit  == IF recoveryAttempt + 1 >= MaxBackoff THEN recoveryAttempt
                 ELSE recoveryAttempt + 1
Advances      == IF recoveryAttempt + 1 >= MaxBackoff THEN 0 ELSE recoveryAttempt + 1

PingSucceeds ==
  /\ health = "select" /\ active = "redis"
  /\ redisUp /\ ~closed
  /\ UNCHANGED dcVars

PingFails ==
  /\ health = "select" /\ active = "redis"
  /\ ~redisUp \/ closed
  /\ health' = "fallback"
  /\ UNCHANGED <<source, redisUp, dataVars, active, closed, recoveryAttempt, waited,
                 ctxDone, closing>>

(* A new, empty map; Close holds the lock while it closes the active cache. *)
FallBack ==
  /\ health = "fallback"
  /\ active' = "memory" /\ memoryData' = Empty
  /\ closed' = FALSE
  /\ health' = "select" /\ recoveryAttempt' = 0 /\ waited' = 0
  /\ UNCHANGED <<source, redisUp, redisData, ctxDone, closing>>

ConnectSucceeds ==
  /\ health = "select" /\ active = "memory" /\ ShouldAttempt
  /\ redisUp
  /\ health' = "reconnect" /\ waited' = 0
  /\ UNCHANGED <<source, redisUp, dataVars, active, closed, recoveryAttempt, ctxDone,
                 closing>>

(* What is in memory is not copied. *)
Reconnect ==
  /\ health = "reconnect"
  /\ active' = "redis" /\ memoryData' = Empty
  /\ closed' = FALSE
  /\ health' = "select" /\ recoveryAttempt' = 0
  /\ UNCHANGED <<source, redisUp, redisData, waited, ctxDone, closing>>

ConnectFails ==
  /\ health = "select" /\ active = "memory" /\ ShouldAttempt
  /\ ~redisUp
  /\ recoveryAttempt' = Advances /\ waited' = 0
  /\ UNCHANGED <<source, redisUp, dataVars, active, closed, health, ctxDone, closing>>

TickWaits ==
  /\ health = "select" /\ active = "memory" /\ ~ShouldAttempt
  /\ recoveryAttempt' = Advances
  /\ waited' = IF waited < Period THEN waited + 1 ELSE waited
  /\ UNCHANGED <<source, redisUp, dataVars, active, closed, health, ctxDone, closing>>

HealthExits ==
  /\ health = "select" /\ ctxDone
  /\ health' = "done"
  /\ UNCHANGED <<source, redisUp, dataVars, active, closed, recoveryAttempt, waited,
                 ctxDone, closing>>

(* Close cancels the context, and then closes the active cache. *)
Cancel ==
  /\ closing = "open"
  /\ closing' = "cancelled" /\ ctxDone' = TRUE
  /\ UNCHANGED <<source, redisUp, dataVars, active, closed, healthVars>>

CloseActive ==
  /\ closing = "cancelled"
  /\ closing' = "closed"
  /\ closed' = (active = "redis")
  /\ UNCHANGED <<source, redisUp, dataVars, active, healthVars, ctxDone>>

-----------------------------------------------------------------------------
Tick == PingSucceeds \/ PingFails \/ ConnectSucceeds \/ ConnectFails \/ TickWaits
HealthStep == Tick \/ FallBack \/ Reconnect \/ HealthExits
CacheCalls == \E k \in Keys : \/ SetValue(k) \/ DeleteKey(k)
                         \/ \E v \in Values : SetTagValue(k, v)

DCNext ==
  \/ \E k \in Config, v \in Values : SourceChanges(k, v)
  \/ RedisStops \/ RedisStarts \/ CacheCalls \/ HealthStep \/ Cancel \/ CloseActive

DCSpec == DCInit /\ [][DCNext]_dcVars

(* The routine goes on, and the synchroniser writes every key of Config     *)
(* again and again.                                                        *)
DCFairSpec ==
  /\ DCSpec
  /\ WF_dcVars(HealthStep)
  /\ \A k \in Config : WF_dcVars(SetValue(k))

-----------------------------------------------------------------------------
(* The types of the variables; a client of Redis is the only one to be      *)
(* closed, and the count of attempts stays below the limit.                *)
DCTypeOK ==
  /\ source \in [Config -> Values] /\ redisUp \in BOOLEAN
  /\ redisData \in [Keys -> Values \cup {Nothing}]
  /\ memoryData \in [Keys -> Values \cup {Nothing}]
  /\ active \in {"redis", "memory"} /\ closed \in BOOLEAN
  /\ health \in {"select", "fallback", "reconnect", "done"}
  /\ recoveryAttempt \in 0..(MaxBackoff - 1) /\ waited \in 0..Period
  /\ ctxDone \in BOOLEAN /\ closing \in {"open", "cancelled", "closed"}
  /\ closed => active = "redis"

(* dynamic_cache.go:90, "a cada ~60s depois das primeiras 5 tentativas":    *)
(* the routine never lets Period ticks pass without trying to connect,     *)
(* across the reset of the count too.                                      *)
TriesEveryPeriod == waited < Period

(* The routine swaps caches with the lock on what it found without it: the  *)
(* cache it leaves is still the active one.                                *)
SwapIsCurrent ==
  /\ health = "fallback" => active = "redis"
  /\ health = "reconnect" => active = "memory"

(* A map in memory begins empty: no failover ever serves what an earlier    *)
(* one had stored there.                                                   *)
NoStaleMemory == active = "redis" => memoryData = Empty

(* When Redis stays down the calls are answered again, and when it stays up *)
(* it becomes the active cache again, unless the cache is closed.          *)
FollowsRedis ==
  /\ <>[](~redisUp) => <>[](active = "memory" \/ ctxDone)
  /\ <>[]redisUp => <>[](active = "redis" \/ ctxDone)

(* Whatever was lost with the map in memory, and whatever old value Redis   *)
(* still had, a key that is written periodically ends up with the content   *)
(* of the database.                                                        *)
ConfigIsRepaired ==
  \A k \in Config : \A v \in Values :
    <>[](source[k] = v) /\ (<>[]redisUp \/ <>[](~redisUp)) =>
      <>[]((Answers /\ Get(k) = v) \/ ctxDone)

(* dynamic_cache.go:237, "Close cancela o health check e fecha o cache      *)
(* ativo": after Close no client of Redis is open.                         *)
ClosedStaysClosed == closing = "closed" /\ active = "redis" => closed
=============================================================================
