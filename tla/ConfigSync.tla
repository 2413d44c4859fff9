------------------------------- MODULE ConfigSync -------------------------------
(***************************************************************************)
(* The other synchroniser of internal/configsync (sync.go): every interval *)
(* it copies the active PLCs and their tags to the cache, but only what a  *)
(* hash kept in the cache says has changed.  Start copies everything.      *)
(*                                                                         *)
(* The keys config:plcs:all, config:plc:<id> and config:sync:plcs:hash are *)
(* one group; config:sync:plc:<id>:tags:hash, config:plc:<id>:tags and     *)
(* config:sync:plc:<id>:tags:time are one group for each PLC.  A hash is   *)
(* the content it was computed from.  The keys of the status and of single *)
(* tags, written right after the keys kept here, are left out.             *)
(***************************************************************************)
EXTENDS Naturals

CONSTANTS Ids,         \* PLCs
          Versions,    \* contents of an active row
          Inactive,
          TagLists,    \* the active tags of a PLC
          NoTags,      \* the empty list, "[]"
          Nothing,     \* a key that is absent
          MaxFaults    \* bound: restarts, losses of the cache and outages

ASSUME ConfigAssumption ==
  /\ Inactive \notin Versions /\ NoTags \in TagLists
  /\ Nothing \notin Versions \cup TagLists \cup {Inactive}
  /\ Nothing \notin UNION {[S -> Versions] : S \in SUBSET Ids}
  /\ "plcs" \notin Ids
  /\ MaxFaults \in Nat

Labels == {"off", "idle", "health", "plcs", "hash", "list", "keys", "storeHash",
           "ids", "loop", "tags", "tagsHash", "content", "time"}

VARIABLES
  db, tags,    \* table plcs, and the active tags of each PLC
  dbUp, cacheUp,
  list, plcKey, hash,             \* the keys of the PLCs
  tagsKey, tagsHash, tagsTime,    \* the keys of each PLC's tags
  pc,          \* where SyncAll is; "idle" is the select of runSyncLoop
  forced,      \* forceSync: it was called by Start
  cancelled,   \* ctx
  errors,      \* consecutiveErrors
  rows,        \* plcs
  todo,        \* PLCs the loop has still to visit
  cur,         \* <<the PLC it visits, activeTags>>
  torn,        \* groups of keys begun and not written whole since
  missed,      \* a write of the group being written was lost
  calm,        \* nothing changed or failed since Start was called
  faults

outside  == <<db, tags, dbUp, cacheUp>>
plcKeys  == <<list, plcKey, hash>>
tagKeys  == <<tagsKey, tagsHash, tagsTime>>
keys     == <<plcKeys, tagKeys>>
loopVars == <<forced, cancelled, errors>>
held     == <<rows, todo, cur>>
written  == <<torn, missed, calm>>
vars == <<outside, keys, pc, loopVars, held, written, faults>>

NoRows     == [i \in {} |-> Inactive]
ActiveIds  == {i \in Ids : db[i] # Inactive}
ActiveRows == [i \in ActiveIds |-> db[i]]
Snapshots  == UNION {[S -> Versions] : S \in SUBSET Ids}

Init ==
  /\ db \in [Ids -> Versions \cup {Inactive}] /\ tags \in [Ids -> TagLists]
  /\ dbUp = TRUE /\ cacheUp = TRUE
  /\ list = Nothing /\ plcKey = [i \in Ids |-> Nothing] /\ hash = Nothing
  /\ tagsKey = [i \in Ids |-> Nothing] /\ tagsHash = tagsKey /\ tagsTime = tagsKey
  /\ pc = "off" /\ forced = FALSE /\ cancelled = FALSE /\ errors = 0
  /\ rows = NoRows /\ todo = {} /\ cur = Nothing
  /\ torn = {} /\ missed = FALSE /\ calm = FALSE /\ faults = 0

-----------------------------------------------------------------------------
(* What happens to the database, the cache and the program.               *)
EditPLC(i, v) ==
  /\ db[i] # v
  /\ db' = [db EXCEPT ![i] = v]
  /\ calm' = FALSE
  /\ UNCHANGED <<tags, dbUp, cacheUp, keys, pc, loopVars, held, torn, missed, faults>>

EditTags(i, g) ==
  /\ tags[i] # g
  /\ tags' = [tags EXCEPT ![i] = g]
  /\ calm' = FALSE
  /\ UNCHANGED <<db, dbUp, cacheUp, keys, pc, loopVars, held, torn, missed, faults>>

Faulty == faults < MaxFaults /\ faults' = faults + 1

DatabaseFails ==
  /\ dbUp /\ Faulty
  /\ dbUp' = FALSE
  /\ calm' = FALSE
  /\ UNCHANGED <<db, tags, cacheUp, keys, pc, loopVars, held, torn, missed>>

CacheFails ==
  /\ cacheUp /\ Faulty
  /\ cacheUp' = FALSE
  /\ calm' = FALSE
  /\ UNCHANGED <<db, tags, dbUp, keys, pc, loopVars, held, torn, missed>>

Recovers ==
  /\ ~(dbUp /\ cacheUp)
  /\ dbUp' = TRUE /\ cacheUp' = TRUE
  /\ UNCHANGED <<db, tags, keys, pc, loopVars, held, written, faults>>

(* DynamicCache falls back to an empty cache in memory; its later return to *)
(* Redis, with the keys that has kept, is left out.                        *)
CacheLost ==
  /\ Faulty
  /\ list' = Nothing /\ hash' = Nothing
  /\ plcKey' = [i \in Ids |-> Nothing]
  /\ tagsKey' = plcKey' /\ tagsHash' = plcKey' /\ tagsTime' = plcKey'
  /\ missed' = TRUE /\ calm' = FALSE
  /\ UNCHANGED <<outside, pc, loopVars, held, torn>>

Forgets == rows' = NoRows /\ todo' = {} /\ cur' = Nothing

(* The program is killed; the cache keeps its keys. *)
Killed ==
  /\ Faulty /\ pc # "off"
  /\ pc' = "off" /\ forced' = FALSE /\ cancelled' = FALSE /\ errors' = 0
  /\ Forgets /\ calm' = FALSE
  /\ UNCHANGED <<outside, keys, torn, missed>>

(* Five seconds pass. *)
Ages(i) ==
  /\ tagsTime[i] = "recent"
  /\ tagsTime' = [tagsTime EXCEPT ![i] = "old"]
  /\ UNCHANGED <<outside, plcKeys, tagsKey, tagsHash, pc, loopVars, held, written, faults>>

-----------------------------------------------------------------------------
(* NewConfigSync and Start, which gives up when the cache does not answer. *)
Start ==
  /\ pc = "off" /\ cacheUp
  /\ pc' = "health" /\ forced' = TRUE /\ calm' = dbUp
  /\ UNCHANGED <<outside, keys, cancelled, errors, held, torn, missed, faults>>

Stop ==
  /\ pc # "off" /\ ~forced /\ ~cancelled
  /\ cancelled' = TRUE
  /\ UNCHANGED <<outside, keys, pc, forced, errors, held, written, faults>>

Finishes ==
  /\ pc = "idle" /\ cancelled
  /\ pc' = "off" /\ cancelled' = FALSE /\ errors' = 0
  /\ UNCHANGED <<outside, keys, forced, held, written, faults>>

(* From 20 on only consecutiveErrors % 8 matters, which 28 has like 20.   *)
OneMore == IF errors = 27 THEN 20 ELSE errors + 1

HealthTickKeepsErrors ==
  /\ pc = "idle"
  /\ errors' = IF cacheUp THEN errors ELSE OneMore
  /\ UNCHANGED <<outside, keys, pc, forced, cancelled, held, written, faults>>

HealthTick ==
  /\ pc = "idle"
  /\ errors' = IF cacheUp THEN 0 ELSE OneMore
  /\ UNCHANGED <<outside, keys, pc, forced, cancelled, held, written, faults>>

Skips == \/ errors \in 6..9 /\ errors % 2 # 0
         \/ errors \in 10..19 /\ errors % 4 # 0
         \/ errors >= 20 /\ errors % 8 # 0

SyncTick ==
  /\ pc = "idle" /\ ~Skips
  /\ pc' = "health"
  /\ UNCHANGED <<outside, keys, loopVars, held, written, faults>>

(* SyncAll returns an error, to Start or to the loop. *)
ReturnsError ==
  /\ pc' = IF forced THEN "off" ELSE "idle"
  /\ errors' = IF forced THEN errors ELSE OneMore
  /\ forced' = FALSE
  /\ Forgets
  /\ UNCHANGED cancelled

HealthCheck ==
  /\ pc = "health"
  /\ IF cacheUp THEN pc' = "plcs" /\ UNCHANGED <<loopVars, held>> ELSE ReturnsError
  /\ UNCHANGED <<outside, keys, written, faults>>

-----------------------------------------------------------------------------
(* SyncPLCs                                                                *)
ReadPLCsAcceptsEmpty ==
  /\ pc = "plcs"
  /\ IF ~dbUp THEN ReturnsError
     ELSE rows' = ActiveRows /\ pc' = "hash" /\ UNCHANGED <<loopVars, todo, cur>>
  /\ UNCHANGED <<outside, keys, written, faults>>

(* No active PLC at all is not stored. *)
ReadPLCs ==
  /\ pc = "plcs"
  /\ IF ~dbUp THEN ReturnsError
     ELSE /\ rows' = ActiveRows
          /\ pc' = IF ActiveIds = {} THEN "ids" ELSE "hash"
          /\ UNCHANGED <<loopVars, todo, cur>>
  /\ UNCHANGED <<outside, keys, written, faults>>

CompareHashAlways ==
  /\ pc = "hash"
  /\ pc' = IF cacheUp /\ hash = rows THEN "ids" ELSE "list"
  /\ UNCHANGED <<outside, keys, loopVars, held, written, faults>>

(* A hash that cannot be read is taken for a changed one. *)
CompareHash ==
  /\ pc = "hash"
  /\ pc' = IF ~forced /\ cacheUp /\ hash = rows THEN "ids" ELSE "list"
  /\ UNCHANGED <<outside, keys, loopVars, held, written, faults>>

StoreList ==
  /\ pc = "list"
  /\ IF ~cacheUp THEN ReturnsError /\ UNCHANGED <<list, torn, missed>>
     ELSE /\ list' = rows
          /\ todo' = DOMAIN rows
          /\ pc' = "keys"
          /\ torn' = torn \cup {"plcs"} /\ missed' = FALSE
          /\ UNCHANGED <<loopVars, rows, cur>>
  /\ UNCHANGED <<outside, plcKey, hash, tagKeys, calm, faults>>

(* An error of this write is ignored. *)
StorePLC(i) ==
  /\ pc = "keys" /\ i \in todo
  /\ IF cacheUp THEN plcKey' = [plcKey EXCEPT ![i] = rows[i]] /\ UNCHANGED missed
     ELSE missed' = TRUE /\ UNCHANGED plcKey
  /\ todo' = todo \ {i}
  /\ UNCHANGED <<outside, list, hash, tagKeys, pc, loopVars, rows, cur, torn, calm, faults>>

PLCsStored ==
  /\ pc = "keys" /\ todo = {}
  /\ pc' = "storeHash"
  /\ UNCHANGED <<outside, keys, loopVars, held, written, faults>>

StoreHashOfTable ==
  /\ pc = "storeHash"
  /\ IF cacheUp
     THEN hash' = ActiveRows /\ torn' = IF missed THEN torn ELSE torn \ {"plcs"}
     ELSE UNCHANGED <<hash, torn>>
  /\ pc' = "ids"
  /\ UNCHANGED <<outside, list, plcKey, tagKeys, loopVars, held, missed, calm, faults>>

(* So is an error of this one. *)
StoreHash ==
  /\ pc = "storeHash"
  /\ IF cacheUp
     THEN hash' = rows /\ torn' = IF missed THEN torn ELSE torn \ {"plcs"}
     ELSE UNCHANGED <<hash, torn>>
  /\ pc' = "ids"
  /\ UNCHANGED <<outside, list, plcKey, tagKeys, loopVars, held, missed, calm, faults>>

-----------------------------------------------------------------------------
(* SyncTags, which reads the PLCs again.                                   *)
ReadIds ==
  /\ pc = "ids"
  /\ IF ~dbUp THEN ReturnsError
     ELSE todo' = ActiveIds /\ pc' = "loop" /\ rows' = NoRows /\ UNCHANGED <<loopVars, cur>>
  /\ UNCHANGED <<outside, keys, written, faults>>

(* shouldSyncTagsForPLC: what cannot be read is synchronised. *)
ShouldSync(i) ==
  \/ forced \/ ~cacheUp \/ tagsTime[i] = Nothing
  \/ tagsTime[i] = "old" /\ (~dbUp \/ tagsHash[i] # tags[i])

Skip(i) ==
  /\ pc = "loop" /\ i \in todo /\ ~ShouldSync(i)
  /\ todo' = todo \ {i}
  /\ UNCHANGED <<outside, keys, pc, loopVars, rows, cur, written, faults>>

Visit(i) ==
  /\ pc = "loop" /\ i \in todo /\ ShouldSync(i)
  /\ todo' = todo \ {i} /\ cur' = <<i, Nothing>> /\ pc' = "tags"
  /\ UNCHANGED <<outside, keys, loopVars, rows, written, faults>>

NextPLC == pc' = "loop" /\ cur' = Nothing

ReadTags ==
  /\ pc = "tags"
  /\ IF dbUp THEN cur' = [cur EXCEPT ![2] = tags[cur[1]]] /\ pc' = "tagsHash"
     ELSE NextPLC
  /\ UNCHANGED <<outside, keys, loopVars, rows, todo, written, faults>>

(* The hash is stored before the tags it stands for. *)
StoreTagsHash ==
  /\ pc = "tagsHash"
  /\ IF cacheUp THEN tagsHash' = [tagsHash EXCEPT ![cur[1]] = cur[2]]
     ELSE UNCHANGED tagsHash
  /\ torn' = torn \cup {cur[1]} /\ missed' = ~cacheUp
  /\ pc' = "content"
  /\ UNCHANGED <<outside, plcKeys, tagsKey, tagsTime, loopVars, held, calm, faults>>

(* An empty list is stored without its time. *)
StoreTags ==
  /\ pc = "content"
  /\ IF cacheUp
     THEN /\ tagsKey' = [tagsKey EXCEPT ![cur[1]] = cur[2]]
          /\ torn' = IF missed THEN torn ELSE torn \ {cur[1]}
     ELSE UNCHANGED <<tagsKey, torn>>
  /\ IF cacheUp /\ cur[2] # NoTags THEN pc' = "time" /\ UNCHANGED cur ELSE NextPLC
  /\ UNCHANGED <<outside, plcKeys, tagsHash, tagsTime, loopVars, rows, todo, missed, calm, faults>>

StoreTime ==
  /\ pc = "time"
  /\ IF cacheUp THEN tagsTime' = [tagsTime EXCEPT ![cur[1]] = "recent"]
     ELSE UNCHANGED tagsTime
  /\ NextPLC
  /\ UNCHANGED <<outside, plcKeys, tagsKey, tagsHash, loopVars, rows, todo, written, faults>>

(* SyncAll returns nil: Start starts the loop, the loop goes on. *)
ReturnsNil ==
  /\ pc = "loop" /\ todo = {}
  /\ pc' = "idle"
  /\ errors' = 0 /\ forced' = FALSE /\ calm' = FALSE
  /\ UNCHANGED <<outside, keys, cancelled, held, torn, missed, faults>>

-----------------------------------------------------------------------------
SyncStep ==
  \/ HealthCheck \/ ReadPLCs \/ CompareHash \/ StoreList \/ PLCsStored \/ StoreHash
  \/ ReadIds \/ ReadTags \/ StoreTagsHash \/ StoreTags \/ StoreTime \/ ReturnsNil
  \/ \E i \in Ids : StorePLC(i) \/ Skip(i) \/ Visit(i)

Next ==
  \/ \E i \in Ids : \/ \E v \in Versions \cup {Inactive} : EditPLC(i, v)
                    \/ \E g \in TagLists : EditTags(i, g)
                    \/ Ages(i)
  \/ DatabaseFails \/ CacheFails \/ Recovers \/ CacheLost \/ Killed
  \/ Start \/ Stop \/ Finishes \/ HealthTick \/ SyncTick \/ SyncStep

Spec == Init /\ [][Next]_vars

(* The goroutine goes on, both tickers tick, and time passes.             *)
FairSpec ==
  /\ Spec
  /\ WF_vars(SyncStep) /\ WF_vars(HealthTick) /\ WF_vars(SyncTick)
  /\ \A i \in Ids : WF_vars(Ages(i))

-----------------------------------------------------------------------------
FlagsOK ==
  /\ dbUp \in BOOLEAN /\ cacheUp \in BOOLEAN
  /\ forced \in BOOLEAN /\ cancelled \in BOOLEAN
  /\ missed \in BOOLEAN /\ calm \in BOOLEAN

DataOK ==
  /\ db \in [Ids -> Versions \cup {Inactive}] /\ tags \in [Ids -> TagLists]
  /\ list \in Snapshots \cup {Nothing} /\ hash \in Snapshots \cup {Nothing}
  /\ plcKey \in [Ids -> Versions \cup {Nothing}]
  /\ tagsKey \in [Ids -> TagLists \cup {Nothing}]
  /\ tagsHash \in [Ids -> TagLists \cup {Nothing}]
  /\ tagsTime \in [Ids -> {Nothing, "recent", "old"}]
  /\ pc \in Labels /\ errors \in 0..27
  /\ rows \in Snapshots /\ todo \in SUBSET Ids
  /\ cur \in (Ids \X (TagLists \cup {Nothing})) \cup {Nothing}
  /\ torn \in SUBSET (Ids \cup {"plcs"})
  /\ faults \in 0..MaxFaults
  /\ pc \in {"hash", "list"} => rows # NoRows
  /\ pc = "keys" => todo \subseteq DOMAIN rows
  /\ pc = "tags" => cur \in Ids \X {Nothing}
  /\ pc \in {"tagsHash", "content", "time"} => cur \in Ids \X TagLists

(* The types of the variables, and what the goroutine holds at each label. *)
TypeOK == FlagsOK /\ DataOK

InFlight == IF pc \in {"hash", "list"} THEN {rows} ELSE {}

(* GetActivePLCs asks rows.Err: it yields all rows or fails.               *)
Whole(s) == {s}

Mirror == INSTANCE ConfigMirror WITH
  Contents <- Snapshots, Publishable <- Snapshots \ {NoRows}, Parts <- Whole,
  source <- ActiveRows, copy <- list,
  reads <- InFlight

(* The list of PLCs is always one snapshot of the database that SyncPLCs   *)
(* has just read, never an empty or a mixed one, whatever fails, is lost   *)
(* or is killed, and whatever its hash makes it leave out.                 *)
ListIsMirror == Mirror!Spec

Serves == pc # "off" /\ ~forced /\ ~cancelled /\ dbUp /\ cacheUp

(* The hash never hides a change for ever: the list and the keys of the    *)
(* PLCs end up equal to the rows the database keeps, after outages long    *)
(* enough for the back-off, restarts and losses of the cache, unless one   *)
(* of these tore the group and no later write made it whole.               *)
PLCsConverge ==
  \A c \in Snapshots \ {NoRows} :
    <>[](Serves /\ ActiveRows = c /\ "plcs" \notin torn) =>
      <>[](list = c /\ \A i \in DOMAIN c : plcKey[i] = c[i])

(* Nor does the hash of a PLC's tags, which also survives the time the PLC *)
(* is inactive and is not asked within five seconds.                       *)
TagsConverge ==
  \A i \in Ids, g \in TagLists :
    <>[](Serves /\ db[i] # Inactive /\ tags[i] = g /\ i \notin torn) =>
      <>[](tagsKey[i] = g)

(* A start repairs whatever was torn before it: when nothing changes or    *)
(* fails meanwhile, every key of an active PLC equals the database as its  *)
(* sync ends, because Start believes no hash and no time.                  *)
StartRepairs ==
  forced /\ calm /\ pc = "loop" /\ todo = {} =>
    \A i \in ActiveIds :
      list = ActiveRows /\ plcKey[i] = db[i] /\ tagsKey[i] = tags[i]

(* A hash tells what is in the keys of its group, unless a fault tore the  *)
(* group, although the one of the list is written after its keys and the   *)
(* one of the tags before them.                                            *)
HashIsHonest ==
  /\ "plcs" \notin torn =>
       /\ hash = list
       /\ hash # Nothing => \A i \in DOMAIN hash : plcKey[i] = hash[i]
  /\ \A i \in Ids \ torn : tagsHash[i] = tagsKey[i]

(* What a hash makes SyncAll leave out is already in the cache: the rows    *)
(* just read when the PLCs are skipped, and the tags of the database when  *)
(* those of a PLC are, five seconds after they were stored.                *)
SkipsSoundly ==
  [][/\ CompareHash /\ pc' = "ids" /\ "plcs" \notin torn =>
          list = rows /\ \A i \in DOMAIN rows : plcKey[i] = rows[i]
     /\ \A i \in Ids \ torn :
          Skip(i) /\ tagsTime[i] = "old" => tagsKey[i] = tags[i]]_vars

(* Convergence without that exception: a write that fails or is lost       *)
(* between a group's content and its hash leaves an old content behind a   *)
(* hash that says it is current.                                           *)
PLCsConvergeThoughTorn ==
  \A c \in Snapshots \ {NoRows} :
    <>[](Serves /\ ActiveRows = c) => <>[](list = c)

TagsConvergeThoughTorn ==
  \A i \in Ids, g \in TagLists :
    <>[](Serves /\ db[i] # Inactive /\ tags[i] = g) => <>[](tagsKey[i] = g)
=============================================================================
