---------------------------- MODULE ConfigSyncProofs ----------------------------
(***************************************************************************)
(* For any PLCs, contents and number of faults: ConfigSync keeps its       *)
(* types, its list implements the safety of ConfigMirror, and a start that *)
(* nothing disturbs repairs every key.                                     *)
(***************************************************************************)
EXTENDS ConfigSync, TLAPS

(* What the query yields is a snapshot, and it has a row when a PLC is     *)
(* active.                                                                 *)
LEMMA RowsAreSnapshot ==
  ASSUME db \in [Ids -> Versions \cup {Inactive}]
  PROVE  /\ ActiveIds \in SUBSET Ids
         /\ ActiveRows \in Snapshots
         /\ ActiveIds # {} => ActiveRows # NoRows
<1>1. ActiveIds \in SUBSET Ids /\ \A i \in ActiveIds : db[i] \in Versions
  BY DEF ActiveIds
<1>2. ActiveRows \in [ActiveIds -> Versions]
  BY <1>1 DEF ActiveRows
<1>3. ActiveIds # {} => ActiveRows # NoRows
  BY <1>2 DEF NoRows
<1>4. QED BY <1>1, <1>2, <1>3 DEF Snapshots

(* The empty snapshot is one. *)
LEMMA EmptySnapshot == NoRows \in Snapshots
BY DEF NoRows, Snapshots

(* A snapshot yields rows for some of the PLCs. *)
LEMMA SnapshotRows ==
  ASSUME NEW s \in Snapshots
  PROVE  /\ DOMAIN s \in SUBSET Ids
         /\ \A i \in DOMAIN s : s[i] \in Versions
BY DEF Snapshots

(* The count of errors, folded as it is, stays in its range. *)
LEMMA OneMoreBounded ==
  ASSUME errors \in 0..27 PROVE OneMore \in 0..27
BY DEF OneMore

(* A call of SyncAll that fails leaves nothing behind. *)
LEMMA ErrorTypes ==
  ASSUME DataOK, ReturnsError,
         UNCHANGED <<db, tags, keys, torn, faults>>
  PROVE  DataOK'
BY OneMoreBounded, EmptySnapshot
DEF ReturnsError, Forgets, DataOK, Labels, keys, plcKeys, tagKeys

(* The variables keep their types, and the goroutine holds what each label  *)
(* of SyncAll needs, whatever fails, is lost or is killed.                  *)
THEOREM ConfigTypes == Spec => []TypeOK
<1>1. Init => TypeOK
  <2>1. Init => FlagsOK
    BY Zenon DEF Init, FlagsOK
  <2>2. Init => DataOK
    BY EmptySnapshot, ConfigAssumption DEF Init, DataOK, Labels
  <2>3. QED BY <2>1, <2>2 DEF TypeOK
<1>2. TypeOK /\ [Next]_vars => FlagsOK'
  <2> SUFFICES ASSUME FlagsOK, [Next]_vars PROVE FlagsOK'
    BY DEF TypeOK
  <2> USE DEF FlagsOK, outside, loopVars, written
  <2>1. CASE \/ \E i \in Ids, v \in Versions \cup {Inactive} : EditPLC(i, v)
             \/ \E i \in Ids, g \in TagLists : EditTags(i, g)
             \/ DatabaseFails \/ CacheFails \/ Recovers \/ CacheLost
    BY <2>1, Zenon
    DEF EditPLC, EditTags, DatabaseFails, CacheFails, Recovers, CacheLost
  <2>2. CASE Killed \/ Start \/ Stop \/ Finishes \/ HealthTick \/ SyncTick
    BY <2>2, Zenon DEF Killed, Start, Stop, Finishes, HealthTick, SyncTick
  <2>3. CASE HealthCheck \/ ReadPLCs \/ CompareHash \/ StoreList \/ ReadIds
    BY <2>3, Zenon
    DEF HealthCheck, ReadPLCs, CompareHash, StoreList, ReadIds, ReturnsError
  <2>4. CASE PLCsStored \/ StoreHash \/ ReadTags \/ StoreTagsHash \/ StoreTags
    BY <2>4, Zenon DEF PLCsStored, StoreHash, ReadTags, StoreTagsHash, StoreTags
  <2>5. CASE \/ StoreTime \/ ReturnsNil
             \/ \E i \in Ids : Ages(i) \/ StorePLC(i) \/ Skip(i) \/ Visit(i)
    BY <2>5, Zenon DEF StoreTime, ReturnsNil, Ages, StorePLC, Skip, Visit
  <2>6. CASE UNCHANGED vars
    BY <2>6, Zenon DEF vars
  <2>7. QED BY <2>1, <2>2, <2>3, <2>4, <2>5, <2>6 DEF Next, SyncStep
<1>3. TypeOK /\ [Next]_vars => DataOK'
  <2> SUFFICES ASSUME DataOK, [Next]_vars PROVE DataOK'
    BY DEF TypeOK
  <2> USE ConfigAssumption DEF DataOK, outside, keys, plcKeys, tagKeys, loopVars,
                               held, written, Labels
  <2>1. ASSUME NEW i \in Ids, NEW v \in Versions \cup {Inactive}, EditPLC(i, v)
        PROVE  DataOK'
    BY <2>1 DEF EditPLC
  <2>2. ASSUME NEW i \in Ids, NEW g \in TagLists, EditTags(i, g) PROVE DataOK'
    BY <2>2 DEF EditTags
  <2>3. ASSUME NEW i \in Ids, Ages(i) PROVE DataOK'
    BY <2>3 DEF Ages
  <2>4. CASE DatabaseFails \/ CacheFails \/ Recovers
    BY <2>4 DEF DatabaseFails, CacheFails, Recovers, Faulty
  <2>5. CASE CacheLost
    BY <2>5 DEF CacheLost, Faulty
  <2>6. CASE Killed
    BY <2>6, EmptySnapshot DEF Killed, Faulty, Forgets
  <2>7. CASE Start \/ Stop \/ Finishes
    BY <2>7 DEF Start, Stop, Finishes
  <2>8. CASE HealthTick \/ SyncTick
    BY <2>8, OneMoreBounded DEF HealthTick, SyncTick
  <2>9. CASE HealthCheck
    <3>1. CASE cacheUp
      BY <2>9, <3>1 DEF HealthCheck
    <3>2. CASE ~cacheUp
      BY <2>9, <3>2, ErrorTypes DEF HealthCheck
    <3>3. QED BY <3>1, <3>2
  <2>10. CASE ReadPLCs
    <3>1. CASE dbUp
      BY <2>10, <3>1, RowsAreSnapshot DEF ReadPLCs
    <3>2. CASE ~dbUp
      BY <2>10, <3>2, ErrorTypes DEF ReadPLCs
    <3>3. QED BY <3>1, <3>2
  <2>11. CASE CompareHash
    BY <2>11 DEF CompareHash
  <2>12. CASE StoreList
    <3>1. CASE cacheUp
      BY <2>12, <3>1, SnapshotRows DEF StoreList
    <3>2. CASE ~cacheUp
      BY <2>12, <3>2, ErrorTypes DEF StoreList
    <3>3. QED BY <3>1, <3>2
  <2>13. ASSUME NEW i \in Ids, StorePLC(i) PROVE DataOK'
    <3>1. rows[i] \in Versions
      BY <2>13, SnapshotRows DEF StorePLC
    <3>2. plcKey' \in [Ids -> Versions \cup {Nothing}]
      BY <2>13, <3>1 DEF StorePLC
    <3>3. QED BY <2>13, <3>2 DEF StorePLC
  <2>14. CASE PLCsStored
    BY <2>14 DEF PLCsStored
  <2>15. CASE StoreHash
    BY <2>15 DEF StoreHash
  <2>16. CASE ReadIds
    <3>1. CASE dbUp
      BY <2>16, <3>1, RowsAreSnapshot, EmptySnapshot DEF ReadIds
    <3>2. CASE ~dbUp
      BY <2>16, <3>2, ErrorTypes DEF ReadIds
    <3>3. QED BY <3>1, <3>2
  <2>17. ASSUME NEW i \in Ids, Skip(i) \/ Visit(i) PROVE DataOK'
    <3>1. CASE Skip(i)
      BY <2>17, <3>1 DEF Skip
    <3>2. CASE Visit(i)
      <4>1. cur' \in Ids \X {Nothing}
        BY <3>2 DEF Visit
      <4>2. QED BY <3>2, <4>1 DEF Visit
    <3>3. QED BY <2>17, <3>1, <3>2
  <2>18. CASE ReadTags
    BY <2>18 DEF ReadTags, NextPLC
  <2>19. CASE StoreTagsHash
    <3>1. cur[1] \in Ids /\ cur[2] \in TagLists
      BY <2>19 DEF StoreTagsHash
    <3>2. tagsHash' \in [Ids -> TagLists \cup {Nothing}]
      BY <2>19, <3>1 DEF StoreTagsHash
    <3>3. torn' \in SUBSET (Ids \cup {"plcs"})
      BY <2>19, <3>1 DEF StoreTagsHash
    <3>4. /\ pc = "tagsHash" /\ pc' = "content"
          /\ UNCHANGED <<db, tags, plcKeys, tagsKey, tagsTime, errors, held, faults>>
      BY <2>19 DEF StoreTagsHash
    <3>5. QED BY <3>2, <3>3, <3>4
  <2>20. CASE StoreTags
    BY <2>20 DEF StoreTags, NextPLC
  <2>21. CASE StoreTime
    BY <2>21 DEF StoreTime, NextPLC
  <2>22. CASE ReturnsNil
    BY <2>22 DEF ReturnsNil
  <2>23. CASE UNCHANGED vars
    BY <2>23 DEF vars
  <2>24. QED
    BY <2>1, <2>2, <2>3, <2>4, <2>5, <2>6, <2>7, <2>8, <2>9, <2>10, <2>11, <2>12,
       <2>13, <2>14, <2>15, <2>16, <2>17, <2>18, <2>19, <2>20, <2>21, <2>22, <2>23
    DEF Next, SyncStep
<1>4. QED
  BY <1>1, <1>2, <1>3, PTL DEF Spec, TypeOK

(* The list is at any time one snapshot that SyncPLCs read and had not yet  *)
(* published: whatever is killed, lost or fails, the synchroniser           *)
(* implements the mirror.                                                   *)
THEOREM ConfigIsMirror == Spec => ListIsMirror
<1>1. Init => Mirror!Init
  BY RowsAreSnapshot DEF Init, Mirror!Init, InFlight
<1>2. TypeOK /\ [Next]_vars => [Mirror!Next]_Mirror!mirrorVars
  <2> SUFFICES ASSUME TypeOK, [Next]_vars
               PROVE  Mirror!Next \/ UNCHANGED Mirror!mirrorVars
    OBVIOUS
  <2> USE DEF Mirror!Next, Mirror!mirrorVars, outside, keys, plcKeys
  <2>1. CASE list' = list /\ db' = db /\ InFlight' \in SUBSET InFlight
    BY <2>1 DEF ActiveRows, ActiveIds, Mirror!Drop
  <2>2. ASSUME NEW i \in Ids, NEW v \in Versions \cup {Inactive}, EditPLC(i, v)
        PROVE  Mirror!Change
    <3>1. db' \in [Ids -> Versions \cup {Inactive}]
      BY <2>2 DEF EditPLC, TypeOK, DataOK
    <3>2. /\ ActiveIds' \in SUBSET Ids
          /\ \A j \in ActiveIds' : db'[j] \in Versions
      BY <3>1 DEF ActiveIds
    <3>3. ActiveRows' \in [ActiveIds' -> Versions]
      BY <3>2 DEF ActiveRows
    <3>4. UNCHANGED <<list, InFlight>>
      BY <2>2 DEF EditPLC, held, InFlight
    <3>5. QED BY <3>2, <3>3, <3>4 DEF Mirror!Change, Snapshots
  <2>3. CASE CacheLost
    BY <2>3 DEF CacheLost, held, InFlight, ActiveRows, ActiveIds, Mirror!Lose
  <2>4. ASSUME \/ \E i \in Ids, g \in TagLists : EditTags(i, g)
               \/ \E i \in Ids : Ages(i) \/ StorePLC(i) \/ Skip(i) \/ Visit(i)
               \/ DatabaseFails \/ CacheFails \/ Recovers \/ Killed
               \/ Start \/ Stop \/ Finishes \/ HealthTick \/ SyncTick
        PROVE  list' = list /\ db' = db /\ InFlight' \in SUBSET InFlight
    BY <2>4 DEF EditTags, Ages, StorePLC, Skip, Visit, DatabaseFails, CacheFails,
                Recovers, Killed, Start, Stop, Finishes, HealthTick, SyncTick,
                held, InFlight
  <2>5. ASSUME ReturnsError
        PROVE  InFlight' = {}
    BY <2>5 DEF ReturnsError, InFlight
  <2>6. CASE HealthCheck
    BY <2>1, <2>5, <2>6 DEF HealthCheck, InFlight
  <2>7. CASE ReadPLCs
    <3>1. CASE ~dbUp
      BY <2>1, <2>5, <2>7, <3>1 DEF ReadPLCs
    <3>2. CASE dbUp /\ ActiveIds = {}
      BY <2>1, <2>7, <3>2 DEF ReadPLCs, InFlight
    <3>3. CASE dbUp /\ ActiveIds # {}
      <4>1. ActiveRows \in Snapshots \ {NoRows}
        BY <3>3, RowsAreSnapshot DEF TypeOK, DataOK
      <4>2. InFlight = {} /\ InFlight' = {ActiveRows}
        BY <2>7, <3>3 DEF ReadPLCs, InFlight
      <4>3. UNCHANGED <<ActiveRows, list>>
        BY <2>7 DEF ReadPLCs, ActiveRows, ActiveIds
      <4>4. QED BY <4>1, <4>2, <4>3 DEF Mirror!Read, Whole
    <3>4. QED BY <3>1, <3>2, <3>3
  <2>8. CASE StoreList
    <3>1. CASE ~cacheUp
      BY <2>1, <2>5, <2>8, <3>1 DEF StoreList
    <3>2. CASE cacheUp
      <4>1. list' \in InFlight /\ InFlight' = {}
        BY <2>8, <3>2 DEF StoreList, InFlight
      <4>2. UNCHANGED ActiveRows
        BY <2>8 DEF StoreList, ActiveRows, ActiveIds
      <4>3. QED BY <4>1, <4>2 DEF Mirror!Publish
    <3>3. QED BY <3>1, <3>2
  <2>9. CASE ReadIds
    BY <2>1, <2>5, <2>9 DEF ReadIds, InFlight
  <2>10. CASE CompareHash
    BY <2>1, <2>10 DEF CompareHash, held, InFlight
  <2>11. CASE \/ PLCsStored \/ StoreHash \/ ReadTags \/ StoreTagsHash
              \/ StoreTags \/ StoreTime \/ ReturnsNil
    <3>1. pc' \notin {"hash", "list"}
      BY <2>11 DEF PLCsStored, StoreHash, ReadTags, StoreTagsHash, StoreTags,
                   StoreTime, ReturnsNil, NextPLC
    <3>2. list' = list /\ db' = db
      BY <2>11 DEF PLCsStored, StoreHash, ReadTags, StoreTagsHash, StoreTags,
                   StoreTime, ReturnsNil
    <3>3. QED BY <2>1, <3>1, <3>2 DEF InFlight
  <2>12. CASE UNCHANGED vars
    BY <2>12 DEF vars, held, ActiveRows, ActiveIds, InFlight
  <2>13. QED
    BY <2>1, <2>2, <2>3, <2>4, <2>6, <2>7, <2>8, <2>9, <2>10, <2>11, <2>12
    DEF Next, SyncStep
<1>3. QED
  BY <1>1, <1>2, ConfigTypes, PTL DEF Spec, ListIsMirror, Mirror!Spec

(* What a start has repaired when the goroutine is at each label, as long  *)
(* as nothing changes or fails: first the keys of the PLCs, then the tags  *)
(* of every PLC but those still to visit and the one it visits.            *)
TagLabels == {"loop", "tags", "tagsHash", "content", "time"}

Visiting == IF pc \in {"tags", "tagsHash", "content"} THEN {cur[1]} ELSE {}

Repaired ==
  forced /\ calm =>
    /\ dbUp /\ cacheUp
    /\ pc \in {"hash", "list", "keys", "storeHash"} => rows = ActiveRows
    /\ pc \in {"keys", "storeHash"} => list = ActiveRows
    /\ pc = "keys" => \A i \in ActiveIds \ todo : plcKey[i] = db[i]
    /\ pc = "storeHash" => \A i \in ActiveIds : plcKey[i] = db[i]
    /\ pc \in TagLabels \cup {"ids"} =>
         \A i \in ActiveIds : list = ActiveRows /\ plcKey[i] = db[i]
    /\ pc \in TagLabels =>
         \A i \in ActiveIds \ (todo \cup Visiting) : tagsKey[i] = tags[i]
    /\ pc \in {"tagsHash", "content"} => cur[2] = tags[cur[1]]

(* The rows hold exactly the active PLCs.                                  *)
LEMMA RowOfActive ==
  /\ DOMAIN ActiveRows = ActiveIds
  /\ \A i \in ActiveIds : ActiveRows[i] = db[i]
BY DEF ActiveRows

(* A step that leaves the database and the keys alone, and goes no further  *)
(* than the goroutine has repaired, keeps what is repaired.                *)
LEMMA RepairKept ==
  ASSUME TypeOK, Repaired, [Next]_vars
  PROVE  Repaired'
<1> SUFFICES ASSUME forced', calm' PROVE Repaired'
  BY Zenon DEF Repaired
<1> USE DEF outside, keys, plcKeys, tagKeys, loopVars, held, written
<1>1. CASE Start
  <2>1. pc' = "health" /\ cacheUp' /\ dbUp'
    BY <1>1 DEF Start
  <2>2. QED BY <2>1 DEF Repaired, TagLabels
<1>2. CASE \/ \E i \in Ids, v \in Versions \cup {Inactive} : EditPLC(i, v)
           \/ \E i \in Ids, g \in TagLists : EditTags(i, g)
           \/ DatabaseFails \/ CacheFails \/ CacheLost \/ Killed \/ ReturnsNil
  BY <1>2 DEF EditPLC, EditTags, DatabaseFails, CacheFails, CacheLost, Killed, ReturnsNil
<1>3. CASE ReturnsError
  BY <1>3 DEF ReturnsError
<1>4. ASSUME ~Start, ~ReturnsError,
             \/ Recovers \/ Stop \/ Finishes \/ HealthTick \/ SyncTick \/ SyncStep
             \/ UNCHANGED vars \/ \E i \in Ids : Ages(i),
             ~ReturnsNil
      PROVE  forced /\ calm
  BY <1>4, Zenon
  DEF Recovers, Stop, Finishes, HealthTick, SyncTick, SyncStep, vars, Ages,
      HealthCheck, ReadPLCs, CompareHash, StoreList, StorePLC, PLCsStored, StoreHash,
      ReadIds, Skip, Visit, ReadTags, StoreTagsHash, StoreTags, StoreTime
<1>5. QED
  <2> SUFFICES ASSUME forced, calm, ~Start, ~ReturnsError, ~ReturnsNil,
                 \/ Recovers \/ Stop \/ Finishes \/ HealthTick \/ SyncTick \/ SyncStep
                 \/ UNCHANGED vars \/ \E i \in Ids : Ages(i)
               PROVE Repaired'
    BY <1>1, <1>2, <1>3, <1>4 DEF Next
  <2>1. dbUp /\ cacheUp
    BY DEF Repaired
  <2>2. UNCHANGED <<db, tags, dbUp, cacheUp>>
    BY <2>1 DEF Recovers, Stop, Finishes, HealthTick, SyncTick, SyncStep, vars, Ages,
      HealthCheck, ReadPLCs, CompareHash, StoreList, StorePLC, PLCsStored, StoreHash,
      ReadIds, Skip, Visit, ReadTags, StoreTagsHash, StoreTags, StoreTime
  <2>3. UNCHANGED <<ActiveIds, ActiveRows>>
    BY <2>2 DEF ActiveIds, ActiveRows
  <2> USE <2>1, <2>2, <2>3 DEF Repaired, TagLabels, Visiting
  <2>4. CASE Recovers \/ Stop \/ Finishes
    BY <2>4 DEF Recovers, Stop, Finishes
  <2>5. CASE HealthTick \/ SyncTick
    BY <2>5 DEF HealthTick, SyncTick
  <2>6. CASE UNCHANGED vars
    BY <2>6 DEF vars
  <2>7. CASE \E i \in Ids : Ages(i)
    BY <2>7 DEF Ages
  <2>8. CASE HealthCheck
    BY <2>8 DEF HealthCheck
  <2>9. CASE ReadPLCs
    BY <2>9 DEF ReadPLCs
  <2>10. CASE CompareHash
    BY <2>10 DEF CompareHash
  <2>11. CASE StoreList
    BY <2>11, RowOfActive DEF StoreList
  <2>12. ASSUME NEW i \in Ids, StorePLC(i) PROVE Repaired'
    <3>1. rows = ActiveRows /\ list = ActiveRows
      BY <2>12 DEF StorePLC
    <3>2. i \in ActiveIds /\ rows[i] = db[i]
      BY <2>12, <3>1, RowOfActive DEF StorePLC, TypeOK, DataOK
    <3>3. plcKey' = [plcKey EXCEPT ![i] = db[i]] /\ plcKey \in [Ids -> Versions \cup {Nothing}]
      BY <2>12, <3>2 DEF StorePLC, TypeOK, DataOK
    <3>4. \A j \in ActiveIds \ todo' : plcKey'[j] = db[j]
      BY <2>12, <3>3 DEF StorePLC, ActiveIds
    <3>5. QED BY <2>12, <3>1, <3>4 DEF StorePLC
  <2>13. CASE PLCsStored
    BY <2>13 DEF PLCsStored
  <2>14. CASE StoreHash
    BY <2>14 DEF StoreHash
  <2>15. CASE ReadIds
    BY <2>15 DEF ReadIds
  <2>16. ASSUME NEW i \in Ids, Skip(i) \/ Visit(i) PROVE Repaired'
    <3>1. Visit(i)
      BY <2>16 DEF Skip, ShouldSync
    <3>2. cur'[1] = i /\ todo' = todo \ {i}
      BY <3>1 DEF Visit
    <3>3. QED BY <3>1, <3>2 DEF Visit
  <2>17. CASE ReadTags
    <3>1. cur' = [cur EXCEPT ![2] = tags[cur[1]]] /\ pc = "tags" /\ pc' = "tagsHash"
      BY <2>17 DEF ReadTags
    <3>2. cur'[1] = cur[1] /\ cur'[2] = tags[cur[1]]
      BY <3>1 DEF TypeOK, DataOK
    <3>3. QED BY <2>17, <3>1, <3>2 DEF ReadTags
  <2>18. CASE StoreTagsHash
    BY <2>18 DEF StoreTagsHash
  <2>19. CASE StoreTags
    <3>1. /\ tagsKey' = [tagsKey EXCEPT ![cur[1]] = tags[cur[1]]]
          /\ tagsKey \in [Ids -> TagLists \cup {Nothing}]
      BY <2>19 DEF StoreTags, TypeOK, DataOK
    <3>2. \A j \in ActiveIds \ todo : tagsKey'[j] = tags[j]
      BY <2>19, <3>1 DEF StoreTags, ActiveIds
    <3>3. pc = "content" /\ pc' \in {"loop", "time"}
      BY <2>19 DEF StoreTags, NextPLC
    <3>4. UNCHANGED <<list, plcKey, todo>>
      BY <2>19 DEF StoreTags
    <3>5. QED BY <3>2, <3>3, <3>4
  <2>20. CASE StoreTime
    BY <2>20 DEF StoreTime, NextPLC
  <2>21. QED
    BY <2>4, <2>5, <2>6, <2>7, <2>8, <2>9, <2>10, <2>11, <2>12, <2>13, <2>14, <2>15,
       <2>16, <2>17, <2>18, <2>19, <2>20
    DEF SyncStep

(* A start that nothing disturbs leaves every key of an active PLC equal to *)
(* the database, whatever the keys, hashes and times were before it.        *)
THEOREM ConfigStartRepairs == Spec => []StartRepairs
<1>1. Init => Repaired
  BY Zenon DEF Init, Repaired
<1>2. TypeOK /\ Repaired /\ [Next]_vars => Repaired'
  BY RepairKept
<1>3. Repaired => StartRepairs
  BY DEF Repaired, StartRepairs, TagLabels, Visiting
<1>4. QED
  BY <1>1, <1>2, <1>3, ConfigTypes, PTL DEF Spec
(* What the goroutine has begun: the group it writes counts as torn, and    *)
(* what it has written so far is what it holds, unless a write was lost.   *)
InProgress ==
  /\ pc \in {"keys", "storeHash"} =>
       /\ "plcs" \in torn
       /\ ~missed => list = rows /\ \A i \in DOMAIN rows \ todo : plcKey[i] = rows[i]
  /\ pc = "storeHash" => todo = {}
  /\ pc = "content" => cur[1] \in torn /\ (~missed => tagsHash[cur[1]] = cur[2])

(* The two as an inductive invariant.                                      *)
HInv == TypeOK /\ InProgress /\ HashIsHonest

(* A snapshot is never mistaken for a key that is absent.                   *)
LEMMA SnapshotIsSomething == \A s \in Snapshots : s # Nothing
BY ConfigAssumption DEF Snapshots

(* Steps that leave the keys, their groups and what is begun alone.         *)
LEMMA GroupsKept ==
  ASSUME HInv, UNCHANGED <<list, plcKey, hash, tagsKey, tagsHash, torn>>,
         \/ pc' \notin {"keys", "storeHash", "content"}
         \/ UNCHANGED <<pc, rows, todo, cur, missed>>
  PROVE  InProgress' /\ HashIsHonest'
BY DEF HInv, InProgress, HashIsHonest

(* The PLCs: the group is torn from the list to the hash.                  *)
LEMMA PLCsKeepHonest ==
  ASSUME HInv, StoreList \/ PLCsStored \/ StoreHash \/ \E i \in Ids : StorePLC(i)
  PROVE  InProgress' /\ HashIsHonest'
<1> USE DEF HInv, InProgress, HashIsHonest, plcKeys, tagKeys, keys, held, loopVars
<1>1. CASE StoreList
  <2>1. CASE cacheUp
    BY <1>1, <2>1 DEF StoreList
  <2>2. CASE ~cacheUp
    BY <1>1, <2>2, GroupsKept DEF StoreList, ReturnsError
  <2>3. QED BY <2>1, <2>2
<1>2. ASSUME NEW i \in Ids, StorePLC(i) PROVE InProgress' /\ HashIsHonest'
  <2>1. /\ pc = "keys" /\ pc' = "keys" /\ "plcs" \in torn /\ todo' = todo \ {i}
        /\ UNCHANGED <<list, hash, tagsKey, tagsHash, torn, rows>>
    BY <1>2 DEF StorePLC
  <2>2. ~missed' => \A j \in DOMAIN rows \ todo' : plcKey'[j] = rows[j]
    <3> SUFFICES ASSUME ~missed', NEW j \in DOMAIN rows \ todo'
                 PROVE  plcKey'[j] = rows[j]
      OBVIOUS
    <3>1. ~missed /\ plcKey' = [plcKey EXCEPT ![i] = rows[i]]
      BY <1>2 DEF StorePLC
    <3>2. j \in Ids /\ plcKey \in [Ids -> Versions \cup {Nothing}]
      BY SnapshotRows DEF TypeOK, DataOK
    <3>3. QED BY <2>1, <3>1, <3>2
  <2>3. ~missed' => ~missed
    BY <1>2 DEF StorePLC
  <2>4. QED BY <2>1, <2>2, <2>3
<1>3. CASE PLCsStored
  BY <1>3 DEF PLCsStored, written
<1>4. CASE StoreHash
  <2>1. /\ pc = "storeHash" /\ pc' = "ids" /\ todo = {} /\ "plcs" \in torn
        /\ UNCHANGED <<list, plcKey, tagsKey, tagsHash>>
    BY <1>4 DEF StoreHash
  <2>2. "plcs" \notin torn' => ~missed /\ hash' = rows
    BY <1>4, <2>1 DEF StoreHash
  <2>3. Ids \ torn' = Ids \ torn
    BY <1>4, ConfigAssumption DEF StoreHash
  <2>4. QED BY <2>1, <2>2, <2>3
<1>5. QED BY <1>1, <1>2, <1>3, <1>4

(* The tags of one PLC: its group is torn from the hash to the tags, and    *)
(* those of the others are left alone.                                     *)
LEMMA TagsKeepHonest ==
  ASSUME HInv, StoreTagsHash \/ StoreTags
  PROVE  InProgress' /\ HashIsHonest'
<1> USE DEF HInv, InProgress, HashIsHonest, plcKeys, held
<1>1. CASE StoreTagsHash
  <2>1. /\ cur[1] \in Ids /\ tagsHash \in [Ids -> TagLists \cup {Nothing}]
        /\ cur[1] # "plcs"
    BY <1>1, ConfigAssumption DEF StoreTagsHash, TypeOK, DataOK
  <2>2. /\ UNCHANGED <<list, plcKey, hash, tagsKey, cur>> /\ pc' = "content"
        /\ torn' = torn \cup {cur[1]} /\ missed' = ~cacheUp
    BY <1>1 DEF StoreTagsHash
  <2>3. /\ cacheUp => tagsHash'[cur[1]] = cur[2]
        /\ \A i \in Ids \ torn' : tagsHash'[i] = tagsHash[i]
    BY <1>1, <2>1, <2>2 DEF StoreTagsHash
  <2>4. QED BY <2>1, <2>2, <2>3
<1>2. CASE StoreTags
  <2>1. /\ cur[1] \in Ids /\ tagsKey \in [Ids -> TagLists \cup {Nothing}]
        /\ cur[1] # "plcs" /\ pc = "content"
    BY <1>2, ConfigAssumption DEF StoreTags, TypeOK, DataOK
  <2>2. UNCHANGED <<list, plcKey, hash, tagsHash>> /\ pc' \in {"time", "loop"}
    BY <1>2 DEF StoreTags, NextPLC
  <2>3. CASE cacheUp
    <3>1. /\ tagsKey' = [tagsKey EXCEPT ![cur[1]] = cur[2]]
          /\ torn' = IF missed THEN torn ELSE torn \ {cur[1]}
      BY <1>2, <2>3 DEF StoreTags
    <3>2. \A i \in Ids \ torn' : tagsHash'[i] = tagsKey'[i]
      <4> SUFFICES ASSUME NEW i \in Ids \ torn' PROVE tagsHash'[i] = tagsKey'[i]
        OBVIOUS
      <4>1. CASE i = cur[1]
        BY <2>1, <2>2, <3>1, <4>1
      <4>2. CASE i # cur[1]
        BY <2>1, <2>2, <3>1, <4>2
      <4>3. QED BY <4>1, <4>2
    <3>3. "plcs" \notin torn' => "plcs" \notin torn
      BY <2>1, <3>1
    <3>4. QED BY <2>2, <3>2, <3>3
  <2>4. CASE ~cacheUp
    BY <1>2, <2>2, <2>4, GroupsKept DEF StoreTags
  <2>5. QED BY <2>3, <2>4
<1>3. QED BY <1>1, <1>2

(* Every step keeps the hashes honest.                                     *)
LEMMA HonestKept ==
  ASSUME HInv, [Next]_vars
  PROVE  InProgress' /\ HashIsHonest'
<1> USE DEF outside, keys, plcKeys, tagKeys, held, written
<1>1. CASE \/ \E i \in Ids, v \in Versions \cup {Inactive} : EditPLC(i, v)
           \/ \E i \in Ids, g \in TagLists : EditTags(i, g)
           \/ \E i \in Ids : Ages(i)
           \/ DatabaseFails \/ CacheFails \/ Recovers
  BY <1>1, GroupsKept DEF EditPLC, EditTags, Ages, DatabaseFails, CacheFails, Recovers
<1>2. CASE CacheLost
  <2>1. /\ list' = Nothing /\ hash' = Nothing /\ missed' = TRUE
        /\ UNCHANGED <<pc, rows, todo, cur, torn>>
        /\ tagsHash' = tagsKey'
    BY <1>2 DEF CacheLost
  <2>2. QED BY <2>1 DEF HInv, InProgress, HashIsHonest
<1>3. CASE Killed \/ Start \/ Stop \/ Finishes \/ HealthTick \/ SyncTick
  BY <1>3, GroupsKept DEF Killed, Start, Stop, Finishes, HealthTick, SyncTick
<1>4. CASE \/ HealthCheck \/ ReadPLCs \/ CompareHash \/ ReadIds \/ ReadTags
           \/ StoreTime \/ ReturnsNil \/ \E i \in Ids : Skip(i) \/ Visit(i)
  BY <1>4, GroupsKept
  DEF HealthCheck, ReadPLCs, CompareHash, ReadIds, ReadTags, StoreTime, ReturnsNil,
      Skip, Visit, ReturnsError, NextPLC
<1>5. CASE UNCHANGED vars
  BY <1>5, GroupsKept DEF vars
<1>6. QED
  BY <1>1, <1>2, <1>3, <1>4, <1>5, PLCsKeepHonest, TagsKeepHonest DEF Next, SyncStep

LEMMA HonestInvariant == Spec => []HInv
<1>1. Init => InProgress /\ HashIsHonest
  BY DEF Init, InProgress, HashIsHonest
<1>2. HInv /\ [Next]_vars => InProgress' /\ HashIsHonest'
  BY HonestKept
<1>3. QED
  BY <1>1, <1>2, ConfigTypes, PTL DEF Spec, HInv

(* Whatever fails, is lost or is killed: the hash of a group no fault tore  *)
(* is that of what the group holds.                                        *)
THEOREM ConfigHashesTell == Spec => []HashIsHonest
<1>1. HInv => HashIsHonest
  BY DEF HInv
<1> QED
  BY <1>1, HonestInvariant, PTL

(* So SyncPLCs and SyncTags leave out nothing the cache does not hold.      *)
THEOREM ConfigSkipsSoundly == Spec => SkipsSoundly
<1> DEFINE Sound ==
      /\ CompareHash /\ pc' = "ids" /\ "plcs" \notin torn =>
           list = rows /\ \A i \in DOMAIN rows : plcKey[i] = rows[i]
      /\ \A i \in Ids \ torn :
           Skip(i) /\ tagsTime[i] = "old" => tagsKey[i] = tags[i]
<1>1. HInv /\ [Next]_vars => [Sound]_vars
  <2> SUFFICES ASSUME HInv PROVE Sound
    OBVIOUS
  <2>1. ASSUME CompareHash, pc' = "ids", "plcs" \notin torn
        PROVE  list = rows /\ \A i \in DOMAIN rows : plcKey[i] = rows[i]
    <3>1. hash = rows /\ rows \in Snapshots
      BY <2>1 DEF CompareHash, HInv, TypeOK, DataOK
    <3>2. QED BY <2>1, <3>1, SnapshotIsSomething DEF HInv, HashIsHonest
  <2>2. ASSUME NEW i \in Ids \ torn, Skip(i), tagsTime[i] = "old"
        PROVE  tagsKey[i] = tags[i]
    BY <2>2 DEF Skip, ShouldSync, HInv, HashIsHonest
  <2>3. QED BY <2>1, <2>2
<1>2. QED
  BY <1>1, HonestInvariant, PTL DEF Spec, SkipsSoundly
=============================================================================
