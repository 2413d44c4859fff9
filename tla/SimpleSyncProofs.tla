---------------------------- MODULE SimpleSyncProofs ----------------------------
(***************************************************************************)
(* For any PLCs, rows, bounds: SimpleSync keeps its types, its list        *)
(* implements the safety of ConfigMirror, and keys that agree with the     *)
(* tables go on to do so.                                                  *)
(***************************************************************************)
EXTENDS SimpleSync, TLAPS

(* What a query yields is a snapshot. *)
LEMMA RowsAreSnapshot ==
  ASSUME db \in [Ids -> Versions \cup {Inactive}]
  PROVE  ActiveRows \in Snapshots
<1>1. /\ ReadableIds \in SUBSET Ids
      /\ \A i \in ReadableIds : db[i] \in Versions \ Unreadable
  BY DEF ReadableIds
<1>2. ActiveRows \in [ReadableIds -> Versions \ Unreadable]
  BY <1>1 DEF ActiveRows
<1>3. QED BY <1>1, <1>2 DEF ActiveRows, Snapshots

(* So are the rows read before it broke off; all of them are one choice. *)
LEMMA PartsAreSnapshots ==
  ASSUME NEW s \in Snapshots
  PROVE  Parts(s) \subseteq Snapshots /\ s \in Parts(s)
<1>1. PICK S \in SUBSET Ids : s \in [S -> Versions \ Unreadable]
  BY DEF Snapshots
<1>2. ASSUME NEW T \in SUBSET DOMAIN s
      PROVE  [i \in T |-> s[i]] \in Snapshots
  <2>1. T \in SUBSET Ids /\ \A i \in T : s[i] \in Versions \ Unreadable
    BY <1>1
  <2>2. [i \in T |-> s[i]] \in [T -> Versions \ Unreadable]
    BY <2>1
  <2>3. QED BY <2>1, <2>2 DEF Snapshots
<1>3. s = [i \in DOMAIN s |-> s[i]]
  BY <1>1
<1>4. QED BY <1>2, <1>3 DEF Parts

(* The empty snapshot, and no other, has no row. *)
LEMMA EmptySnapshot ==
  /\ NoRows \in Snapshots /\ DOMAIN NoRows = {}
  /\ \A s \in Snapshots \ {NoRows} : DOMAIN s # {}
BY DEF NoRows, Snapshots

(* A query yields some of the rows of the database, however it ends.       *)
LEMMA QueryYieldsPart ==
  ASSUME TypeOK, NEW w \in Workers, Query(w) \/ QueryBreaksOff(w)
  PROVE  \E read \in Parts(ActiveRows) : Yields(w, read) /\ read \in Snapshots
<1>1. ActiveRows \in Snapshots
  BY RowsAreSnapshot DEF TypeOK
<1>2. QED BY <1>1, PartsAreSnapshots DEF Query, QueryBreaksOff

(* A snapshot yields readable rows for some of the PLCs. *)
LEMMA SnapshotRows ==
  ASSUME NEW s \in Snapshots
  PROVE  /\ DOMAIN s \in SUBSET Ids
         /\ \A i \in DOMAIN s : s[i] \in Versions
BY DEF Snapshots

(* What is left of a snapshot is one.                                      *)
LEMMA RestIsSnapshot ==
  ASSUME NEW s \in Snapshots, NEW i
  PROVE  /\ [j \in DOMAIN s \ {i} |-> s[j]] \in Snapshots
         /\ DOMAIN [j \in DOMAIN s \ {i} |-> s[j]] = DOMAIN s \ {i}
BY PartsAreSnapshots DEF Parts

(* A notification that fits leaves the queue within its bound. *)
LEMMA NoticeFits ==
  ASSUME notices \in Seq(Channels), Len(notices) <= MaxNotices, MaxNotices \in Nat,
         NEW c \in Channels, Notifies(c)
  PROVE  notices' \in Seq(Channels) /\ Len(notices') <= MaxNotices
BY DEF Notifies

(* The variables keep their types, whatever the goroutines do, alone or     *)
(* together, and however often they fail or are killed.                    *)
THEOREM SyncTypes == Spec => []TypeOK
<1>1. Init => TypeOK
  BY EmptySnapshot, SyncAssumption
  DEF Init, TypeOK, Labels, Workers
<1>2. TypeOK /\ [Next]_vars => TypeOK'
  <2> SUFFICES ASSUME TypeOK, [Next]_vars PROVE TypeOK'
    OBVIOUS
  <2> USE SyncAssumption DEF TypeOK
  <2>1. ASSUME NEW i \in Ids, NEW v \in Versions \cup {Inactive}, EditPLC(i, v)
        PROVE  TypeOK'
    BY <2>1, NoticeFits DEF EditPLC, Channels, keys, workerVars
  <2>2. ASSUME NEW i \in Ids, NEW g \in TagLists, EditTags(i, g)
        PROVE  TypeOK'
    BY <2>2, NoticeFits DEF EditTags, Channels, keys, workerVars
  <2>3. CASE Restart
    BY <2>3, EmptySnapshot DEF Restart, Faulty, dbVars, keys, Workers, Labels
  <2>4. CASE CacheLost
    BY <2>4 DEF CacheLost, Faulty, dbVars, workerVars
  <2>5. CASE Listens
    BY <2>5 DEF Listens, Goes, dbVars, keys, Workers, Labels
  <2>6. CASE Notified
    BY <2>6 DEF Notified, Goes, dbVars, keys, Workers, Labels
  <2>7. CASE Ticks
    BY <2>7 DEF Ticks, Goes, dbVars, keys, Workers, Labels
  <2>8. ASSUME NEW w \in Workers, Returns(w), UNCHANGED <<dbVars, keys, notices>>,
               faults' \in 0..MaxFaults
        PROVE  TypeOK'
    BY <2>8, EmptySnapshot DEF Returns, Goes, dbVars, keys, Labels
  <2>9. ASSUME NEW w \in Workers, Fails(w) PROVE TypeOK'
    BY <2>8, <2>9 DEF Fails, Faulty
  <2>10. ASSUME NEW w \in Workers, Query(w) \/ QueryBreaksOff(w) PROVE TypeOK'
    <3>1. PICK read \in Parts(ActiveRows) : Yields(w, read) /\ read \in Snapshots
      BY <2>10, QueryYieldsPart
    <3>2. faults' \in 0..MaxFaults
      BY <2>10 DEF Query, QueryBreaksOff, Faulty
    <3>3. CASE read = NoRows
      BY <2>8, <3>1, <3>2, <3>3 DEF Yields
    <3>4. CASE read # NoRows
      BY <3>1, <3>2, <3>4, EmptySnapshot DEF Yields, Goes, dbVars, keys, Labels
    <3>5. QED BY <3>3, <3>4
  <2>11. ASSUME NEW w \in Workers, StoreList(w) PROVE TypeOK'
    <3>1. DOMAIN rows[w] \in SUBSET Ids
      BY SnapshotRows
    <3>2. list' \in Snapshots /\ todo' \in [Workers -> SUBSET Ids]
      BY <2>11, <3>1 DEF StoreList
    <3>3. \A u \in Workers : pc'[u] = "plcs" => todo'[u] = DOMAIN rows[u]
      BY <2>11 DEF StoreList, Goes
    <3>4. QED BY <2>11, <3>2, <3>3 DEF StoreList, Goes, dbVars, Labels
  <2>12. ASSUME NEW w \in Workers, NEW i \in Ids, NextRow(w, i),
                plcKey' \in [Ids -> Versions \cup {Nothing}], faults' \in 0..MaxFaults
         PROVE  TypeOK'
    <3>1. todo[w] = DOMAIN rows[w]
      BY <2>12 DEF NextRow
    <3>2. /\ rows'[w] \in Snapshots /\ DOMAIN rows'[w] = todo'[w]
          /\ \A u \in Workers \ {w} : rows'[u] = rows[u] /\ todo'[u] = todo[u]
      BY <2>12, <3>1, RestIsSnapshot DEF NextRow
    <3>3. rows' \in [Workers -> Snapshots] /\ todo' \in [Workers -> SUBSET Ids]
      BY <2>12, <3>2 DEF NextRow
    <3>4. UNCHANGED <<dbVars, list, tagsKey, notices, pc, full, tagRows>>
      BY <2>12 DEF NextRow
    <3>5. pc[w] = "plcs"
      BY <2>12 DEF NextRow
    <3>6. QED BY <2>12, <3>2, <3>3, <3>4, <3>5 DEF dbVars
  <2>13. ASSUME NEW w \in Workers, NEW i \in Ids, StorePLC(w, i) \/ PLCNotStored(w, i)
         PROVE  TypeOK'
    <3>1. NextRow(w, i) /\ rows[w][i] \in Versions
      BY <2>13, SnapshotRows DEF StorePLC, PLCNotStored, NextRow
    <3>2. /\ plcKey' \in [Ids -> Versions \cup {Nothing}]
          /\ faults' \in 0..MaxFaults
      BY <2>13, <3>1 DEF StorePLC, PLCNotStored, Faulty
    <3>3. QED BY <2>12, <3>1, <3>2
  <2>14. ASSUME NEW w \in Workers, SyncPLCsReturns(w) PROVE TypeOK'
    BY <2>8, <2>14 DEF SyncPLCsReturns
  <2>15. ASSUME NEW w \in Workers, GetActivePLCs(w) PROVE TypeOK'
    <3>1. CASE ActiveIds # ReadableIds
      BY <2>8, <2>15, <3>1 DEF GetActivePLCs
    <3>2. CASE ActiveIds = ReadableIds
      <4>1. ActiveIds \in SUBSET Ids
        BY DEF ActiveIds
      <4>2. /\ todo' = [todo EXCEPT ![w] = ActiveIds] /\ Goes(w, "tags")
            /\ UNCHANGED <<dbVars, keys, notices, full, rows, tagRows, faults>>
        BY <2>15, <3>2 DEF GetActivePLCs
      <4>3. QED BY <4>1, <4>2 DEF Goes, dbVars, keys, Labels
    <3>3. QED BY <3>1, <3>2
  <2>16. ASSUME NEW w \in Workers, NEW i \in Ids, ReadTags(w, i) PROVE TypeOK'
    BY <2>16 DEF ReadTags, Goes, dbVars, keys, Labels
  <2>17. ASSUME NEW w \in Workers, NEW i \in Ids, TagsNotRead(w, i) PROVE TypeOK'
    BY <2>17 DEF TagsNotRead, Faulty, dbVars, keys
  <2>18. ASSUME NEW w \in Workers, NEW i \in Ids, StoreTags(w, i) PROVE TypeOK'
    BY <2>18 DEF StoreTags, Goes, dbVars, Labels
  <2>19. ASSUME NEW w \in Workers, TagsNotStored(w) PROVE TypeOK'
    BY <2>19 DEF TagsNotStored, Faulty, Goes, dbVars, keys, Labels
  <2>20. ASSUME NEW w \in Workers, TagsStored(w) PROVE TypeOK'
    BY <2>8, <2>20 DEF TagsStored
  <2>21. CASE UNCHANGED vars
    BY <2>21 DEF vars, dbVars, keys, workerVars
  <2>22. QED
    BY <2>1, <2>2, <2>3, <2>4, <2>5, <2>6, <2>7, <2>9, <2>10, <2>11, <2>13, <2>14,
       <2>15, <2>16, <2>17, <2>18, <2>19, <2>20, <2>21
    DEF Next, WorkerStep
<1>3. QED
  BY <1>1, <1>2, PTL DEF Spec

(* What the queries yield is a part of the rows the synchroniser may        *)
(* publish, or nothing.                                                    *)
LEMMA QueryIsRead ==
  ASSUME TypeOK, NEW w \in Workers, Query(w) \/ QueryBreaksOff(w)
  PROVE  \/ UNCHANGED <<ActiveRows, list>> /\ InFlight' \in SUBSET InFlight
         \/ Mirror!Read
<1>1. PICK read \in Parts(ActiveRows) : Yields(w, read) /\ read \in Snapshots
  BY QueryYieldsPart
<1>2. UNCHANGED <<ActiveRows, list>>
  BY <1>1 DEF Yields, dbVars, keys, ActiveRows, ReadableIds
<1>3. CASE read = NoRows
  BY <1>1, <1>2, <1>3 DEF Yields, Returns, Goes, InFlight, TypeOK
<1>4. CASE read # NoRows
  <2>1. InFlight' = InFlight \cup {read}
    <3>1. /\ pc[w] = "query" /\ pc' = [pc EXCEPT ![w] = "store"]
          /\ rows' = [rows EXCEPT ![w] = read]
      BY <1>1, <1>4 DEF Yields, Goes
    <3>2. \A u \in Workers : u # w => pc'[u] = pc[u] /\ rows'[u] = rows[u]
      BY <3>1 DEF TypeOK
    <3>3. pc'[w] = "store" /\ rows'[w] = read
      BY <3>1 DEF TypeOK
    <3>4. QED BY <3>1, <3>2, <3>3 DEF InFlight
  <2>2. QED BY <1>1, <1>2, <1>4, <2>1 DEF Mirror!Read
<1>5. QED BY <1>3, <1>4

(* A step that leaves the list alone and reads no rows drops some of the    *)
(* rows in flight at most.                                                 *)
LEMMA NothingNewInFlight ==
  ASSUME TypeOK, NEW w \in Workers, NEW label \in Labels \ {"store"},
         Goes(w, label), \A u \in Workers \ {w} : rows'[u] = rows[u]
  PROVE  InFlight' \in SUBSET InFlight
<1>1. \A u \in Workers : pc'[u] = "store" => u # w /\ pc[u] = "store"
  BY DEF Goes, TypeOK
<1>2. QED BY <1>1 DEF InFlight

(* The list of PLCs is at any time one snapshot of the database, or of a    *)
(* read that broke off a part of one, that was read and not yet published:  *)
(* the two goroutines implement the mirror.                                 *)
THEOREM SyncIsMirror == Spec => ListIsMirror
<1>1. Init => Mirror!Init
  <2> SUFFICES ASSUME Init PROVE Mirror!Init
    OBVIOUS
  <2>1. ActiveRows \in Snapshots
    BY RowsAreSnapshot DEF Init
  <2>2. InFlight = {}
    BY DEF Init, InFlight, Workers
  <2>3. QED BY <2>1, <2>2 DEF Init, Mirror!Init
<1>2. TypeOK /\ TypeOK' /\ [Next]_vars => [Mirror!Next]_Mirror!mirrorVars
  <2> SUFFICES ASSUME TypeOK, TypeOK', [Next]_vars
               PROVE  Mirror!Next \/ UNCHANGED Mirror!mirrorVars
    OBVIOUS
  <2> USE DEF Mirror!Next, Mirror!mirrorVars
  <2>1. CASE list' = list /\ UNCHANGED db /\ InFlight' \in SUBSET InFlight
    BY <2>1 DEF ActiveRows, ReadableIds, Mirror!Drop
  <2>2. ASSUME NEW i \in Ids, NEW v \in Versions \cup {Inactive}, EditPLC(i, v)
        PROVE  Mirror!Change
    <3>1. ActiveRows' \in Snapshots
      <4>1. /\ ReadableIds' \in SUBSET Ids
            /\ \A j \in ReadableIds' : db'[j] \in Versions \ Unreadable
        BY DEF ReadableIds
      <4>2. ActiveRows' \in [ReadableIds' -> Versions \ Unreadable]
        BY <4>1 DEF ActiveRows
      <4>3. QED BY <4>1, <4>2 DEF Snapshots
    <3>2. UNCHANGED <<list, InFlight>>
      BY <2>2 DEF EditPLC, keys, workerVars, InFlight
    <3>3. QED BY <3>1, <3>2 DEF Mirror!Change
  <2>3. ASSUME NEW i \in Ids, NEW g \in TagLists, EditTags(i, g)
        PROVE  list' = list /\ UNCHANGED db /\ InFlight' \in SUBSET InFlight
    BY <2>3 DEF EditTags, keys, workerVars, InFlight
  <2>4. CASE Restart
    BY <2>1, <2>4 DEF Restart, dbVars, keys, InFlight, Workers
  <2>5. CASE CacheLost
    BY <2>5 DEF CacheLost, dbVars, workerVars, InFlight, ActiveRows, ReadableIds,
                Mirror!Lose
  <2>6. CASE Listens
    BY <2>1, <2>6, NothingNewInFlight DEF Listens, dbVars, keys, Workers, Labels
  <2>7. CASE Notified
    BY <2>1, <2>7, NothingNewInFlight DEF Notified, dbVars, keys, Workers, Labels
  <2>8. CASE Ticks
    BY <2>1, <2>8, NothingNewInFlight DEF Ticks, dbVars, keys, Workers, Labels
  <2>9. ASSUME NEW w \in Workers, Query(w) \/ QueryBreaksOff(w)
        PROVE  Mirror!Next \/ UNCHANGED Mirror!mirrorVars
    <3>1. UNCHANGED db
      BY <2>9 DEF Query, QueryBreaksOff, Yields, dbVars
    <3>2. QED BY <2>1, <2>9, <3>1, QueryIsRead
  <2>10. ASSUME NEW w \in Workers, StoreList(w) PROVE Mirror!Publish
    <3>1. list' \in InFlight
      BY <2>10 DEF StoreList, InFlight
    <3>2. InFlight' \in SUBSET InFlight
      BY <2>10, NothingNewInFlight DEF StoreList, Labels
    <3>3. UNCHANGED ActiveRows
      BY <2>10 DEF StoreList, dbVars, ActiveRows, ReadableIds
    <3>4. QED BY <3>1, <3>2, <3>3 DEF Mirror!Publish
  <2>11. ASSUME NEW w \in Workers, NEW i \in Ids,
                \/ StorePLC(w, i) \/ PLCNotStored(w, i) \/ TagsNotRead(w, i)
         PROVE  list' = list /\ UNCHANGED db /\ InFlight' \in SUBSET InFlight
    <3>1. list' = list /\ UNCHANGED <<db, pc>> /\ pc[w] # "store"
      BY <2>11 DEF StorePLC, PLCNotStored, NextRow, TagsNotRead, dbVars, keys
    <3>2. \A u \in Workers \ {w} : rows'[u] = rows[u]
      BY <2>11 DEF StorePLC, PLCNotStored, NextRow, TagsNotRead, TypeOK
    <3>3. QED BY <3>1, <3>2 DEF InFlight
  <2>12. ASSUME NEW w \in Workers,
                \/ Fails(w) \/ SyncPLCsReturns(w) \/ GetActivePLCs(w)
                \/ TagsNotStored(w) \/ TagsStored(w)
                \/ \E i \in Ids : ReadTags(w, i) \/ StoreTags(w, i)
         PROVE  list' = list /\ UNCHANGED db /\ InFlight' \in SUBSET InFlight
    <3>1. /\ list' = list /\ UNCHANGED db
          /\ \E label \in Labels \ {"store"} : Goes(w, label)
      BY <2>12 DEF Fails, SyncPLCsReturns, GetActivePLCs, TagsNotStored,
                   TagsStored, ReadTags, StoreTags, Returns, dbVars, keys, Labels
    <3>2. \A u \in Workers \ {w} : rows'[u] = rows[u]
      BY <2>12 DEF Fails, SyncPLCsReturns, GetActivePLCs, TagsNotStored,
                   TagsStored, ReadTags, StoreTags, Returns, TypeOK
    <3>3. QED BY <3>1, <3>2, NothingNewInFlight
  <2>13. CASE UNCHANGED vars
    BY <2>13 DEF vars, dbVars, keys, workerVars, ActiveRows, ReadableIds, InFlight
  <2>14. QED
    BY <2>1, <2>2, <2>3, <2>4, <2>5, <2>6, <2>7, <2>8, <2>9, <2>10, <2>11, <2>12, <2>13,
       SyncAssumption
    DEF Next, WorkerStep
<1>3. QED
  BY <1>1, <1>2, SyncTypes, PTL DEF Spec, ListIsMirror, Mirror!Spec

(* The rows of the query are those of the PLCs it could read. *)
LEMMA RowOfReadable ==
  /\ DOMAIN ActiveRows = ReadableIds
  /\ \A i \in ReadableIds : ActiveRows[i] = db[i]
BY DEF ActiveRows

(* A step of one goroutine leaves alone what the other holds, so that only  *)
(* its own hold and the keys are left to look at.                          *)
LEMMA StepKeepsSynced ==
  ASSUME Synced, NEW w \in Workers, UNCHANGED dbVars,
         \A u \in Workers \ {w} : /\ pc'[u] = pc[u] /\ rows'[u] = rows[u]
                                 /\ todo'[u] = todo[u] /\ tagRows'[u] = tagRows[u],
         HoldsCurrent(w)',
         list' = ActiveRows,
         \A i \in ReadableIds : plcKey'[i] = db[i],
         \A i \in ActiveIds : tagsKey'[i] = tags[i]
  PROVE  Synced'
<1>1. UNCHANGED <<ActiveRows, ReadableIds, ActiveIds>>
  BY DEF dbVars, ActiveRows, ReadableIds, ActiveIds
<1>2. \A u \in Workers \ {w} : HoldsCurrent(u)'
  BY <1>1 DEF Synced, HoldsCurrent, dbVars
<1>3. QED BY <1>1, <1>2 DEF Synced, dbVars

(* A goroutine that returns has nothing more to store.                     *)
LEMMA ReturnKeepsSynced ==
  ASSUME TypeOK, Synced, NEW w \in Workers, Returns(w), UNCHANGED <<dbVars, keys>>
  PROVE  Synced'
<1>1. \A u \in Workers \ {w} : /\ pc'[u] = pc[u] /\ rows'[u] = rows[u]
                              /\ todo'[u] = todo[u] /\ tagRows'[u] = tagRows[u]
  BY DEF Returns, Goes, TypeOK
<1>2. HoldsCurrent(w)'
  BY DEF Returns, Goes, TypeOK, HoldsCurrent
<1>3. QED BY <1>1, <1>2, StepKeepsSynced DEF Synced, keys

(* No step of a goroutine puts an older content back; only a read that      *)
(* broke off holds less than the table.                                    *)
LEMMA WorkerKeepsSynced ==
  ASSUME TypeOK, Synced, NEW w \in Workers, WorkerStep(w), ~QueryBreaksOff(w)
  PROVE  Synced'
<1> USE DEF keys, Goes
<1>1. CASE Fails(w) \/ TagsStored(w)
  BY <1>1, ReturnKeepsSynced DEF Fails, TagsStored
<1>2. CASE Query(w)
  <2>1. CASE ActiveRows = NoRows
    BY <1>2, <2>1, ReturnKeepsSynced DEF Query, Yields
  <2>2. CASE ActiveRows # NoRows
    <3>1. pc'[w] = "store" /\ rows'[w] = ActiveRows /\ UNCHANGED ActiveRows
      BY <1>2, <2>2 DEF Query, Yields, TypeOK, dbVars, ActiveRows, ReadableIds
    <3>2. HoldsCurrent(w)'
      BY <3>1 DEF HoldsCurrent
    <3>3. QED BY <1>2, <2>2, <3>2, StepKeepsSynced DEF Query, Yields, TypeOK, Synced
  <2>3. QED BY <2>1, <2>2
<1>3. CASE StoreList(w)
  <2>1. rows[w] = ActiveRows
    BY <1>3 DEF StoreList, Synced, HoldsCurrent
  <2>2. /\ pc'[w] = "plcs" /\ todo'[w] = ReadableIds /\ UNCHANGED <<rows, db>>
    BY <1>3, <2>1, RowOfReadable DEF StoreList, TypeOK, dbVars
  <2>3. HoldsCurrent(w)'
    BY <2>1, <2>2, RowOfReadable DEF HoldsCurrent, ReadableIds
  <2>4. QED BY <1>3, <2>1, <2>3, StepKeepsSynced DEF StoreList, TypeOK, Synced
<1>4. ASSUME NEW i \in Ids, NextRow(w, i), \A j \in ReadableIds : plcKey'[j] = db[j]
      PROVE  Synced'
  <2>1. pc[w] = "plcs" /\ todo[w] = DOMAIN rows[w]
    BY <1>4 DEF NextRow, TypeOK
  <2>2. /\ pc'[w] = "plcs" /\ todo'[w] = todo[w] \ {i} /\ UNCHANGED db
        /\ \A j \in todo'[w] : rows'[w][j] = rows[w][j]
    BY <1>4, <2>1 DEF NextRow, TypeOK, dbVars
  <2>3. HoldsCurrent(w)'
    BY <2>1, <2>2 DEF Synced, HoldsCurrent, ReadableIds
  <2>4. QED BY <1>4, <2>3, StepKeepsSynced DEF NextRow, TypeOK, Synced
<1>5. ASSUME NEW i \in Ids, StorePLC(w, i) \/ PLCNotStored(w, i) PROVE Synced'
  <2>1. NextRow(w, i) /\ rows[w][i] = db[i]
    BY <1>5 DEF StorePLC, PLCNotStored, NextRow, Synced, HoldsCurrent
  <2>2. \A j \in ReadableIds : plcKey'[j] = db[j]
    BY <1>5, <2>1 DEF StorePLC, PLCNotStored, TypeOK, Synced, ReadableIds
  <2>3. QED BY <1>4, <2>1, <2>2
<1>6. CASE SyncPLCsReturns(w)
  BY <1>6, ReturnKeepsSynced DEF SyncPLCsReturns
<1>7. ASSUME NEW i \in Ids, TagsNotRead(w, i) PROVE Synced'
  <2>1. HoldsCurrent(w)'
    BY <1>7 DEF TagsNotRead, TypeOK, Synced, HoldsCurrent, dbVars, ReadableIds
  <2>2. QED BY <1>7, <2>1, StepKeepsSynced DEF TagsNotRead, TypeOK, Synced
<1>8. CASE GetActivePLCs(w)
  <2>1. CASE ActiveIds # ReadableIds
    BY <1>8, <2>1, ReturnKeepsSynced DEF GetActivePLCs
  <2>2. CASE ActiveIds = ReadableIds
    <3>1. HoldsCurrent(w)'
      BY <1>8, <2>2 DEF GetActivePLCs, TypeOK, HoldsCurrent
    <3>2. QED BY <1>8, <2>2, <3>1, StepKeepsSynced DEF GetActivePLCs, TypeOK, Synced
  <2>3. QED BY <2>1, <2>2
<1>9. ASSUME NEW i \in Ids, ReadTags(w, i) PROVE Synced'
  <2>1. HoldsCurrent(w)'
    BY <1>9 DEF ReadTags, TypeOK, HoldsCurrent, dbVars
  <2>2. QED BY <1>9, <2>1, StepKeepsSynced DEF ReadTags, TypeOK, Synced
<1>10. ASSUME NEW i \in Ids, StoreTags(w, i) PROVE Synced'
  <2>1. tagRows[w][2] = tags[i]
    BY <1>10 DEF StoreTags, Synced, HoldsCurrent
  <2>2. \A j \in ActiveIds : tagsKey'[j] = tags[j]
    BY <1>10, <2>1 DEF StoreTags, TypeOK, Synced, ActiveIds
  <2>3. HoldsCurrent(w)'
    BY <1>10 DEF StoreTags, TypeOK, HoldsCurrent
  <2>4. QED BY <1>10, <2>2, <2>3, StepKeepsSynced DEF StoreTags, TypeOK, Synced
<1>11. CASE TagsNotStored(w)
  <2>1. HoldsCurrent(w)'
    BY <1>11 DEF TagsNotStored, TypeOK, HoldsCurrent
  <2>2. QED BY <1>11, <2>1, StepKeepsSynced DEF TagsNotStored, TypeOK, Synced
<1>12. QED
  BY <1>1, <1>2, <1>3, <1>5, <1>6, <1>7, <1>8, <1>9, <1>10, <1>11 DEF WorkerStep

(* Once the keys and all that is in flight agree with the tables, only an   *)
(* edit of a table, the loss of the cache or a query whose rows broke off   *)
(* (simplefix.go:59 to :91, no rows.Err) parts them, whatever else the two  *)
(* goroutines do, whichever of their other calls fail and however often    *)
(* the program is killed.                                                  *)
THEOREM SyncStaysSynced == Spec => StaysSynced
<1> DEFINE Stays == Synced => \/ Synced' \/ dbVars' # dbVars \/ list' = Nothing
                             \/ \E w \in Workers : QueryBreaksOff(w)
<1>1. TypeOK /\ [Next]_vars => [Stays]_vars
  <2> SUFFICES ASSUME TypeOK, Next, Synced, UNCHANGED dbVars, list' # Nothing,
                      \A w \in Workers : ~QueryBreaksOff(w)
               PROVE  Synced'
    BY Zenon
  <2>1. UNCHANGED <<ActiveRows, ReadableIds, ActiveIds>>
    BY DEF dbVars, ActiveRows, ReadableIds, ActiveIds
  <2>2. CASE \/ \E i \in Ids, v \in Versions \cup {Inactive} : EditPLC(i, v)
             \/ \E i \in Ids, g \in TagLists : EditTags(i, g)
             \/ CacheLost
    BY <2>2 DEF EditPLC, EditTags, CacheLost, dbVars, TypeOK
  <2>3. CASE Restart
    <3>1. \A w \in Workers : pc'[w] \in {"query", "off"}
      BY <2>3 DEF Restart
    <3>2. \A w \in Workers : HoldsCurrent(w)'
      BY <3>1 DEF HoldsCurrent
    <3>3. QED BY <2>1, <2>3, <3>2 DEF Restart, Synced, dbVars, keys
  <2>4. CASE Listens \/ Notified \/ Ticks
    <3>1. PICK w \in Workers :
            /\ pc'[w] \in {"idle", "query"}
            /\ \A u \in Workers \ {w} : pc'[u] = pc[u]
            /\ UNCHANGED <<keys, rows, todo, tagRows>>
      BY <2>4 DEF Listens, Notified, Ticks, Goes, TypeOK, Workers
    <3>2. HoldsCurrent(w)'
      BY <3>1 DEF HoldsCurrent
    <3>3. QED BY <3>1, <3>2, StepKeepsSynced DEF Synced, keys
  <2>5. CASE \E w \in Workers : WorkerStep(w)
    BY <2>5, WorkerKeepsSynced
  <2>6. QED BY <2>2, <2>3, <2>4, <2>5, SyncAssumption DEF Next
<1>2. QED
  BY <1>1, SyncTypes, PTL DEF Spec, StaysSynced
=============================================================================
