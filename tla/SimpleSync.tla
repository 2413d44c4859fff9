------------------------------- MODULE SimpleSync -------------------------------
(***************************************************************************)
(* The synchroniser main uses: SimpleSyncManager of                        *)
(* internal/configsync/simplefix.go, called by two goroutines of           *)
(* cmd/backend/main.go that share no lock.  One handles the notifications  *)
(* of PostgreSQL, the other runs SyncAll every 30 s (and before that, once,*)
(* while the program starts).                                              *)
(*                                                                         *)
(* A row of table plcs is inactive or one of Versions; the tags of a PLC   *)
(* are one of TagLists (the empty list "[]" may be one).  The keys         *)
(* config:plc:<id>:status and the ones of single tags are written from the *)
(* same rows right after the keys kept here, and are left out.             *)
(***************************************************************************)
EXTENDS Naturals, Sequences

CONSTANTS Ids,         \* PLCs
          Versions,    \* contents of an active row, status included
          Unreadable,  \* the ones rows.Scan refuses (a NULL in a string)
          Inactive, TagLists,
          Nothing,     \* a key that is absent
          Edited,      \* bound: the PLCs whose row and tags are edited; the
          KeptRow,     \* others hold this row, or are inactive, and these
          KeptTags,    \* tags
          MaxNotices,  \* bound: notifications waiting
          MaxFaults    \* bound: restarts, losses of the cache and failed calls

ASSUME SyncAssumption ==
  /\ Unreadable \subseteq Versions /\ Inactive \notin Versions
  /\ Nothing \notin Versions \cup TagLists
  /\ Edited \subseteq Ids
  /\ MaxNotices \in Nat /\ MaxFaults \in Nat

Workers  == {"notify", "periodic"}
Channels == {"plc_changes", "tag_changes"}
Labels   == {"off", "idle", "query", "store", "plcs", "tags", "storeTags"}

VARIABLES
  db, tags,    \* table plcs, and the active tags of each PLC
  list,        \* key config:plcs:all
  plcKey,      \* keys config:plc:<id>
  tagsKey,     \* keys config:plc:<id>:tags
  notices,     \* pgListener.Notify
  pc,          \* where each goroutine is
  full,        \* it runs SyncAll, not only SyncPLCs
  rows,        \* plcs, the rows it read and has still to store
  todo,        \* the PLCs its loop has still to visit
  tagRows,     \* activeTags of the PLC it visits
  faults       \* restarts, losses and failed calls so far

dbVars     == <<db, tags>>
keys       == <<list, plcKey, tagsKey>>
workerVars == <<pc, full, rows, todo, tagRows>>
vars == <<dbVars, keys, notices, workerVars, faults>>

NoRows == [i \in {} |-> Inactive]

(* The rows the query of SyncPLCs yields: unreadable ones are skipped. *)
ActiveIds  == {i \in Ids : db[i] # Inactive}
ReadableIds == {i \in Ids : db[i] \in Versions \ Unreadable}
ActiveRows == [i \in ReadableIds |-> db[i]]
Snapshots  == UNION {[S -> Versions \ Unreadable] : S \in SUBSET Ids}

(* Some of the rows of a snapshot. *)
Parts(s) == {[i \in S |-> s[i]] : S \in SUBSET DOMAIN s}

(* The cache is empty and main is in its first SyncAll. *)
Init ==
  /\ db \in [Ids -> Versions \cup {Inactive}] /\ tags \in [Ids -> TagLists]
  /\ \A i \in Ids \ Edited : db[i] \in {Inactive, KeptRow} /\ tags[i] = KeptTags
  /\ list = Nothing
  /\ plcKey = [i \in Ids |-> Nothing] /\ tagsKey = [i \in Ids |-> Nothing]
  /\ notices = <<>>
  /\ pc = [w \in Workers |-> IF w = "periodic" THEN "query" ELSE "off"]
  /\ full = [w \in Workers |-> TRUE]
  /\ rows = [w \in Workers |-> NoRows]
  /\ todo = [w \in Workers |-> {}]
  /\ tagRows = [w \in Workers |-> Nothing]
  /\ faults = 0

-----------------------------------------------------------------------------
(* Another program edits the tables; the notification may be lost.        *)
Notifies(channel) ==
  \/ UNCHANGED notices
  \/ Len(notices) < MaxNotices /\ notices' = Append(notices, channel)

EditPLC(i, v) ==
  /\ db[i] # v
  /\ db' = [db EXCEPT ![i] = v]
  /\ Notifies("plc_changes")
  /\ UNCHANGED <<tags, keys, workerVars, faults>>

EditTags(i, g) ==
  /\ tags[i] # g
  /\ tags' = [tags EXCEPT ![i] = g]
  /\ Notifies("tag_changes")
  /\ UNCHANGED <<db, keys, workerVars, faults>>

Faulty == faults < MaxFaults /\ faults' = faults + 1

(* The program is killed and started again; Redis keeps its keys.         *)
Restart ==
  /\ Faulty
  /\ notices' = <<>>
  /\ pc' = [w \in Workers |-> IF w = "periodic" THEN "query" ELSE "off"]
  /\ full' = [w \in Workers |-> TRUE]
  /\ rows' = [w \in Workers |-> NoRows] /\ todo' = [w \in Workers |-> {}]
  /\ tagRows' = [w \in Workers |-> Nothing]
  /\ UNCHANGED <<dbVars, keys>>

(* DynamicCache falls back to an empty cache in memory; its later return to *)
(* Redis, with the keys that has kept, is left out.                        *)
CacheLost ==
  /\ Faulty
  /\ list' = Nothing
  /\ plcKey' = [i \in Ids |-> Nothing] /\ tagsKey' = [i \in Ids |-> Nothing]
  /\ UNCHANGED <<dbVars, notices, workerVars>>

-----------------------------------------------------------------------------
Goes(w, label) == pc' = [pc EXCEPT ![w] = label]

(* What the goroutine held is dropped when its call returns. *)
Returns(w) ==
  /\ Goes(w, "idle")
  /\ full' = [full EXCEPT ![w] = TRUE]
  /\ rows' = [rows EXCEPT ![w] = NoRows] /\ todo' = [todo EXCEPT ![w] = {}]
  /\ tagRows' = [tagRows EXCEPT ![w] = Nothing]

(* SyncPLCs has stored its rows. *)
PLCsStored(w) == pc[w] = "plcs" /\ todo[w] = {}

(* Listen succeeded; it is called after the first SyncAll. *)
Listens ==
  /\ pc["notify"] = "off" /\ pc["periodic"] = "idle"
  /\ Goes("notify", "idle")
  /\ UNCHANGED <<dbVars, keys, notices, full, rows, todo, tagRows, faults>>

Notified ==
  /\ pc["notify"] = "idle" /\ notices # <<>>
  /\ notices' = Tail(notices)
  /\ full' = [full EXCEPT !["notify"] = Head(notices) = "tag_changes"]
  /\ Goes("notify", "query")
  /\ UNCHANGED <<dbVars, keys, rows, todo, tagRows, faults>>

Ticks ==
  /\ pc["periodic"] = "idle"
  /\ Goes("periodic", "query")
  /\ UNCHANGED <<dbVars, keys, notices, full, rows, todo, tagRows, faults>>

-----------------------------------------------------------------------------
(* A query or the write of the list fails: the call returns the error.    *)
Fails(w) ==
  /\ Faulty
  /\ pc[w] \in {"query", "store"} \/ (PLCsStored(w) /\ full[w])
  /\ Returns(w)
  /\ UNCHANGED <<dbVars, keys, notices>>

QueryAcceptsEmpty(w) ==
  /\ pc[w] = "query"
  /\ rows' = [rows EXCEPT ![w] = ActiveRows]
  /\ Goes(w, "store")
  /\ UNCHANGED <<dbVars, keys, notices, full, todo, tagRows, faults>>

(* Nothing is stored, and SyncAll returns, when there is no row.           *)
Yields(w, read) ==
  /\ pc[w] = "query"
  /\ IF read = NoRows THEN Returns(w)
     ELSE /\ rows' = [rows EXCEPT ![w] = read]
          /\ Goes(w, "store")
          /\ UNCHANGED <<full, todo, tagRows>>
  /\ UNCHANGED <<dbVars, keys, notices>>

Query(w) == Yields(w, ActiveRows) /\ UNCHANGED faults

(* The connection breaks while the rows are fetched, in no certain order:  *)
(* rows.Next ends the loop, nobody asks rows.Err, and the rows read so far  *)
(* pass for all.                                                           *)
QueryBreaksOff(w) ==
  /\ Faulty
  /\ \E read \in Parts(ActiveRows) \ {ActiveRows} : Yields(w, read)

StoreListIfAbsent(w) ==
  /\ pc[w] = "store"
  /\ list' = IF list = Nothing THEN rows[w] ELSE list
  /\ todo' = [todo EXCEPT ![w] = DOMAIN rows[w]]
  /\ Goes(w, "plcs")
  /\ UNCHANGED <<dbVars, plcKey, tagsKey, notices, full, rows, tagRows, faults>>

StoreList(w) ==
  /\ pc[w] = "store"
  /\ list' = rows[w]
  /\ todo' = [todo EXCEPT ![w] = DOMAIN rows[w]]
  /\ Goes(w, "plcs")
  /\ UNCHANGED <<dbVars, plcKey, tagsKey, notices, full, rows, tagRows, faults>>

(* The loop of SyncPLCs is done with a row. *)
NextRow(w, i) ==
  /\ pc[w] = "plcs" /\ i \in todo[w]
  /\ todo' = [todo EXCEPT ![w] = @ \ {i}]
  /\ rows' = [rows EXCEPT ![w] = [j \in DOMAIN @ \ {i} |-> @[j]]]
  /\ UNCHANGED <<dbVars, list, tagsKey, notices, pc, full, tagRows>>

StorePLC(w, i) ==
  /\ NextRow(w, i)
  /\ plcKey' = [plcKey EXCEPT ![i] = rows[w][i]]
  /\ UNCHANGED faults

PLCLeftDeleted(w, i) ==
  /\ Faulty /\ NextRow(w, i)
  /\ plcKey' = [plcKey EXCEPT ![i] = Nothing]

(* An error of this write is ignored. *)
PLCNotStored(w, i) == Faulty /\ NextRow(w, i) /\ UNCHANGED plcKey

(* SyncPLCs was called alone. *)
SyncPLCsReturns(w) ==
  /\ PLCsStored(w) /\ ~full[w]
  /\ Returns(w)
  /\ UNCHANGED <<dbVars, keys, notices, faults>>

(* SyncAll goes on with GetActivePLCs, which reads again and fails on an    *)
(* unreadable row.                                                         *)
GetActivePLCs(w) ==
  /\ PLCsStored(w) /\ full[w]
  /\ IF ActiveIds # ReadableIds THEN Returns(w)
     ELSE /\ todo' = [todo EXCEPT ![w] = ActiveIds]
          /\ Goes(w, "tags")
          /\ UNCHANGED <<full, rows, tagRows>>
  /\ UNCHANGED <<dbVars, keys, notices, faults>>

ReadTags(w, i) ==
  /\ pc[w] = "tags" /\ i \in todo[w]
  /\ todo' = [todo EXCEPT ![w] = @ \ {i}]
  /\ tagRows' = [tagRows EXCEPT ![w] = <<i, tags[i]>>]
  /\ Goes(w, "storeTags")
  /\ UNCHANGED <<dbVars, keys, notices, full, rows, faults>>

(* The error is noted, and the loop goes on with the next PLC. *)
TagsNotRead(w, i) ==
  /\ Faulty
  /\ pc[w] = "tags" /\ i \in todo[w]
  /\ todo' = [todo EXCEPT ![w] = @ \ {i}]
  /\ UNCHANGED <<dbVars, keys, notices, pc, full, rows, tagRows>>

StoreTagsIfAbsent(w, i) ==
  /\ pc[w] = "storeTags" /\ tagRows[w][1] = i
  /\ tagsKey' = [tagsKey EXCEPT ![i] = IF @ = Nothing THEN tagRows[w][2] ELSE @]
  /\ tagRows' = [tagRows EXCEPT ![w] = Nothing]
  /\ Goes(w, "tags")
  /\ UNCHANGED <<dbVars, list, plcKey, notices, full, rows, todo, faults>>

StoreTags(w, i) ==
  /\ pc[w] = "storeTags" /\ tagRows[w][1] = i
  /\ tagsKey' = [tagsKey EXCEPT ![i] = tagRows[w][2]]
  /\ tagRows' = [tagRows EXCEPT ![w] = Nothing]
  /\ Goes(w, "tags")
  /\ UNCHANGED <<dbVars, list, plcKey, notices, full, rows, todo, faults>>

TagsNotStored(w) ==
  /\ Faulty
  /\ pc[w] = "storeTags"
  /\ tagRows' = [tagRows EXCEPT ![w] = Nothing]
  /\ Goes(w, "tags")
  /\ UNCHANGED <<dbVars, keys, notices, full, rows, todo>>

TagsStored(w) ==
  /\ pc[w] = "tags" /\ todo[w] = {}
  /\ Returns(w)
  /\ UNCHANGED <<dbVars, keys, notices, faults>>

-----------------------------------------------------------------------------
WorkerStep(w) ==
  \/ Fails(w) \/ Query(w) \/ QueryBreaksOff(w) \/ StoreList(w)
  \/ SyncPLCsReturns(w) \/ GetActivePLCs(w)
  \/ TagsNotStored(w) \/ TagsStored(w)
  \/ \E i \in Ids : \/ StorePLC(w, i) \/ PLCNotStored(w, i) \/ ReadTags(w, i)
                    \/ TagsNotRead(w, i) \/ StoreTags(w, i)

Next ==
  \/ \E i \in Edited : \/ \E v \in Versions \cup {Inactive} : EditPLC(i, v)
                       \/ \E g \in TagLists : EditTags(i, g)
  \/ Restart \/ CacheLost \/ Listens \/ Notified \/ Ticks
  \/ \E w \in Workers : WorkerStep(w)

Spec == Init /\ [][Next]_vars

(* The goroutines go on and the ticker ticks; calls fail MaxFaults times   *)
(* at most, so that one that is tried again and again succeeds at last.    *)
FairSpec ==
  /\ Spec
  /\ WF_vars(Ticks)
  /\ \A w \in Workers : WF_vars(WorkerStep(w))

-----------------------------------------------------------------------------
(* The types of the variables, and what a goroutine holds at each label.  *)
TypeOK ==
  /\ db \in [Ids -> Versions \cup {Inactive}] /\ tags \in [Ids -> TagLists]
  /\ list \in Snapshots \cup {Nothing}
  /\ plcKey \in [Ids -> Versions \cup {Nothing}]
  /\ tagsKey \in [Ids -> TagLists \cup {Nothing}]
  /\ notices \in Seq(Channels) /\ Len(notices) <= MaxNotices
  /\ pc \in [Workers -> Labels] /\ full \in [Workers -> BOOLEAN]
  /\ rows \in [Workers -> Snapshots] /\ todo \in [Workers -> SUBSET Ids]
  /\ tagRows \in [Workers -> (Ids \X TagLists) \cup {Nothing}]
  /\ faults \in 0..MaxFaults
  /\ \A w \in Workers : /\ pc[w] = "store" => DOMAIN rows[w] # {}
                        /\ pc[w] = "plcs" => todo[w] = DOMAIN rows[w]
                        /\ pc[w] = "storeTags" => tagRows[w] \in Ids \X TagLists

(* What the key of the list promises: the contents in flight are the rows  *)
(* a goroutine has read and not yet written.                               *)
InFlight == {rows[w] : w \in {u \in Workers : pc[u] = "store"}}

Mirror == INSTANCE ConfigMirror WITH
  Contents <- Snapshots, Publishable <- Snapshots \ {NoRows}, Parts <- Parts,
  source <- ActiveRows, copy <- list,
  reads <- InFlight

(* The list the manager of PLCs reads is always one snapshot of the        *)
(* database, or of a read that broke off some rows of one: never a mix of  *)
(* the two goroutines' rows, and never the empty list of a query that      *)
(* found nothing, however they interleave, fail or are killed.             *)
ListIsMirror == Mirror!Spec

(* Although an older snapshot may overwrite a newer one, the list ends up  *)
(* equal to the rows the database keeps, when there are any; so does a     *)
(* list that was cut short.                                                *)
ListConverges == Mirror!Converges

AllReadable == \A i \in Ids : db[i] \notin Unreadable

(* So do the keys config:plc:<id> and config:plc:<id>:tags of the PLCs     *)
(* that stay active, whatever write failed or was overtaken before.        *)
KeysConverge ==
  \A i \in Ids :
    /\ \A v \in Versions \ Unreadable : <>[](db[i] = v) => <>[](plcKey[i] = v)
    /\ \A g \in TagLists :
         <>[](AllReadable /\ db[i] # Inactive /\ tags[i] = g) => <>[](tagsKey[i] = g)

(* The keys hold what the tables do, and so does what the goroutines have   *)
(* read and still to store.                                                *)
HoldsCurrent(w) ==
  /\ pc[w] = "store" => rows[w] = ActiveRows
  /\ pc[w] = "plcs" => \A i \in todo[w] : i \in ReadableIds /\ rows[w][i] = db[i]
  /\ pc[w] = "storeTags" => tagRows[w][2] = tags[tagRows[w][1]]

Synced ==
  /\ list = ActiveRows
  /\ \A i \in ReadableIds : plcKey[i] = db[i]
  /\ \A i \in ActiveIds : tagsKey[i] = tags[i]
  /\ \A w \in Workers : HoldsCurrent(w)

(* Two goroutines that share no lock, calls that fail and restarts do not   *)
(* part the keys from the tables again: only an edit, a lost cache or a    *)
(* read that broke off does.                                               *)
StaysSynced ==
  [][Synced => \/ Synced' \/ dbVars' # dbVars \/ list' = Nothing
               \/ \E w \in Workers : QueryBreaksOff(w)]_vars

(* simplefix.go:29, "SyncPLCs sincroniza PLCs diretamente da consulta SQL  *)
(* para o Redis": when the last PLC is deactivated it leaves the list.     *)
DeactivationIsMirrored ==
  <>[](ActiveIds = {}) => <>[](list = Nothing \/ list = NoRows)
=============================================================================
