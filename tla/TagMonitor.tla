-------------------------------- MODULE TagMonitor --------------------------------
(***************************************************************************)
(* One tag of one PLC: the goroutine runTag of                              *)
(* internal/plcmanager/tag_monitor.go, which scans it through the client of *)
(* the PLC's session, and a caller of WriteTagByName or WriteTagByID        *)
(* (writer.go), which writes through a connection of its own.  Both store   *)
(* into the tag's cache entry and publish the value to subscribers.         *)
(*                                                                         *)
(* Client.Ping (client.go) dials the PLC's TCP port, unless the client has  *)
(* no handler; it says nothing of the session that ReadTag uses.  The delay between two scans is counted in    *)
(* doublings of the tag's scan rate.                                        *)
(*                                                                         *)
(* The definitions every component has (Init, Next, ...) are prefixed RT,  *)
(* so that TagProofs can extend several components.                        *)
(***************************************************************************)
EXTENDS Naturals

CONSTANTS Values,          \* values of the tag
          NoValue,         \* nil
          MonitorChanges,  \* config.MonitorChanges
          MaxErrors,       \* maxConsecutiveErrors (5)
          MaxDoublings     \* doublings from the scan rate to maxDelay (30 s)

ASSUME TagAssumption ==
  /\ NoValue \notin Values
  /\ MonitorChanges \in BOOLEAN
  /\ MaxErrors \in Nat /\ MaxErrors > 1
  /\ MaxDoublings \in Nat

VARIABLES
  plc,        \* the value the PLC holds
  link,       \* "up", "deaf" (the port answers, reads fail) or "down"
  handler,    \* the session's client has one; seen only where the port answers
  value,      \* the cache entry's Value
  quality,    \* and its Quality
  notified,   \* the value published last
  pc,         \* where runTag is
  consecutiveErrors, currentDelay, lastValue, rawValue,
  prevValue,  \* what it read from the cache to store it again with quality 0
  writer,     \* where the writer is
  written     \* the value it writes

linkVars   == <<link, handler>>
cacheVars  == <<value, quality>>
writerVars == <<writer, written>>
scanVars == <<pc, consecutiveErrors, currentDelay, lastValue, rawValue, prevValue>>
rtVars == <<plc, linkVars, cacheVars, notified, writerVars, scanVars>>

Links == {"up", "deaf", "down"}

(* Client.Ping: it fails without a handler, and dials the port otherwise. *)
Answers == handler /\ link # "down"
(* Client.ReadTag over the session, which it opens anew if there is none. *)
Readable == link = "up"
(* The tolerance of 1e-6 between two reals is below what Values tells apart. *)
CompareValues(old, new) == old = new

RTInit ==
  /\ plc \in Values /\ link = "up" /\ handler = TRUE
  /\ value = NoValue /\ quality = 100 /\ notified = NoValue
  /\ pc = "wait" /\ consecutiveErrors = 0 /\ currentDelay = 0
  /\ lastValue = NoValue /\ rawValue = NoValue /\ prevValue = NoValue
  /\ writer = "idle" /\ written = NoValue

-----------------------------------------------------------------------------
(* The process and the network. *)

PLCChanges(v) ==
  /\ v # plc
  /\ plc' = v
  /\ UNCHANGED <<linkVars, cacheVars, notified, writerVars, scanVars>>

(* Whoever dialled the PLC in vain left the client without a handler. *)
LinkChanges(l) ==
  /\ l # link
  /\ link' = l
  /\ handler' \in BOOLEAN
  /\ l = "down" => handler' = TRUE
  /\ "down" \notin {l, link} => handler' = handler
  /\ UNCHANGED <<plc, cacheVars, notified, writerVars, scanVars>>

(* The cleaning of the pool and GetTagValue close a client in use; the runner *)
(* of another tag dials it anew.                                            *)
ClientCloses ==
  /\ link # "down" /\ handler
  /\ handler' = FALSE
  /\ UNCHANGED <<plc, link, cacheVars, notified, writerVars, scanVars>>

OthersRedial ==
  /\ link # "down" /\ ~handler
  /\ handler' = TRUE
  /\ UNCHANGED <<plc, link, cacheVars, notified, writerVars, scanVars>>

-----------------------------------------------------------------------------
(* runTag. *)

Doubled == IF currentDelay < MaxDoublings THEN currentDelay + 1 ELSE currentDelay

ErrorNotAdded ==
  /\ consecutiveErrors' = 1
  /\ currentDelay' = Doubled
  /\ prevValue' = value
  /\ pc' = "degrade"
  /\ UNCHANGED <<plc, link, cacheVars, notified, writerVars, lastValue, rawValue>>

(* A ping or a read failed: one error more, a longer delay, and the cache   *)
(* entry is read to be marked bad.                                          *)
OneErrorMore ==
  /\ consecutiveErrors' = consecutiveErrors + 1
  /\ currentDelay' = Doubled
  /\ prevValue' = value
  /\ pc' = "degrade"
  /\ UNCHANGED <<plc, link, cacheVars, notified, writerVars, lastValue, rawValue>>

(* After an error the PLC is pinged first, which clears the errors. *)
PingFails ==
  /\ pc = "wait" /\ consecutiveErrors > 0 /\ ~Answers
  /\ OneErrorMore /\ UNCHANGED handler

PingSucceeds ==
  /\ pc = "wait" /\ consecutiveErrors > 0 /\ Answers
  /\ consecutiveErrors' = 0 /\ currentDelay' = 0
  /\ pc' = "read"
  /\ UNCHANGED <<plc, linkVars, cacheVars, notified, writerVars, lastValue, rawValue, prevValue>>

ScansAtOnce ==
  /\ pc = "wait" /\ consecutiveErrors = 0
  /\ pc' = "read"
  /\ UNCHANGED <<plc, linkVars, cacheVars, notified, writerVars, consecutiveErrors,
                 currentDelay, lastValue, rawValue, prevValue>>

(* The read may have dialled anew, in vain or not. *)
ReadFails ==
  /\ pc = "read" /\ ~Readable
  /\ OneErrorMore
  /\ handler' \in BOOLEAN /\ (link = "down" => handler' = TRUE)

ReadSucceeds ==
  /\ pc = "read" /\ Readable
  /\ rawValue' = plc /\ handler' = TRUE
  /\ pc' = IF MonitorChanges THEN "compare" ELSE "store"
  /\ UNCHANGED <<plc, link, cacheVars, notified, writerVars, consecutiveErrors,
                 currentDelay, lastValue, prevValue>>

(* At the limit the error is sent to errChan, which ends the session. *)
Degrades ==
  /\ pc = "degrade"
  /\ IF prevValue = NoValue THEN UNCHANGED cacheVars
     ELSE value' = prevValue /\ quality' = 0
  /\ pc' = IF consecutiveErrors >= MaxErrors THEN "done" ELSE "wait"
  /\ UNCHANGED <<plc, linkVars, notified, writerVars, consecutiveErrors, currentDelay,
                 lastValue, rawValue, prevValue>>

ComparesWithLast ==
  /\ pc = "compare"
  /\ pc' = IF CompareValues(lastValue, rawValue) THEN "wait" ELSE "store"
  /\ UNCHANGED <<plc, linkVars, cacheVars, notified, writerVars, consecutiveErrors,
                 currentDelay, lastValue, rawValue, prevValue>>

(* With MonitorChanges, a value that is in the cache already is not stored,  *)
(* nor published, nor remembered.                                            *)
Compares ==
  /\ pc = "compare"
  /\ pc' = IF CompareValues(value, rawValue) THEN "wait" ELSE "store"
  /\ UNCHANGED <<plc, linkVars, cacheVars, notified, writerVars, consecutiveErrors,
                 currentDelay, lastValue, rawValue, prevValue>>

(* The value is stored, and published if it is not the last one read. *)
Stores ==
  /\ pc = "store"
  /\ value' = rawValue /\ quality' = 100
  /\ lastValue' = rawValue
  /\ pc' = IF CompareValues(lastValue, rawValue) THEN "wait" ELSE "publish"
  /\ UNCHANGED <<plc, linkVars, notified, writerVars, consecutiveErrors, currentDelay,
                 rawValue, prevValue>>

StoreFails ==
  /\ pc = "store"
  /\ lastValue' = rawValue
  /\ pc' = "wait"
  /\ UNCHANGED <<plc, linkVars, cacheVars, notified, writerVars, consecutiveErrors,
                 currentDelay, rawValue, prevValue>>

Publishes ==
  /\ pc = "publish"
  /\ notified' = rawValue
  /\ pc' = "wait"
  /\ UNCHANGED <<plc, linkVars, cacheVars, writerVars, consecutiveErrors, currentDelay,
                 lastValue, rawValue, prevValue>>

(* Its context is cancelled; another session, whose client has a handler, or *)
(* another configuration of the tag starts another runTag.                   *)
Ends ==
  /\ pc = "wait"
  /\ pc' = "done"
  /\ UNCHANGED <<plc, linkVars, cacheVars, notified, writerVars, consecutiveErrors,
                 currentDelay, lastValue, rawValue, prevValue>>

Restarts ==
  /\ pc = "done" /\ link # "down"
  /\ pc' = "wait" /\ consecutiveErrors' = 0 /\ currentDelay' = 0
  /\ lastValue' = NoValue /\ rawValue' = NoValue /\ prevValue' = NoValue
  /\ handler' \in BOOLEAN /\ (handler => handler' = TRUE)
  /\ UNCHANGED <<plc, link, cacheVars, notified, writerVars>>

-----------------------------------------------------------------------------
(* WriteTagByName and WriteTagByID. *)

Writes(v) ==
  /\ writer = "idle" /\ link = "up"
  /\ plc' = v
  /\ writer' = "cache" /\ written' = v
  /\ UNCHANGED <<linkVars, cacheVars, notified, scanVars>>

WriterStores ==
  /\ writer = "cache"
  /\ value' = written /\ quality' = 100
  /\ writer' = "publish"
  /\ UNCHANGED <<plc, linkVars, notified, written, scanVars>>

WriterStoreFails ==
  /\ writer = "cache"
  /\ writer' = "idle"
  /\ UNCHANGED <<plc, linkVars, cacheVars, notified, written, scanVars>>

WriterPublishes ==
  /\ writer = "publish"
  /\ notified' = written
  /\ writer' = "idle"
  /\ UNCHANGED <<plc, linkVars, cacheVars, written, scanVars>>

-----------------------------------------------------------------------------
Errs  == PingFails \/ ReadFails \/ Degrades
Scans == PingSucceeds \/ ScansAtOnce \/ ReadSucceeds \/ Compares \/ Stores \/ Publishes

Environment ==
  \/ \E v \in Values : PLCChanges(v)
  \/ \E l \in Links : LinkChanges(l)
  \/ ClientCloses \/ OthersRedial

Writing ==
  \/ \E v \in Values : Writes(v)
  \/ WriterStores \/ WriterStoreFails \/ WriterPublishes

(* The tag with a healthy cache and nobody who writes it. *)
ScanNext == Environment \/ Errs \/ Scans \/ Ends \/ Restarts

RTNext == ScanNext \/ StoreFails \/ Writing

RTSpec == RTInit /\ [][RTNext]_rtVars

(* The goroutines are scheduled, a cancelled runner is replaced when the PLC *)
(* can be reached, and a cache that is tried again and again stores in the   *)
(* end.                                                                      *)
ScanFairness ==
  /\ WF_rtVars(Errs \/ PingSucceeds \/ ScansAtOnce \/ ReadSucceeds \/ Compares
             \/ Publishes \/ Stores \/ StoreFails)
  /\ SF_rtVars(Stores) /\ WF_rtVars(Restarts)

RTFairSpec == RTSpec /\ ScanFairness
                 /\ WF_rtVars(WriterStores \/ WriterStoreFails \/ WriterPublishes)

ScanSpec == RTInit /\ [][ScanNext]_rtVars /\ ScanFairness

-----------------------------------------------------------------------------
(* The types of the variables. *)
RTTypeOK ==
  /\ plc \in Values
  /\ link \in Links /\ handler \in BOOLEAN
  /\ value \in Values \cup {NoValue}
  /\ quality \in {0, 100}
  /\ notified \in Values \cup {NoValue}
  /\ pc \in {"wait", "read", "degrade", "compare", "store", "publish", "done"}
  /\ consecutiveErrors \in 0..MaxErrors
  /\ currentDelay \in 0..MaxDoublings
  /\ lastValue \in Values \cup {NoValue}
  /\ rawValue \in Values \cup {NoValue}
  /\ prevValue \in Values \cup {NoValue}
  /\ writer \in {"idle", "cache", "publish"}
  /\ written \in Values \cup {NoValue}

(* Once the PLC answers and its value is settled, the cache shows that value *)
(* for good, whatever writer, runner and failing cache did before.           *)
EventuallyFresh ==
  \A v \in Values :
    <>[](link = "up" /\ plc = v) /\ []<>(pc = "read") => <>[](value = v)

(* The cache entry holds the PLC's value, and so does whatever runner and    *)
(* writer have still to store in it.                                       *)
Fresh ==
  /\ value = plc
  /\ pc \in {"compare", "store"} => rawValue = plc
  /\ pc = "degrade" => prevValue \in {plc, NoValue}
  /\ writer = "cache" => written = plc

(* Then it does until the PLC's value changes: neither an error, which       *)
(* stores the entry again that was read before, nor two stores that cross   *)
(* bring an older value back.                                              *)
StaysFresh == [][Fresh => Fresh' \/ plc' # plc]_rtVars

(* tag_monitor.go, runTag: a second error in a row is one of a ping.  A PLC  *)
(* whose port answers never brings the count to the limit, however many     *)
(* reads fail, unless its client has no handler.                           *)
OnlyPingsAccumulate ==
  [][consecutiveErrors' > 1 /\ consecutiveErrors' # consecutiveErrors => ~Answers]_rtVars

(* A PLC that cannot be reached any more is reported: no runner keeps on.  A *)
(* client that nobody can ping, for want of a handler, is reported too: its *)
(* runner pings before it would dial anew, and does not ping for ever.     *)
UnreachableIsReported ==
  /\ <>[](link = "down") => <>[](pc = "done")
  /\ <>[]~Answers => []<>(pc = "done")

(* README.md:486, "Mudanças nos valores são publicadas para notificação":    *)
(* the subscribers are told of the value the tag settles on.  It holds of    *)
(* ScanSpec, without writers and with a healthy cache, not of RTFairSpec.    *)
ChangesAreNotified ==
  \A v \in Values :
    <>[](link = "up" /\ plc = v) /\ []<>(pc = "read") => <>[](notified = v)

(* tag_monitor.go:333, "Após 5 erros consecutivos, reporta erro crítico": a  *)
(* runner whose reads all fail from some time on reports it, and ends.       *)
FailuresAreReported == <>[](link = "deaf") => []<>(pc = "done")

(* tag_monitor.go:455, "Define qualidade baixa para o valor no cache para    *)
(* indicar problema": when the PLC answers again and its value is settled    *)
(* the entry is marked good again.                                           *)
QualityRecovers ==
  \A v \in Values :
    <>[](link = "up" /\ plc = v) /\ []<>(pc = "read") => <>[](quality = 100)
=============================================================================
