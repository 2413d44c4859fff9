-------------------------------- MODULE PLCStatus --------------------------------
(***************************************************************************)
(* The status of one listed PLC, which two places keep and four parties    *)
(* write without a common lock: the row of table plc_status and the cache  *)
(* key config:plc:<id>:status.                                             *)
(*                                                                         *)
(*   runPLC (manager.go) writes the key when it has connected, and key and *)
(*   row when it could not;                                                *)
(*   updatePLCStatus (status_monitor.go), one per session, writes the row  *)
(*   after every ping, and may outlive its session;                        *)
(*   a writer that cannot connect (writer.go) and ForcePingPLC write the   *)
(*   row;                                                                  *)
(*   the two goroutines that run SyncPLCs (simplefix.go) copy the row they *)
(*   read to the key.                                                      *)
(*                                                                         *)
(* Whether the writer writes tags, and which reads the key and the row     *)
(* forbid, is left out, as is the end of the PLC's listing (PLCManager).   *)
(*                                                                         *)
(* The definitions every component has (Init, Next, ...) are prefixed PS,  *)
(* so that RecoveryProofs can extend several components.                   *)
(***************************************************************************)
EXTENDS Naturals

CONSTANTS Workers,    \* runs of updatePLCStatus, at most one per session
          NoWorker,
          Syncers,    \* goroutines that run SyncPLCs
          Periodic,   \* the one that runs it every 30 s
          Threshold,  \* failed pings in a row that end a session (3)
          MaxFaults   \* bound: writes that fail, losses of the cache, and
                      \* closings of a client in use

ASSUME StatusAssumption ==
  /\ NoWorker \notin Workers
  /\ Periodic \in Syncers
  /\ Threshold \in Nat /\ Threshold > 1
  /\ MaxFaults \in Nat

Statuses == {"unknown", "online", "offline"}
Absent  == "absent"

VARIABLES
  reachable,   \* the PLC answers who dials it
  row, key,    \* the two places
  pc,          \* where runPLC is
  current,     \* the worker of its session
  errChan,     \* its session has an error to receive
  wpc,         \* where each worker is
  seen,        \* what its ping found
  failCount,
  cancelled,   \* workers whose session was left
  noHandler,   \* workers of a reachable PLC whose client has no handler
  probed,      \* what a writer or ForcePingPLC found and will store, or the
               \* writer was admitted and has not dialled
  copied,      \* the status each goroutine of the synchroniser has read
  faults

monitorVars == <<pc, current, errChan>>
workerVars  == <<wpc, seen, failCount, cancelled, noHandler>>
otherVars   == <<probed, copied>>
psVars == <<reachable, row, key, monitorVars, workerVars, otherVars, faults>>

Status == IF reachable THEN "online" ELSE "offline"
Running == {w \in Workers : wpc[w] # "none"}

PSInit ==
  /\ reachable \in BOOLEAN
  /\ row \in Statuses /\ key \in Statuses \cup {Absent}
  /\ pc = "connect" /\ current = NoWorker /\ errChan = FALSE
  /\ wpc = [w \in Workers |-> "none"]
  /\ seen = [w \in Workers |-> Absent]
  /\ failCount = [w \in Workers |-> 0]
  /\ cancelled = {} /\ noHandler = {}
  /\ probed = Absent
  /\ copied = [s \in Syncers |-> Absent]
  /\ faults = 0

-----------------------------------------------------------------------------
(* Reads dial a client anew whose session failed, and connect drops the    *)
(* old handler first: how many had tried and were left without a handler   *)
(* is known when the PLC returns.                                          *)
LinkChanges ==
  /\ reachable' = ~reachable
  /\ noHandler' \in IF reachable THEN {{}} ELSE SUBSET Running
  /\ UNCHANGED <<row, key, monitorVars, wpc, seen, failCount, cancelled, otherVars, faults>>

Faulty == faults < MaxFaults /\ faults' = faults + 1

(* DynamicCache falls back to an empty cache. *)
CacheLost ==
  /\ Faulty /\ key' = Absent
  /\ UNCHANGED <<reachable, row, monitorVars, workerVars, otherVars>>

(* The cleaning of the pool and GetTagValue close clients that sessions    *)
(* use; workers of several sessions may share one.                         *)
ClientCloses(W) ==
  /\ Faulty /\ reachable
  /\ W # {} /\ W \subseteq Running \ noHandler
  /\ noHandler' = noHandler \cup W
  /\ UNCHANGED <<reachable, row, key, monitorVars, wpc, seen, failCount, cancelled,
                 otherVars>>

(* A read dials a client anew that has no handler; nobody need read.       *)
Redials(w) ==
  /\ w \in noHandler
  /\ noHandler' = noHandler \ {w}
  /\ UNCHANGED <<reachable, row, key, monitorVars, wpc, seen, failCount, cancelled,
                 otherVars, faults>>

(* UpdatePLCStatus and SetValue; a failure is logged and nothing else. *)
WritesRow(s) == \/ row' = s /\ UNCHANGED faults
                \/ Faulty /\ UNCHANGED row
WritesKey(s) == \/ key' = s /\ UNCHANGED faults
                \/ Faulty /\ UNCHANGED key

-----------------------------------------------------------------------------
(* runPLC.  It dials at a tick of its retry ticker, at "connect". *)
Goes(from, to) == pc = from /\ pc' = to

CannotConnect ==
  /\ Goes("connect", "markKey") /\ ~reachable
  /\ UNCHANGED <<reachable, row, key, current, errChan, workerVars, otherVars, faults>>

MarksKeyOffline ==
  /\ Goes("markKey", "markRow")
  /\ WritesKey("offline")
  /\ UNCHANGED <<reachable, row, current, errChan, workerVars, otherVars>>

MarksRowOffline ==
  /\ Goes("markRow", "connect")
  /\ WritesRow("offline")
  /\ UNCHANGED <<reachable, key, current, errChan, workerVars, otherVars>>

Connects ==
  /\ Goes("connect", "connected") /\ reachable
  /\ UNCHANGED <<reachable, row, key, current, errChan, workerVars, otherVars, faults>>

MarksKeyOnline ==
  /\ Goes("connected", "start")
  /\ WritesKey("online")
  /\ UNCHANGED <<reachable, row, current, errChan, workerVars, otherVars>>

StartsSession(w) ==
  /\ Goes("start", "session") /\ wpc[w] = "none"
  /\ current' = w /\ errChan' = FALSE
  /\ wpc' = [wpc EXCEPT ![w] = "first"]
  /\ failCount' = [failCount EXCEPT ![w] = 0]
  /\ UNCHANGED <<reachable, row, key, seen, cancelled, noHandler, otherVars, faults>>

(* managePLCTags returns an error. *)
TagsFail ==
  /\ pc = "session" /\ ~errChan
  /\ errChan' = TRUE
  /\ UNCHANGED <<reachable, row, key, pc, current, workerVars, otherVars, faults>>

ToldToStop == IF wpc[current] = "none" THEN cancelled ELSE cancelled \cup {current}

(* clientCancel is called; the drain of two seconds is waited for at       *)
(* "connect" too.                                                          *)
SessionEnds ==
  /\ Goes("session", "connect") /\ errChan
  /\ cancelled' = ToldToStop
  /\ current' = NoWorker /\ errChan' = FALSE
  /\ UNCHANGED <<reachable, row, key, wpc, seen, failCount, noHandler, otherVars, faults>>

-----------------------------------------------------------------------------
(* updatePLCStatus. *)
(* Ping fails without a handler, and dials the port otherwise. *)
Pings(w) == reachable /\ w \notin noHandler

CountedFromOne(w) == IF Pings(w) THEN 0 ELSE 1
Counted(w) == IF Pings(w) THEN 0 ELSE failCount[w] + 1

(* The first ping, at once, and one at every tick. *)
PingsOf(w) ==
  /\ seen' = [seen EXCEPT ![w] = IF Pings(w) THEN "online" ELSE "offline"]
  /\ failCount' = [failCount EXCEPT ![w] = Counted(w)]
  /\ UNCHANGED <<reachable, row, key, monitorVars, cancelled, noHandler, otherVars, faults>>

FirstPing(w) ==
  /\ wpc[w] = "first" /\ wpc' = [wpc EXCEPT ![w] = "write"]
  /\ PingsOf(w)

PingsAtTick(w) ==
  /\ wpc[w] = "wait" /\ wpc' = [wpc EXCEPT ![w] = "write"]
  /\ PingsOf(w)

EndsWorker(w) ==
  /\ wpc' = [wpc EXCEPT ![w] = "none"]
  /\ failCount' = [failCount EXCEPT ![w] = 0]
  /\ cancelled' = cancelled \ {w}
  /\ noHandler' = noHandler \ {w}

(* The row is written whether the status changed or not; then the worker   *)
(* fails if the pings of a whole threshold did, which the code need not    *)
(* test after the first ping: Threshold > 1.                               *)
StoresStatus(w) ==
  /\ wpc[w] = "write"
  /\ WritesRow(seen[w])
  /\ seen' = [seen EXCEPT ![w] = Absent]
  /\ IF failCount[w] >= Threshold
     THEN /\ EndsWorker(w)
          /\ errChan' = (errChan \/ current = w)
     ELSE /\ wpc' = [wpc EXCEPT ![w] = "wait"]
          /\ UNCHANGED <<failCount, cancelled, noHandler, errChan>>
  /\ UNCHANGED <<reachable, key, pc, current, otherVars>>

(* The context of the session is done; a tick may still be taken instead. *)
WorkerStops(w) ==
  /\ wpc[w] = "wait" /\ w \in cancelled
  /\ EndsWorker(w)
  /\ UNCHANGED <<reachable, row, key, monitorVars, seen, otherVars, faults>>

-----------------------------------------------------------------------------
(* A writer reads that the PLC is recorded online, and dials it later.     *)
WriterAdmitted ==
  /\ probed = Absent /\ row = "online"
  /\ probed' = "admitted"
  /\ UNCHANGED <<reachable, row, key, monitorVars, workerVars, copied, faults>>

WriterConnects ==
  /\ probed = "admitted" /\ reachable
  /\ probed' = Absent
  /\ UNCHANGED <<reachable, row, key, monitorVars, workerVars, copied, faults>>

WriterCannotConnect ==
  /\ probed = "admitted" /\ ~reachable
  /\ probed' = "offline"
  /\ UNCHANGED <<reachable, row, key, monitorVars, workerVars, copied, faults>>

(* It pings whatever is recorded; what is found is stored later. *)
ForcePing ==
  /\ probed = Absent
  /\ probed' = Status
  /\ UNCHANGED <<reachable, row, key, monitorVars, workerVars, copied, faults>>

StoresProbe ==
  /\ probed \in {"online", "offline"}
  /\ WritesRow(probed)
  /\ probed' = Absent
  /\ UNCHANGED <<reachable, key, monitorVars, workerVars, copied>>

(* SyncPLCs reads the row, and some keys later stores what it read. *)
SyncReads(s) ==
  /\ copied[s] = Absent
  /\ copied' = [copied EXCEPT ![s] = row]
  /\ UNCHANGED <<reachable, row, key, monitorVars, workerVars, probed, faults>>


SyncStores(s) ==
  /\ copied[s] # Absent
  /\ WritesKey(copied[s])
  /\ copied' = [copied EXCEPT ![s] = Absent]
  /\ UNCHANGED <<reachable, row, monitorVars, workerVars, probed>>

-----------------------------------------------------------------------------
MonitorStep ==
  \/ CannotConnect \/ MarksKeyOffline \/ MarksRowOffline
  \/ Connects \/ MarksKeyOnline \/ \E w \in Workers : StartsSession(w)
  \/ SessionEnds
WorkerStep(w) == FirstPing(w) \/ PingsAtTick(w) \/ StoresStatus(w)

PSNext ==
  \/ LinkChanges \/ CacheLost \/ MonitorStep \/ TagsFail
  \/ \E W \in SUBSET Workers : ClientCloses(W)
  \/ \E w \in Workers : WorkerStep(w) \/ WorkerStops(w) \/ Redials(w)
  \/ WriterAdmitted \/ WriterConnects \/ WriterCannotConnect
  \/ ForcePing \/ StoresProbe
  \/ \E s \in Syncers : SyncReads(s) \/ SyncStores(s)

PSSpec == PSInit /\ [][PSNext]_psVars

(* Goroutines run, tickers tick, and select is fair between its ready      *)
(* cases; nobody need write, probe or be notified.                         *)
PSFairSpec ==
  /\ PSSpec
  /\ WF_psVars(MonitorStep) /\ WF_psVars(StoresProbe)
  /\ \A w \in Workers : WF_psVars(WorkerStep(w)) /\ SF_psVars(WorkerStops(w))
  /\ WF_psVars(SyncReads(Periodic)) /\ \A s \in Syncers : WF_psVars(SyncStores(s))

-----------------------------------------------------------------------------
(* The types of the variables; a monitor in its session has a worker. *)
PSTypeOK ==
  /\ reachable \in BOOLEAN
  /\ row \in Statuses /\ key \in Statuses \cup {Absent}
  /\ pc \in {"connect", "markKey", "markRow", "connected", "start", "session"}
  /\ current \in Workers \cup {NoWorker} /\ errChan \in BOOLEAN
  /\ wpc \in [Workers -> {"none", "first", "wait", "write"}]
  /\ seen \in [Workers -> {"online", "offline", Absent}]
  /\ failCount \in [Workers -> 0..Threshold]
  /\ cancelled \in SUBSET Workers /\ noHandler \in SUBSET Workers
  /\ probed \in {"online", "offline", "admitted", Absent}
  /\ copied \in [Syncers -> Statuses \cup {Absent}]
  /\ faults \in 0..MaxFaults
  /\ pc = "session" <=> current # NoWorker

(* A session is pinged for until it has an error to receive, and a worker   *)
(* that outlived its session has been told to stop: however sessions follow *)
(* each other, no second worker goes on for good.                          *)
WorkersWatch ==
  /\ pc = "session" /\ ~errChan => wpc[current] # "none"
  /\ \A w \in Workers : wpc[w] # "none" /\ w # current => w \in cancelled

(* Both places, and whatever somebody has still to store in them, agree with *)
(* the PLC, and so will the pings of every worker.                         *)
Settled ==
  /\ row = Status /\ key = Status
  /\ noHandler = {}
  /\ pc \notin (IF reachable THEN {"markKey", "markRow"} ELSE {"connected"})
  /\ \A w \in Workers : seen[w] \in {Status, Absent}
  /\ probed \in {Status, "admitted", Absent}
  /\ \A s \in Syncers : copied[s] \in {Status, Absent}

(* Then they agree until the PLC changes, the cache is lost or the client   *)
(* of a worker is closed: no order of the writes of four parties, failed    *)
(* ones among them, brings an old status back.                             *)
StaysSettled ==
  [][Settled => \/ Settled' \/ reachable' # reachable \/ key' = Absent
                \/ \E W \in SUBSET Workers : ClientCloses(W)]_psVars


(* No session goes on with a PLC that stays unreachable, whether its tags  *)
(* are read or not.                                                        *)
UnreachableEndsSession == <>[]~reachable => <>[](pc # "session")
=============================================================================
