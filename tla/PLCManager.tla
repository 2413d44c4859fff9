------------------------------- MODULE PLCManager -------------------------------
(***************************************************************************)
(* The lifecycle of the PLC monitors of internal/plcmanager/manager.go.    *)
(*                                                                         *)
(* Manager.Start launches one manager goroutine (runPLCManager).  Every    *)
(* 5 s it reads the list of active PLCs (cache key config:plcs:all, or the *)
(* database when the cache fails) and then, under Manager.mutex, cancels   *)
(* the monitors of delisted PLCs and starts one runPLC goroutine for every *)
(* listed PLC that has none.  A runPLC goroutine connects, starts two      *)
(* workers for the session (updatePLCStatus and managePLCTags), waits for  *)
(* an error of a worker or for its context, and retries.                   *)
(*                                                                         *)
(* A monitor identity stands for one run of runPLC; an identity is used    *)
(* again only when nothing of its former run is left.                      *)
(*                                                                         *)
(* Start also launches a watchdog, whose ticker the deferred Stop of       *)
(* startWatchdog has stopped: all it ever does is to wait for m.ctx.  Its  *)
(* share in Stop is that StopSucceeds may come late, as it may anyway.     *)
(***************************************************************************)
EXTENDS Naturals, FiniteSets

CONSTANTS PLCs,         \* database identifiers of PLCs
          Monitors,     \* identities of runPLC goroutines
          NoMonitor,    \* plcCancels has no entry
          NoPLC,        \* identity not used yet
          MaxSessions   \* bound: connections one runPLC establishes

ASSUME ManagerAssumption ==
  /\ NoMonitor \notin Monitors
  /\ NoPLC \notin PLCs
  /\ MaxSessions \in Nat

VARIABLES
  list,             \* what the next read of the PLC list returns, per PLC
  snapshot,         \* plcs, the list checkAndManagePLCs read
  manager,          \* where runPLCManager is
  rootDone,         \* m.ctx is cancelled
  stop,             \* where a call of Stop is
  poolLocked,       \* a caller of GetConnection has locked itself out with the
                    \* mutex of the pool held
  plcCancels,       \* m.plcCancels: the monitor whose cancel func is held
  plcOf,            \* the PLC a monitor was started for
  cancelled,        \* monitors whose own cancel func was called
  pc,               \* where each runPLC is
  session,          \* how many connections it has established
  clientCancelled,  \* <<monitor, session>>: clientCancel was called
  running,          \* <<monitor, session, kind>>: workers that have not returned
  errChan           \* workers whose error is buffered in the errChan that a
                    \* monitor in its session will receive from

managerVars == <<snapshot, manager, plcCancels, plcOf>>
monitorVars == <<cancelled, pc, session, clientCancelled>>
workerVars  == <<running, errChan>>
vars == <<list, rootDone, stop, poolLocked, managerVars, monitorVars, workerVars>>

Kinds    == {"status", "tags"}
Sessions == 1..MaxSessions
Workers  == Monitors \X Sessions \X Kinds
Listing  == {"absent", "no_address", "listed"}
Labels   == {"unborn", "loop", "connecting", "retry", "session", "drain",
             "finalWait", "stuck", "done"}
Unbuffered == 0
ErrChanCap == 2

(* A context is done when its own cancel func or a parent's was called. *)
Done(m)          == rootDone \/ m \in cancelled
ClientDone(m, s) == Done(m) \/ <<m, s>> \in clientCancelled

Alive(m)           == pc[m] \notin {"unborn", "done"}
SessionWorkers(m)  == {w \in running : w[1] = m /\ w[2] = session[m]}
SessionErrors(m)   == {w \in errChan : w[1] = m /\ w[2] = session[m]}
Free == {m \in Monitors : ~Alive(m) /\ \A w \in running : w[1] # m}

Init ==
  /\ list \in [PLCs -> Listing]
  /\ snapshot = [p \in PLCs |-> "absent"]
  /\ manager = "select"
  /\ rootDone = FALSE
  /\ stop = "no"
  /\ poolLocked = FALSE
  /\ plcCancels = [p \in PLCs |-> NoMonitor]
  /\ plcOf = [m \in Monitors |-> NoPLC]
  /\ cancelled = {}
  /\ pc = [m \in Monitors |-> "unborn"]
  /\ session = [m \in Monitors |-> 0]
  /\ clientCancelled = {}
  /\ running = {}
  /\ errChan = {}

-----------------------------------------------------------------------------
(* The environment: the list is rewritten by internal/configsync, main     *)
(* cancels the context that m.ctx descends from, and another caller of     *)
(* GetConnection (GetTagValue) may lock the pool up.                       *)

(* A bound: a PLC is listed while there are identities left to start.  Of  *)
(* a monitor that never ends nobody gets the identity back.                *)
Spare == Cardinality(Free) >= Cardinality(PLCs)

ListChanges(p, v) ==
  /\ v # list[p]
  /\ v = "listed" => Spare
  /\ list' = [list EXCEPT ![p] = v]
  /\ UNCHANGED <<rootDone, stop, poolLocked, managerVars, monitorVars, workerVars>>

MainCancels ==
  /\ ~rootDone
  /\ rootDone' = TRUE
  /\ UNCHANGED <<list, stop, poolLocked, managerVars, monitorVars, workerVars>>

PoolLocksUp ==
  /\ ~poolLocked
  /\ poolLocked' = TRUE
  /\ UNCHANGED <<list, rootDone, stop, managerVars, monitorVars, workerVars>>

-----------------------------------------------------------------------------
(* The manager goroutine. *)

(* The ticker case of the select; it may be taken after the context is done *)
(* (select chooses among the ready cases), and a failed read returns to it. *)
ReadList ==
  /\ manager = "select"
  /\ manager' = "process"
  /\ snapshot' = list
  /\ UNCHANGED <<list, rootDone, stop, poolLocked, plcCancels, plcOf, monitorVars, workerVars>>

Injections(S, T) == {f \in [S -> T] : \A a, b \in S : f[a] = f[b] => a = b}

(* Entries whose PLC is not in the list are cancelled and deleted. *)
Delisted == {p \in PLCs : plcCancels[p] # NoMonitor /\ snapshot[p] = "absent"}
(* Listed PLCs with an address and no entry get a monitor. *)
Starting == {p \in PLCs : plcCancels[p] = NoMonitor /\ snapshot[p] = "listed"}

(* The loops of processPLCs, f naming the goroutine a new context goes to. *)
EntryKept(f, p) == IF p \in Starting THEN f[p] ELSE plcCancels[p]
Entry(f, p) == IF p \in Delisted THEN NoMonitor ELSE EntryKept(f, p)

Owner(f, m) == IF \E p \in Starting : f[p] = m
               THEN CHOOSE p \in Starting : f[p] = m ELSE plcOf[m]

NotCancelled == {}
ToCancel == {plcCancels[p] : p \in Delisted}

ApplyList(f) ==
  LET born == {f[p] : p \in Starting} IN
  /\ plcCancels' = [p \in PLCs |-> Entry(f, p)]
  /\ plcOf' = [m \in Monitors |-> Owner(f, m)]
  /\ cancelled' = (cancelled \cup ToCancel) \ born
  /\ pc' = [m \in Monitors |-> IF m \in born THEN "loop" ELSE pc[m]]
  /\ session' = [m \in Monitors |-> IF m \in born THEN 0 ELSE session[m]]
  /\ clientCancelled' = {c \in clientCancelled : c[1] \notin born}

ProcessPLCs ==
  /\ manager = "process"
  /\ manager' = "select"
  /\ snapshot' = [p \in PLCs |-> "absent"]
  /\ \E f \in Injections(Starting, Free) : ApplyList(f)
  /\ UNCHANGED <<list, rootDone, stop, poolLocked, workerVars>>

(* The context case of the select: every cancel func still held is called. *)
ManagerExits ==
  /\ manager = "select"
  /\ rootDone
  /\ manager' = "done"
  /\ cancelled' = cancelled \cup {plcCancels[p] : p \in
                      {q \in PLCs : plcCancels[q] # NoMonitor}}
  /\ UNCHANGED <<list, snapshot, rootDone, stop, poolLocked, plcCancels, plcOf, pc,
                 session, clientCancelled, workerVars>>

(* Stop cancels m.ctx and waits for m.wg, for five seconds at most. *)
Stop ==
  /\ stop = "no"
  /\ stop' = "waiting"
  /\ rootDone' = TRUE
  /\ UNCHANGED <<list, poolLocked, managerVars, monitorVars, workerVars>>

StopIgnoresManager ==
  /\ stop = "waiting"
  /\ \A m \in Monitors : ~Alive(m)
  /\ stop' = "succeeded"
  /\ UNCHANGED <<list, rootDone, poolLocked, managerVars, monitorVars, workerVars>>

StopSucceeds ==
  /\ stop = "waiting"
  /\ manager = "done"
  /\ \A m \in Monitors : ~Alive(m)
  /\ stop' = "succeeded"
  /\ UNCHANGED <<list, rootDone, poolLocked, managerVars, monitorVars, workerVars>>

StopTimesOut ==
  /\ stop = "waiting"
  /\ stop' = "timeout"
  /\ UNCHANGED <<list, rootDone, poolLocked, managerVars, monitorVars, workerVars>>

-----------------------------------------------------------------------------
(* One runPLC goroutine.  A monitor that leaves its session never receives *)
(* from that session's errChan again, which is dropped here.               *)

Goto(m, from, to) ==
  /\ pc[m] = from
  /\ pc' = [pc EXCEPT ![m] = to]

(* Steps that only move the goroutine. *)
Move(m, from, to) ==
  /\ Goto(m, from, to)
  /\ UNCHANGED <<list, rootDone, stop, poolLocked, managerVars, cancelled, session,
                 clientCancelled, workerVars>>

ConnectAnyway(m) == Move(m, "loop", "connecting")
LoopExits(m)    == Done(m) /\ Move(m, "loop", "done")
(* In every twelfth round a row that is still active first replaces         *)
(* plcConfig, whose values are left out here; for any other row plcConfig   *)
(* stays, and the monitor goes on with an inactive PLC.                     *)
BeginConnect(m) == ~Done(m) /\ Move(m, "loop", "connecting")
ConnectFails(m) == Move(m, "connecting", "retry")
RetryTick(m)    == Move(m, "retry", "loop")
RetryExits(m)   == Done(m) /\ Move(m, "retry", "done")

(* A call of GetConnection locks itself out with the mutex of the pool held. *)
ConnectLocksUp(m) ==
  /\ ~poolLocked
  /\ poolLocked' = TRUE
  /\ Goto(m, "connecting", "stuck")
  /\ UNCHANGED <<list, rootDone, stop, managerVars, cancelled, session,
                 clientCancelled, workerVars>>

(* The context is not looked at again before the workers are started. *)
ConnectSucceeds(m) ==
  /\ ~poolLocked
  /\ session[m] < MaxSessions
  /\ Goto(m, "connecting", "session")
  /\ session' = [session EXCEPT ![m] = @ + 1]
  /\ running' = running \cup ({m} \X {session[m] + 1} \X Kinds)
  /\ UNCHANGED <<list, rootDone, stop, poolLocked, managerVars, cancelled, clientCancelled,
                 errChan>>

SessionErrorKeepsContext(m) ==
  /\ Goto(m, "session", "drain")
  /\ SessionErrors(m) # {}
  /\ errChan' = errChan \ SessionErrors(m)
  /\ UNCHANGED <<list, rootDone, stop, poolLocked, managerVars, cancelled, session,
                 clientCancelled, running>>

SessionError(m) ==
  /\ Goto(m, "session", "drain")
  /\ SessionErrors(m) # {}
  /\ errChan' = errChan \ SessionErrors(m)
  /\ clientCancelled' = clientCancelled \cup {<<m, session[m]>>}
  /\ UNCHANGED <<list, rootDone, stop, poolLocked, managerVars, cancelled, session, running>>

SessionCancelled(m) ==
  /\ Done(m)
  /\ Goto(m, "session", "finalWait")
  /\ errChan' = errChan \ SessionErrors(m)
  /\ clientCancelled' = clientCancelled \cup {<<m, session[m]>>}
  /\ UNCHANGED <<list, rootDone, stop, poolLocked, managerVars, cancelled, session, running>>

(* After an error the workers have returned, or two seconds have passed, and *)
(* the connection has been released, which takes the mutex of the pool.     *)
DrainEnds(m) == ~poolLocked /\ Move(m, "drain", "retry")

(* After a cancellation: clientWg.Wait without a timeout, then the release. *)
FinalWaitEnds(m) ==
  /\ ~poolLocked
  /\ SessionWorkers(m) = {}
  /\ Move(m, "finalWait", "done")

-----------------------------------------------------------------------------
(* The two worker goroutines of a session. *)

InSession(m, s) == pc[m] = "session" /\ session[m] = s

(* A worker returns an error and sends it without blocking: a full errChan *)
(* drops it.                                                               *)
WorkerFails(w) ==
  /\ w \in running
  /\ running' = running \ {w}
  /\ errChan' = IF /\ InSession(w[1], w[2])
                   /\ Cardinality(SessionErrors(w[1])) < ErrChanCap
                THEN errChan \cup {w} ELSE errChan
  /\ UNCHANGED <<list, rootDone, stop, poolLocked, managerVars, monitorVars>>

(* A worker sees its context done and returns nil. *)
WorkerStops(w) ==
  /\ w \in running
  /\ ClientDone(w[1], w[2])
  /\ running' = running \ {w}
  /\ UNCHANGED <<list, rootDone, stop, poolLocked, managerVars, monitorVars, errChan>>

-----------------------------------------------------------------------------
MonitorStep(m) ==
  \/ LoopExits(m)
  \/ BeginConnect(m)
  \/ ConnectFails(m)
  \/ ConnectLocksUp(m)
  \/ ConnectSucceeds(m)
  \/ RetryTick(m)
  \/ RetryExits(m)
  \/ SessionError(m)
  \/ SessionCancelled(m)
  \/ DrainEnds(m)
  \/ FinalWaitEnds(m)

ManagerStep == ReadList \/ ProcessPLCs \/ ManagerExits

Next ==
  \/ \E p \in PLCs, v \in Listing : ListChanges(p, v)
  \/ MainCancels
  \/ PoolLocksUp
  \/ ManagerStep
  \/ Stop
  \/ StopSucceeds
  \/ StopTimesOut
  \/ \E m \in Monitors : MonitorStep(m)
  \/ \E w \in running : WorkerFails(w) \/ WorkerStops(w)

Spec == Init /\ [][Next]_vars

(* Every goroutine that can run is scheduled, and select is fair between   *)
(* its ready cases (ManagerExits).  A connection comes to its end as long   *)
(* as nobody has locked the pool up: no step is demanded of a monitor that  *)
(* connects after that, though its dial may still fail.                     *)
CanProceed(m) == poolLocked => pc[m] # "connecting"

Fairness ==
  /\ WF_vars(ReadList) /\ WF_vars(ProcessPLCs) /\ SF_vars(ManagerExits)
  /\ \A m \in Monitors : WF_vars(CanProceed(m) /\ MonitorStep(m))
  /\ \A w \in Workers : WF_vars(WorkerStops(w))

FairSpec == Spec /\ Fairness

-----------------------------------------------------------------------------
(* The types of the variables; an identity without a PLC has never run. *)
TypeOK ==
  /\ list \in [PLCs -> Listing]
  /\ snapshot \in [PLCs -> Listing]
  /\ manager \in {"select", "process", "done"}
  /\ rootDone \in BOOLEAN
  /\ stop \in {"no", "waiting", "succeeded", "timeout"}
  /\ poolLocked \in BOOLEAN
  /\ plcCancels \in [PLCs -> Monitors \cup {NoMonitor}]
  /\ plcOf \in [Monitors -> PLCs \cup {NoPLC}]
  /\ cancelled \in SUBSET Monitors
  /\ pc \in [Monitors -> Labels]
  /\ session \in [Monitors -> 0..MaxSessions]
  /\ clientCancelled \in SUBSET (Monitors \X Sessions)
  /\ running \in SUBSET Workers
  /\ errChan \in SUBSET Workers
  /\ \A m \in Monitors : pc[m] # "unborn" => plcOf[m] \in PLCs

(* A monitor that nobody has cancelled is the one plcCancels holds for its *)
(* PLC: it can still be stopped, and a PLC never has two of them.          *)
NoOrphanMonitor ==
  \A m \in Monitors : Alive(m) /\ ~Done(m) => plcCancels[plcOf[m]] = m

(* A worker whose context is not done belongs to the current session of a   *)
(* registered monitor that is waiting on that session: no goroutine goes on *)
(* reading a PLC unattended, and a PLC is never read by two sessions.       *)
WorkersSupervised ==
  \A w \in running :
    ~ClientDone(w[1], w[2]) =>
      /\ pc[w[1]] = "session"
      /\ w[2] = session[w[1]]
      /\ plcCancels[plcOf[w[1]]] = w[1]

(* The send to errChan never loses the wake-up: a monitor that waits on a *)
(* session one of whose workers has returned has an error to receive.     *)
FailureWakesMonitor ==
  \A m \in Monitors :
    pc[m] = "session" /\ ~Done(m) =>
      \/ SessionErrors(m) # {}
      \/ \A k \in Kinds : <<m, session[m], k>> \in running

(* An entry of plcCancels stands for a monitor that runs: runPLC returns    *)
(* only when it is cancelled, else its PLC would be taken for monitored by  *)
(* every later processPLCs and never be started again.                     *)
EntriesAreLive ==
  \A p \in PLCs :
    plcCancels[p] # NoMonitor /\ ~rootDone =>
      /\ plcOf[plcCancels[p]] = p
      /\ Alive(plcCancels[p]) /\ plcCancels[p] \notin cancelled

(* Once Stop has reported success no monitor runs and none starts. *)
StopIsFinal ==
  stop = "succeeded" => /\ manager = "done"
                        /\ \A m \in Monitors : ~Alive(m)

(* manager.go:82, "Stop para todas as goroutines de monitoramento": when   *)
(* Stop has reported success no monitoring goroutine is left, workers      *)
(* included.                                                               *)
StopLeavesNothing == stop = "succeeded" => running = {}

(* The monitors that need a call of the pool after somebody has locked it up *)
(* (connection_pool.go:121): none of these calls returns, but for a dial     *)
(* that fails.                                                               *)
Caught(m) == poolLocked /\ pc[m] \in {"connecting", "stuck", "drain", "finalWait"}

(* Cancelling m.ctx ends the manager and every monitor, but for those that *)
(* are caught in the pool.                                                 *)
CancelEndsAll ==
  rootDone ~> (manager = "done" /\ \A m \in Monitors : Alive(m) => Caught(m))

Monitored(p) == \E m \in Monitors : plcOf[m] = p /\ Alive(m) /\ ~Done(m)

(* What one processPLCs achieves, whatever ran before: the listed PLCs of   *)
(* the list it works with are monitored and the others are not.  No other   *)
(* step but the cancellation of m.ctx takes a PLC its monitor.             *)
PassFollowsList ==
  [][\A p \in PLCs :
       /\ ProcessPLCs /\ ~rootDone =>
            /\ snapshot[p] = "listed" => Monitored(p)'
            /\ snapshot[p] = "absent" => ~Monitored(p)'
       /\ Monitored(p) /\ ~Monitored(p)' =>
            rootDone' \/ (ProcessPLCs /\ snapshot[p] = "absent")]_vars

(* The list is followed: a PLC that stays out of it ends up without any    *)
(* monitor but those caught in the pool, and one that stays in it with one  *)
(* that nobody has cancelled (it may be caught too), unless m.ctx is done.  *)
(* processPLCs may always work with an older list.                          *)
ListIsFollowed ==
  \A p \in PLCs :
    /\ <>[](list[p] = "absent") =>
         <>[](\A m \in Monitors : plcOf[m] = p /\ Alive(m) => Caught(m))
    /\ <>[](list[p] = "listed") =>
         <>[](rootDone \/ Monitored(p))
=============================================================================
