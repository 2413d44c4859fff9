----------------------------- MODULE PLCManagerProofs -----------------------------
(***************************************************************************)
(* Safety of the PLC manager for every set of PLCs and monitors and every  *)
(* number of sessions.                                                     *)
(***************************************************************************)
EXTENDS PLCManager, FiniteSetTheorems, TLAPS

USE DEF Kinds, Listing, Labels

(* A session's context that nobody cancelled is the one its monitor waits *)
(* on; this part needs no assumption on the monitor's own context.        *)
LiveSession ==
  \A w \in running :
    <<w[1], w[2]>> \notin clientCancelled =>
      pc[w[1]] = "session" /\ w[2] = session[w[1]]

(* clientCancel is called when the monitor leaves the session, never before. *)
CancelAfterSession ==
  \A m \in Monitors, s \in Sessions :
    <<m, s>> \in clientCancelled =>
      s <= session[m] /\ (pc[m] = "session" => s # session[m])

(* Sessions are numbered from 1. *)
SessionHasNumber == \A m \in Monitors : pc[m] = "session" => session[m] # 0

IInv ==
  /\ TypeOK
  /\ SessionHasNumber
  /\ NoOrphanMonitor
  /\ LiveSession
  /\ CancelAfterSession
  /\ FailureWakesMonitor
  /\ StopIsFinal

-----------------------------------------------------------------------------
(* A step of the manager that starts and cancels monitors. *)
LEMMA ProcessStep == IInv /\ ProcessPLCs => IInv'
<1> SUFFICES ASSUME IInv, ProcessPLCs PROVE IInv'
  OBVIOUS
<1>1. PICK f \in Injections(Starting, Free) : ApplyList(f)
  BY DEF ProcessPLCs
<1> DEFINE born == {f[p] : p \in Starting}
<1>2. f \in [Starting -> Monitors] /\ Starting \subseteq PLCs /\ Delisted \subseteq PLCs
  BY DEF Injections, Free, Starting, Delisted
<1>3. \A m \in born :
        /\ m \in Free
        /\ (CHOOSE p \in Starting : f[p] = m) \in Starting
        /\ f[CHOOSE p \in Starting : f[p] = m] = m
  BY <1>2 DEF Injections
<1>4. born \subseteq Monitors /\ Starting \cap Delisted = {}
  BY <1>2 DEF Starting, Delisted
<1>5. TypeOK'
  <2> USE DEF TypeOK, IInv
  <2>1. plcOf' \in [Monitors -> PLCs \cup {NoPLC}]
    BY <1>1, <1>2, <1>3 DEF ApplyList, Entry, EntryKept, Owner, ToCancel
  <2>2. plcCancels' \in [PLCs -> Monitors \cup {NoMonitor}]
    BY <1>1, <1>2 DEF ApplyList, Entry, EntryKept, Owner, ToCancel
  <2>3. cancelled' \in SUBSET Monitors
    BY <1>1 DEF Delisted, ApplyList, ToCancel
  <2>4. pc' \in [Monitors -> Labels] /\ session' \in [Monitors -> 0..MaxSessions]
    BY <1>1, ManagerAssumption DEF ApplyList, Entry, EntryKept, Owner, ToCancel
  <2>5. clientCancelled' \in SUBSET (Monitors \X Sessions)
    BY <1>1 DEF ApplyList, Entry, EntryKept, Owner, ToCancel
  <2>6. \A m \in Monitors : pc'[m] # "unborn" => plcOf'[m] \in PLCs
    BY <1>1, <1>2, <1>3 DEF ApplyList, Entry, EntryKept, Owner, ToCancel
  <2> QED
    BY <2>1, <2>2, <2>3, <2>4, <2>5, <2>6 DEF ProcessPLCs, workerVars
<1>6. NoOrphanMonitor'
  <2> SUFFICES ASSUME NEW m \in Monitors, Alive(m)', ~Done(m)'
               PROVE  plcCancels'[plcOf'[m]] = m
    BY DEF NoOrphanMonitor
  <2>1. CASE m \in born
    <3> DEFINE q == CHOOSE p \in Starting : f[p] = m
    <3>1. plcOf'[m] = q /\ q \in PLCs /\ q \in Starting /\ q \notin Delisted /\ f[q] = m
      BY <1>1, <1>2, <1>3, <1>4, <2>1 DEF ApplyList, Entry, EntryKept, Owner, ToCancel
    <3> QED
      BY <1>1, <3>1 DEF ApplyList, Entry, EntryKept, Owner, ToCancel
  <2>2. CASE m \notin born
    <3>1. Alive(m) /\ ~Done(m) /\ plcOf'[m] = plcOf[m]
      BY <1>1, <2>2 DEF ApplyList, Entry, EntryKept, Owner, ToCancel, Alive, Done, ProcessPLCs
    <3>2. plcCancels[plcOf[m]] = m /\ plcOf[m] \in PLCs
      BY <3>1 DEF IInv, NoOrphanMonitor, TypeOK, Alive
    <3>3. plcOf[m] \notin Delisted
      BY <1>1, <2>2, <3>2 DEF ApplyList, Entry, EntryKept, Owner, ToCancel, Done
    <3>4. plcOf[m] \notin Starting
      BY <3>2, ManagerAssumption DEF Starting
    <3> QED
      BY <1>1, <3>1, <3>2, <3>3, <3>4 DEF ApplyList, Entry, EntryKept, Owner, ToCancel
  <2> QED
    BY <2>1, <2>2
<1>7. LiveSession'
  <2> SUFFICES ASSUME NEW w \in running, <<w[1], w[2]>> \notin clientCancelled'
               PROVE  pc'[w[1]] = "session" /\ w[2] = session'[w[1]]
    BY DEF LiveSession, ProcessPLCs, workerVars
  <2>1. w \in Workers /\ w[1] \in Monitors /\ w[1] \notin born
    BY <1>3 DEF IInv, TypeOK, Free, Workers
  <2>2. <<w[1], w[2]>> \notin clientCancelled
    BY <1>1, <2>1 DEF ApplyList, Entry, EntryKept, Owner, ToCancel
  <2> QED
    BY <1>1, <2>1, <2>2 DEF ApplyList, Entry, EntryKept, Owner, ToCancel, IInv, LiveSession
<1>8. CancelAfterSession'
  BY <1>1 DEF ApplyList, Entry, EntryKept, Owner, ToCancel, IInv, CancelAfterSession
<1>9. FailureWakesMonitor'
  <2> SUFFICES ASSUME NEW m \in Monitors, pc'[m] = "session", ~Done(m)'
               PROVE  \/ SessionErrors(m)' # {}
                      \/ \A k \in Kinds : <<m, session'[m], k>> \in running'
    BY DEF FailureWakesMonitor
  <2>1. m \notin born /\ pc[m] = "session" /\ session'[m] = session[m] /\ ~Done(m)
    BY <1>1 DEF ApplyList, Entry, EntryKept, Owner, ToCancel, Done, ProcessPLCs
  <2>2. SessionErrors(m)' = SessionErrors(m) /\ running' = running
    BY <2>1 DEF SessionErrors, ProcessPLCs, workerVars
  <2> QED
    BY <2>1, <2>2 DEF IInv, FailureWakesMonitor
<1>10. StopIsFinal'
  BY DEF IInv, StopIsFinal, ProcessPLCs
<1>11. SessionHasNumber'
  BY <1>1 DEF ApplyList, Entry, EntryKept, Owner, ToCancel, IInv, SessionHasNumber
<1> QED
  BY <1>5, <1>6, <1>7, <1>8, <1>9, <1>10, <1>11 DEF IInv

(* The other steps of the manager, of Stop and of the environment. *)
LEMMA ControlStep ==
  ASSUME IInv,
         \/ \E p \in PLCs, v \in Listing : ListChanges(p, v)
         \/ MainCancels \/ PoolLocksUp \/ ReadList \/ ManagerExits
         \/ Stop \/ StopSucceeds \/ StopTimesOut
  PROVE  IInv'
<1> USE DEF ListChanges, MainCancels, PoolLocksUp, ReadList, ManagerExits, Stop,
            StopSucceeds, StopTimesOut, managerVars, monitorVars, workerVars
<1>1. TypeOK'
  <2>1. list' \in [PLCs -> Listing] /\ snapshot' \in [PLCs -> Listing]
    BY DEF IInv, TypeOK
  <2>2. cancelled' \in SUBSET Monitors
    BY DEF IInv, TypeOK
  <2>3. /\ manager' \in {"select", "process", "done"}
        /\ rootDone' \in BOOLEAN
        /\ stop' \in {"no", "waiting", "succeeded", "timeout"}
        /\ poolLocked' \in BOOLEAN
    BY DEF IInv, TypeOK
  <2> QED
    BY <2>1, <2>2, <2>3 DEF IInv, TypeOK
<1>2. UNCHANGED <<plcCancels, plcOf, pc, session, clientCancelled, running, errChan>>
  OBVIOUS
<1>3. \A m \in Monitors : Done(m) => Done(m)'
  BY DEF Done
<1>4. NoOrphanMonitor'
  BY <1>2, <1>3 DEF IInv, NoOrphanMonitor, Alive
<1>5. LiveSession' /\ CancelAfterSession'
  BY <1>2 DEF IInv, LiveSession, CancelAfterSession
<1>6. FailureWakesMonitor'
  BY <1>2, <1>3 DEF IInv, FailureWakesMonitor, SessionErrors
<1>7. StopIsFinal' /\ SessionHasNumber'
  BY <1>2 DEF IInv, StopIsFinal, SessionHasNumber, Alive
<1> QED
  BY <1>1, <1>4, <1>5, <1>6, <1>7 DEF IInv

(* The steps of a monitor that only move it between its labels. *)
LEMMA MoveStep ==
  ASSUME IInv, NEW m \in Monitors,
         \/ LoopExits(m) \/ BeginConnect(m) \/ ConnectFails(m) \/ ConnectLocksUp(m)
         \/ RetryTick(m) \/ RetryExits(m) \/ DrainEnds(m) \/ FinalWaitEnds(m)
  PROVE  IInv'
<1> USE DEF Move, Goto, managerVars, workerVars
<1>1. PICK from \in {"loop", "connecting", "retry", "drain", "finalWait"},
           to \in {"loop", "connecting", "stuck", "retry", "done"} :
        /\ Goto(m, from, to) /\ (to = "done" => Done(m) \/ from = "finalWait")
        /\ UNCHANGED <<list, rootDone, stop, managerVars, cancelled, session,
                       clientCancelled, workerVars>>
        /\ poolLocked' \in {poolLocked, TRUE}
  BY DEF LoopExits, BeginConnect, ConnectFails, ConnectLocksUp, RetryTick, RetryExits,
         DrainEnds, FinalWaitEnds
<1>2. TypeOK'
  BY <1>1 DEF IInv, TypeOK
<1>3. \A n \in Monitors : (Done(n) <=> Done(n)') /\ (Alive(n)' => Alive(n))
  BY <1>1 DEF IInv, TypeOK, Done, Alive
<1>4. NoOrphanMonitor'
  BY <1>1, <1>3 DEF IInv, NoOrphanMonitor
<1>5. LiveSession' /\ CancelAfterSession'
  BY <1>1 DEF IInv, TypeOK, LiveSession, CancelAfterSession, Workers
<1>6. FailureWakesMonitor'
  BY <1>1, <1>3 DEF IInv, TypeOK, FailureWakesMonitor, SessionErrors
<1>7. StopIsFinal' /\ SessionHasNumber'
  BY <1>1, <1>3 DEF IInv, TypeOK, StopIsFinal, SessionHasNumber
<1> QED
  BY <1>2, <1>4, <1>5, <1>6, <1>7 DEF IInv

(* A connection: two workers under a fresh client context. *)
LEMMA ConnectStep == ASSUME IInv, NEW m \in Monitors, ConnectSucceeds(m) PROVE IInv'
<1> USE DEF ConnectSucceeds, Goto, managerVars
<1>1. session[m] + 1 \in Sessions /\ session[m] \in Nat
  BY ManagerAssumption DEF IInv, TypeOK, Sessions
<1>2. TypeOK'
  <2>1. running' \in SUBSET Workers
    BY <1>1 DEF IInv, TypeOK, Workers
  <2>2. session' \in [Monitors -> 0..MaxSessions]
    BY <1>1, ManagerAssumption DEF IInv, TypeOK
  <2> QED
    BY <2>1, <2>2 DEF IInv, TypeOK
<1>3. \A n \in Monitors : (Done(n) <=> Done(n)') /\ (Alive(n)' <=> Alive(n))
  BY DEF IInv, TypeOK, Done, Alive
<1>4. NoOrphanMonitor'
  BY <1>3 DEF IInv, NoOrphanMonitor
<1>5. LiveSession'
  <2> SUFFICES ASSUME NEW w \in running', <<w[1], w[2]>> \notin clientCancelled
               PROVE  pc'[w[1]] = "session" /\ w[2] = session'[w[1]]
    BY DEF LiveSession
  <2>1. CASE w \in running
    BY <2>1 DEF IInv, LiveSession, TypeOK, Workers
  <2>2. CASE w \in {m} \X {session[m] + 1} \X Kinds
    BY <2>2 DEF IInv, TypeOK
  <2> QED
    BY <2>1, <2>2
<1>6. CancelAfterSession'
  <2> SUFFICES ASSUME NEW n \in Monitors, NEW s \in Sessions,
                      <<n, s>> \in clientCancelled
               PROVE  s <= session'[n] /\ (pc'[n] = "session" => s # session'[n])
    BY DEF CancelAfterSession
  <2>1. s <= session[n] /\ (pc[n] = "session" => s # session[n])
    BY DEF IInv, CancelAfterSession
  <2> QED
    BY <1>1, <2>1 DEF IInv, TypeOK, Sessions
<1>7. FailureWakesMonitor'
  BY <1>3 DEF IInv, TypeOK, FailureWakesMonitor, SessionErrors
<1>8. StopIsFinal' /\ SessionHasNumber'
  BY <1>1, <1>3 DEF IInv, TypeOK, StopIsFinal, SessionHasNumber
<1> QED
  BY <1>2, <1>4, <1>5, <1>6, <1>7, <1>8 DEF IInv

(* A monitor leaves its session and cancels the session's context. *)
LEMMA LeaveStep ==
  ASSUME IInv, NEW m \in Monitors, SessionError(m) \/ SessionCancelled(m)
  PROVE  IInv'
<1> USE DEF SessionError, SessionCancelled, Goto, managerVars
<1>1. session[m] \in Nat /\ session' = session /\ pc[m] = "session"
      /\ pc'[m] # "session" /\ pc'[m] # "done" /\ pc'[m] # "unborn"
  BY DEF IInv, TypeOK
<1>2. session[m] \in Sessions
  <2>1. session[m] # 0
    BY <1>1 DEF IInv, SessionHasNumber
  <2> QED
    BY <1>1, <2>1 DEF IInv, TypeOK, Sessions
<1>3. TypeOK'
  BY <1>2 DEF IInv, TypeOK, SessionErrors
<1>4. \A n \in Monitors : (Done(n) <=> Done(n)') /\ (Alive(n)' <=> Alive(n))
  BY DEF IInv, TypeOK, Done, Alive
<1>5. NoOrphanMonitor'
  BY <1>4 DEF IInv, NoOrphanMonitor
<1>6. LiveSession' /\ CancelAfterSession'
  BY <1>1 DEF IInv, TypeOK, LiveSession, CancelAfterSession, Workers, Sessions
<1>7. FailureWakesMonitor'
  BY <1>1, <1>4 DEF IInv, TypeOK, FailureWakesMonitor, SessionErrors
<1>8. StopIsFinal' /\ SessionHasNumber'
  BY <1>1, <1>4 DEF IInv, TypeOK, StopIsFinal, SessionHasNumber
<1> QED
  BY <1>3, <1>5, <1>6, <1>7, <1>8 DEF IInv

(* A worker returns, with or without an error. *)
LEMMA WorkerStep ==
  ASSUME IInv, NEW w \in running, WorkerFails(w) \/ WorkerStops(w)
  PROVE  IInv'
<1> USE DEF managerVars, monitorVars
<1>1. UNCHANGED <<rootDone, stop, plcCancels, plcOf, manager, cancelled, pc, session,
                  clientCancelled>>
      /\ running' = running \ {w} /\ w \in Workers
  BY DEF WorkerFails, WorkerStops, IInv, TypeOK
<1>2. TypeOK'
  BY <1>1 DEF WorkerFails, WorkerStops, IInv, TypeOK
<1>3. NoOrphanMonitor' /\ LiveSession' /\ CancelAfterSession' /\ StopIsFinal'
      /\ SessionHasNumber'
  BY <1>1 DEF IInv, NoOrphanMonitor, LiveSession, CancelAfterSession, StopIsFinal,
              SessionHasNumber, Alive, Done
<1>4. FailureWakesMonitor'
  <2> SUFFICES ASSUME NEW m \in Monitors, pc[m] = "session", ~Done(m)
               PROVE  \/ SessionErrors(m)' # {}
                      \/ \A k \in Kinds : <<m, session[m], k>> \in running'
    BY <1>1 DEF FailureWakesMonitor, Done
  <2>1. \/ SessionErrors(m) # {}
        \/ \A k \in Kinds : <<m, session[m], k>> \in running
    BY DEF IInv, FailureWakesMonitor
  <2>2. SessionErrors(m) \subseteq SessionErrors(m)'
    BY <1>1 DEF WorkerFails, WorkerStops, SessionErrors
  <2>3. CASE WorkerStops(w)
    <3>1. <<m, session[m]>> \notin clientCancelled
      BY DEF IInv, CancelAfterSession, TypeOK
    <3>2. w # <<m, session[m], "status">> /\ w # <<m, session[m], "tags">>
      BY <2>3, <3>1 DEF WorkerStops, ClientDone
    <3> QED
      BY <1>1, <2>1, <2>2, <3>2
  <2>4. CASE WorkerFails(w)
    <3>1. CASE w[1] = m /\ w[2] = session[m]
      <4>1. InSession(w[1], w[2])
        BY <3>1 DEF InSession
      <4>2. CASE Cardinality(SessionErrors(m)) < ErrChanCap
        BY <1>1, <2>4, <3>1, <4>1, <4>2 DEF WorkerFails, SessionErrors
      <4>3. CASE ~(Cardinality(SessionErrors(m)) < ErrChanCap)
        <5>1. SessionErrors(m) # {}
          BY <4>3, FS_EmptySet DEF ErrChanCap
        <5> QED
          BY <2>2, <5>1
      <4> QED
        BY <4>2, <4>3
    <3>2. CASE ~(w[1] = m /\ w[2] = session[m])
      BY <1>1, <2>1, <2>2, <3>2
    <3> QED
      BY <3>1, <3>2
  <2> QED
    BY <2>3, <2>4
<1> QED
  BY <1>2, <1>3, <1>4 DEF IInv

-----------------------------------------------------------------------------
(* The invariant holds initially. *)
LEMMA Initially == Init => IInv
<1> SUFFICES ASSUME Init PROVE IInv
  OBVIOUS
<1>1. TypeOK
  <2>1. /\ session \in [Monitors -> 0..MaxSessions]
        /\ pc \in [Monitors -> Labels]
        /\ plcOf \in [Monitors -> PLCs \cup {NoPLC}]
    BY ManagerAssumption DEF Init
  <2>2. /\ snapshot \in [PLCs -> Listing]
        /\ plcCancels \in [PLCs -> Monitors \cup {NoMonitor}]
    BY DEF Init
  <2> QED
    BY <2>1, <2>2 DEF Init, TypeOK
<1>2. SessionHasNumber /\ NoOrphanMonitor /\ LiveSession /\ FailureWakesMonitor
  BY DEF Init, SessionHasNumber, NoOrphanMonitor, LiveSession, FailureWakesMonitor, Alive
<1>3. CancelAfterSession /\ StopIsFinal
  BY DEF Init, CancelAfterSession, StopIsFinal
<1> QED
  BY <1>1, <1>2, <1>3 DEF IInv

(* Every step preserves the invariant. *)
LEMMA Inductive == IInv /\ [Next]_vars => IInv'
<1> SUFFICES ASSUME IInv, [Next]_vars PROVE IInv'
  OBVIOUS
<1>1. CASE ProcessPLCs
  BY <1>1, ProcessStep
<1>2. CASE \/ \E p \in PLCs, v \in Listing : ListChanges(p, v)
           \/ MainCancels \/ PoolLocksUp \/ ReadList \/ ManagerExits
           \/ Stop \/ StopSucceeds \/ StopTimesOut
  BY <1>2, ControlStep
<1>3. CASE \E m \in Monitors : MonitorStep(m)
  BY <1>3, MoveStep, ConnectStep, LeaveStep DEF MonitorStep
<1>4. CASE \E w \in running : WorkerFails(w) \/ WorkerStops(w)
  BY <1>4, WorkerStep
<1>5. CASE UNCHANGED vars
  BY <1>5 DEF vars, managerVars, monitorVars, workerVars, IInv, TypeOK, SessionHasNumber,
              NoOrphanMonitor, LiveSession, CancelAfterSession, FailureWakesMonitor,
              StopIsFinal, Alive, Done, SessionErrors
<1> QED
  BY <1>1, <1>2, <1>3, <1>4, <1>5 DEF Next, ManagerStep

(* The invariant holds throughout every behaviour. *)
LEMMA Invariant == Spec => []IInv
  BY Initially, Inductive, PTL DEF Spec

(* The variables keep their types, and every monitor that has run has a PLC. *)
THEOREM ManagerTypes == Spec => []TypeOK
<1>1. IInv => TypeOK
  BY DEF IInv
<1> QED
  BY <1>1, Invariant, PTL

(* manager.go, processPLCs: whatever the list does, a monitor that nobody has *)
(* cancelled is the registered one of its PLC, so no PLC has two of them.     *)
THEOREM ManagerKeepsMonitors == Spec => []NoOrphanMonitor
<1>1. IInv => NoOrphanMonitor
  BY DEF IInv
<1> QED
  BY <1>1, Invariant, PTL

(* manager.go, runPLC: a worker left running by an earlier session has a *)
(* cancelled context, and one that does not is supervised.               *)
THEOREM ManagerSupervisesWorkers == Spec => []WorkersSupervised
<1>1. IInv => WorkersSupervised
  <2> SUFFICES ASSUME IInv, NEW w \in running, ~ClientDone(w[1], w[2])
               PROVE  /\ pc[w[1]] = "session"
                      /\ w[2] = session[w[1]]
                      /\ plcCancels[plcOf[w[1]]] = w[1]
    BY DEF WorkersSupervised
  <2>1. w[1] \in Monitors /\ <<w[1], w[2]>> \notin clientCancelled /\ ~Done(w[1])
    BY DEF IInv, TypeOK, Workers, ClientDone
  <2>2. pc[w[1]] = "session" /\ w[2] = session[w[1]]
    BY <2>1 DEF IInv, LiveSession
  <2> QED
    BY <2>1, <2>2 DEF IInv, NoOrphanMonitor, Alive
<1> QED
  BY <1>1, Invariant, PTL

(* manager.go, errChan: the non-blocking send never strands a monitor in a *)
(* session whose worker has returned.                                      *)
THEOREM ManagerHearsFailures == Spec => []FailureWakesMonitor
<1>1. IInv => FailureWakesMonitor
  BY DEF IInv
<1> QED
  BY <1>1, Invariant, PTL

(* manager.go, Stop: after a successful Stop no monitor runs or starts. *)
THEOREM ManagerStopIsFinal == Spec => []StopIsFinal
<1>1. IInv => StopIsFinal
  BY DEF IInv
<1> QED
  BY <1>1, Invariant, PTL
-----------------------------------------------------------------------------
(* A monitor waits for its last workers only after a cancellation.         *)
FinalWaitIsDone == \A m \in Monitors : pc[m] = "finalWait" => Done(m)

EInv == IInv /\ EntriesAreLive /\ FinalWaitIsDone

(* What a pass does to the entry of each PLC.                              *)
LEMMA PassEntries ==
  ASSUME IInv, ProcessPLCs, NEW p \in PLCs
  PROVE  /\ snapshot[p] = "listed" => plcCancels'[p] # NoMonitor
         /\ snapshot[p] = "absent" => plcCancels'[p] = NoMonitor
         /\ snapshot[p] # "absent" /\ plcCancels[p] # NoMonitor =>
              plcCancels'[p] = plcCancels[p]
<1>1. PICK f \in Injections(Starting, Free) : ApplyList(f)
  BY DEF ProcessPLCs
<1>2. plcCancels'[p] = Entry(f, p)
  BY <1>1 DEF ApplyList
<1>3. p \in Starting => f[p] # NoMonitor
  BY <1>1, ManagerAssumption DEF Injections, Free
<1> QED
  BY <1>2, <1>3 DEF Entry, EntryKept, Starting, Delisted

(* A pass cancels the monitors whose entries it deletes, and no others.     *)
LEMMA PassKeepsEntries ==
  ASSUME EInv, ProcessPLCs PROVE EntriesAreLive' /\ FinalWaitIsDone'
<1>1. PICK f \in Injections(Starting, Free) : ApplyList(f)
  BY DEF ProcessPLCs
<1> DEFINE born == {f[q] : q \in Starting}
<1>2. f \in [Starting -> Free] /\ Starting \subseteq PLCs /\ Starting \cap Delisted = {}
  BY DEF Injections, Starting, Delisted
<1>3. UNCHANGED rootDone
  BY DEF ProcessPLCs
<1>4. ASSUME NEW p \in PLCs, plcCancels'[p] # NoMonitor, ~rootDone
      PROVE  /\ plcOf'[plcCancels'[p]] = p /\ plcCancels'[p] \notin cancelled'
             /\ pc'[plcCancels'[p]] \notin {"unborn", "done"}
  <2>1. CASE p \in Starting
    <3>1. plcCancels'[p] = f[p] /\ f[p] \in born /\ f[p] \in Monitors
      BY <1>1, <1>2, <2>1 DEF ApplyList, Entry, EntryKept, Free
    <3>2. (CHOOSE q \in Starting : f[q] = f[p]) = p
      BY <1>1, <2>1 DEF Injections
    <3>3. plcOf'[f[p]] = p
      BY <1>1, <2>1, <3>1, <3>2 DEF ApplyList, Owner
    <3>4. pc'[f[p]] = "loop" /\ f[p] \notin cancelled'
      BY <1>1, <3>1 DEF ApplyList
    <3> QED
      BY <3>1, <3>3, <3>4
  <2>2. CASE p \notin Starting
    <3> DEFINE m == plcCancels[p]
    <3>1. plcCancels'[p] = m /\ p \notin Delisted /\ m # NoMonitor
      BY <1>1, <1>4, <2>2 DEF ApplyList, Entry, EntryKept
    <3>2. m \in Monitors /\ plcOf[m] = p /\ Alive(m) /\ m \notin cancelled
      BY <1>4, <3>1 DEF EInv, EntriesAreLive, IInv, TypeOK
    <3>3. m \notin born
      BY <1>2, <3>2 DEF Free
    <3>4. m \notin ToCancel
      <4> SUFFICES ASSUME NEW q \in Delisted, plcCancels[q] = m PROVE FALSE
        BY DEF ToCancel
      <4>1. plcOf[m] = q
        BY <1>4, <3>1 DEF EInv, EntriesAreLive, Delisted
      <4> QED
        BY <3>1, <3>2, <4>1
    <3>5. plcOf'[m] = plcOf[m] /\ pc'[m] = pc[m]
      BY <1>1, <3>2, <3>3 DEF ApplyList, Owner
    <3>6. m \notin cancelled'
      BY <1>1, <3>2, <3>4 DEF ApplyList
    <3> QED
      BY <3>1, <3>2, <3>5, <3>6 DEF Alive
  <2> QED
    BY <2>1, <2>2
<1>5. ASSUME NEW m \in Monitors, pc'[m] = "finalWait" PROVE Done(m)'
  <2>1. m \notin born /\ pc[m] = "finalWait"
    BY <1>1, <1>5 DEF ApplyList
  <2> QED
    BY <1>1, <1>3, <2>1 DEF EInv, FinalWaitIsDone, Done, ApplyList
<1> QED
  BY <1>3, <1>4, <1>5 DEF EntriesAreLive, FinalWaitIsDone, Alive

(* A monitor that returns was cancelled.                                   *)
LEMMA MonitorKeepsEntries ==
  ASSUME EInv, NEW m \in Monitors, MonitorStep(m)
  PROVE  EntriesAreLive' /\ FinalWaitIsDone'
<1> USE DEF EInv, Move, Goto, managerVars, workerVars
<1>1. UNCHANGED <<rootDone, plcCancels, plcOf, cancelled>>
  BY DEF MonitorStep, LoopExits, BeginConnect, ConnectFails, ConnectLocksUp,
         ConnectSucceeds, RetryTick, RetryExits, SessionError, SessionCancelled, DrainEnds, FinalWaitEnds
<1>2. /\ pc' = [pc EXCEPT ![m] = pc'[m]] /\ pc[m] \notin {"unborn", "done"}
      /\ pc'[m] \in {"done", "finalWait"} => Done(m)
      /\ pc'[m] # "unborn"
  BY DEF MonitorStep, LoopExits, BeginConnect, ConnectFails, ConnectLocksUp,
         ConnectSucceeds, RetryTick, RetryExits, SessionError, SessionCancelled, DrainEnds, FinalWaitEnds,
         FinalWaitIsDone, IInv, TypeOK
<1>3. EntriesAreLive'
  <2> SUFFICES ASSUME NEW p \in PLCs, plcCancels[p] # NoMonitor, ~rootDone
               PROVE  /\ plcOf[plcCancels[p]] = p /\ plcCancels[p] \notin cancelled
                      /\ pc'[plcCancels[p]] \notin {"unborn", "done"}
    BY <1>1 DEF EntriesAreLive, Alive
  <2>1. plcCancels[p] \in Monitors
    BY DEF IInv, TypeOK
  <2>2. plcOf[plcCancels[p]] = p /\ Alive(plcCancels[p]) /\ plcCancels[p] \notin cancelled
    BY DEF EntriesAreLive
  <2> QED
    BY <1>2, <2>1, <2>2 DEF Alive, Done, IInv, TypeOK
<1>4. FinalWaitIsDone'
  BY <1>1, <1>2 DEF FinalWaitIsDone, Done, IInv, TypeOK
<1> QED
  BY <1>3, <1>4

(* No step leaves an entry behind whose monitor has ended or is to end.     *)
LEMMA EntriesKept ==
  ASSUME EInv, [Next]_vars PROVE EntriesAreLive' /\ FinalWaitIsDone'
<1>1. CASE \/ \E p \in PLCs, v \in Listing : ListChanges(p, v)
           \/ MainCancels \/ PoolLocksUp \/ ReadList \/ Stop \/ StopSucceeds \/ StopTimesOut
           \/ \E w \in running : WorkerFails(w) \/ WorkerStops(w)
           \/ UNCHANGED vars
  <2>1. UNCHANGED <<plcCancels, plcOf, cancelled, pc>> /\ (rootDone => rootDone')
    BY <1>1 DEF ListChanges, MainCancels, PoolLocksUp, ReadList, Stop, StopSucceeds,
                StopTimesOut, WorkerFails, WorkerStops, managerVars, monitorVars, vars
  <2> QED
    BY <2>1 DEF EInv, EntriesAreLive, FinalWaitIsDone, Alive, Done
<1>2. CASE ManagerExits
  BY <1>2 DEF ManagerExits, EInv, EntriesAreLive, FinalWaitIsDone, Done
<1> QED
  BY <1>1, <1>2, PassKeepsEntries, MonitorKeepsEntries DEF Next, ManagerStep

LEMMA EntriesInvariant == Spec => []EInv
<1>1. Init => EntriesAreLive /\ FinalWaitIsDone
  BY DEF Init, EntriesAreLive, FinalWaitIsDone
<1>2. EInv /\ [Next]_vars => EntriesAreLive' /\ FinalWaitIsDone'
  BY EntriesKept
<1> QED
  BY <1>1, <1>2, Invariant, PTL DEF Spec, EInv

(* manager.go, plcCancels: until m.ctx is cancelled an entry stands for a   *)
(* monitor that runs, so that no PLC is skipped as already monitored.       *)
THEOREM ManagerEntriesLive == Spec => []EntriesAreLive
<1>1. EInv => EntriesAreLive
  BY DEF EInv
<1> QED
  BY <1>1, EntriesInvariant, PTL

(* manager.go, processPLCs: a pass leaves exactly the PLCs of its list      *)
(* monitored (those without an address as they were), and nothing but a     *)
(* pass on a list without the PLC, or the end of m.ctx, undoes that.        *)
THEOREM ManagerPassFollows == Spec => PassFollowsList
<1> DEFINE Follows(p) ==
      /\ ProcessPLCs /\ ~rootDone =>
           /\ snapshot[p] = "listed" => Monitored(p)'
           /\ snapshot[p] = "absent" => ~Monitored(p)'
      /\ Monitored(p) /\ ~Monitored(p)' =>
           rootDone' \/ (ProcessPLCs /\ snapshot[p] = "absent")
<1>1. EInv /\ EInv' /\ [Next]_vars => [\A p \in PLCs : Follows(p)]_vars
  <2> SUFFICES ASSUME EInv, EInv', Next, NEW p \in PLCs PROVE Follows(p)
    OBVIOUS
  <2>1. plcCancels'[p] # NoMonitor /\ ~rootDone' => Monitored(p)'
    BY DEF EInv, EntriesAreLive, IInv, TypeOK, Monitored, Done
  <2>2. plcCancels'[p] = NoMonitor => ~Monitored(p)'
    BY ManagerAssumption DEF EInv, IInv, NoOrphanMonitor, Monitored
  <2>3. CASE ProcessPLCs
    <3>1. UNCHANGED rootDone
      BY <2>3 DEF ProcessPLCs
    <3>2. Monitored(p) => plcCancels[p] # NoMonitor
      BY ManagerAssumption DEF EInv, IInv, NoOrphanMonitor, Monitored
    <3> QED
      BY <2>1, <2>2, <2>3, <3>1, <3>2, PassEntries DEF EInv
  <2>4. CASE ~ProcessPLCs
    <3>1. UNCHANGED plcCancels
      BY <2>4 DEF Next, ListChanges, MainCancels, PoolLocksUp, ManagerStep, ReadList,
                  ManagerExits, Stop, StopSucceeds, StopTimesOut, MonitorStep, LoopExits, BeginConnect,
                  ConnectFails, ConnectLocksUp, ConnectSucceeds, RetryTick, RetryExits,
                  SessionError, SessionCancelled, DrainEnds, FinalWaitEnds, Move, WorkerFails,
                  WorkerStops, managerVars
    <3>2. Monitored(p) => plcCancels[p] # NoMonitor
      BY ManagerAssumption DEF EInv, IInv, NoOrphanMonitor, Monitored
    <3> QED
      BY <2>1, <2>4, <3>1, <3>2
  <2> QED
    BY <2>3, <2>4
<1> QED
  BY <1>1, EntriesInvariant, PTL DEF Spec, PassFollowsList
=============================================================================
