--------------------------------- MODULE TagProofs ---------------------------------
(***************************************************************************)
(* Safety of what happens to the tags of a PLC: the writes scheduled for    *)
(* them (ScheduledWrites), the runners started for them (TagManager) and    *)
(* the scans of one of them (TagMonitor), for any number of requests, tags, *)
(* runners and values.  The three share no variable.                       *)
(***************************************************************************)
EXTENDS ScheduledWrites, TagManager, TagMonitor, FiniteSetTheorems, TLAPS

-----------------------------------------------------------------------------
(* Scheduled writes. *)

USE ScheduleAssumption
USE DEF Requests, Times, Statuses, requestVars, processorVars

(* A processor works with a time that has passed. *)
WakeIsPast == \A g \in Processors : wake[g] # Asleep => wake[g] <= clock

(* Requests not made yet are new, the others are not. *)
NewAreLater == \A w \in Requests : status[w] = "new" <=> w > scheduled

IInv ==
  /\ TypeOK
  /\ PendingIsServed
  /\ OneProcessor
  /\ PerformedOnce
  /\ NeverEarly
  /\ WakeIsPast
  /\ NewAreLater

-----------------------------------------------------------------------------
(* The index returned to the caller is a natural number. *)
LEMMA LengthType == TypeOK => WriteID \in Nat
<1> SUFFICES ASSUME TypeOK PROVE WriteID \in Nat
  OBVIOUS
<1>1. IsFiniteSet(1..scheduled)
  BY FS_Interval DEF TypeOK
<1>2. IsFiniteSet(listed)
  BY <1>1, FS_Subset DEF TypeOK
<1> QED
  BY <1>2, FS_CardinalityType DEF WriteID

(* Scheduling a write preserves the invariant. *)
LEMMA ScheduleStep == ASSUME IInv, NEW t \in Times, ScheduleWrite(t) PROVE IInv'
<1> DEFINE w == scheduled + 1
<1>1. w \in Requests /\ w \in 1..w /\ scheduled \in Nat /\ status[w] = "new"
  BY DEF IInv, TypeOK, ScheduleWrite, NewAreLater
<1>2. WriteID \in Nat
  BY LengthType DEF IInv
<1>3. TypeOK'
  <2>1. scheduled' \in 0..MaxWrites /\ listed' \in SUBSET (1..scheduled')
        /\ asked' \in SUBSET (1..scheduled')
    BY <1>1 DEF IInv, TypeOK, ScheduleWrite
  <2>2. at' \in [Requests -> Times] /\ status' \in [Requests -> Statuses]
        /\ handle' \in [Requests -> Nat]
    BY <1>1, <1>2 DEF IInv, TypeOK, ScheduleWrite
  <2>3. scheduleRunning' \in BOOLEAN /\ processors' \in SUBSET Processors
        /\ wake' \in [Processors -> Times \cup {Asleep}]
    BY DEF IInv, TypeOK, ScheduleWrite, LaunchIfIdle
  <2> QED
    BY <2>1, <2>2, <2>3 DEF IInv, TypeOK, ScheduleWrite
<1>4. OneProcessor' /\ processors' # {} /\ WakeIsPast'
  BY DEF IInv, TypeOK, ScheduleWrite, LaunchIfIdle, OneProcessor, WakeIsPast
<1>5. PendingIsServed'
  BY <1>1, <1>4 DEF IInv, TypeOK, ScheduleWrite, PendingIsServed, Pending
<1>6. PerformedOnce' /\ NeverEarly' /\ NewAreLater'
  <2>1. performed[w] = 0
    <3>1. performed[w] \in Nat
      BY <1>1 DEF IInv, TypeOK
    <3>2. performed[w] <= 1 /\ performed[w] # 1
      BY <1>1 DEF IInv, PerformedOnce
    <3> QED
      BY <3>1, <3>2
  <2>2. /\ \A v \in Requests : v # w => status'[v] = status[v] /\ at'[v] = at[v]
        /\ status'[w] = "pending" /\ scheduled' = w
        /\ UNCHANGED <<clock, performed>>
    BY <1>1 DEF IInv, TypeOK, ScheduleWrite
  <2>3. PerformedOnce'
    BY <2>1, <2>2 DEF IInv, PerformedOnce
  <2>4. NeverEarly'
    BY <2>1, <2>2 DEF IInv, NeverEarly
  <2>5. NewAreLater'
    BY <1>1, <2>2 DEF IInv, NewAreLater
  <2> QED
    BY <2>3, <2>4, <2>5
<1> QED
  BY <1>3, <1>4, <1>5, <1>6 DEF IInv

(* Cancelling a write preserves it. *)
LEMMA CancelStep ==
  ASSUME IInv, NEW w \in Requests, CancelScheduledWrite(w) PROVE IInv'
<1>1. TypeOK'
  BY DEF IInv, TypeOK, CancelScheduledWrite
<1>2. \A v \in Requests : \/ status'[v] = status[v]
                          \/ status[v] = "pending" /\ status'[v] = "cancelled"
  BY DEF IInv, TypeOK, CancelScheduledWrite, Pending
<1>3. PendingIsServed' /\ OneProcessor' /\ WakeIsPast'
  BY <1>2 DEF IInv, CancelScheduledWrite, PendingIsServed, Pending, OneProcessor, WakeIsPast
<1>4. PerformedOnce' /\ NeverEarly' /\ NewAreLater'
  BY <1>2 DEF IInv, TypeOK, CancelScheduledWrite, PerformedOnce, NeverEarly, NewAreLater
<1> QED
  BY <1>1, <1>3, <1>4 DEF IInv

(* A processor that returns leaves no write behind. *)
LEMMA ExitStep == ASSUME IInv, NEW g \in Processors, Exits(g) PROVE IInv'
<1>1. Pending(Requests) = {}
  BY DEF IInv, PendingIsServed, Exits, Pending, Kept
<1>2. processors' = {}
  BY DEF IInv, OneProcessor, Exits
<1>3. TypeOK'
  BY DEF IInv, TypeOK, Exits, Kept
<1>4. PendingIsServed'
  BY <1>1 DEF PendingIsServed, Pending, Exits
<1>5. OneProcessor' /\ WakeIsPast'
  BY <1>2 DEF OneProcessor, WakeIsPast, Exits, IInv, TypeOK
<1>6. PerformedOnce' /\ NeverEarly' /\ NewAreLater'
  BY DEF IInv, TypeOK, Exits, PerformedOnce, NeverEarly, NewAreLater
<1> QED
  BY <1>3, <1>4, <1>5, <1>6 DEF IInv

(* A processor executes the writes that are due. *)
LEMMA ProcessStep == ASSUME IInv, NEW g \in Processors, Processes(g) PROVE IInv'
<1> DEFINE now == wake[g]
<1>1. now \in Nat /\ now <= clock
  BY DEF IInv, TypeOK, WakeIsPast, Processes
<1>2. \A w \in Runnable(now) : w \in Requests /\ status[w] = "pending" /\ at[w] <= clock
  BY <1>1 DEF Runnable, Pending, IInv, TypeOK
<1>3. \A w \in Requests :
        \/ w \in Runnable(now) /\ status'[w] \in {"written", "failed"}
           /\ performed'[w] = performed[w] + 1
        \/ w \notin Runnable(now) /\ status'[w] = status[w] /\ performed'[w] = performed[w]
  BY DEF Processes, Run
<1>4. listed' \subseteq listed /\ Pending(listed) \subseteq listed'
  BY DEF Processes, Kept, Pending
<1>5. TypeOK'
  <2>1. status' \in [Requests -> Statuses] /\ performed' \in [Requests -> Nat]
    BY DEF IInv, TypeOK, Processes, Run
  <2>2. listed' \in SUBSET (1..scheduled')
    BY <1>4 DEF IInv, TypeOK, Processes
  <2>3. wake' \in [Processors -> Times \cup {Asleep}]
    BY DEF IInv, TypeOK, Processes
  <2> QED
    BY <2>1, <2>2, <2>3 DEF IInv, TypeOK, Processes
<1>6. PendingIsServed'
  <2>1. Pending(Requests)' \subseteq Pending(Requests)
    BY <1>3 DEF Pending
  <2>2. Pending(Requests) \subseteq Pending(listed)
    BY DEF IInv, PendingIsServed, Pending
  <2> QED
    BY <1>4, <2>1, <2>2 DEF IInv, PendingIsServed, Processes, Pending
<1>7. OneProcessor' /\ WakeIsPast'
  BY DEF IInv, TypeOK, OneProcessor, WakeIsPast, Processes
<1>8. PerformedOnce'
  <2> SUFFICES ASSUME NEW w \in Requests
               PROVE  /\ performed'[w] <= 1
                      /\ performed'[w] = 1 <=> status'[w] \in {"written", "failed"}
    BY DEF PerformedOnce
  <2>1. /\ performed[w] \in Nat /\ performed[w] <= 1
        /\ performed[w] = 1 <=> status[w] \in {"written", "failed"}
    BY DEF IInv, TypeOK, PerformedOnce
  <2>2. CASE w \in Runnable(now)
    BY <1>2, <1>3, <2>1, <2>2
  <2>3. CASE w \notin Runnable(now)
    BY <1>3, <2>1, <2>3
  <2> QED
    BY <2>2, <2>3
<1>9. NeverEarly' /\ NewAreLater'
  BY <1>2, <1>3 DEF IInv, TypeOK, NeverEarly, NewAreLater, Processes
<1> QED
  BY <1>5, <1>6, <1>7, <1>8, <1>9 DEF IInv

(* Waking up and the passing of time preserve it. *)
LEMMA TimeStep ==
  ASSUME IInv, TimePasses \/ \E g \in Processors : Wake(g) PROVE IInv'
<1>1. TypeOK' /\ WakeIsPast'
  <2>1. CASE TimePasses
    <3>1. clock' \in Times /\ clock \in Nat /\ clock' = clock + 1
      BY <2>1 DEF IInv, TypeOK, TimePasses
    <3>2. TypeOK'
      BY <2>1, <3>1 DEF IInv, TypeOK, TimePasses
    <3>3. \A g \in Processors : wake[g] # Asleep => wake[g] \in Nat
      BY DEF IInv, TypeOK
    <3> QED
      BY <2>1, <3>1, <3>2, <3>3 DEF IInv, WakeIsPast, TimePasses
  <2>2. ASSUME NEW g \in Processors, Wake(g) PROVE TypeOK' /\ WakeIsPast'
    <3>1. wake' = [wake EXCEPT ![g] = clock] /\ UNCHANGED clock
      BY <2>2 DEF Wake
    <3>2. TypeOK'
      BY <2>2, <3>1 DEF IInv, TypeOK, Wake
    <3>3. \A h \in Processors : wake'[h] = wake[h] \/ wake'[h] = clock
      BY <3>1 DEF IInv, TypeOK
    <3>4. clock \in Nat /\ clock' = clock
      BY <3>1 DEF IInv, TypeOK
    <3>5. WakeIsPast'
      BY <3>3, <3>4 DEF IInv, WakeIsPast
    <3> QED
      BY <3>2, <3>5
  <2> QED
    BY <2>1, <2>2
<1>2. PendingIsServed' /\ OneProcessor'
  BY DEF IInv, PendingIsServed, Pending, OneProcessor, TimePasses, Wake
<1>3. PerformedOnce' /\ NeverEarly' /\ NewAreLater'
  <2>1. /\ UNCHANGED <<status, performed, at, scheduled>>
        /\ clock \in Nat /\ clock' \in Nat /\ clock <= clock'
    BY DEF IInv, TypeOK, TimePasses, Wake
  <2>2. PerformedOnce' /\ NewAreLater'
    BY <2>1 DEF IInv, PerformedOnce, NewAreLater
  <2>3. NeverEarly'
    BY <2>1 DEF IInv, TypeOK, NeverEarly
  <2> QED
    BY <2>2, <2>3
<1> QED
  BY <1>1, <1>2, <1>3 DEF IInv

(* The invariant holds throughout every behaviour. *)
LEMMA Invariant == Spec => []IInv
<1>1. Init => IInv
  <2> SUFFICES ASSUME Init PROVE IInv
    OBVIOUS
  <2>1. TypeOK
    <3>1. clock \in Times /\ scheduled \in 0..MaxWrites
      BY DEF Init
    <3>2. status \in [Requests -> Statuses]
      BY DEF Init
    <3>3. at \in [Requests -> Times] /\ performed \in [Requests -> Nat]
          /\ handle \in [Requests -> Nat]
      BY DEF Init
    <3>4. wake \in [Processors -> Times \cup {Asleep}]
      BY DEF Init
    <3> QED
      BY <3>1, <3>2, <3>3, <3>4 DEF Init, TypeOK
  <2>2. PendingIsServed /\ OneProcessor /\ WakeIsPast
    BY DEF Init, PendingIsServed, Pending, OneProcessor, WakeIsPast
  <2>3. PerformedOnce /\ NeverEarly /\ NewAreLater
    BY DEF Init, PerformedOnce, NeverEarly, NewAreLater
  <2> QED
    BY <2>1, <2>2, <2>3 DEF IInv
<1>2. IInv /\ [Next]_vars => IInv'
  <2> SUFFICES ASSUME IInv, [Next]_vars PROVE IInv'
    OBVIOUS
  <2>1. CASE Next
    BY <2>1, ScheduleStep, CancelStep, ExitStep, ProcessStep, TimeStep DEF Next
  <2>2. CASE UNCHANGED vars
    BY <2>2 DEF vars, IInv, TypeOK, PendingIsServed, Pending, OneProcessor,
       PerformedOnce, NeverEarly, WakeIsPast, NewAreLater
  <2> QED
    BY <2>1, <2>2
<1> QED
  BY <1>1, <1>2, PTL DEF Spec

(* The variables keep their types. *)
THEOREM ScheduleTypes == Spec => []TypeOK
<1>1. IInv => TypeOK
  BY DEF IInv
<1> QED
  BY <1>1, Invariant, PTL

(* writer.go, processScheduledWrites: the processor returns only when no    *)
(* write is left, and a write scheduled meanwhile launches another one.     *)
THEOREM SchedulePending == Spec => []PendingIsServed
<1>1. IInv => PendingIsServed
  BY DEF IInv
<1> QED
  BY <1>1, Invariant, PTL

(* writer.go, scheduleRunning: the flag keeps the processor unique. *)
THEOREM ScheduleSingle == Spec => []OneProcessor
<1>1. IInv => OneProcessor
  BY DEF IInv
<1> QED
  BY <1>1, Invariant, PTL

(* writer.go, processScheduledWrites: a write is executed at most once, and *)
(* a cancelled one never is.                                                *)
THEOREM ScheduleOnce == Spec => []PerformedOnce
<1>1. IInv => PerformedOnce
  BY DEF IInv
<1> QED
  BY <1>1, Invariant, PTL

(* writer.go, processScheduledWrites: no write is executed before its time. *)
THEOREM ScheduleNotEarly == Spec => []NeverEarly
<1>1. IInv => NeverEarly
  BY DEF IInv
<1> QED
  BY <1>1, Invariant, PTL

HIDE ScheduleAssumption
HIDE DEF Requests, Times, Statuses, requestVars, processorVars

-----------------------------------------------------------------------------
(* The runners of a session's tags. *)

(* A runner once started has a tag, and while processTags is called no       *)
(* registered runner is cancelled.                                         *)
StartedForTag == \A r \in Runners : runTag[r] # "unborn" => tagOf[r] \in Tags

RegisteredGoOn ==
  manager = "select" => \A t \in Tags : tagRunners[t] \notin cancelled

TMInv ==
  /\ TMTypeOK
  /\ NoOrphanRunner
  /\ StartedForTag
  /\ RegisteredGoOn

(* The tag for which an injection starts a runner is the only one. *)
LEMMA TagForInjection ==
  ASSUME NEW begun \in SUBSET Tags, NEW f \in Injections(begun, Free),
         NEW t \in begun
  PROVE  /\ f[t] \in Free /\ TagFor(f, begun, f[t]) = t
         /\ Owner(f, begun, f[t]) = t
<1>1. \A u \in begun : f[u] = f[t] => u = t
  BY DEF Injections
<1>2. TagFor(f, begun, f[t]) = t
  BY <1>1 DEF TagFor
<1>3. f[t] \in Free
  BY DEF Injections
<1> QED
  BY <1>2, <1>3 DEF Owner

(* What a pass of processTags does: which runners are started and for what, *)
(* and what the rest of the map and of the runners keep.                   *)
LEMMA PassEffect ==
  ASSUME TMInv, ProcessTags
  PROVE  LET begun == Starting \cup Reconfigured IN
         \E f \in Injections(begun, Free) :
           LET born == {f[t] : t \in begun} IN
           /\ \A t \in begun : /\ tagRunners'[t] = f[t] /\ applied'[t] = config[t]
                               /\ tagOf'[f[t]] = t /\ runTag'[f[t]] = "scanning"
           /\ \A t \in Tags \ begun :
                /\ tagRunners'[t] = IF t \in Removed THEN NoRunner ELSE tagRunners[t]
                /\ applied'[t] = applied[t]
           /\ \A r \in Runners \ born : tagOf'[r] = tagOf[r] /\ runTag'[r] = runTag[r]
           /\ cancelled' = (cancelled \cup ToCancel) \ born
           /\ born \subseteq Free
           /\ TMTypeOK'
<1> DEFINE begun == Starting \cup Reconfigured
<1>1. begun \in SUBSET Tags /\ Free \subseteq Runners
  BY DEF Starting, Reconfigured, Free
<1>2. PICK f \in Injections(begun, Free) :
        LET born == {f[t] : t \in begun} IN
        /\ tagRunners' = [t \in Tags |-> IF t \in begun THEN f[t]
                                         ELSE IF t \in Removed THEN NoRunner
                                         ELSE tagRunners[t]]
        /\ applied' = [t \in Tags |-> IF t \in begun THEN config[t] ELSE applied[t]]
        /\ tagOf' = [r \in Runners |-> Owner(f, begun, r)]
        /\ scans' = [r \in Runners |-> IF r \in born THEN address[TagFor(f, begun, r)]
                                       ELSE scans[r]]
        /\ runTag' = [r \in Runners |-> IF r \in born THEN "scanning" ELSE runTag[r]]
        /\ cancelled' = (cancelled \cup ToCancel) \ born
  BY DEF ProcessTags
<1> DEFINE born == {f[t] : t \in begun}
<1>3. \A t \in begun : f[t] \in Free /\ TagFor(f, begun, f[t]) = t
                       /\ Owner(f, begun, f[t]) = t
  BY <1>1, TagForInjection
<1>4. \A r \in Runners \ born : Owner(f, begun, r) = tagOf[r]
  BY DEF Owner
<1> HIDE DEF begun
<1>5. born \subseteq Free
  BY <1>3
<1>6. \A t \in begun : /\ tagRunners'[t] = f[t] /\ applied'[t] = config[t]
                       /\ tagOf'[f[t]] = t /\ runTag'[f[t]] = "scanning"
  BY <1>1, <1>2, <1>3
<1>7. \A t \in Tags \ begun :
        /\ tagRunners'[t] = IF t \in Removed THEN NoRunner ELSE tagRunners[t]
        /\ applied'[t] = applied[t]
  BY <1>2
<1>8. \A r \in Runners \ born : tagOf'[r] = tagOf[r] /\ runTag'[r] = runTag[r]
  BY <1>2, <1>4
<1>9. ToCancel \subseteq Runners
  BY DEF ToCancel, Removed, Reconfigured, TMInv, TMTypeOK
<1>10. TMTypeOK'
  <2>1. /\ tagRunners' \in [Tags -> Runners \cup {NoRunner}]
        /\ applied' \in [Tags -> Configs]
    BY <1>1, <1>2, <1>3 DEF TMInv, TMTypeOK
  <2>2. tagOf' \in [Runners -> Tags \cup {NoTag}]
    <3>1. \A r \in Runners : Owner(f, begun, r) \in Tags \cup {NoTag}
      <4> SUFFICES ASSUME NEW r \in Runners PROVE Owner(f, begun, r) \in Tags \cup {NoTag}
        OBVIOUS
      <4>1. CASE r \in born
        BY <1>1, <1>3, <4>1
      <4>2. CASE r \notin born
        BY <1>4, <4>2 DEF TMInv, TMTypeOK
      <4> QED
        BY <4>1, <4>2
    <3> QED
      BY <1>2, <3>1
  <2>3. scans' \in [Runners -> Addresses]
    <3>1. \A r \in born : address[TagFor(f, begun, r)] \in Addresses
      BY <1>1, <1>3 DEF TMInv, TMTypeOK
    <3> QED
      BY <1>2, <3>1 DEF TMInv, TMTypeOK
  <2>4. runTag' \in [Runners -> {"unborn", "scanning", "sending", "done"}]
    BY <1>2 DEF TMInv, TMTypeOK
  <2>5. cancelled' \in SUBSET Runners
    BY <1>2, <1>9 DEF TMInv, TMTypeOK
  <2>6. UNCHANGED <<entry, config, address, manager, ctxDone, errChan>>
    BY DEF ProcessTags, listVars
  <2>7. \A t \in Tags : tagRunners'[t] # NoRunner => tagOf'[tagRunners'[t]] = t
    <3> SUFFICES ASSUME NEW t \in Tags, tagRunners'[t] # NoRunner
                 PROVE  tagOf'[tagRunners'[t]] = t
      OBVIOUS
    <3>1. CASE t \in begun
      BY <1>6, <3>1
    <3>2. CASE t \notin begun
      <4>1. tagRunners'[t] = tagRunners[t] /\ tagRunners[t] \in Runners
            /\ tagOf[tagRunners[t]] = t
        BY <1>7, <3>2 DEF TMInv, TMTypeOK
      <4>2. tagRunners[t] \notin born
        BY <1>5 DEF Free
      <4> QED
        BY <1>8, <4>1, <4>2
    <3> QED
      BY <3>1, <3>2
  <2> QED
    BY <2>1, <2>2, <2>3, <2>4, <2>5, <2>6, <2>7 DEF TMInv, TMTypeOK
<1> QED
  BY <1>2, <1>5, <1>6, <1>7, <1>8, <1>10 DEF begun

(* A pass keeps the runners that go on and the ones in the map the same, and *)
(* leaves nothing to do.                                                   *)
LEMMA PassPreserves == ASSUME TMInv, ProcessTags PROVE TMInv' /\ ListInForce'
<1> DEFINE begun == Starting \cup Reconfigured
<1>1. PICK f \in Injections(begun, Free) :
        LET born == {f[t] : t \in begun} IN
        /\ \A t \in begun : /\ tagRunners'[t] = f[t] /\ applied'[t] = config[t]
                            /\ tagOf'[f[t]] = t /\ runTag'[f[t]] = "scanning"
        /\ \A t \in Tags \ begun :
             /\ tagRunners'[t] = IF t \in Removed THEN NoRunner ELSE tagRunners[t]
             /\ applied'[t] = applied[t]
        /\ \A r \in Runners \ born : tagOf'[r] = tagOf[r] /\ runTag'[r] = runTag[r]
        /\ cancelled' = (cancelled \cup ToCancel) \ born
        /\ born \subseteq Free
        /\ TMTypeOK'
  BY PassEffect
<1> DEFINE born == {f[t] : t \in begun}
<1>2. /\ begun \subseteq Tags /\ born \subseteq Runners
      /\ \A t \in begun : f[t] \in born /\ f[t] \in Runners /\ entry[t] = "active"
  BY <1>1 DEF Starting, Reconfigured, Free
<1>3. UNCHANGED <<entry, config, address, manager, ctxDone, errChan>>
  BY DEF ProcessTags, listVars
<1>4. \A t \in Tags : tagRunners[t] \notin born
  BY <1>1 DEF Free
<1>5. StartedForTag'
  <2> SUFFICES ASSUME NEW r \in Runners, runTag'[r] # "unborn" PROVE tagOf'[r] \in Tags
    BY DEF StartedForTag
  <2>1. CASE r \in born
    BY <1>1, <1>2, <2>1
  <2>2. CASE r \notin born
    BY <1>1, <2>2 DEF TMInv, StartedForTag
  <2> QED
    BY <2>1, <2>2
<1>6. NoOrphanRunner'
  <2> SUFFICES ASSUME NEW r \in Runners, runTag'[r] = "scanning", ~ctxDone,
                      r \notin cancelled'
               PROVE  tagRunners'[tagOf'[r]] = r
    BY <1>3 DEF NoOrphanRunner
  <2>1. CASE r \in born
    BY <1>1, <2>1
  <2>2. CASE r \notin born
    <3> DEFINE t == tagOf[r]
    <3>1. /\ runTag[r] = "scanning" /\ r \notin cancelled /\ r \notin ToCancel
          /\ tagOf'[r] = t
      BY <1>1, <2>2
    <3>2. t \in Tags /\ tagRunners[t] = r
      BY <3>1 DEF TMInv, NoOrphanRunner, StartedForTag
    <3>3. t \notin Removed /\ t \notin Reconfigured
      BY <3>1, <3>2 DEF ToCancel
    <3>4. t \notin Starting
      BY <3>2, TagManagerAssumption DEF Starting
    <3> QED
      BY <1>1, <3>1, <3>2, <3>3, <3>4
  <2> QED
    BY <2>1, <2>2
<1>7. RegisteredGoOn'
  <2> SUFFICES ASSUME manager = "select", NEW t \in Tags
               PROVE  tagRunners'[t] \notin cancelled'
    BY <1>3 DEF RegisteredGoOn
  <2>1. CASE t \in begun
    BY <1>1, <1>2, <2>1
  <2>2. CASE t \notin begun /\ t \in Removed
    <3>1. tagRunners'[t] = NoRunner
      BY <1>1, <2>2
    <3> QED
      BY <1>1, <3>1, TagManagerAssumption DEF TMTypeOK
  <2>3. CASE t \notin begun /\ t \notin Removed
    <3>1. tagRunners'[t] = tagRunners[t]
      BY <1>1, <2>3
    <3>2. CASE tagRunners[t] = NoRunner
      BY <1>1, <3>1, <3>2, TagManagerAssumption DEF TMTypeOK
    <3>3. CASE tagRunners[t] # NoRunner
      <4>1. tagRunners[t] \notin cancelled
        BY DEF TMInv, RegisteredGoOn
      <4>2. tagRunners[t] \notin ToCancel
        <5> SUFFICES ASSUME NEW u \in Removed \cup Reconfigured,
                            tagRunners[u] = tagRunners[t]
                     PROVE  FALSE
          BY DEF ToCancel
        <5>1. u \in Tags /\ tagRunners[u] # NoRunner
          BY DEF Removed, Reconfigured
        <5>2. u = t
          BY <3>3, <5>1 DEF TMInv, TMTypeOK
        <5> QED
          BY <2>3, <5>2
      <4> QED
        BY <1>1, <3>1, <4>1, <4>2
    <3> QED
      BY <3>2, <3>3
  <2> QED
    BY <2>1, <2>2, <2>3
<1>8. ListInForce'
  <2> SUFFICES ASSUME NEW t \in Tags
               PROVE  /\ ~(entry[t] = "active" /\ tagRunners'[t] = NoRunner)
                      /\ ~(/\ entry[t] = "active" /\ tagRunners'[t] # NoRunner
                           /\ applied'[t] # config[t])
                      /\ ~(entry[t] = "inactive" /\ tagRunners'[t] # NoRunner)
    BY <1>3 DEF ListInForce, Starting, Reconfigured, Removed
  <2>1. CASE t \in begun
    BY <1>1, <1>2, <2>1, TagManagerAssumption
  <2>2. CASE t \notin begun
    <3>1. /\ tagRunners'[t] = IF t \in Removed THEN NoRunner ELSE tagRunners[t]
          /\ applied'[t] = applied[t]
      BY <1>1, <2>2
    <3> QED
      BY <2>2, <3>1 DEF Starting, Reconfigured, Removed
  <2> QED
    BY <2>1, <2>2
<1> QED
  BY <1>1, <1>5, <1>6, <1>7, <1>8 DEF TMInv

(* The other steps of the manager. *)
LEMMA ManagerPreserves ==
  ASSUME TMInv, ContextSeen \/ SessionEnds \/ \E r \in Runners : ErrorReceived(r)
  PROVE  TMInv'
<1> USE DEF TMInv, TMTypeOK, listVars, mapVars, runnerVars
<1>1. CASE ContextSeen
  <2>1. cancelled' \in SUBSET Runners
    BY <1>1 DEF ContextSeen
  <2>2. TMTypeOK'
    BY <1>1, <2>1 DEF ContextSeen
  <2> QED
    BY <1>1, <2>2 DEF ContextSeen, NoOrphanRunner, StartedForTag, RegisteredGoOn
<1>2. CASE SessionEnds
  BY <1>2 DEF SessionEnds, NoOrphanRunner, StartedForTag, RegisteredGoOn
<1>3. ASSUME NEW r \in Runners, ErrorReceived(r) PROVE TMInv'
  BY <1>3 DEF ErrorReceived, NoOrphanRunner, StartedForTag, RegisteredGoOn
<1> QED
  BY <1>1, <1>2, <1>3

(* A runner that leaves its scans, and an edit of the list, leave the map alone. *)
LEMMA RunnerPreserves ==
  ASSUME TMInv, NEW r \in Runners, RunnerFails(r) \/ RunnerSends(r) \/ RunnerStops(r)
  PROVE  TMInv'
<1> USE DEF TMInv, TMTypeOK, listVars, mapVars
<1>1. PICK to \in {"sending", "done"} : runTag' = [runTag EXCEPT ![r] = to]
  BY DEF RunnerFails, RunnerSends, RunnerStops, RunnerMoves
<1>2. /\ runTag[r] # "unborn" /\ errChan' \in SUBSET Runners
      /\ UNCHANGED <<listVars, manager, ctxDone, mapVars, tagOf, scans, cancelled>>
  BY DEF RunnerFails, RunnerSends, RunnerStops, RunnerMoves
<1>3. TMTypeOK'
  BY <1>1, <1>2
<1> QED
  BY <1>1, <1>2, <1>3 DEF NoOrphanRunner, StartedForTag, RegisteredGoOn

LEMMA EditPreserves ==
  ASSUME TMInv, NEW t \in Tags, NEW e \in {"inactive", "untyped", "active"},
         NEW c \in Configs, NEW a \in Addresses, ListChanges(t, e, c, a)
  PROVE  TMInv'
<1>1. UNCHANGED <<manager, ctxDone, mapVars, runnerVars, errChan>>
  BY DEF ListChanges
<1>2. TMTypeOK'
  BY <1>1 DEF TMInv, TMTypeOK, ListChanges, mapVars, runnerVars
<1> QED
  BY <1>1, <1>2 DEF TMInv, mapVars, runnerVars, NoOrphanRunner, StartedForTag,
     RegisteredGoOn

(* The invariant holds throughout every behaviour. *)
LEMMA RunnerInvariant == TMSpec => []TMInv
<1>1. TMInit => TMInv
  <2> SUFFICES ASSUME TMInit PROVE TMInv
    OBVIOUS
  <2>1. scans \in [Runners -> Addresses]
    BY TagManagerAssumption DEF TMInit
  <2>2. TMTypeOK
    BY <2>1 DEF TMInit, TMTypeOK
  <2> QED
    BY <2>2 DEF TMInit, TMInv, NoOrphanRunner, StartedForTag, RegisteredGoOn
<1>2. TMInv /\ [TMNext]_tmVars => TMInv'
  <2> SUFFICES ASSUME TMInv, [TMNext]_tmVars PROVE TMInv'
    OBVIOUS
  <2>1. CASE TMNext
    BY <2>1, PassPreserves, ManagerPreserves, RunnerPreserves, EditPreserves DEF TMNext
  <2>2. CASE UNCHANGED tmVars
    BY <2>2 DEF tmVars, listVars, mapVars, runnerVars, TMInv, TMTypeOK, NoOrphanRunner,
       StartedForTag, RegisteredGoOn
  <2> QED
    BY <2>1, <2>2
<1> QED
  BY <1>1, <1>2, PTL DEF TMSpec

(* The variables keep their types, and the map has each runner under its tag. *)
THEOREM TagRunnerTypes == TMSpec => []TMTypeOK
<1>1. TMInv => TMTypeOK
  BY DEF TMInv
<1> QED
  BY <1>1, RunnerInvariant, PTL

(* tag_monitor.go, processTags: a runner that goes on with a live context is *)
(* the one in the map for its tag.                                         *)
THEOREM TagRunnersRegistered == TMSpec => []NoOrphanRunner
<1>1. TMInv => NoOrphanRunner
  BY DEF TMInv
<1> QED
  BY <1>1, RunnerInvariant, PTL

(* tag_monitor.go, processTags: one pass puts the list in force, and it stays *)
(* so until the list is edited.                                            *)
THEOREM TagPassApplies == TMSpec => PassApplies
<1>1. TMInv /\ [TMNext]_tmVars => [ProcessTags => ListInForce']_tmVars
  BY PassPreserves
<1>2. [TMNext]_tmVars => [ListInForce => ListInForce' \/ listVars' # listVars]_tmVars
  <2> SUFFICES ASSUME TMNext, ListInForce, UNCHANGED listVars PROVE ListInForce'
    OBVIOUS
  <2>1. ~ProcessTags
    BY DEF ProcessTags, ListInForce
  <2>2. UNCHANGED mapVars
    BY <2>1 DEF TMNext, ListChanges, ContextSeen, SessionEnds, ErrorReceived, RunnerFails,
       RunnerSends, RunnerStops, RunnerMoves, runnerVars
  <2> QED
    BY <2>2 DEF ListInForce, Starting, Reconfigured, Removed, listVars, mapVars
<1> QED
  BY <1>1, <1>2, RunnerInvariant, PTL DEF TMSpec, PassApplies

-----------------------------------------------------------------------------
(* The scans of a tag. *)

(* Errors are cleared before a read, and a runner that waits is below the    *)
(* limit.                                                                  *)
ErrorsCounted ==
  /\ pc \in {"read", "compare", "store", "publish"} => consecutiveErrors = 0
  /\ pc = "wait" => consecutiveErrors < MaxErrors

RTInv == RTTypeOK /\ ErrorsCounted

(* The process, the network and the writer leave the runner alone. *)
LEMMA OutsideScans ==
  ASSUME RTInv, Environment \/ Writing PROVE RTInv' /\ UNCHANGED scanVars
<1>1. UNCHANGED scanVars
  BY DEF Environment, PLCChanges, LinkChanges, ClientCloses, OthersRedial, Writing,
     Writes, WriterStores, WriterStoreFails, WriterPublishes
<1>2. RTTypeOK'
  <2> USE DEF RTInv, RTTypeOK, scanVars, linkVars, cacheVars, writerVars
  <2>1. CASE Environment
    <3>1. ASSUME NEW v \in Values, PLCChanges(v) PROVE RTTypeOK'
      BY <3>1 DEF PLCChanges
    <3>2. ASSUME NEW l \in Links, LinkChanges(l) PROVE RTTypeOK'
      <4>1. /\ handler' \in BOOLEAN /\ link' \in Links
            /\ UNCHANGED <<plc, cacheVars, notified, writerVars, scanVars>>
        BY <3>2 DEF LinkChanges
      <4> QED
        BY <4>1
    <3>3. CASE ClientCloses \/ OthersRedial
      <4>1. /\ handler' \in BOOLEAN
            /\ UNCHANGED <<plc, link, cacheVars, notified, writerVars, scanVars>>
        BY <3>3 DEF ClientCloses, OthersRedial
      <4> QED
        BY <4>1
    <3> QED
      BY <2>1, <3>1, <3>2, <3>3 DEF Environment
  <2>2. ASSUME NEW v \in Values, Writes(v) PROVE RTTypeOK'
    BY <2>2 DEF Writes
  <2>3. CASE WriterStores \/ WriterStoreFails \/ WriterPublishes
    BY <2>3 DEF WriterStores, WriterStoreFails, WriterPublishes
  <2> QED
    BY <2>1, <2>2, <2>3 DEF Writing
<1> QED
  BY <1>1, <1>2 DEF RTInv, ErrorsCounted, scanVars

(* An error is the first one, or one of a ping. *)
LEMMA ErrorCounts ==
  ASSUME RTInv, PingFails \/ ReadFails
  PROVE  RTInv' /\ (consecutiveErrors' > 1 => ~Answers)
<1> USE DEF RTInv, RTTypeOK, linkVars, cacheVars, writerVars
<1>1. OneErrorMore
  BY DEF PingFails, ReadFails
<1>2. /\ consecutiveErrors \in Nat /\ consecutiveErrors < MaxErrors /\ MaxErrors \in Nat
      /\ ReadFails => consecutiveErrors = 0
  <2>1. pc \in {"wait", "read"} /\ (ReadFails => pc = "read")
    BY DEF PingFails, ReadFails
  <2> QED
    BY <2>1, TagAssumption DEF ErrorsCounted
<1>3. consecutiveErrors' \in 0..MaxErrors /\ (ReadFails => consecutiveErrors' = 1)
  BY <1>1, <1>2 DEF OneErrorMore
<1>4. currentDelay' \in 0..MaxDoublings
  BY <1>1, TagAssumption DEF OneErrorMore, Doubled
<1>5. RTTypeOK'
  <2>1. handler' \in BOOLEAN
    BY DEF PingFails, ReadFails
  <2> QED
    BY <1>1, <1>3, <1>4, <2>1 DEF OneErrorMore
<1>6. ErrorsCounted'
  BY <1>1 DEF OneErrorMore, ErrorsCounted
<1> QED
  BY <1>3, <1>5, <1>6 DEF PingFails

(* The other steps of the runner clear the count or leave it alone. *)
LEMMA ScanPreserves ==
  ASSUME RTInv, Degrades \/ Scans \/ StoreFails \/ Ends \/ Restarts
  PROVE  RTInv' /\ consecutiveErrors' \in {0, consecutiveErrors}
<1> USE TagAssumption DEF RTInv, RTTypeOK, ErrorsCounted, linkVars, cacheVars, writerVars
<1>1. CASE Degrades
  BY <1>1 DEF Degrades
<1>2. CASE PingSucceeds \/ ScansAtOnce
  BY <1>2 DEF PingSucceeds, ScansAtOnce
<1>3. CASE ReadSucceeds
  BY <1>3 DEF ReadSucceeds
<1>4. CASE Compares
  BY <1>4 DEF Compares
<1>5. CASE Stores
  BY <1>5 DEF Stores
<1>6. CASE StoreFails \/ Publishes
  BY <1>6 DEF StoreFails, Publishes
<1>7. CASE Ends \/ Restarts
  <2>1. handler' \in BOOLEAN
    BY <1>7 DEF Ends, Restarts
  <2> QED
    BY <1>7, <2>1 DEF Ends, Restarts
<1> QED
  BY <1>1, <1>2, <1>3, <1>4, <1>5, <1>6, <1>7 DEF Scans

LEMMA RunPreserves ==
  ASSUME RTInv, [RTNext]_rtVars
  PROVE  /\ RTInv'
         /\ consecutiveErrors' > 1 /\ consecutiveErrors' # consecutiveErrors => ~Answers
<1>1. CASE Environment \/ Writing
  BY <1>1, OutsideScans DEF scanVars
<1>2. CASE PingFails \/ ReadFails
  BY <1>2, ErrorCounts
<1>3. CASE Degrades \/ Scans \/ StoreFails \/ Ends \/ Restarts
  BY <1>3, ScanPreserves
<1>4. CASE UNCHANGED rtVars
  BY <1>4 DEF RTInv, RTTypeOK, ErrorsCounted, rtVars, scanVars, linkVars, cacheVars, writerVars
<1> QED
  BY <1>1, <1>2, <1>3, <1>4 DEF RTNext, ScanNext, Errs

(* The invariant holds throughout every behaviour. *)
LEMMA ScanInvariant == RTSpec => []RTInv
<1>1. RTInit => RTInv
  BY TagAssumption DEF RTInit, RTInv, RTTypeOK, ErrorsCounted, Links
<1>2. RTInv /\ [RTNext]_rtVars => RTInv'
  BY RunPreserves
<1> QED
  BY <1>1, <1>2, PTL DEF RTSpec

(* The variables keep their types: the count ends at the limit, the delay at *)
(* its maximum.                                                            *)
THEOREM ScanTypes == RTSpec => []RTTypeOK
<1>1. RTInv => RTTypeOK
  BY DEF RTInv
<1> QED
  BY <1>1, ScanInvariant, PTL

(* tag_monitor.go, runTag: whatever the limit, only failed pings reach it, of *)
(* a PLC whose port does not answer or through a client without a handler. *)
THEOREM ScanErrorsOfPings == RTSpec => OnlyPingsAccumulate
<1>1. RTInv /\ [RTNext]_rtVars =>
        [consecutiveErrors' > 1 /\ consecutiveErrors' # consecutiveErrors
           => ~Answers]_rtVars
  BY RunPreserves
<1> QED
  BY <1>1, ScanInvariant, PTL DEF RTSpec, OnlyPingsAccumulate

(* A cache entry that is fresh stays so while the value does: the safety     *)
(* half of EventuallyFresh.                                                *)
THEOREM ScanStaysFresh == RTSpec => StaysFresh
<1>1. [RTNext]_rtVars => [Fresh => Fresh' \/ plc' # plc]_rtVars
  <2> SUFFICES ASSUME RTNext, Fresh, plc' = plc PROVE Fresh'
    OBVIOUS
  <2> USE DEF Fresh, linkVars, cacheVars, writerVars
  <2>1. CASE Environment
    BY <2>1 DEF Environment, PLCChanges, LinkChanges, ClientCloses, OthersRedial,
       scanVars
  <2>2. CASE Writing
    BY <2>2 DEF Writing, Writes, WriterStores, WriterStoreFails, WriterPublishes, scanVars
  <2>3. CASE Errs
    BY <2>3 DEF Errs, PingFails, ReadFails, OneErrorMore, Degrades
  <2>4. CASE PingSucceeds \/ ScansAtOnce \/ ReadSucceeds
    BY <2>4 DEF PingSucceeds, ScansAtOnce, ReadSucceeds
  <2>5. CASE Compares \/ Stores \/ StoreFails \/ Publishes
    BY <2>5 DEF Compares, Stores, StoreFails, Publishes
  <2>6. CASE Ends \/ Restarts
    BY <2>6 DEF Ends, Restarts
  <2> QED
    BY <2>1, <2>2, <2>3, <2>4, <2>5, <2>6 DEF RTNext, ScanNext, Scans
<1> QED
  BY <1>1, PTL DEF RTSpec, StaysFresh
=============================================================================
