------------------------------ MODULE ScheduledWrites ------------------------------
(***************************************************************************)
(* The scheduled tag writes of internal/plcmanager/writer.go: the global    *)
(* slice scheduledWrites, its mutex, and the processor goroutine that       *)
(* ScheduleWrite launches when none is running.                             *)
(*                                                                          *)
(* Requests are numbered in the order in which they are scheduled.  The     *)
(* slice only grows at its end and is only ever filtered, so it is kept as  *)
(* the set of the requests in it: the index of one is the number of         *)
(* smaller ones.  Time is counted in ticks.                                 *)
(***************************************************************************)
EXTENDS Naturals, FiniteSets

CONSTANTS MaxWrites,    \* bound: requests ever scheduled
          MaxTime,      \* bound: the clock stops here
          Retention,    \* how long an executed write is kept (24 h)
          Processors,   \* identities of processor goroutines
          Asleep        \* a processor that waits for its ticker

ASSUME ScheduleAssumption ==
  /\ MaxWrites \in Nat /\ MaxTime \in Nat /\ Retention \in Nat
  /\ Asleep \notin Nat

VARIABLES
  clock,            \* time.Now()
  scheduled,        \* how many requests have been scheduled
  listed,           \* the requests in the slice scheduledWrites
  at,               \* Timestamp of each request
  status,           \* Executed and Result of each request
  performed,        \* how often WriteTagByID was called for each request
  handle,           \* the writeID that ScheduleWrite returned for each request
  asked,            \* the requests whose owner has called CancelScheduledWrite
  scheduleRunning,  \* the global of that name
  processors,       \* the processor goroutines that have not returned
  wake              \* the time each one read before locking the mutex

requestVars   == <<scheduled, listed, at, status, performed, handle, asked>>
processorVars == <<scheduleRunning, processors, wake>>
vars == <<clock, requestVars, processorVars>>

Requests == 1..MaxWrites
Times    == 0..MaxTime
Statuses == {"new", "pending", "written", "failed", "cancelled"}

Pending(S) == {w \in S : status[w] = "pending"}
IndexOf(w) == Cardinality({v \in listed : v < w})

Init ==
  /\ clock = 0
  /\ scheduled = 0
  /\ listed = {}
  /\ at = [w \in Requests |-> 0]
  /\ status = [w \in Requests |-> "new"]
  /\ performed = [w \in Requests |-> 0]
  /\ handle = [w \in Requests |-> 0]
  /\ asked = {}
  /\ scheduleRunning = FALSE
  /\ processors = {}
  /\ wake = [g \in Processors |-> Asleep]

-----------------------------------------------------------------------------
LaunchAlways ==
  \E g \in Processors \ processors :
    /\ scheduleRunning' = TRUE
    /\ processors' = processors \cup {g}
    /\ wake' = [wake EXCEPT ![g] = Asleep]

LaunchIfIdle ==
  IF scheduleRunning
  THEN UNCHANGED processorVars
  ELSE \E g \in Processors \ processors :
         /\ scheduleRunning' = TRUE
         /\ processors' = processors \cup {g}
         /\ wake' = [wake EXCEPT ![g] = Asleep]

(* The identifier returned: the length of the slice after the append, less one. *)
WriteID == Cardinality(listed)

(* ScheduleWrite of a value that ValidateValueForTag accepts, for time t; a *)
(* rejected value changes nothing.                                          *)
ScheduleWrite(t) ==
  /\ scheduled < MaxWrites
  /\ LET w == scheduled + 1 IN
     /\ scheduled' = w
     /\ handle' = [handle EXCEPT ![w] = WriteID]
     /\ listed' = listed \cup {w}
     /\ at' = [at EXCEPT ![w] = t]
     /\ status' = [status EXCEPT ![w] = "pending"]
  /\ LaunchIfIdle
  /\ UNCHANGED <<clock, performed, asked>>

CancelExecuted(w) ==
  /\ w \in 1..scheduled \ asked
  /\ asked' = asked \cup {w}
  /\ status' = [v \in Requests |->
                  IF v \in listed /\ IndexOf(v) = handle[w]
                  THEN "cancelled" ELSE status[v]]
  /\ UNCHANGED <<clock, scheduled, listed, at, performed, handle, processorVars>>

(* CancelScheduledWrite with the identifier returned for w; it refuses an   *)
(* index outside the slice and a write already executed.                    *)
CancelScheduledWrite(w) ==
  /\ w \in 1..scheduled \ asked
  /\ asked' = asked \cup {w}
  /\ status' = [v \in Requests |->
                  IF v \in Pending(listed) /\ IndexOf(v) = handle[w]
                  THEN "cancelled" ELSE status[v]]
  /\ UNCHANGED <<clock, scheduled, listed, at, performed, handle, processorVars>>

-----------------------------------------------------------------------------
(* processScheduledWrites. *)

(* A tick: now is read before the mutex is taken. *)
Wake(g) ==
  /\ g \in processors
  /\ wake[g] = Asleep
  /\ wake' = [wake EXCEPT ![g] = clock]
  /\ UNCHANGED <<clock, requestVars, scheduleRunning, processors>>

Overdue(now)  == {w \in Pending(listed) : at[w] < now}
Runnable(now) == {w \in Pending(listed) : at[w] <= now}
Kept == {w \in listed : status[w] = "pending" \/ clock - at[w] < Retention}

(* Every runnable write is passed to WriteTagByID, which succeeds for ok. *)
Run(now) ==
  /\ \E ok \in SUBSET Runnable(now) :
       status' = [w \in Requests |-> IF w \in ok THEN "written"
                                     ELSE IF w \in Runnable(now) THEN "failed"
                                     ELSE status[w]]
  /\ performed' = [w \in Requests |-> IF w \in Runnable(now)
                                      THEN performed[w] + 1 ELSE performed[w]]

(* Nothing is overdue: old executed writes are dropped from the slice, and *)
(* the goroutine returns when no write is left to execute.                 *)
ExitsWhenNothingDue(g) ==
  /\ g \in processors
  /\ wake[g] # Asleep
  /\ Overdue(wake[g]) = {}
  /\ listed' = Kept
  /\ scheduleRunning' = FALSE
  /\ processors' = processors \ {g}
  /\ wake' = [wake EXCEPT ![g] = Asleep]
  /\ UNCHANGED <<clock, scheduled, at, status, performed, handle, asked>>

Exits(g) ==
  /\ g \in processors
  /\ wake[g] # Asleep
  /\ Overdue(wake[g]) = {} /\ listed # {}
  /\ Pending(Kept) = {}
  /\ listed' = Kept
  /\ scheduleRunning' = FALSE
  /\ processors' = processors \ {g}
  /\ wake' = [wake EXCEPT ![g] = Asleep]
  /\ UNCHANGED <<clock, scheduled, at, status, performed, handle, asked>>

(* Otherwise the runnable writes are executed under the mutex. *)
Processes(g) ==
  /\ g \in processors
  /\ wake[g] # Asleep
  /\ IF Overdue(wake[g]) = {} /\ listed # {}
     THEN Pending(Kept) # {} /\ listed' = Kept
     ELSE UNCHANGED listed
  /\ Run(wake[g])
  /\ wake' = [wake EXCEPT ![g] = Asleep]
  /\ UNCHANGED <<clock, scheduled, at, handle, asked, scheduleRunning, processors>>

TimePasses ==
  /\ clock < MaxTime
  /\ clock' = clock + 1
  /\ UNCHANGED <<requestVars, processorVars>>

-----------------------------------------------------------------------------
Next ==
  \/ \E t \in Times : ScheduleWrite(t)
  \/ \E w \in Requests : CancelScheduledWrite(w)
  \/ \E g \in Processors : Wake(g) \/ Exits(g) \/ Processes(g)
  \/ TimePasses

Spec == Init /\ [][Next]_vars

(* Time passes, and a processor's ticker and mutex are granted to it. *)
FairSpec ==
  /\ Spec
  /\ WF_vars(TimePasses)
  /\ \A g \in Processors : WF_vars(Wake(g)) /\ WF_vars(Exits(g) \/ Processes(g))

-----------------------------------------------------------------------------
(* The types of the variables; requests that were not scheduled are new. *)
TypeOK ==
  /\ clock \in Times
  /\ scheduled \in 0..MaxWrites
  /\ listed \in SUBSET (1..scheduled)
  /\ at \in [Requests -> Times]
  /\ status \in [Requests -> Statuses]
  /\ performed \in [Requests -> Nat]
  /\ handle \in [Requests -> Nat]
  /\ asked \in SUBSET (1..scheduled)
  /\ scheduleRunning \in BOOLEAN
  /\ processors \in SUBSET Processors
  /\ wake \in [Processors -> Times \cup {Asleep}]

(* A write that is still to be executed is in the slice and a processor is *)
(* running: nobody who schedules while the processor decides to return is  *)
(* forgotten.                                                              *)
PendingIsServed ==
  Pending(Requests) # {} => /\ Pending(Requests) \subseteq listed
                            /\ processors # {}

(* There is never more than one processor, and the flag says whether one is. *)
OneProcessor ==
  /\ \A g, h \in processors : g = h
  /\ scheduleRunning <=> processors # {}

(* A request is passed to WriteTagByID once at most, never before its time, *)
(* and not at all when it was cancelled.                                    *)
PerformedOnce ==
  \A w \in Requests :
    /\ performed[w] <= 1
    /\ performed[w] = 1 <=> status[w] \in {"written", "failed"}

NeverEarly == \A w \in Requests : performed[w] > 0 => at[w] <= clock

(* A scheduled write is executed or cancelled in the end. *)
EventuallySettled ==
  \A w \in Requests : status[w] = "pending" ~> status[w] # "pending"

(* writer.go:1110, "CancelScheduledWrite cancela uma escrita agendada que    *)
(* ainda não foi executada": with the identifier that ScheduleWrite returned *)
(* for one request, no other request is cancelled.                           *)
CancelsOnlyAsked == \A w \in Requests : status[w] = "cancelled" => w \in asked
=============================================================================
