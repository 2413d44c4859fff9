-------------------------------- MODULE PLCClient --------------------------------
(***************************************************************************)
(* internal/plc/client.go: goroutines that share clients of one PLC, and   *)
(* one byte of a data block, whose bits are tags of their own.  Client.mu  *)
(* is held through every exchange with the PLC, but ensureConnected looks  *)
(* at the connection without it, and several clients may be connected to   *)
(* the same PLC: the pooled one that the runners read through, and one for *)
(* every caller that writes (plcmanager/writer.go).                        *)
(*                                                                         *)
(* The fields handler and client are nil together whenever mu is free, and *)
(* are one variable; the three fields ensureConnected reads are read in    *)
(* one step, since each outcome of reading them apart is also the outcome  *)
(* of reading them together at one of the moments in between.  A session   *)
(* that is dead stays dead until the client dials again: gos7 does not     *)
(* dial by itself on a connection it holds.                                *)
(***************************************************************************)
EXTENDS Naturals

CONSTANTS Clients, Users, Bits,
          NoUser  \* the mutex is free

ASSUME ClientAssumption == NoUser \notin Users

Jobs == [op: {"read", "reconnect", "ping"}, client: Clients]
          \cup [op: {"set", "clear"}, client: Clients, bit: Bits]
NoJob == [op |-> "none"]
Labels == {"idle", "check", "connect", "dialing", "lock", "use", "modify",
           "ping", "panicked"}

VARIABLES
  byte,        \* the bits of the byte in the PLC that are set
  reachable,   \* the port of the PLC answers
  session,     \* the TCP session behind each handler is alive
  handler,     \* the handler is not nil
  isConnected,
  mu,          \* who holds the mutex of each client
  pc,
  job,         \* the call a goroutine makes, and its arguments
  buf,         \* the byte a goroutine has read and will write back
  overtaken,   \* history: the PLC or another client has written the byte since
  dropped      \* history: the client was closed or redialled since it was checked

plcVars    == <<byte, reachable>>
clientVars == <<session, handler, isConnected, mu>>
history    == <<overtaken, dropped>>
vars == <<plcVars, clientVars, pc, job, buf, history>>

(* Every client comes from a NewClient that succeeded. *)
Init ==
  /\ byte \in SUBSET Bits /\ reachable = TRUE
  /\ session = [c \in Clients |-> TRUE]
  /\ handler = [c \in Clients |-> TRUE]
  /\ isConnected = [c \in Clients |-> TRUE]
  /\ mu = [c \in Clients |-> NoUser]
  /\ pc = [g \in Users |-> "idle"]
  /\ job = [g \in Users |-> NoJob]
  /\ buf = [g \in Users |-> {}]
  /\ overtaken = [g \in Users |-> FALSE] /\ dropped = [g \in Users |-> FALSE]

-----------------------------------------------------------------------------
(* The PLC's own program and the network. *)
PLCWrites(b) ==
  /\ byte' = IF b \in byte THEN byte \ {b} ELSE byte \cup {b}
  /\ overtaken' = [g \in Users |-> overtaken[g] \/ pc[g] = "modify"]
  /\ UNCHANGED <<reachable, clientVars, pc, job, buf, dropped>>

(* The sessions of a PLC that cannot be reached are lost. *)
LinkChanges ==
  /\ reachable' = ~reachable
  /\ session' = [c \in Clients |-> session[c] /\ reachable']
  /\ UNCHANGED <<byte, handler, isConnected, mu, pc, job, buf, history>>

(* The PLC restarts, or drops an idle session, and its port still answers. *)
SessionBreaks(c) ==
  /\ session[c]
  /\ session' = [session EXCEPT ![c] = FALSE]
  /\ UNCHANGED <<plcVars, handler, isConnected, mu, pc, job, buf, history>>

-----------------------------------------------------------------------------
Goes(g, label) == pc' = [pc EXCEPT ![g] = label] /\ UNCHANGED job

(* What a goroutine called is forgotten when the call returns. *)
Returns(g) ==
  /\ pc' = [pc EXCEPT ![g] = "idle"]
  /\ job' = [job EXCEPT ![g] = NoJob]

(* The client a goroutine calls. *)
Mine(g)    == job[g].client
Free(g)    == mu[Mine(g)] = NoUser
Locked(g)  == mu' = [mu EXCEPT ![Mine(g)] = g]
Unlocked(g) == mu' = [mu EXCEPT ![Mine(g)] = NoUser]
Connected(g, state) == isConnected' = [isConnected EXCEPT ![Mine(g)] = state]

(* ReadTag, WriteTag of a bit, Reconnect or Ping is called. *)
Calls(g, j) ==
  /\ pc[g] = "idle"
  /\ job' = [job EXCEPT ![g] = j]
  /\ pc' = [pc EXCEPT ![g] = CASE j.op = "reconnect" -> "connect"
                                [] j.op = "ping" -> "ping" [] OTHER -> "check"]
  /\ UNCHANGED <<plcVars, clientVars, buf, history>>

(* ensureConnected, without the mutex. *)
TrustsFlag(g) ==
  /\ pc[g] = "check"
  /\ dropped' = [dropped EXCEPT ![g] = FALSE]
  /\ Goes(g, IF isConnected[Mine(g)] THEN "lock" ELSE "connect")
  /\ UNCHANGED <<plcVars, clientVars, buf, overtaken>>

EnsureConnected(g) ==
  /\ pc[g] = "check"
  /\ dropped' = [dropped EXCEPT ![g] = FALSE]
  /\ Goes(g, IF isConnected[Mine(g)] /\ handler[Mine(g)] THEN "lock"
             ELSE "connect")
  /\ UNCHANGED <<plcVars, clientVars, buf, overtaken>>

(* Whoever has checked the client and waits for its mutex may find it nil. *)
Drops(c) == dropped' = [g \in Users |-> \/ dropped[g]
                                        \/ pc[g] = "lock" /\ Mine(g) = c]

(* connect: the old handler is closed before the PLC is dialled. *)
Dials(g) ==
  /\ pc[g] = "connect" /\ Free(g)
  /\ Locked(g)
  /\ handler' = [handler EXCEPT ![Mine(g)] = FALSE]
  /\ Drops(Mine(g))
  /\ Goes(g, "dialing")
  /\ UNCHANGED <<plcVars, session, isConnected, buf, overtaken>>

DialSucceeds(g) ==
  /\ pc[g] = "dialing" /\ reachable
  /\ Unlocked(g)
  /\ session' = [session EXCEPT ![Mine(g)] = TRUE]
  /\ handler' = [handler EXCEPT ![Mine(g)] = TRUE]
  /\ Connected(g, TRUE)
  /\ IF job[g].op = "reconnect" THEN Returns(g) ELSE Goes(g, "lock")
  /\ dropped' = [dropped EXCEPT ![g] = FALSE]
  /\ UNCHANGED <<plcVars, buf, overtaken>>

DialFailureKeepsLock(g) ==
  /\ pc[g] = "dialing" /\ ~reachable
  /\ Connected(g, FALSE)
  /\ Returns(g)
  /\ UNCHANGED <<plcVars, session, handler, mu, buf, history>>

(* The client is left without a handler, and the call returns the error.  *)
DialFails(g) ==
  /\ pc[g] = "dialing" /\ ~reachable
  /\ Unlocked(g)
  /\ Connected(g, FALSE)
  /\ Returns(g)
  /\ UNCHANGED <<plcVars, session, handler, buf, history>>

Locks(g) ==
  /\ pc[g] = "lock" /\ Free(g) /\ handler[Mine(g)]
  /\ Locked(g)
  /\ dropped' = [dropped EXCEPT ![g] = FALSE]
  /\ Goes(g, "use")
  /\ UNCHANGED <<plcVars, session, handler, isConnected, buf, overtaken>>

(* A method of c.client is called while it is nil: nothing recovers. *)
Panics(g) ==
  /\ pc[g] = "lock" /\ Free(g) /\ ~handler[Mine(g)]
  /\ Goes(g, "panicked")
  /\ UNCHANGED <<plcVars, clientVars, buf, history>>

(* The end of an exchange: it succeeded, it failed with an error that      *)
(* isNetworkError knows by its text, or with another, which leaves the     *)
(* flag as it was.  On a dead session it fails, with either kind; one that *)
(* is alive may time out or refuse.                                        *)
NotesError(g) == UNCHANGED isConnected \/ Connected(g, FALSE)

(* AGReadDB answers or fails. *)
Reads(g) ==
  /\ pc[g] = "use" /\ job[g].op = "read"
  /\ Unlocked(g)
  /\ NotesError(g)
  /\ Returns(g)
  /\ UNCHANGED <<plcVars, session, handler, buf, history>>

WritesBit(g) == job[g].op \in {"set", "clear"}

ReadsByteUnlocked(g) ==
  /\ pc[g] = "use" /\ WritesBit(g) /\ session[Mine(g)]
  /\ Unlocked(g)
  /\ buf' = [buf EXCEPT ![g] = byte]
  /\ overtaken' = [overtaken EXCEPT ![g] = FALSE]
  /\ Goes(g, "modify")
  /\ UNCHANGED <<plcVars, session, handler, isConnected, dropped>>

(* The byte is read to keep its other bits. *)
ReadsByte(g) ==
  /\ pc[g] = "use" /\ WritesBit(g) /\ session[Mine(g)]
  /\ buf' = [buf EXCEPT ![g] = byte]
  /\ overtaken' = [overtaken EXCEPT ![g] = FALSE]
  /\ Goes(g, "modify")
  /\ UNCHANGED <<plcVars, clientVars, dropped>>

(* The session is dead, or the data block does not exist: the error is     *)
(* returned without a look at its kind.                                    *)
ByteNotRead(g) ==
  /\ pc[g] = "use" /\ WritesBit(g)
  /\ Unlocked(g)
  /\ Returns(g)
  /\ UNCHANGED <<plcVars, session, handler, isConnected, buf, history>>

Modified(g) == IF job[g].op = "set" THEN buf[g] \cup {job[g].bit}
               ELSE buf[g] \ {job[g].bit}

ReturnsWritten(g) ==
  /\ buf' = [buf EXCEPT ![g] = {}]
  /\ Unlocked(g)
  /\ Returns(g)

WritesByte(g) ==
  /\ pc[g] = "modify"
  /\ byte' = Modified(g)
  /\ overtaken' = [h \in Users |-> IF h = g THEN FALSE
                     ELSE \/ overtaken[h]
                          \/ pc[h] = "modify" /\ Mine(h) # Mine(g)]
  /\ NotesError(g)
  /\ ReturnsWritten(g)
  /\ UNCHANGED <<reachable, session, handler, dropped>>

(* The PLC refused the byte, or the session died before the PLC had it;    *)
(* when it dies before the answer, WritesByte has happened and the caller  *)
(* gets the error as well.                                                 *)
ByteNotWritten(g) ==
  /\ pc[g] = "modify"
  /\ overtaken' = [overtaken EXCEPT ![g] = FALSE]
  /\ NotesError(g)
  /\ ReturnsWritten(g)
  /\ UNCHANGED <<plcVars, session, handler, dropped>>

(* Ping dials the port anew, and takes its answer for the session's. *)
Ping(g) ==
  /\ pc[g] = "ping" /\ Free(g)
  /\ IF handler[Mine(g)] THEN Connected(g, reachable) ELSE UNCHANGED isConnected
  /\ Returns(g)
  /\ UNCHANGED <<plcVars, session, handler, mu, buf, history>>

(* The pool drops the client, or a writer is done with it. *)
Close(c) ==
  /\ mu[c] = NoUser /\ handler[c]
  /\ handler' = [handler EXCEPT ![c] = FALSE]
  /\ isConnected' = [isConnected EXCEPT ![c] = FALSE]
  /\ Drops(c)
  /\ UNCHANGED <<plcVars, session, mu, pc, job, buf, overtaken>>

-----------------------------------------------------------------------------
UserStep(g) ==
  \/ EnsureConnected(g) \/ Dials(g) \/ DialSucceeds(g) \/ DialFails(g)
  \/ Locks(g) \/ Panics(g) \/ Reads(g) \/ ReadsByte(g) \/ ByteNotRead(g)
  \/ WritesByte(g) \/ ByteNotWritten(g) \/ Ping(g)

(* A panic in a goroutine ends the program. *)
Running == \A g \in Users : pc[g] # "panicked"

Next ==
  /\ Running
  /\ \/ LinkChanges \/ \E b \in Bits : PLCWrites(b)
     \/ \E c \in Clients : SessionBreaks(c) \/ Close(c)
     \/ \E g \in Users : \/ UserStep(g)
                         \/ \E j \in Jobs : Calls(g, j)

Spec == Init /\ [][Next]_vars

(* Goroutines run, and sync.Mutex hands itself to whoever waits longest. *)
FairSpec ==
  /\ Spec
  /\ \A g \in Users : SF_vars(Running /\ UserStep(g))

-----------------------------------------------------------------------------
TypeOK ==
  /\ byte \in SUBSET Bits /\ reachable \in BOOLEAN
  /\ session \in [Clients -> BOOLEAN] /\ handler \in [Clients -> BOOLEAN]
  /\ isConnected \in [Clients -> BOOLEAN]
  /\ mu \in [Clients -> Users \cup {NoUser}]
  /\ pc \in [Users -> Labels] /\ job \in [Users -> Jobs \cup {NoJob}]
  /\ buf \in [Users -> SUBSET Bits]
  /\ overtaken \in [Users -> BOOLEAN] /\ dropped \in [Users -> BOOLEAN]

(* Writing a bit changes no other bit of the byte, unless the PLC or a     *)
(* goroutine with another client has written the byte in between: the      *)
(* writes of one client never undo each other (client.go:436, "Primeiro    *)
(* ler o byte atual para preservar os outros bits").                       *)
NeighboursKept ==
  [][\A g \in Users : pc[g] = "modify" /\ WritesByte(g) /\ ~overtaken[g]
       => byte' \ {job[g].bit} = byte \ {job[g].bit}]_vars

(* A call meets a nil client only if another goroutine closed or redialled *)
(* it after this one had checked it: a goroutine that has its client to    *)
(* itself never panics.                                                    *)
PanicOnlyIfDropped == \A g \in Users : pc[g] = "panicked" => dropped[g]

(* No call waits for ever: the mutex of a client is always released.       *)
CallsReturn == \A g \in Users : (pc[g] # "idle") ~> (pc[g] = "idle" \/ ~Running)

Reading(c) ==
  Running /\ \E g \in Users : pc[g] = "use" /\ Mine(g) = c /\ job[g].op = "read"

(* client.go:116, "ensureConnected garante que a conexão esteja ativa      *)
(* antes de qualquer operação": a client that is read through gets a       *)
(* living session again once the PLC can be reached, whoever pings it and  *)
(* whatever the errors say.                                                *)
RecoversThoughPinged ==
  \A c \in Clients : <>[]reachable /\ []<>Reading(c) => []<>session[c]

(* A write keeps the neighbouring bits whoever else writes the byte.       *)
NeighboursKeptByAll ==
  [][\A g \in Users : pc[g] = "modify" /\ WritesByte(g)
       => byte' \ {job[g].bit} = byte \ {job[g].bit}]_vars

(* No goroutine ever uses a client that is nil.                            *)
NeverPanics == Running
=============================================================================
