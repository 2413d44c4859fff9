------------------------------- MODULE WebSocketHub -------------------------------
(***************************************************************************)
(* The WebSocket hub of internal/websocket: the loop of Gerenciador.Iniciar *)
(* (registrar, desregistrar, broadcast, doneChan), the collector            *)
(* coletarDados, Parar, and per client the handler ManipularWS and the two  *)
(* pumps bombearLeitura and bombearEscrita.                                 *)
(*                                                                         *)
(* The loop receives from a channel in one step and takes g.mutex in the    *)
(* next: Parar may take the mutex between the two.  Messages are numbered   *)
(* in the order in which they enter the broadcast channel; as channels are  *)
(* FIFO, a channel is the interval or the set of the numbers in it.         *)
(***************************************************************************)
EXTENDS Naturals, FiniteSets

CONSTANTS Clients,      \* identities of *Cliente values
          PLCs,         \* plcsMonitorados
          NoFilter,     \* filtroPlcID == 0
          NoClient,     \* the loop holds no client
          BroadcastCap, \* capacity of broadcast (100)
          SendCap,      \* capacity of enviar (256)
          MaxMessages   \* bound: messages ever collected

ASSUME HubAssumption ==
  /\ NoFilter \notin PLCs /\ NoClient \notin Clients
  /\ BroadcastCap \in Nat /\ SendCap \in Nat /\ MaxMessages \in Nat

VARIABLES
  clientes,   \* g.clientes
  loop,       \* where the hub's loop is
  arg,        \* the client it received from registrar or desregistrar
  doneChan,   \* doneChan is closed
  parar,      \* where Parar is
  collector,  \* coletarDados has not returned
  offered,    \* messages that entered broadcast
  handled,    \* messages that the loop has broadcast to the clients
  plcOf,      \* the PLC of each message
  filter,     \* filtroPlcID
  closed,     \* the clients whose channel enviar is closed
  sent,       \* the messages that entered enviar
  taken,      \* the messages that left it again
  joined,     \* what handled was when the client was registered
  reader,     \* where bombearLeitura (before it, ManipularWS) is
  writer,     \* where bombearEscrita is
  conn        \* the client's connection

loopVars   == <<clientes, loop, arg, handled>>
stopVars   == <<doneChan, parar, collector>>
queueVars  == <<offered, plcOf>>
enviarVars == <<closed, sent, taken, joined>>
pumpVars   == <<filter, reader, writer, conn>>
vars == <<loopVars, stopVars, queueVars, enviarVars, pumpVars>>

Messages == 1..MaxMessages
Buffered(c)   == sent[c] \ taken[c]
Matches(c, n) == filter[c] \in {NoFilter, plcOf[n]}
(* The loop holds one message that has left the channel while it broadcasts. *)
Queued == offered - handled - (IF loop = "broadcasting" THEN 1 ELSE 0)

Init ==
  /\ clientes = {} /\ loop = "select" /\ arg = NoClient
  /\ doneChan = FALSE /\ parar = "no" /\ collector = TRUE
  /\ offered = 0 /\ handled = 0 /\ plcOf \in [Messages -> PLCs]
  /\ filter = [c \in Clients |-> NoFilter]
  /\ closed = {}
  /\ sent = [c \in Clients |-> {}]
  /\ taken = [c \in Clients |-> {}]
  /\ joined = [c \in Clients |-> 0]
  /\ reader = [c \in Clients |-> "none"]
  /\ writer = [c \in Clients |-> "none"]
  /\ conn = [c \in Clients |-> "none"]

-----------------------------------------------------------------------------
(* A client. *)

(* ManipularWS: the connection is upgraded, and sent to registrar. *)
Connects(c, f) ==
  /\ reader[c] = "none"
  /\ reader' = [reader EXCEPT ![c] = "registering"]
  /\ conn' = [conn EXCEPT ![c] = "open"]
  /\ filter' = [filter EXCEPT ![c] = f]
  /\ UNCHANGED <<loopVars, stopVars, queueVars, enviarVars, writer>>

(* ReadMessage fails: the peer is gone, silent for 60 s, or conn is closed. *)
ReaderFails(c) ==
  /\ reader[c] = "reading"
  /\ reader' = [reader EXCEPT ![c] = "unregistering"]
  /\ UNCHANGED <<loopVars, stopVars, queueVars, enviarVars, filter, writer, conn>>

WriterEnds(c) ==
  /\ writer[c] = "writing"
  /\ writer' = [writer EXCEPT ![c] = "done"]
  /\ conn' = [conn EXCEPT ![c] = "closed"]
  /\ UNCHANGED <<loopVars, stopVars, queueVars, enviarVars, filter, reader>>

(* A message or a ping cannot be written. *)
WriterFails(c) == WriterEnds(c)

WriterIgnoresClosed(c) ==
  c \in closed /\ Buffered(c) = {} /\ writer[c] = "writing" /\ UNCHANGED vars

(* The closed channel is empty: a close frame is sent. *)
WriterSeesClosed(c) == c \in closed /\ Buffered(c) = {} /\ WriterEnds(c)

WriterTakes(c) ==
  /\ writer[c] = "writing"
  /\ \E n \in Buffered(c) :
       /\ \A m \in Buffered(c) : n <= m
       /\ taken' = [taken EXCEPT ![c] = @ \cup {n}]
  /\ UNCHANGED <<loopVars, stopVars, queueVars, closed, sent, joined, pumpVars>>

-----------------------------------------------------------------------------
(* The loop. *)

(* A client is received from registrar; ManipularWS starts its pumps. *)
TakesRegistrar(c) ==
  /\ loop = "select"
  /\ reader[c] = "registering"
  /\ loop' = "registering" /\ arg' = c
  /\ reader' = [reader EXCEPT ![c] = "reading"]
  /\ writer' = [writer EXCEPT ![c] = "writing"]
  /\ UNCHANGED <<clientes, handled, stopVars, queueVars, enviarVars, filter, conn>>

Registers ==
  /\ loop = "registering"
  /\ clientes' = clientes \cup {arg}
  /\ joined' = [joined EXCEPT ![arg] = handled]
  /\ loop' = "select" /\ arg' = NoClient
  /\ UNCHANGED <<handled, stopVars, queueVars, closed, sent, taken, pumpVars>>

(* A client is received from desregistrar; its reader closes conn. *)
TakesDesregistrar(c) ==
  /\ loop = "select"
  /\ reader[c] = "unregistering"
  /\ loop' = "unregistering" /\ arg' = c
  /\ reader' = [reader EXCEPT ![c] = "done"]
  /\ conn' = [conn EXCEPT ![c] = "closed"]
  /\ UNCHANGED <<clientes, handled, stopVars, queueVars, enviarVars, filter, writer>>

UnregistersKeepsMember ==
  /\ loop = "unregistering"
  /\ closed' = closed \cup (clientes \cap {arg})
  /\ loop' = "select" /\ arg' = NoClient
  /\ UNCHANGED <<clientes, handled, stopVars, queueVars, sent, taken, joined, pumpVars>>

Unregisters ==
  /\ loop = "unregistering"
  /\ closed' = closed \cup (clientes \cap {arg})
  /\ clientes' = clientes \ {arg}
  /\ loop' = "select" /\ arg' = NoClient
  /\ UNCHANGED <<handled, stopVars, queueVars, sent, taken, joined, pumpVars>>

TakesBroadcast ==
  /\ loop = "select"
  /\ offered > handled
  /\ loop' = "broadcasting"
  /\ UNCHANGED <<clientes, arg, handled, stopVars, queueVars, enviarVars, pumpVars>>

Receivers(n) == {c \in clientes : Matches(c, n)}
Full(c)      == Cardinality(Buffered(c)) >= SendCap

SlowAreSkipped(n) == {}
SlowClients(n) == {c \in Receivers(n) : Full(c)}

(* Who has no room for the message is closed and forgotten. *)
Broadcasts ==
  LET n == handled + 1
      got == {c \in Receivers(n) : ~Full(c)} IN
  /\ loop = "broadcasting"
  /\ sent' = [c \in Clients |-> IF c \in got THEN sent[c] \cup {n} ELSE sent[c]]
  /\ closed' = closed \cup SlowClients(n)
  /\ clientes' = clientes \ SlowClients(n)
  /\ handled' = n
  /\ loop' = "select"
  /\ UNCHANGED <<arg, stopVars, queueVars, taken, joined, pumpVars>>

LoopExitsWhenEmpty ==
  /\ loop = "select"
  /\ doneChan /\ clientes = {}
  /\ loop' = "done"
  /\ UNCHANGED <<clientes, arg, handled, stopVars, queueVars, enviarVars, pumpVars>>

LoopExits ==
  /\ loop = "select"
  /\ doneChan
  /\ loop' = "done"
  /\ UNCHANGED <<clientes, arg, handled, stopVars, queueVars, enviarVars, pumpVars>>

-----------------------------------------------------------------------------
(* The collector.  Its next message is about some monitored PLC; a full     *)
(* broadcast channel makes it skip the message.                             *)
Collects ==
  /\ collector
  /\ offered < MaxMessages
  /\ Queued < BroadcastCap
  /\ offered' = offered + 1
  /\ UNCHANGED <<loopVars, stopVars, plcOf, enviarVars, pumpVars>>

CollectorExits ==
  /\ collector /\ doneChan
  /\ collector' = FALSE
  /\ UNCHANGED <<loopVars, doneChan, parar, queueVars, enviarVars, pumpVars>>

-----------------------------------------------------------------------------
(* Parar. *)

PararBegins ==
  /\ parar = "no"
  /\ parar' = "clearing"
  /\ doneChan' = TRUE
  /\ UNCHANGED <<loopVars, collector, queueVars, enviarVars, pumpVars>>

PararClears ==
  /\ parar = "clearing"
  /\ closed' = closed \cup clientes
  /\ clientes' = {}
  /\ parar' = "waiting"
  /\ UNCHANGED <<loop, arg, handled, doneChan, collector, queueVars, sent, taken, joined,
                 pumpVars>>

PararSucceeds ==
  /\ parar = "waiting"
  /\ loop = "done" /\ ~collector
  /\ parar' = "succeeded"
  /\ UNCHANGED <<loopVars, doneChan, collector, queueVars, enviarVars, pumpVars>>

PararTimesOut ==
  /\ parar = "waiting"
  /\ parar' = "timeout"
  /\ UNCHANGED <<loopVars, doneChan, collector, queueVars, enviarVars, pumpVars>>

-----------------------------------------------------------------------------
LoopStep ==
  \/ \E c \in Clients : TakesRegistrar(c) \/ TakesDesregistrar(c)
  \/ Registers \/ Unregisters
  \/ TakesBroadcast \/ Broadcasts
  \/ LoopExits

ClientStep(c) ==
  \/ \E f \in PLCs \cup {NoFilter} : Connects(c, f)
  \/ ReaderFails(c)
  \/ WriterFails(c) \/ WriterSeesClosed(c) \/ WriterTakes(c)

Next ==
  \/ LoopStep
  \/ \E c \in Clients : ClientStep(c)
  \/ Collects \/ CollectorExits
  \/ PararBegins \/ PararClears \/ PararSucceeds \/ PararTimesOut

Spec == Init /\ [][Next]_vars

(* The goroutines are scheduled; the loop's select, which chooses among its *)
(* ready cases at random, serves each of them in the end; a read on a closed *)
(* connection fails.                                                        *)
Fairness ==
  /\ WF_vars(Registers) /\ WF_vars(Unregisters) /\ WF_vars(Broadcasts)
  /\ SF_vars(LoopExits) /\ WF_vars(CollectorExits)
  /\ \A c \in Clients :
       /\ SF_vars(TakesDesregistrar(c))
       /\ WF_vars(conn[c] = "closed" /\ ReaderFails(c))
       /\ WF_vars(WriterSeesClosed(c)) /\ WF_vars(WriterTakes(c))

FairSpec == Spec /\ Fairness

-----------------------------------------------------------------------------
(* The types of the variables; a registered client has a writer. *)
TypeOK ==
  /\ clientes \in SUBSET Clients
  /\ loop \in {"select", "registering", "unregistering", "broadcasting", "done"}
  /\ arg \in Clients \cup {NoClient}
  /\ loop \in {"registering", "unregistering"} <=> arg # NoClient
  /\ doneChan \in BOOLEAN /\ collector \in BOOLEAN
  /\ parar \in {"no", "clearing", "waiting", "succeeded", "timeout"}
  /\ offered \in 0..MaxMessages /\ handled \in 0..offered
  /\ loop = "broadcasting" => handled < offered
  /\ plcOf \in [Messages -> PLCs]
  /\ filter \in [Clients -> PLCs \cup {NoFilter}]
  /\ closed \in SUBSET Clients
  /\ sent \in [Clients -> SUBSET Messages]
  /\ taken \in [Clients -> SUBSET Messages]
  /\ joined \in [Clients -> 0..handled]
  /\ reader \in [Clients -> {"none", "registering", "reading", "unregistering", "done"}]
  /\ writer \in [Clients -> {"none", "writing", "done"}]
  /\ conn \in [Clients -> {"none", "open", "closed"}]
  /\ \A c \in clientes : writer[c] # "none"

(* The channel of a registered client is open: the loop and Parar neither   *)
(* send to a closed channel nor close one twice, either of which panics.    *)
RegisteredIsOpen == clientes \cap closed = {}

(* A registered client was sent every message that passes its filter since  *)
(* it joined, and no other: who falls behind is disconnected, never skipped. *)
NoGap ==
  \A c \in clientes :
    sent[c] = {n \in Messages : joined[c] < n /\ n <= handled /\ Matches(c, n)}

(* A client whose channel was closed is disconnected in the end. *)
ClosedIsDisconnected == \A c \in Clients : c \in closed ~> conn[c] = "closed"

(* While the loop runs, who is disconnected leaves the hub. *)
DisconnectedIsDropped ==
  \A c \in Clients : conn[c] = "closed" ~> (c \notin clientes \/ loop = "done")

(* Parar ends the loop and the collector. *)
PararEndsGoroutines == doneChan ~> (loop = "done" /\ ~collector)

(* gerenciador.go:104, "Fecha todas as conexões de cliente": when Parar has  *)
(* ended the goroutines no client is left in the hub.                       *)
PararLeavesNone == parar = "succeeded" => clientes = {}
=============================================================================
