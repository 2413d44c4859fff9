----------------------------- MODULE WebSocketHubProofs -----------------------------
(***************************************************************************)
(* Safety of the WebSocket hub for any number of clients, PLCs and messages *)
(* and any capacity of its channels.                                        *)
(***************************************************************************)
EXTENDS WebSocketHub, TLAPS

USE HubAssumption
USE DEF Messages

Newcomers == {"none", "registering"}

(* A client that the loop has not received yet has no pump, no message and *)
(* an open channel, and is not registered.                                 *)
NewcomersAreOutside ==
  \A c \in Clients :
    reader[c] \in Newcomers =>
      c \notin clientes /\ c \notin closed /\ sent[c] = {} /\ writer[c] = "none"

(* The client the loop is about to register is not registered yet, has its  *)
(* pumps, no message and an open channel.                                   *)
ArgIsFresh ==
  loop = "registering" =>
    /\ arg \notin clientes /\ arg \notin closed /\ sent[arg] = {}
    /\ writer[arg] # "none" /\ reader[arg] \notin Newcomers

IInv ==
  /\ TypeOK
  /\ RegisteredIsOpen
  /\ NoGap
  /\ NewcomersAreOutside
  /\ ArgIsFresh

USE DEF Newcomers
-----------------------------------------------------------------------------
(* A step of a client before or after its registration preserves it. *)
LEMMA ClientPreserves ==
  ASSUME IInv, NEW c \in Clients, ClientStep(c) PROVE IInv'
<1>1. ASSUME NEW f \in PLCs \cup {NoFilter}, Connects(c, f) PROVE IInv'
  <2>1. c \notin clientes /\ ~(loop = "registering" /\ arg = c)
    BY <1>1 DEF IInv, NewcomersAreOutside, ArgIsFresh, Connects
  <2>2. TypeOK'
    BY <1>1 DEF IInv, TypeOK, Connects, loopVars, stopVars, queueVars, enviarVars
  <2>3. NoGap'
    <3>1. \A d \in clientes : filter'[d] = filter[d]
      BY <1>1, <2>1 DEF IInv, TypeOK, Connects
    <3> QED
      BY <1>1, <3>1 DEF IInv, TypeOK, NoGap, Matches, Connects, loopVars, queueVars, enviarVars
  <2>4. RegisteredIsOpen' /\ NewcomersAreOutside' /\ ArgIsFresh'
    BY <1>1, <2>1 DEF IInv, TypeOK, RegisteredIsOpen, NewcomersAreOutside, ArgIsFresh,
       Connects, loopVars, enviarVars
  <2> QED
    BY <2>2, <2>3, <2>4 DEF IInv
<1>2. CASE ReaderFails(c)
  <2>1. TypeOK'
    BY <1>2 DEF IInv, TypeOK, ReaderFails, loopVars, stopVars, queueVars, enviarVars
  <2>2. RegisteredIsOpen' /\ NoGap' /\ NewcomersAreOutside' /\ ArgIsFresh'
    BY <1>2 DEF IInv, TypeOK, RegisteredIsOpen, NoGap, Matches, NewcomersAreOutside,
       ArgIsFresh, ReaderFails, loopVars, queueVars, enviarVars
  <2> QED
    BY <2>1, <2>2 DEF IInv
<1>3. CASE WriterEnds(c)
  <2>1. TypeOK'
    BY <1>3 DEF IInv, TypeOK, WriterEnds, loopVars, stopVars, queueVars, enviarVars
  <2>2. RegisteredIsOpen' /\ NoGap' /\ NewcomersAreOutside' /\ ArgIsFresh'
    BY <1>3 DEF IInv, TypeOK, RegisteredIsOpen, NoGap, Matches, NewcomersAreOutside,
       ArgIsFresh, WriterEnds, loopVars, queueVars, enviarVars
  <2> QED
    BY <2>1, <2>2 DEF IInv
<1>4. CASE WriterTakes(c)
  <2>1. taken' \in [Clients -> SUBSET Messages]
    BY <1>4 DEF IInv, TypeOK, WriterTakes, Buffered
  <2>2. TypeOK'
    BY <1>4, <2>1 DEF IInv, TypeOK, WriterTakes, loopVars, stopVars, queueVars, pumpVars
  <2>3. RegisteredIsOpen' /\ NoGap' /\ NewcomersAreOutside' /\ ArgIsFresh'
    BY <1>4 DEF IInv, RegisteredIsOpen, NoGap, Matches, NewcomersAreOutside,
       ArgIsFresh, WriterTakes, loopVars, queueVars, pumpVars
  <2> QED
    BY <2>2, <2>3 DEF IInv
<1> QED
  BY <1>1, <1>2, <1>3, <1>4 DEF ClientStep, WriterFails, WriterSeesClosed

(* The loop receives and registers a client. *)
LEMMA RegistrationPreserves ==
  ASSUME IInv, (\E c \in Clients : TakesRegistrar(c)) \/ Registers PROVE IInv'
<1>1. ASSUME NEW c \in Clients, TakesRegistrar(c) PROVE IInv'
  <2>1. TypeOK'
    BY <1>1 DEF IInv, TypeOK, TakesRegistrar, stopVars, queueVars, enviarVars
  <2>2. NoGap' /\ RegisteredIsOpen'
    BY <1>1 DEF IInv, NoGap, RegisteredIsOpen, Matches, TakesRegistrar, queueVars, enviarVars
  <2>3. NewcomersAreOutside' /\ ArgIsFresh'
    BY <1>1 DEF IInv, TypeOK, NewcomersAreOutside, ArgIsFresh, TakesRegistrar, enviarVars
  <2> QED
    BY <2>1, <2>2, <2>3 DEF IInv
<1>2. CASE Registers
  <2>1. arg \in Clients /\ arg \notin closed /\ sent[arg] = {} /\ writer[arg] # "none"
        /\ reader[arg] \notin Newcomers
    BY <1>2 DEF IInv, TypeOK, ArgIsFresh, Registers
  <2>2. TypeOK'
    <3>1. joined' \in [Clients -> 0..handled]
      BY <1>2 DEF IInv, TypeOK, Registers
    <3> QED
      BY <1>2, <2>1, <3>1 DEF IInv, TypeOK, Registers, stopVars, queueVars, pumpVars
  <2>3. RegisteredIsOpen' /\ NewcomersAreOutside' /\ ArgIsFresh'
    BY <1>2, <2>1 DEF IInv, RegisteredIsOpen, NewcomersAreOutside, ArgIsFresh, Registers, pumpVars
  <2>4. NoGap'
    <3> SUFFICES ASSUME NEW c \in clientes'
                 PROVE  (sent[c] = {n \in Messages : joined[c] < n /\ n <= handled
                                                     /\ Matches(c, n)})'
      BY DEF NoGap
    <3>1. CASE c = arg
      <4>1. joined'[c] = handled /\ handled' = handled /\ sent'[c] = {} /\ handled \in Nat
        BY <1>2, <2>1, <3>1 DEF IInv, TypeOK, Registers
      <4>2. \A n \in Messages : ~(handled < n /\ n <= handled)
        BY <4>1
      <4> QED
        BY <4>1, <4>2
    <3>2. CASE c # arg
      <4>1. c \in clientes /\ joined'[c] = joined[c] /\ sent' = sent /\ handled' = handled
            /\ filter' = filter /\ plcOf' = plcOf
        BY <1>2, <3>2 DEF IInv, TypeOK, Registers, pumpVars, queueVars
      <4> QED
        BY <4>1 DEF IInv, NoGap, Matches
    <3> QED
      BY <3>1, <3>2
  <2> QED
    BY <2>2, <2>3, <2>4 DEF IInv
<1> QED
  BY <1>1, <1>2

(* The loop receives a client from desregistrar and removes it. *)
LEMMA RemovalPreserves ==
  ASSUME IInv, (\E c \in Clients : TakesDesregistrar(c)) \/ Unregisters PROVE IInv'
<1>1. ASSUME NEW c \in Clients, TakesDesregistrar(c) PROVE IInv'
  <2>1. TypeOK'
    BY <1>1 DEF IInv, TypeOK, TakesDesregistrar, stopVars, queueVars, enviarVars
  <2>2. NoGap' /\ RegisteredIsOpen'
    BY <1>1 DEF IInv, NoGap, RegisteredIsOpen, Matches, TakesDesregistrar, queueVars, enviarVars
  <2>3. NewcomersAreOutside' /\ ArgIsFresh'
    BY <1>1 DEF IInv, TypeOK, NewcomersAreOutside, ArgIsFresh, TakesDesregistrar, enviarVars
  <2> QED
    BY <2>1, <2>2, <2>3 DEF IInv
<1>2. CASE Unregisters
  <2>1. TypeOK'
    BY <1>2 DEF IInv, TypeOK, Unregisters, stopVars, queueVars, pumpVars
  <2>2. NoGap' /\ RegisteredIsOpen'
    BY <1>2 DEF IInv, NoGap, RegisteredIsOpen, Matches, Unregisters, queueVars, pumpVars
  <2>3. NewcomersAreOutside' /\ ArgIsFresh'
    BY <1>2 DEF IInv, TypeOK, NewcomersAreOutside, ArgIsFresh, Unregisters, pumpVars
  <2> QED
    BY <2>1, <2>2, <2>3 DEF IInv
<1> QED
  BY <1>1, <1>2

(* The loop broadcasts a message. *)
LEMMA BroadcastPreserves ==
  ASSUME IInv, TakesBroadcast \/ Broadcasts PROVE IInv'
<1>1. CASE TakesBroadcast
  <2>1. TypeOK'
    BY <1>1 DEF IInv, TypeOK, TakesBroadcast, stopVars, queueVars, enviarVars, pumpVars
  <2>2. NoGap' /\ RegisteredIsOpen' /\ NewcomersAreOutside' /\ ArgIsFresh'
    BY <1>1 DEF IInv, NoGap, RegisteredIsOpen, Matches, NewcomersAreOutside, ArgIsFresh,
       TakesBroadcast, queueVars, enviarVars, pumpVars
  <2> QED
    BY <2>1, <2>2 DEF IInv
<1>2. CASE Broadcasts
  <2> DEFINE n == handled + 1
             got == {c \in Receivers(n) : ~Full(c)}
  <2>1. handled \in Nat /\ n \in Messages /\ n <= offered /\ handled' = n
    BY <1>2 DEF IInv, TypeOK, Broadcasts
  <2>2. \A c \in Clients : sent'[c] = IF c \in got THEN sent[c] \cup {n} ELSE sent[c]
    BY <1>2 DEF Broadcasts
  <2>3. clientes' = clientes \ SlowClients(n) /\ closed' = closed \cup SlowClients(n)
    BY <1>2 DEF Broadcasts
  <2>4. SlowClients(n) \subseteq clientes /\ got \subseteq clientes
    BY DEF SlowClients, Receivers
  <2>5. TypeOK'
    <3>1. sent' \in [Clients -> SUBSET Messages]
      BY <1>2, <2>1 DEF IInv, TypeOK, Broadcasts
    <3>2. clientes' \in SUBSET Clients /\ closed' \in SUBSET Clients
      BY <2>3, <2>4 DEF IInv, TypeOK
    <3>3. clientes' \subseteq clientes
      BY <2>3
    <3>4. joined' \in [Clients -> 0..handled']
      BY <1>2, <2>1 DEF IInv, TypeOK, Broadcasts
    <3> QED
      BY <1>2, <2>1, <3>1, <3>2, <3>3, <3>4 DEF IInv, TypeOK, Broadcasts, stopVars, queueVars, pumpVars
  <2>6. RegisteredIsOpen'
    BY <2>3 DEF IInv, RegisteredIsOpen
  <2>7. NewcomersAreOutside' /\ ArgIsFresh'
    <3>1. reader' = reader /\ writer' = writer /\ loop' = "select"
      BY <1>2 DEF Broadcasts, pumpVars
    <3>2. \A c \in Clients : c \notin clientes =>
            c \notin clientes' /\ sent'[c] = sent[c] /\ (c \in closed' => c \in closed)
      BY <2>2, <2>3, <2>4
    <3> QED
      BY <3>1, <3>2 DEF IInv, NewcomersAreOutside, ArgIsFresh
  <2>8. NoGap'
    <3> SUFFICES ASSUME NEW c \in clientes'
                 PROVE  (sent[c] = {k \in Messages : joined[c] < k /\ k <= handled
                                                     /\ Matches(c, k)})'
      BY DEF NoGap
    <3>1. c \in clientes /\ c \in Clients /\ c \notin SlowClients(n)
      BY <2>3 DEF IInv, TypeOK
    <3>2. filter' = filter /\ plcOf' = plcOf /\ joined' = joined
      BY <1>2 DEF Broadcasts, queueVars, pumpVars
    <3>3. sent[c] = {k \in Messages : joined[c] < k /\ k <= handled /\ Matches(c, k)}
      BY <3>1 DEF IInv, NoGap
    <3>4. c \in got <=> Matches(c, n)
      BY <3>1 DEF SlowClients, Receivers
    <3>5. \A k \in Messages : k <= n <=> k <= handled \/ k = n
      BY <2>1
    <3>6. CASE Matches(c, n) /\ joined[c] < n
      BY <2>1, <2>2, <3>1, <3>2, <3>3, <3>4, <3>5, <3>6 DEF Matches
    <3>7. CASE ~Matches(c, n)
      BY <2>1, <2>2, <3>1, <3>2, <3>3, <3>4, <3>5, <3>7 DEF Matches
    <3>8. joined[c] < n
      BY <2>1, <3>1 DEF IInv, TypeOK
    <3> QED
      BY <3>6, <3>7, <3>8
  <2> QED
    BY <2>5, <2>6, <2>7, <2>8 DEF IInv
<1> QED
  BY <1>1, <1>2

(* The collector, Parar, and the end of the loop. *)
LEMMA StopPreserves ==
  ASSUME IInv,
         LoopExits \/ Collects \/ CollectorExits \/ PararBegins \/ PararClears
           \/ PararSucceeds \/ PararTimesOut
  PROVE  IInv'
<1>1. CASE PararClears
  <2>1. TypeOK'
    BY <1>1 DEF IInv, TypeOK, PararClears, queueVars, pumpVars
  <2>2. RegisteredIsOpen' /\ NoGap'
    BY <1>1 DEF PararClears, RegisteredIsOpen, NoGap
  <2>3. NewcomersAreOutside' /\ ArgIsFresh'
    BY <1>1 DEF IInv, NewcomersAreOutside, ArgIsFresh, PararClears, pumpVars
  <2> QED
    BY <2>1, <2>2, <2>3 DEF IInv
<1>2. CASE Collects
  <2>1. offered' \in 0..MaxMessages /\ handled' \in 0..offered'
        /\ (loop' = "broadcasting" => handled' < offered')
    BY <1>2 DEF IInv, TypeOK, Collects, loopVars
  <2>2. TypeOK'
    BY <1>2, <2>1 DEF IInv, TypeOK, Collects, loopVars, stopVars, enviarVars, pumpVars
  <2>3. RegisteredIsOpen' /\ NoGap' /\ NewcomersAreOutside' /\ ArgIsFresh'
    BY <1>2 DEF IInv, RegisteredIsOpen, NoGap, Matches, NewcomersAreOutside, ArgIsFresh,
       Collects, loopVars, enviarVars, pumpVars
  <2> QED
    BY <2>2, <2>3 DEF IInv
<1>3. CASE LoopExits \/ CollectorExits \/ PararBegins \/ PararSucceeds \/ PararTimesOut
  <2>1. /\ UNCHANGED <<clientes, arg, handled, queueVars, enviarVars, pumpVars>>
        /\ loop' \in {loop, "done"} /\ (loop' # loop => loop = "select")
    BY <1>3 DEF LoopExits, CollectorExits, PararBegins, PararSucceeds, PararTimesOut, loopVars
  <2>2. doneChan' \in BOOLEAN /\ collector' \in BOOLEAN
        /\ parar' \in {"no", "clearing", "waiting", "succeeded", "timeout"}
    BY <1>3 DEF IInv, TypeOK, LoopExits, CollectorExits, PararBegins, PararSucceeds,
       PararTimesOut, stopVars
  <2>3. TypeOK'
    BY <2>1, <2>2 DEF IInv, TypeOK, queueVars, enviarVars, pumpVars
  <2>4. RegisteredIsOpen' /\ NoGap' /\ NewcomersAreOutside' /\ ArgIsFresh'
    BY <2>1 DEF IInv, RegisteredIsOpen, NoGap, Matches, NewcomersAreOutside, ArgIsFresh,
       queueVars, enviarVars, pumpVars
  <2> QED
    BY <2>3, <2>4 DEF IInv
<1> QED
  BY <1>1, <1>2, <1>3

(* The invariant holds throughout every behaviour. *)
LEMMA Invariant == Spec => []IInv
<1>1. Init => IInv
  <2> SUFFICES ASSUME Init PROVE IInv
    OBVIOUS
  <2>1. TypeOK
    <3>1. offered \in 0..MaxMessages /\ handled \in 0..offered
      BY DEF Init
    <3>2. /\ filter \in [Clients -> PLCs \cup {NoFilter}]
          /\ sent \in [Clients -> SUBSET Messages] /\ taken \in [Clients -> SUBSET Messages]
      BY DEF Init
    <3>3. joined \in [Clients -> 0..handled]
      BY DEF Init
    <3>4. /\ reader \in [Clients -> {"none", "registering", "reading", "unregistering", "done"}]
          /\ writer \in [Clients -> {"none", "writing", "done"}]
          /\ conn \in [Clients -> {"none", "open", "closed"}]
      BY DEF Init
    <3> QED
      BY <3>1, <3>2, <3>3, <3>4 DEF Init, TypeOK
  <2>2. RegisteredIsOpen /\ NoGap /\ NewcomersAreOutside /\ ArgIsFresh
    BY DEF Init, RegisteredIsOpen, NoGap, NewcomersAreOutside, ArgIsFresh
  <2> QED
    BY <2>1, <2>2 DEF IInv
<1>2. IInv /\ [Next]_vars => IInv'
  <2> SUFFICES ASSUME IInv, [Next]_vars PROVE IInv'
    OBVIOUS
  <2>1. CASE Next
    BY <2>1, ClientPreserves, RegistrationPreserves, RemovalPreserves, BroadcastPreserves,
       StopPreserves DEF Next, LoopStep
  <2>2. CASE UNCHANGED vars
    <3>1. UNCHANGED <<loopVars, stopVars, queueVars, enviarVars, pumpVars>>
      BY <2>2 DEF vars
    <3>2. TypeOK'
      BY <3>1 DEF IInv, TypeOK, loopVars, stopVars, queueVars, enviarVars, pumpVars
    <3>3. RegisteredIsOpen' /\ NoGap' /\ NewcomersAreOutside' /\ ArgIsFresh'
      BY <3>1 DEF IInv, RegisteredIsOpen, NoGap, Matches, NewcomersAreOutside,
         ArgIsFresh, loopVars, queueVars, enviarVars, pumpVars
    <3> QED
      BY <3>2, <3>3 DEF IInv
  <2> QED
    BY <2>1, <2>2
<1> QED
  BY <1>1, <1>2, PTL DEF Spec

(* The variables keep their types, and a registered client has a writer. *)
THEOREM HubTypes == Spec => []TypeOK
<1>1. IInv => TypeOK
  BY DEF IInv
<1> QED
  BY <1>1, Invariant, PTL

(* gerenciador.go, the loop and Parar: nothing is sent to a closed channel *)
(* and none is closed twice.                                               *)
THEOREM HubNeverPanics == Spec => []RegisteredIsOpen
<1>1. IInv => RegisteredIsOpen
  BY DEF IInv
<1> QED
  BY <1>1, Invariant, PTL

(* gerenciador.go, the broadcast case: a registered client has no gap in *)
(* what it was sent.                                                     *)
THEOREM HubSkipsNobody == Spec => []NoGap
<1>1. IInv => NoGap
  BY DEF IInv
<1> QED
  BY <1>1, Invariant, PTL
=============================================================================
