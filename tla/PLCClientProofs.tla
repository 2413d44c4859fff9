----------------------------- MODULE PLCClientProofs -----------------------------
(***************************************************************************)
(* Safety of the PLC client for any number of goroutines, clients and bits.*)
(***************************************************************************)
EXTENDS PLCClient, TLAPS

USE DEF plcVars, clientVars, history, Mine

(* A goroutine that is calling has said what, and to modify a byte is to   *)
(* write a bit.                                                            *)
CallsSomething ==
  \A g \in Users : /\ pc[g] # "idle" => job[g] \in Jobs
                   /\ pc[g] = "modify" => WritesBit(g)

(* Who talks to the PLC holds the mutex of its client. *)
TalkersHold ==
  \A g \in Users : pc[g] \in {"dialing", "use", "modify"} => mu[Mine(g)] = g

(* The byte to be written back is the PLC's, but for the bit. *)
CopyIsCurrent == \A g \in Users : pc[g] = "modify" => overtaken[g] \/ buf[g] = byte

(* A client that was checked has a handler, unless it was dropped since. *)
CheckedHasHandler ==
  \A g \in Users : pc[g] = "lock" => dropped[g] \/ handler[Mine(g)]

IInv ==
  /\ TypeOK
  /\ CallsSomething
  /\ TalkersHold
  /\ CopyIsCurrent
  /\ CheckedHasHandler
  /\ PanicOnlyIfDropped

(* What a job is made of. *)
LEMMA JobFields ==
  ASSUME NEW j \in Jobs
  PROVE  /\ j.client \in Clients
         /\ j.op \in {"read", "reconnect", "ping", "set", "clear"}
         /\ j.op \in {"set", "clear"} => j.bit \in Bits
BY DEF Jobs

LEMMA InitInv == Init => IInv
BY ClientAssumption DEF Init, IInv, TypeOK, Labels, Jobs, NoJob, CallsSomething,
   TalkersHold, CopyIsCurrent, CheckedHasHandler, PanicOnlyIfDropped

(* The PLC, the network and Close preserve the invariant. *)
LEMMA OutsideInv ==
  ASSUME IInv, \/ LinkChanges \/ \E b \in Bits : PLCWrites(b)
               \/ \E c \in Clients : SessionBreaks(c) \/ Close(c)
  PROVE  IInv'
<1> USE DEF IInv, TypeOK, CallsSomething, WritesBit, TalkersHold, CopyIsCurrent,
        CheckedHasHandler, PanicOnlyIfDropped
<1>1. CASE LinkChanges
  BY <1>1 DEF LinkChanges
<1>2. CASE \E b \in Bits : PLCWrites(b)
  <2> PICK b \in Bits : PLCWrites(b)
    BY <1>2
  <2>1. overtaken' \in [Users -> BOOLEAN]
    BY DEF PLCWrites
  <2>2. \A g \in Users : pc[g] = "modify" => overtaken'[g]
    BY DEF PLCWrites
  <2>3. byte' \in SUBSET Bits
    BY DEF PLCWrites
  <2>4. UNCHANGED <<reachable, clientVars, pc, job, buf, dropped>>
    BY DEF PLCWrites
  <2> QED
    BY <2>1, <2>2, <2>3, <2>4
<1>3. CASE \E c \in Clients : SessionBreaks(c)
  BY <1>3 DEF SessionBreaks
<1>4. CASE \E c \in Clients : Close(c)
  BY <1>4 DEF Close, Drops
<1> QED
  BY <1>1, <1>2, <1>3, <1>4

(* Steps that begin a call, check the client or dial preserve it. *)
LEMMA DialInv ==
  ASSUME IInv, NEW g \in Users,
         \/ \E j \in Jobs : Calls(g, j)
         \/ EnsureConnected(g) \/ Dials(g) \/ DialSucceeds(g) \/ DialFails(g)
  PROVE  IInv'
<1> USE ClientAssumption, JobFields
    DEF IInv, TypeOK, Labels, CallsSomething, WritesBit, TalkersHold, CopyIsCurrent,
        CheckedHasHandler, PanicOnlyIfDropped, Goes, Returns, Free, Locked, Unlocked,
        Connected
<1>1. CASE \E j \in Jobs : Calls(g, j)
  <2> PICK j \in Jobs : Calls(g, j)
    BY <1>1
  <2>1. pc' = [pc EXCEPT ![g] = pc'[g]] /\ pc'[g] \in {"connect", "ping", "check"}
    BY DEF Calls
  <2> QED
    BY <2>1 DEF Calls
<1>2. CASE EnsureConnected(g)
  BY <1>2 DEF EnsureConnected
<1>3. CASE Dials(g)
  BY <1>3 DEF Dials, Drops
<1>4. CASE DialSucceeds(g)
  BY <1>4 DEF DialSucceeds
<1>5. CASE DialFails(g)
  BY <1>5 DEF DialFails
<1> QED
  BY <1>1, <1>2, <1>3, <1>4, <1>5

(* Steps that exchange data with the PLC, and Ping, preserve it. *)
LEMMA UseInv ==
  ASSUME IInv, NEW g \in Users,
         \/ Locks(g) \/ Panics(g) \/ Reads(g) \/ ReadsByte(g) \/ ByteNotRead(g)
         \/ WritesByte(g) \/ ByteNotWritten(g) \/ Ping(g)
  PROVE  IInv'
<1> USE ClientAssumption, JobFields
    DEF IInv, TypeOK, Labels, CallsSomething, WritesBit, TalkersHold, CopyIsCurrent,
        CheckedHasHandler, PanicOnlyIfDropped, Goes, Returns, ReturnsWritten, Free,
        Locked, Unlocked, Connected
<1>1. CASE Locks(g)
  BY <1>1 DEF Locks
<1>2. CASE Panics(g)
  BY <1>2 DEF Panics
<1>3. CASE Reads(g)
  <2>1. isConnected' \in [Clients -> BOOLEAN]
    BY <1>3 DEF Reads, NotesError
  <2>2. TypeOK'
    BY <1>3, <2>1 DEF Reads
  <2>3. (CallsSomething /\ TalkersHold)'
    BY <1>3 DEF Reads
  <2>4. (CopyIsCurrent /\ CheckedHasHandler /\ PanicOnlyIfDropped)'
    BY <1>3 DEF Reads
  <2> QED
    BY <2>2, <2>3, <2>4
<1>4. CASE ReadsByte(g)
  BY <1>4 DEF ReadsByte
<1>5. CASE ByteNotRead(g)
  BY <1>5 DEF ByteNotRead
<1>6. CASE WritesByte(g)
  <2>1. Modified(g) \in SUBSET Bits
    BY <1>6 DEF WritesByte, Modified
  <2>2. \A h \in Users \ {g} : pc[h] = "modify" => Mine(h) # Mine(g)
    BY <1>6 DEF WritesByte
  <2>3. overtaken' \in [Users -> BOOLEAN]
    BY <1>6 DEF WritesByte
  <2>4. \A h \in Users \ {g} : pc[h] = "modify" => overtaken'[h]
    BY <1>6, <2>2 DEF WritesByte
  <2>5. CopyIsCurrent'
    BY <1>6, <2>4 DEF WritesByte
  <2>6. isConnected' \in [Clients -> BOOLEAN]
    BY <1>6 DEF WritesByte, NotesError
  <2>8. TypeOK'
    BY <1>6, <2>1, <2>3, <2>6 DEF WritesByte
  <2>7. (CallsSomething /\ TalkersHold /\ CheckedHasHandler /\ PanicOnlyIfDropped)'
    BY <1>6, <2>2 DEF WritesByte
  <2> QED
    BY <2>5, <2>7, <2>8
<1>7. CASE ByteNotWritten(g)
  <2>1. isConnected' \in [Clients -> BOOLEAN]
    BY <1>7 DEF ByteNotWritten, NotesError
  <2>2. TypeOK'
    BY <1>7, <2>1 DEF ByteNotWritten
  <2>3. (CallsSomething /\ TalkersHold)'
    BY <1>7 DEF ByteNotWritten
  <2>4. (CopyIsCurrent /\ CheckedHasHandler /\ PanicOnlyIfDropped)'
    BY <1>7 DEF ByteNotWritten
  <2> QED
    BY <2>2, <2>3, <2>4
<1>8. CASE Ping(g)
  BY <1>8 DEF Ping
<1> QED
  BY <1>1, <1>2, <1>3, <1>4, <1>5, <1>6, <1>7, <1>8

LEMMA NextInv == IInv /\ [Next]_vars => IInv'
<1> SUFFICES ASSUME IInv, [Next]_vars PROVE IInv'
  OBVIOUS
<1>1. CASE Next
  BY <1>1, OutsideInv, DialInv, UseInv DEF Next, UserStep
<1>2. CASE UNCHANGED vars
  BY <1>2 DEF vars, IInv, TypeOK, CallsSomething, WritesBit, TalkersHold,
     CopyIsCurrent, CheckedHasHandler, PanicOnlyIfDropped
<1> QED
  BY <1>1, <1>2

LEMMA Invariance == Spec => []IInv
BY InitInv, NextInv, PTL DEF Spec

(* Every variable of the client keeps its type. *)
THEOREM ClientTypes == Spec => []TypeOK
<1>1. IInv => TypeOK
  BY DEF IInv
<1> QED
  BY <1>1, Invariance, PTL

(* A goroutine that panics on a nil client lost it to another goroutine    *)
(* between the check of ensureConnected and the mutex.                     *)
THEOREM ClientPanics == Spec => []PanicOnlyIfDropped
<1>1. IInv => PanicOnlyIfDropped
  BY DEF IInv
<1> QED
  BY <1>1, Invariance, PTL

(* Writing a bit keeps the other bits of its byte unless the PLC or        *)
(* another client wrote the byte in the meantime.                          *)
THEOREM ClientKeepsNeighbours == Spec => NeighboursKept
<1>1. IInv => \A g \in Users : pc[g] = "modify" /\ WritesByte(g) /\ ~overtaken[g]
                  => byte' \ {job[g].bit} = byte \ {job[g].bit}
  BY DEF IInv, CopyIsCurrent, WritesByte, Modified
<1>2. IInv /\ [Next]_vars
        => [\A g \in Users : pc[g] = "modify" /\ WritesByte(g) /\ ~overtaken[g]
              => byte' \ {job[g].bit} = byte \ {job[g].bit}]_vars
  BY <1>1
<1> QED
  BY <1>2, Invariance, PTL DEF Spec, NeighboursKept
=============================================================================
