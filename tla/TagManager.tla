-------------------------------- MODULE TagManager --------------------------------
(***************************************************************************)
(* The tags of one PLC session: managePLCTags and processTags of            *)
(* internal/plcmanager/tag_monitor.go.  Every 2 s the list of tags (cache   *)
(* key config:plc:<id>:tags, or the database) is compared with the map      *)
(* tagRunners; runTag goroutines are started, restarted and cancelled.  A   *)
(* runner (its scans are the module TagMonitor) that gives up sends its     *)
(* error to errChan, and managePLCTags returns the first one it receives,   *)
(* which makes runPLC cancel the context of the session.                    *)
(*                                                                         *)
(* The definitions every component has (Init, Next, ...) are prefixed TM,  *)
(* so that TagProofs can extend several components.                        *)
(***************************************************************************)
EXTENDS Naturals, FiniteSets

CONSTANTS Tags, Configs,  \* tag identifiers; scan rate and MonitorChanges
          Addresses,      \* DBNumber, ByteOffset, BitOffset and DataType
          Runners,        \* identities of runTag goroutines
          NoRunner, NoTag,
          ErrChanCap      \* capacity of errChan (10)

ASSUME TagManagerAssumption ==
  /\ NoRunner \notin Runners /\ NoTag \notin Tags
  /\ Addresses # {} /\ ErrChanCap \in Nat

VARIABLES
  entry,      \* each tag of the list: "inactive" (or absent), "untyped", "active"
  config, address,     \* of each tag in the list
  manager,    \* managePLCTags: "select" or "returned"
  ctxDone,    \* the context of the session is done
  tagRunners, \* the runner whose cancel func is held for a tag
  applied,    \* tagRunners' config for it
  tagOf, scans,  \* the tag and the address a runner was started with
  runTag,     \* "unborn", "scanning", "sending" an error, or "done"
  cancelled,  \* runners whose cancel func was called
  errChan     \* runners whose error is buffered

listVars   == <<entry, config, address>>
mapVars    == <<tagRunners, applied>>
runnerVars == <<tagOf, scans, runTag, cancelled>>
tmVars == <<listVars, manager, ctxDone, mapVars, runnerVars, errChan>>

(* An identity is used again when nothing refers to its former run. *)
Free == {r \in Runners : /\ runTag[r] \in {"unborn", "done"} /\ r \notin errChan
                         /\ \A t \in Tags : tagRunners[t] # r}
Injections(S, T) == {f \in [S -> T] : \A a, b \in S : f[a] = f[b] => a = b}

TMInit ==
  /\ entry \in [Tags -> {"inactive", "untyped", "active"}]
  /\ config \in [Tags -> Configs] /\ address \in [Tags -> Addresses]
  /\ manager = "select" /\ ctxDone = FALSE
  /\ tagRunners = [t \in Tags |-> NoRunner]
  /\ applied = config
  /\ tagOf = [r \in Runners |-> NoTag]
  /\ scans = [r \in Runners |-> CHOOSE a \in Addresses : TRUE]
  /\ runTag = [r \in Runners |-> "unborn"]
  /\ cancelled = {} /\ errChan = {}

(* A tag is edited, and the list synchronised. *)
ListChanges(t, e, c, a) ==
  /\ <<e, c, a>> # <<entry[t], config[t], address[t]>>
  /\ entry' = [entry EXCEPT ![t] = e]
  /\ config' = [config EXCEPT ![t] = c]
  /\ address' = [address EXCEPT ![t] = a]
  /\ UNCHANGED <<manager, ctxDone, mapVars, runnerVars, errChan>>

-----------------------------------------------------------------------------
(* A tag in the list without a data type is neither started nor stopped.  *)
Starting     == {t \in Tags : entry[t] = "active" /\ tagRunners[t] = NoRunner}
NotReconfigured == {}
Reconfigured == {t \in Tags : /\ entry[t] = "active" /\ tagRunners[t] # NoRunner
                              /\ applied[t] # config[t]}
Removed      == {t \in Tags : entry[t] = "inactive" /\ tagRunners[t] # NoRunner}
RemovedOnly == {tagRunners[t] : t \in Removed}
ToCancel    == {tagRunners[t] : t \in Removed \cup Reconfigured}

(* The tag each runner works for once the ones of f are started. *)
TagFor(f, begun, r) == CHOOSE t \in begun : f[t] = r
Owner(f, begun, r) ==
  IF \E t \in begun : f[t] = r THEN TagFor(f, begun, r) ELSE tagOf[r]

ProcessTags ==
  LET begun == Starting \cup Reconfigured IN
  /\ manager = "select"
  /\ begun \cup Removed # {}
  /\ \E f \in Injections(begun, Free) :
       LET born == {f[t] : t \in begun} IN
       /\ tagRunners' = [t \in Tags |-> IF t \in begun THEN f[t]
                                        ELSE IF t \in Removed THEN NoRunner
                                        ELSE tagRunners[t]]
       /\ applied' = [t \in Tags |-> IF t \in begun THEN config[t] ELSE applied[t]]
       /\ tagOf' = [r \in Runners |-> Owner(f, begun, r)]
       /\ scans' = [r \in Runners |-> IF r \in born THEN address[TagFor(f, begun, r)]
                                      ELSE scans[r]]
       /\ runTag' = [r \in Runners |-> IF r \in born THEN "scanning" ELSE runTag[r]]
       /\ cancelled' = (cancelled \cup ToCancel) \ born
  /\ UNCHANGED <<listVars, manager, ctxDone, errChan>>

(* The first error received is returned; the runners are not cancelled here. *)
ErrorReceived(r) ==
  /\ manager = "select"
  /\ r \in errChan
  /\ errChan' = errChan \ {r}
  /\ manager' = "returned"
  /\ UNCHANGED <<listVars, ctxDone, mapVars, runnerVars>>

(* The context is done: every runner in the map is cancelled. *)
ContextSeen ==
  /\ manager = "select" /\ ctxDone
  /\ manager' = "returned"
  /\ cancelled' = cancelled \cup
                    {tagRunners[t] : t \in {u \in Tags : tagRunners[u] # NoRunner}}
  /\ UNCHANGED <<listVars, ctxDone, mapVars, tagOf, scans, runTag, errChan>>

(* runPLC cancels the session: on the error returned, or for its own reasons. *)
SessionEnds ==
  /\ ~ctxDone
  /\ ctxDone' = TRUE
  /\ UNCHANGED <<listVars, manager, mapVars, runnerVars, errChan>>

-----------------------------------------------------------------------------
RunnerMoves(r, from, to) ==
  /\ runTag[r] = from
  /\ runTag' = [runTag EXCEPT ![r] = to]
  /\ UNCHANGED <<listVars, manager, ctxDone, mapVars, tagOf, scans, cancelled>>

(* The runner gives up.  The send to errChan that follows looks at no context. *)
RunnerFails(r) == RunnerMoves(r, "scanning", "sending") /\ UNCHANGED errChan

RunnerSends(r) ==
  /\ Cardinality(errChan) < ErrChanCap
  /\ RunnerMoves(r, "sending", "done")
  /\ errChan' = errChan \cup {r}

RunnerStops(r) ==
  /\ ctxDone \/ r \in cancelled
  /\ RunnerMoves(r, "scanning", "done")
  /\ UNCHANGED errChan

-----------------------------------------------------------------------------
TMNext ==
  \/ \E t \in Tags, e \in {"inactive", "untyped", "active"},
        c \in Configs, a \in Addresses : ListChanges(t, e, c, a)
  \/ ProcessTags \/ ContextSeen \/ SessionEnds
  \/ \E r \in Runners :
       ErrorReceived(r) \/ RunnerFails(r) \/ RunnerSends(r) \/ RunnerStops(r)

TMSpec == TMInit /\ [][TMNext]_tmVars

(* The goroutines are scheduled, and runPLC reacts to a returned error. *)
TMFairSpec ==
  /\ TMSpec
  /\ WF_tmVars(ProcessTags) /\ SF_tmVars(ContextSeen)
  /\ WF_tmVars(\E r \in Runners : ErrorReceived(r))
  /\ WF_tmVars(manager = "returned" /\ SessionEnds)
  /\ \A r \in Runners : WF_tmVars(RunnerSends(r)) /\ WF_tmVars(RunnerStops(r))

-----------------------------------------------------------------------------
(* The types of the variables; a registered runner was started for its tag. *)
TMTypeOK ==
  /\ entry \in [Tags -> {"inactive", "untyped", "active"}]
  /\ config \in [Tags -> Configs] /\ applied \in [Tags -> Configs]
  /\ address \in [Tags -> Addresses] /\ scans \in [Runners -> Addresses]
  /\ manager \in {"select", "returned"} /\ ctxDone \in BOOLEAN
  /\ tagRunners \in [Tags -> Runners \cup {NoRunner}]
  /\ tagOf \in [Runners -> Tags \cup {NoTag}]
  /\ runTag \in [Runners -> {"unborn", "scanning", "sending", "done"}]
  /\ cancelled \in SUBSET Runners /\ errChan \in SUBSET Runners
  /\ \A t \in Tags : tagRunners[t] # NoRunner => tagOf[tagRunners[t]] = t

(* A runner that nobody has cancelled is the one in the map for its tag: a   *)
(* tag is never scanned by two runners that both go on.                      *)
NoOrphanRunner ==
  \A r \in Runners :
    runTag[r] = "scanning" /\ ~ctxDone /\ r \notin cancelled =>
      tagRunners[tagOf[r]] = r

(* processTags finds nothing to start, to restart or to stop. *)
ListInForce == Starting \cup Reconfigured \cup Removed = {}

(* One pass puts the whole list in force, and only an edit of the list takes *)
(* it out again: no runner that ends or fails does.                        *)
PassApplies ==
  /\ [][ProcessTags => ListInForce']_tmVars
  /\ [][ListInForce => ListInForce' \/ listVars' # listVars]_tmVars

(* A changed scan rate, or a tag that is added or removed, takes effect      *)
(* while the session lasts.                                                  *)
ListIsApplied ==
  \A t \in Tags : \A c \in Configs :
    /\ <>[](entry[t] = "active" /\ config[t] = c) =>
         <>[](manager = "returned" \/ (tagRunners[t] # NoRunner /\ applied[t] = c))
    /\ <>[](entry[t] = "inactive") =>
         <>[](\A r \in Runners : tagOf[r] = t => runTag[r] # "scanning")

(* tag_monitor.go:254, "Configuração alterada, reinicia a goroutine": a tag  *)
(* whose address was changed is scanned at the new one while the session     *)
(* lasts.                                                                    *)
AddressIsApplied ==
  \A t \in Tags : \A a \in Addresses :
    <>[](entry[t] = "active" /\ address[t] = a) =>
      <>[](manager = "returned" \/ (tagRunners[t] # NoRunner /\ scans[tagRunners[t]] = a))

(* tag_monitor.go:91, "Encerra todas as goroutines de tags": when the        *)
(* context of the session is done every runner ends.                         *)
RunnersEnd == ctxDone ~> \A r \in Runners : runTag[r] \in {"unborn", "done"}
=============================================================================
