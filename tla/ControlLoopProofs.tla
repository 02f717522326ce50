-------------------------- MODULE ControlLoopProofs --------------------------
(* Types, the inductive invariant of ControlLoop and what follows from it,  *)
(* for every value of the constants.                                        *)
EXTENDS ControlLoop, TLAPS

-----------------------------------------------------------------------------
(* Types.                                                                  *)

(* A row write appends one well-typed table state. *)
LEMMA WriteType ==
    ASSUME TypeOK, NEW t, NEW r \in Row, Write(t, r)
    PROVE  /\ hist' \in Seq(Table) /\ Len(hist') = Len(hist) + 1
           /\ bumpAt \in Seq(1..Len(hist'))
           /\ \A i \in 1..Len(hist) : hist'[i] = hist[i]
<1>1. rows \in Table
  BY DEF TypeOK, TableType, rows
<1>2. [rows EXCEPT ![t] = r] \in Table
  BY <1>1 DEF Table
<1>3. hist' \in Seq(Table) /\ Len(hist') = Len(hist) + 1
  BY <1>2 DEF TypeOK, TableType, Write
<1>4. \A i \in 1..Len(hist) : hist'[i] = hist[i]
  BY <1>2 DEF TypeOK, TableType, Write
<1>5. bumpAt \in Seq(1..Len(hist'))
  BY <1>3 DEF TypeOK, TableType
<1> QED
  BY <1>3, <1>4, <1>5

(* A bump extends bumpAt by the position of the last change. *)
LEMMA BumpType ==
    ASSUME TypeOK, BumpConfigVersion
    PROVE  /\ version' = version + 1 /\ version' \in Nat \ {0}
           /\ bumpAt' \in Seq(1..Len(hist)) /\ Len(bumpAt') = version'
           /\ \A v \in 1..version : bumpAt'[v] = bumpAt[v]
           /\ bumpAt'[version'] = Len(hist)
           /\ hist' = hist
  BY DEF TypeOK, TableType, BumpConfigVersion

(* Moving one caller on, and its return, keep the agent's types. *)
LEMMA SyncStepType ==
    ASSUME TypeOK, NEW c \in Callers, NEW from, NEW to \in SyncPcs,
           SyncStep(c, from, to), UNCHANGED <<version, hist>>
    PROVE  sync' \in [Callers -> [pc : SyncPcs, v : 0..version', at : 0..Len(hist')]]
  BY DEF TypeOK, TableType, SyncType, SyncStep

(* A call that returns leaves well-typed callers, trigger and heartbeat.   *)
LEMMA SyncReturnType ==
    ASSUME TypeOK, NEW c \in Callers, NEW ok, SyncReturn(c, ok)
    PROVE  SyncType' /\ HbType'
<1>0. UNCHANGED <<version, hist, reported, trig, hb, late>>
  BY DEF SyncReturn, serverVars, tableVars
<1>1. IdleSync \in [pc : SyncPcs, v : 0..version, at : 0..Len(hist)]
  BY DEF TypeOK, TableType, IdleSync, SyncPcs
<1>2. sync' \in [Callers -> [pc : SyncPcs, v : 0..version', at : 0..Len(hist')]]
  BY <1>0, <1>1 DEF TypeOK, SyncType, SyncReturn
<1>3. pub' \in [Publishers ->
                  {"idle", "wait", "sync", "ok", "pending", "error"}]
  BY DEF TypeOK, SyncType, SyncReturn
<1>4. SyncType'
  BY <1>0, <1>2, <1>3 DEF TypeOK, SyncType, SyncReturn
<1>5. HbType'
  BY <1>0 DEF TypeOK, HbType
<1> QED
  BY <1>4, <1>5

(* What a step does not mention keeps its type. *)
LEMMA ServerSame ==
    ASSUME TypeOK, UNCHANGED serverVars
    PROVE  TableType' /\ ServerType'
  BY DEF TypeOK, TableType, ServerType, serverVars, tableVars

(* The table only grows, and with it the range of every held index. *)
LEMMA AgentSame ==
    ASSUME TypeOK, TableType', version' >= version, Len(hist') >= Len(hist),
           UNCHANGED <<agentVars, reported>>
    PROVE  FileType' /\ SyncType' /\ HbType'
<1> USE DEF TypeOK, TableType
<1>1. 0..version \subseteq 0..version' /\ 0..Len(hist) \subseteq 0..Len(hist')
  OBVIOUS
<1>2. FileType'
  BY <1>1 DEF FileType, agentVars, fileVars
<1>3. SyncType'
  BY <1>1 DEF SyncType, agentVars
<1>4. HbType'
  BY <1>1 DEF HbType, agentVars
<1> QED
  BY <1>2, <1>3, <1>4

(* A fault is counted within its bound.                                    *)
LEMMA FaultType ==
    ASSUME TypeOK, NEW k, Fault(k)
    PROVE  faults' \in 0..MaxFaults
  BY BoundAssumption DEF TypeOK, Fault

(* A row write, and a bump, keep the types of everything but the handlers. *)
LEMMA WriteKeeps ==
    ASSUME TypeOK, NEW t, NEW r \in Row, Write(t, r),
           UNCHANGED <<version, bumpAt, reported, agentVars>>
    PROVE  TableType' /\ FileType' /\ SyncType' /\ HbType'
<1>1. TableType' /\ Len(hist') >= Len(hist) /\ version' >= version
  BY WriteType DEF TypeOK, TableType
<1> QED
  BY <1>1, AgentSame

(* A bump keeps the types of everything but the handlers.                  *)
LEMMA BumpKeeps ==
    ASSUME TypeOK, BumpConfigVersion, UNCHANGED <<reported, agentVars>>
    PROVE  TableType' /\ FileType' /\ SyncType' /\ HbType'
<1>1. TableType' /\ Len(hist') >= Len(hist) /\ version' >= version
  BY BumpType DEF TypeOK, TableType
<1> QED
  BY <1>1, AgentSame

(* So does a step that leaves the table alone.                             *)
LEMMA TableSame ==
    ASSUME TypeOK, UNCHANGED <<tableVars, reported, agentVars>>
    PROVE  TableType' /\ FileType' /\ SyncType' /\ HbType'
<1>1. TableType' /\ Len(hist') >= Len(hist) /\ version' >= version
  BY DEF TypeOK, TableType, tableVars
<1> QED
  BY <1>1, AgentSame

-----------------------------------------------------------------------------
(* Type correctness: the server's steps. *)

(* A handler's steps keep every type, a lost bump included.                *)
LEMMA HandlerTypes ==
    ASSUME TypeOK, NEW h \in Handlers, HandlerStep(h) \/ LoseBump(h)
    PROVE  TypeOK'
<1> USE DEF Handlers
<1>1. ASSUME UpdateTunnel(h) PROVE TypeOK'
  <2>1. CASE UNCHANGED hist
    <3>1. TableType' /\ FileType' /\ SyncType' /\ HbType'
      BY <1>1, <2>1, TableSame DEF UpdateTunnel, tableVars
    <3> QED
      BY <1>1, <3>1 DEF UpdateTunnel, TypeOK, ServerType, ReqPcs
  <2>2. CASE \E r \in Payloads \cup {"off"} : Write(req[h].t, r)
    <3>1. PICK r \in Row : Write(req[h].t, r)
      BY <2>2 DEF Row
    <3>2. TableType' /\ FileType' /\ SyncType' /\ HbType'
      BY <1>1, <3>1, WriteKeeps DEF UpdateTunnel
    <3> QED
      BY <1>1, <3>2 DEF UpdateTunnel, TypeOK, ServerType, ReqPcs
  <2> QED
    BY <1>1, <2>1, <2>2 DEF UpdateTunnel
<1>2. ASSUME DeleteTunnel(h) PROVE TypeOK'
  <2>1. TableType' /\ FileType' /\ SyncType' /\ HbType'
    BY <1>2, WriteKeeps DEF DeleteTunnel, Row, Absent
  <2> QED
    BY <1>2, <2>1 DEF DeleteTunnel, TypeOK, ServerType, ReqPcs
<1>3. ASSUME NEW t \in Tunnels, NEW r \in Payloads, PublishInsert(h, t, r)
      PROVE  TypeOK'
  <2>1. TableType' /\ FileType' /\ SyncType' /\ HbType'
    BY <1>3, WriteKeeps DEF PublishInsert, Row
  <2> QED
    BY <1>3, <2>1 DEF PublishInsert, TypeOK, ServerType, ReqPcs
<1>4. ASSUME PublishRefused(h) PROVE TypeOK'
  <2>1. TableType' /\ FileType' /\ SyncType' /\ HbType'
    BY <1>4, TableSame DEF PublishRefused
  <2> QED
    BY <1>4, <2>1 DEF PublishRefused, TypeOK, ServerType, ReqPcs
<1>5. ASSUME Bump(h) PROVE TypeOK'
  <2>1. TableType' /\ FileType' /\ SyncType' /\ HbType'
    BY <1>5, BumpKeeps DEF Bump
  <2> QED
    BY <1>5, <2>1 DEF Bump, HandlerEnd, TypeOK, ServerType, ReqPcs
<1>6. ASSUME LoseBump(h) PROVE TypeOK'
  <2>1. TableType' /\ FileType' /\ SyncType' /\ HbType'
    BY <1>6, TableSame DEF LoseBump
  <2>2. faults' \in 0..MaxFaults
    BY <1>6, FaultType DEF LoseBump
  <2> QED
    BY <1>6, <2>1, <2>2 DEF LoseBump, HandlerEnd, TypeOK, ServerType, ReqPcs
<1> QED
  BY <1>1, <1>2, <1>3, <1>4, <1>5, <1>6 DEF HandlerStep

(* So do the requests of an administrator.                                 *)
LEMMA AdminTypes ==
    ASSUME TypeOK, NEW h \in Admins, NEW t \in Tunnels,
           \/ \E r \in Payloads \cup {"off"} : CreateTunnel(h, t, r)
           \/ \E op \in {"update", "delete"} : GetTunnel(h, t, op)
    PROVE  TypeOK'
<1> USE DEF Handlers
<1>1. ASSUME NEW r \in Payloads \cup {"off"}, CreateTunnel(h, t, r) PROVE TypeOK'
  <2>1. TableType' /\ FileType' /\ SyncType' /\ HbType'
    BY <1>1, WriteKeeps DEF CreateTunnel, Row
  <2> QED
    BY <1>1, <2>1, BoundAssumption
    DEF CreateTunnel, AdminOp, TypeOK, ServerType, ReqPcs
<1>2. ASSUME NEW op \in {"update", "delete"}, GetTunnel(h, t, op) PROVE TypeOK'
  <2>1. TableType' /\ FileType' /\ SyncType' /\ HbType'
    BY <1>2, TableSame DEF GetTunnel
  <2> QED
    BY <1>2, <2>1, BoundAssumption
    DEF GetTunnel, AdminOp, TypeOK, ServerType, ReqPcs
<1> QED
  BY <1>1, <1>2

(* So do the janitor's steps and the expiry of a tunnel.                   *)
LEMMA JanitorTypes ==
    ASSUME TypeOK,
           \/ JanitorStep \/ JanitorLoseBump
           \/ \E t \in Tunnels : Expire(t) \/ JanitorSkip(t)
    PROVE  TypeOK'
<1> USE DEF JanitorNext
<1>1. ASSUME JanitorTick PROVE TypeOK'
  <2>1. TableType' /\ FileType' /\ SyncType' /\ HbType'
    BY <1>1, TableSame DEF JanitorTick
  <2>2. ListExpiredEnabledTunnels \subseteq Tunnels
    BY DataAssumption DEF ListExpiredEnabledTunnels, TypeOK, ServerType
  <2> QED
    BY <1>1, <2>1, <2>2 DEF JanitorTick, TypeOK, ServerType
<1>2. ASSUME NEW t \in Tunnels, JanitorDisable(t) PROVE TypeOK'
  <2>1. CASE UNCHANGED hist
    BY <1>2, <2>1, TableSame DEF JanitorDisable, tableVars, TypeOK, ServerType
  <2>2. CASE Write(t, "off")
    <3>1. TableType' /\ FileType' /\ SyncType' /\ HbType'
      BY <1>2, <2>2, WriteKeeps DEF JanitorDisable, Row
    <3> QED
      BY <1>2, <3>1 DEF JanitorDisable, TypeOK, ServerType
  <2> QED
    BY <1>2, <2>1, <2>2 DEF JanitorDisable, SetDisabled
<1>3. ASSUME JanitorBump PROVE TypeOK'
  <2>1. TableType' /\ FileType' /\ SyncType' /\ HbType'
    BY <1>3, BumpKeeps DEF JanitorBump
  <2> QED
    BY <1>3, <2>1 DEF JanitorBump, TypeOK, ServerType
<1>4. ASSUME JanitorLoseBump PROVE TypeOK'
  <2>1. TableType' /\ FileType' /\ SyncType' /\ HbType'
    BY <1>4, TableSame DEF JanitorLoseBump
  <2>2. faults' \in 0..MaxFaults
    BY <1>4, FaultType DEF JanitorLoseBump
  <2> QED
    BY <1>4, <2>1, <2>2 DEF JanitorLoseBump, TypeOK, ServerType
<1>5. ASSUME NEW t \in Tunnels, Expire(t) PROVE TypeOK'
  <2>1. TableType' /\ FileType' /\ SyncType' /\ HbType'
    BY <1>5, TableSame DEF Expire
  <2> QED
    BY <1>5, <2>1 DEF Expire, TypeOK, ServerType
<1>6. ASSUME NEW t \in Tunnels, JanitorSkip(t) PROVE TypeOK'
  <2>1. TableType' /\ FileType' /\ SyncType' /\ HbType'
    BY <1>6, TableSame DEF JanitorSkip
  <2>2. faults' \in 0..MaxFaults
    BY <1>6, FaultType DEF JanitorSkip
  <2> QED
    BY <1>6, <2>1, <2>2 DEF JanitorSkip, TypeOK, ServerType
<1> QED
  BY <1>1, <1>2, <1>3, <1>4, <1>5, <1>6 DEF JanitorStep
-----------------------------------------------------------------------------
(* Type correctness: the agent's steps. *)

(* A step of SyncOnce, given what it does to the files. *)
LEMMA SyncStepTypes ==
    ASSUME TypeOK, UNCHANGED syncRest, FileType',
           sync' \in [Callers -> [pc : SyncPcs, v : 0..version', at : 0..Len(hist')]],
           UNCHANGED faults
    PROVE  TypeOK'
<1>1. TableType' /\ ServerType'
  BY ServerSame DEF syncRest
<1>2. SyncType'
  BY DEF syncRest, TypeOK, SyncType
<1>3. HbType'
  BY DEF syncRest, serverVars, tableVars, TypeOK, HbType
<1> QED
  BY <1>1, <1>2, <1>3 DEF TypeOK

(* What is in memory and in the files keeps its type while nothing there   *)
(* changes.                                                                *)
LEMMA FilesSame ==
    ASSUME TypeOK, UNCHANGED <<serverVars, fileVars>>
    PROVE  FileType'
  BY DEF TypeOK, FileType, serverVars, tableVars, fileVars

(* The two statements of Config that a pull consists of keep every type.   *)
LEMMA PullTypes ==
    ASSUME TypeOK, NEW c \in Callers, PullStep(c)
    PROVE  TypeOK'
<1>1. UNCHANGED <<syncRest, fileVars, faults>> /\ FileType'
  BY FilesSame DEF PullStep, ConfigReadVersion, ConfigListTunnels, syncRest
<1>2. UNCHANGED <<version, hist>>
  BY <1>1 DEF syncRest, serverVars, tableVars
<1>3. sync' \in [Callers -> [pc : SyncPcs, v : 0..version', at : 0..Len(hist')]]
  <2> DEFINE to == [pc |-> sync'[c].pc, v |-> sync'[c].v, at |-> sync'[c].at]
  <2>1. sync' = [sync EXCEPT ![c] = to]
    BY DEF PullStep, ConfigReadVersion, ConfigListTunnels, TypeOK, SyncType
  <2>2. to \in [pc : SyncPcs, v : 0..version, at : 0..Len(hist)]
    BY DEF PullStep, ConfigReadVersion, ConfigListTunnels, TypeOK,
           TableType, SyncType, SyncPcs
  <2> HIDE DEF to
  <2> QED
    BY <1>2, <2>1, <2>2 DEF TypeOK, SyncType
<1> QED
  BY <1>1, <1>3, SyncStepTypes

(* SyncOnce returns, given what it does to the files. *)
LEMMA SyncReturnTypes ==
    ASSUME TypeOK, NEW c \in Callers, NEW ok, SyncReturn(c, ok), FileType',
           faults' \in 0..MaxFaults
    PROVE  TypeOK'
<1>1. TableType' /\ ServerType'
  BY ServerSame DEF SyncReturn
<1> QED
  BY <1>1, SyncReturnType DEF TypeOK

(* So do the steps from the receipt of a config to the saved version, and  *)
(* their failures.                                                         *)
LEMMA ApplyTypes ==
    ASSUME TypeOK, NEW c \in Callers, ApplyStep(c) \/ SyncFault(c)
    PROVE  TypeOK'
<1>1. ASSUME SyncReceive(c) PROVE TypeOK'
  <2>1. UNCHANGED <<version, hist, mem, disk, toml, frpc, faults>> /\ snap' = sync[c].at
    BY <1>1 DEF SyncReceive, Receive, SyncReturn, syncRest, serverVars, tableVars
  <2>2. FileType'
    BY <2>1 DEF TypeOK, FileType, SyncType
  <2>3. CASE SyncReturn(c, TRUE)
    BY <2>1, <2>2, <2>3, SyncReturnTypes DEF TypeOK
  <2>4. CASE SyncStep(c, "answered", "write") /\ UNCHANGED syncRest
    BY <2>1, <2>2, <2>4, SyncStepType, SyncStepTypes DEF SyncPcs
  <2> QED
    BY <1>1, <2>3, <2>4 DEF SyncReceive, Receive
<1>2. ASSUME WriteConfig(c) PROVE TypeOK'
  <2>1. UNCHANGED <<version, hist>>
    BY <1>2 DEF WriteConfig, syncRest, serverVars, tableVars
  <2>2. FileType'
    BY <1>2, <2>1 DEF WriteConfig, TypeOK, FileType, SyncType
  <2> QED
    BY <1>2, <2>1, <2>2, SyncStepType, SyncStepTypes DEF WriteConfig, SyncPcs
<1>3. ASSUME Reload(c) PROVE TypeOK'
  <2>1. UNCHANGED <<version, hist>>
    BY <1>3 DEF Reload, syncRest, serverVars, tableVars
  <2>2. FileType'
    BY <1>3, <2>1 DEF Reload, TypeOK, FileType
  <2> QED
    BY <1>3, <2>1, <2>2, SyncStepType, SyncStepTypes DEF Reload, SyncPcs
<1>4. ASSUME SetConfigVersion(c) PROVE TypeOK'
  <2>1. UNCHANGED <<version, hist>>
    BY <1>4 DEF SetConfigVersion, syncRest, serverVars, tableVars
  <2>2. FileType'
    BY <1>4, <2>1 DEF SetConfigVersion, TypeOK, FileType, SyncType
  <2> QED
    BY <1>4, <2>1, <2>2, SyncStepType, SyncStepTypes DEF SetConfigVersion, SyncPcs
<1>5. ASSUME SaveState(c) PROVE TypeOK'
  <2>1. UNCHANGED <<version, hist>>
    BY <1>5 DEF SaveState, SyncReturn, serverVars, tableVars
  <2>2. FileType'
    BY <1>5, <2>1 DEF SaveState, TypeOK, FileType
  <2> QED
    BY <1>5, <2>2, SyncReturnTypes DEF SaveState, TypeOK
<1>6. ASSUME PullFails(c) \/ WriteFails(c) \/ SaveFails(c) PROVE TypeOK'
  <2>1. PICK ok \in BOOLEAN : SyncReturn(c, ok)
    BY <1>6 DEF PullFails, WriteFails, SaveFails
  <2>2. FileType'
    BY <1>6, <2>1, FilesSame DEF PullFails, WriteFails, SaveFails, SyncReturn
  <2>3. faults' \in 0..MaxFaults
    BY <1>6, FaultType DEF PullFails, WriteFails, SaveFails, TypeOK
  <2> QED
    BY <2>1, <2>2, <2>3, SyncReturnTypes
<1>7. ASSUME StartFails(c) PROVE TypeOK'
  <2>1. UNCHANGED <<version, hist>>
    BY <1>7 DEF StartFails, SyncReturn, serverVars, tableVars
  <2>2. FileType'
    BY <1>7, <2>1 DEF StartFails, TypeOK, FileType
  <2>3. faults' \in 0..MaxFaults
    BY <1>7, FaultType DEF StartFails
  <2> QED
    BY <1>7, <2>2, <2>3, SyncReturnTypes DEF StartFails
<1> QED
  BY <1>1, <1>2, <1>3, <1>4, <1>5, <1>6, <1>7 DEF ApplyStep, SyncFault

(* Taking the lock, and asking for it. *)
LEMMA WantTypes ==
    ASSUME TypeOK,
           LoopTick \/ LoopTrigger \/ \E c \in Callers : SyncLock(c)
    PROVE  TypeOK'
<1>1. UNCHANGED <<serverVars, phase, fileVars, hb, late, pub, faults>>
  BY DEF LoopTick, LoopTrigger, SyncLock, syncRest
<1>2. TableType' /\ ServerType' /\ FileType' /\ HbType'
  BY <1>1, ServerSame, FilesSame DEF serverVars, tableVars, TypeOK, HbType
<1>3. "loop" \in Callers
  BY DEF Callers
<1>4. sync' \in [Callers -> [pc : SyncPcs, v : 0..version', at : 0..Len(hist')]]
  BY <1>1, <1>3, SyncStepType
  DEF LoopTick, LoopTrigger, SyncLock, SyncPcs, serverVars, tableVars
<1>5. lock' \in Callers \cup {"none"} /\ trig' \in BOOLEAN
  BY DEF LoopTick, LoopTrigger, SyncLock, syncRest, TypeOK, SyncType
<1>6. SyncType'
  BY <1>1, <1>4, <1>5 DEF TypeOK, SyncType
<1> QED
  BY <1>1, <1>2, <1>6 DEF TypeOK

(* Heartbeats only touch what they own, and the reported version. *)
LEMMA HeartbeatTypes ==
    ASSUME TypeOK,
           HeartbeatStep \/ HbTimeout \/ \E v \in late : LateTouch(v)
    PROVE  TypeOK'
<1>1. UNCHANGED <<tableVars, due, req, jan, ops, phase, fileVars, lock, sync, pub>>
  BY DEF HeartbeatStep, HbSend, HbTouch, HbAnswer, HbReceive, HbTimeout,
         LateTouch, serverVars
<1>2. TableType' /\ ServerType' /\ FileType'
  BY <1>1 DEF TypeOK, TableType, ServerType, FileType, tableVars, fileVars
<1>3. trig' \in BOOLEAN
  BY DEF HeartbeatStep, HbSend, HbTouch, HbAnswer, HbReceive, HbTimeout,
         LateTouch, TypeOK, SyncType
<1>4. SyncType'
  BY <1>1, <1>3 DEF TypeOK, SyncType, tableVars
<1>5. faults' \in 0..MaxFaults
  <2>1. CASE HbTimeout
    BY <2>1, FaultType DEF HbTimeout
  <2>2. CASE HeartbeatStep \/ \E v \in late : LateTouch(v)
    BY <2>2 DEF HeartbeatStep, HbSend, HbTouch, HbAnswer, HbReceive, LateTouch, TypeOK
  <2> QED
    BY <2>1, <2>2
<1>6. HbType'
  <2> USE DEF TypeOK, HbType, FileType, TableType
  <2>1. UNCHANGED version
    BY <1>1 DEF tableVars
  <2>2. CASE HbSend
    BY <2>1, <2>2 DEF HbSend, serverVars
  <2>3. CASE HbTouch
    BY <2>1, <2>3 DEF HbTouch
  <2>4. CASE HbAnswer
    <3>1. hb' = [pc |-> "answered", v |-> hb.v, latest |-> version]
      BY <2>4 DEF HbAnswer
    <3>2. UNCHANGED <<late, reported>>
      BY <2>4 DEF HbAnswer, serverVars
    <3> QED
      BY <2>1, <3>1, <3>2
  <2>5. CASE HbReceive
    BY <2>1, <2>5 DEF HbReceive, IdleHb, serverVars
  <2>6. CASE HbTimeout
    <3>1. late' \subseteq 0..version /\ UNCHANGED reported
      BY <2>6 DEF HbTimeout, Abandoned, serverVars
    <3> QED
      BY <2>1, <2>6, <3>1 DEF HbTimeout, IdleHb
  <2>7. CASE \E v \in late : LateTouch(v)
    BY <2>1, <2>7 DEF LateTouch
  <2> QED
    BY <2>2, <2>3, <2>4, <2>5, <2>6, <2>7 DEF HeartbeatStep
<1> QED
  BY <1>2, <1>4, <1>5, <1>6 DEF TypeOK

(* So do the steps of a local publish request.                             *)
LEMMA PublishTypes ==
    ASSUME TypeOK, NEW p \in Publishers,
           PublishBegin(p) \/ PublishReply(p) \/ PublishError(p)
    PROVE  TypeOK'
<1>1. UNCHANGED <<tableVars, due, reported, jan, ops, phase, fileVars, lock,
                  trig, hb, late>>
  BY DEF PublishBegin, PublishReply, PublishError, serverVars
<1>2. req' \in [Handlers -> [pc : ReqPcs, t : Tunnels \cup {"none"}]]
  BY DEF PublishBegin, PublishReply, PublishError, serverVars, TypeOK,
         ServerType, Handlers, ReqPcs
<1>3. TableType' /\ ServerType' /\ FileType' /\ HbType'
  BY <1>1, <1>2 DEF TypeOK, TableType, ServerType, FileType, HbType, tableVars, fileVars
<1>4. sync' \in [Callers -> [pc : SyncPcs, v : 0..version', at : 0..Len(hist')]]
  <2>1. CASE PublishReply(p)
    BY <1>1, <2>1, SyncStepType DEF PublishReply, tableVars, Callers, SyncPcs
  <2>2. CASE PublishBegin(p) \/ PublishError(p)
    BY <1>1, <2>2 DEF PublishBegin, PublishError, tableVars, TypeOK, SyncType
  <2> QED
    BY <2>1, <2>2
<1>5. pub' \in [Publishers ->
                  {"idle", "wait", "sync", "ok", "pending", "error"}]
  BY DEF PublishBegin, PublishReply, PublishError, TypeOK, SyncType
<1>6. faults' \in 0..MaxFaults
  BY FaultType DEF PublishBegin, PublishReply, PublishError, TypeOK
<1> QED
  BY <1>1, <1>3, <1>4, <1>5, <1>6 DEF TypeOK, SyncType

(* So do a crash of the server, of the agent and of frpc.                  *)
LEMMA CrashTypes ==
    ASSUME TypeOK, ServerCrash \/ FrpcDies \/ AgentCrash
    PROVE  TypeOK'
<1>1. faults' \in 0..MaxFaults
  BY FaultType DEF ServerCrash, FrpcDies, AgentCrash
<1>2. UNCHANGED tableVars
  BY DEF ServerCrash, FrpcDies, AgentCrash, serverVars
<1>3. TableType'
  BY <1>2 DEF TypeOK, TableType, tableVars
<1>4. ServerType'
  BY DEF ServerCrash, FrpcDies, AgentCrash, serverVars, TypeOK, ServerType, ReqPcs
<1>5. FileType'
  <2> USE DEF TypeOK, TableType, FileType, tableVars
  <2>1. CASE ServerCrash
    BY <1>2, <2>1 DEF ServerCrash, fileVars
  <2>2. CASE FrpcDies
    BY <1>2, <2>2 DEF FrpcDies
  <2>3. CASE AgentCrash
    <3>1. UNCHANGED <<version, hist, disk, toml>> /\ mem' = disk /\ snap' = 0
      BY <1>2, <2>3 DEF AgentCrash
    <3>2. frpc' = [frpc EXCEPT !.up = FALSE]
      BY <2>3 DEF AgentCrash
    <3>3. frpc' \in [up : BOOLEAN, at : 0..Len(hist)]
      BY <3>2
    <3> QED
      BY <3>1, <3>3
  <2> QED
    BY <2>1, <2>2, <2>3
<1>6. sync' \in [Callers -> [pc : SyncPcs, v : 0..version', at : 0..Len(hist')]]
  <2>1. IdleSync \in [pc : SyncPcs, v : 0..version, at : 0..Len(hist)]
    BY DEF TypeOK, TableType, IdleSync, SyncPcs
  <2>2. CASE AgentCrash
    BY <1>2, <2>1, <2>2 DEF AgentCrash, tableVars, SyncPcs
  <2>3. CASE ServerCrash
    BY <1>2, <2>3 DEF ServerCrash, tableVars, SyncPcs, TypeOK, SyncType
  <2>4. CASE FrpcDies
    BY <1>2, <2>4 DEF FrpcDies, tableVars, TypeOK, SyncType
  <2> QED
    BY <2>2, <2>3, <2>4
<1>7. SyncType'
  BY <1>6 DEF ServerCrash, FrpcDies, AgentCrash, TypeOK, SyncType
<1>8. HbType'
  <2> USE DEF TypeOK, TableType, HbType, tableVars, IdleHb
  <2>1. CASE ServerCrash
    BY <1>2, <2>1 DEF ServerCrash
  <2>2. CASE FrpcDies
    BY <1>2, <2>2 DEF FrpcDies, serverVars
  <2>3. CASE AgentCrash
    BY <1>2, <2>3 DEF AgentCrash, Abandoned, serverVars
  <2> QED
    BY <2>1, <2>2, <2>3
<1> QED
  BY <1>1, <1>3, <1>4, <1>5, <1>7, <1>8 DEF TypeOK

-----------------------------------------------------------------------------
(* The initial states are well-typed.                                      *)
LEMMA TypeInit == Init => TypeOK
<1> SUFFICES ASSUME Init PROVE TypeOK
  OBVIOUS
<1>1. [t \in Tunnels |-> "unborn"] \in Table
  BY DEF Table, Row, Absent
<1>2. TableType
  BY <1>1 DEF Init, TableType
<1>3. ServerType /\ faults \in 0..MaxFaults
  BY BoundAssumption DEF Init, ServerType, IdleReq, ReqPcs
<1>4. FileType /\ HbType
  BY <1>2 DEF Init, TableType, FileType, HbType, IdleHb
<1>5. SyncType
  <2>1. IdleSync \in [pc : SyncPcs, v : 0..version, at : 0..Len(hist)]
    BY <1>2 DEF TableType, IdleSync, SyncPcs
  <2>2. [IdleSync EXCEPT !.pc = "want"] \in [pc : SyncPcs, v : 0..version, at : 0..Len(hist)]
    BY <2>1 DEF SyncPcs
  <2> QED
    BY <2>1, <2>2 DEF Init, SyncType
<1> QED
  BY <1>2, <1>3, <1>4, <1>5 DEF TypeOK

(* Every step keeps the types.                                             *)
LEMMA TypeStep == TypeOK /\ [Next]_vars => TypeOK'
<1> SUFFICES ASSUME TypeOK, [Next]_vars PROVE TypeOK'
  OBVIOUS
<1>1. CASE UNCHANGED vars
  BY <1>1 DEF vars, serverVars, agentVars, tableVars, fileVars, TypeOK,
              TableType, ServerType, FileType, SyncType, HbType
<1>2. CASE Next
  BY <1>2, AdminTypes, HandlerTypes, JanitorTypes, PullTypes, ApplyTypes,
     WantTypes, HeartbeatTypes, PublishTypes, CrashTypes DEF Next
<1> QED
  BY <1>1, <1>2

(* Every reachable state is well-typed, whatever the constants: in         *)
(* particular no version exceeds the server's and no config comes from the *)
(* future of the table.                                                     *)
THEOREM TypeCorrect == Spec => []TypeOK
  BY TypeInit, TypeStep, PTL DEF Spec

-----------------------------------------------------------------------------
(* The inductive invariant.                                                *)

(* A bump announces no fewer changes than the versions before it.          *)
LEMMA BumpOrder ==
    ASSUME IInv, BumpConfigVersion \/ UNCHANGED <<version, bumpAt>>
    PROVE  BumpInv'
<1>1. CASE UNCHANGED <<version, bumpAt>>
  BY <1>1 DEF IInv, BumpInv
<1>2. CASE BumpConfigVersion
  <2>1. /\ version' = version + 1 /\ bumpAt'[version'] = Len(hist)
        /\ \A v \in 1..version : bumpAt'[v] = bumpAt[v]
    BY <1>2, BumpType DEF IInv
  <2>2. version \in Nat /\ Len(hist) \in Nat
    BY DEF IInv, TypeOK, TableType
  <2>3. \A v \in 1..version : bumpAt[v] \in 1..Len(hist)
    BY DEF IInv, TypeOK, TableType
  <2>4. SUFFICES ASSUME NEW i \in 1..version', NEW j \in 1..version', i <= j
                 PROVE  bumpAt'[i] <= bumpAt'[j]
    BY DEF BumpInv
  <2>5. CASE j = version'
    BY <2>1, <2>2, <2>3, <2>5
  <2>6. CASE j # version'
    <3>1. i \in 1..version /\ j \in 1..version
      BY <2>1, <2>2, <2>4, <2>6
    <3> QED
      BY <2>1, <2>4, <3>1 DEF IInv, BumpInv
  <2> QED
    BY <2>5, <2>6
<1> QED
  BY <1>1, <1>2

(* Changes of the table alone: later rows and versions leave what was      *)
(* known about the present ones as it is.                                   *)
LEMMA TableGrows ==
    ASSUME IInv, TypeOK', BumpInv', \A v \in 1..version : bumpAt'[v] = bumpAt[v],
           UNCHANGED <<agentVars, reported>>
    PROVE  IInv'
<1>1. UNCHANGED <<mem, disk, toml, frpc, lock, sync, hb, late, reported>>
  BY DEF agentVars, fileVars
<1>2. LockInv' /\ OrderInv'
  BY <1>1 DEF IInv, LockInv, OrderInv
<1>3. PullInv'
  <2>1. \A c \in Callers : sync[c].v \in 0..version
    BY DEF IInv, TypeOK, SyncType
  <2> QED
    BY <1>1, <2>1 DEF IInv, PullInv, Pulled, TypeOK, TableType
<1>4. LoadedInv'
  <2>1. /\ mem \in 0..version /\ disk \in 0..version /\ reported \in 0..version
        /\ hb.v \in 0..version /\ late \subseteq 0..version
    BY DEF IInv, TypeOK, FileType, HbType
  <2>2. \A v \in 0..version : v > 0 => bumpAt'[v] = bumpAt[v]
    <3>1. version \in Nat
      BY DEF IInv, TypeOK, TableType
    <3> QED
      BY <3>1
  <2> QED
    BY <1>1, <2>1, <2>2 DEF IInv, LoadedInv, Loaded
<1> QED
  BY <1>2, <1>3, <1>4 DEF IInv

(* The server's steps extend the table and the versions, and keep the      *)
(* invariant.                                                              *)
LEMMA ServerStepInv ==
    ASSUME IInv, TypeOK',
           \/ \E h \in Admins, t \in Tunnels :
                 \/ \E r \in Payloads \cup {"off"} : CreateTunnel(h, t, r)
                 \/ \E op \in {"update", "delete"} : GetTunnel(h, t, op)
           \/ \E h \in Handlers : HandlerStep(h) \/ LoseBump(h)
           \/ \E t \in Tunnels : Expire(t) \/ JanitorSkip(t)
           \/ JanitorStep \/ JanitorLoseBump
    PROVE  IInv'
<1>1. UNCHANGED <<agentVars, reported>>
  BY DEF CreateTunnel, GetTunnel, HandlerStep, UpdateTunnel, DeleteTunnel, Bump,
         PublishInsert, PublishRefused, LoseBump, Expire, JanitorSkip,
         JanitorStep, JanitorTick, JanitorBump, JanitorDisable, JanitorLoseBump
<1>2. BumpConfigVersion \/ UNCHANGED <<version, bumpAt>>
  BY DEF CreateTunnel, GetTunnel, HandlerStep, UpdateTunnel, DeleteTunnel, Bump,
         PublishInsert, PublishRefused, LoseBump, Expire, JanitorSkip,
         JanitorStep, JanitorTick, JanitorBump, JanitorDisable, JanitorLoseBump,
         tableVars
<1>3. \A v \in 1..version : bumpAt'[v] = bumpAt[v]
  BY <1>2, BumpType DEF IInv
<1> QED
  BY <1>1, <1>2, <1>3, TableGrows, BumpOrder

(* While a caller is past the lock no other one is. *)
LEMMA Alone ==
    ASSUME IInv, NEW c \in Callers, sync[c].pc \in Holding
    PROVE  lock = c /\ \A d \in Callers : d # c => sync[d].pc \notin Holding
  BY DEF IInv, LockInv

(* The steps of a call past the lock: what the call itself has to show.    *)
LEMMA StepInv ==
    ASSUME IInv, TypeOK', NEW c \in Callers, sync[c].pc \in Holding,
           UNCHANGED <<version, bumpAt, hist, reported, lock, hb, late>>,
           sync' = [sync EXCEPT ![c] = sync'[c]],
           sync'[c].pc \in Pulled \cup {"listing"} => sync'[c].v > 0,
           sync'[c].pc \in Pulled => sync'[c].at >= bumpAt[sync'[c].v],
           frpc.at <= frpc'.at, frpc'.at <= toml',
           sync'[c].pc \in {"answered", "write"} => toml' <= sync'[c].at,
           sync'[c].pc \in {"start", "mark", "save"} => toml' = sync'[c].at,
           sync'[c].pc \in {"mark", "save"} => frpc'.at = toml',
           sync'[c].pc = "save" => mem' = sync'[c].v,
           Loaded(mem)', Loaded(disk)'
    PROVE  IInv'
<1>1. lock = c /\ \A d \in Callers : d # c => sync'[d] = sync[d] /\ sync[d].pc \notin Holding
  BY Alone DEF IInv, TypeOK, SyncType
<1>2. LockInv'
  BY <1>1 DEF LockInv
<1>3. PullInv'
  BY <1>1 DEF PullInv, Pulled, Holding, SyncPcs
<1>4. OrderInv'
  BY <1>1 DEF OrderInv, Holding, SyncPcs
<1>5. LoadedInv'
  <2>1. /\ reported \in 0..version /\ hb.v \in 0..version
        /\ late \subseteq 0..version
    BY DEF IInv, TypeOK, HbType
  <2>2. \A v \in 0..version : v > 0 => bumpAt[v] \in Nat
    BY DEF IInv, TypeOK, TableType
  <2>3. frpc.at \in Nat /\ frpc'.at \in Nat
    BY DEF IInv, TypeOK, FileType, TableType
  <2> QED
    BY <2>1, <2>2, <2>3 DEF IInv, LoadedInv, Loaded
<1> QED
  BY <1>2, <1>3, <1>4, <1>5, BumpOrder DEF IInv

(* A call may give up or finish as long as the versions on record are      *)
(* loaded ones.                                                            *)
LEMMA ReturnInv ==
    ASSUME IInv, TypeOK', NEW c \in Callers, NEW ok, sync[c].pc \in Holding,
           SyncReturn(c, ok), UNCHANGED toml, frpc'.at = frpc.at,
           Loaded(mem)', Loaded(disk)'
    PROVE  IInv'
<1>1. UNCHANGED <<version, bumpAt, hist, reported, hb, late>>
  BY DEF SyncReturn, serverVars, tableVars
<1>2. \A d \in Callers : sync'[d].pc \notin Holding
  BY Alone DEF SyncReturn, IdleSync, Holding, SyncPcs, IInv, TypeOK, SyncType
<1>3. LockInv' /\ PullInv' /\ OrderInv'
  BY <1>2 DEF LockInv, PullInv, OrderInv, Pulled, Holding, SyncPcs, IInv
<1>4. LoadedInv'
  BY <1>1 DEF LoadedInv, Loaded, IInv
<1> QED
  BY <1>1, <1>3, <1>4, BumpOrder DEF IInv

(* The version is read before the rows: a pull holds rows no older than    *)
(* its version announces.                                                  *)
LEMMA PullStepInv ==
    ASSUME IInv, TypeOK', NEW c \in Callers, PullStep(c)
    PROVE  IInv'
<1> USE DEF Pulled, Holding, SyncPcs
<1>1. UNCHANGED <<version, bumpAt, hist, reported, lock, hb, late, mem, disk, toml, frpc>>
  BY DEF PullStep, ConfigReadVersion, ConfigListTunnels, syncRest, fileVars,
         serverVars, tableVars
<1>2. frpc.at <= toml /\ toml <= Len(hist) /\ frpc.at \in Nat /\ toml \in Nat
  BY DEF IInv, OrderInv, TypeOK, FileType, TableType
<1>3. CASE ConfigReadVersion(c)
  <2>1. /\ sync[c].pc = "asked" /\ sync' = [sync EXCEPT ![c] = sync'[c]]
        /\ sync'[c].pc = "listing" /\ sync'[c].v = version
    BY <1>3 DEF ConfigReadVersion, IInv, TypeOK, SyncType
  <2>2. version > 0
    BY DEF IInv, TypeOK, TableType
  <2> QED
    BY <1>1, <1>2, <2>1, <2>2, StepInv DEF IInv, LoadedInv, Loaded
<1>4. CASE ConfigListTunnels(c)
  <2>1. /\ sync[c].pc = "listing" /\ sync' = [sync EXCEPT ![c] = sync'[c]]
        /\ sync'[c].pc = "answered" /\ sync'[c].v = sync[c].v
        /\ sync'[c].at = Len(hist)
    BY <1>4 DEF ConfigListTunnels, IInv, TypeOK, SyncType
  <2>2. sync[c].v \in 1..version
    BY <2>1 DEF IInv, PullInv, TypeOK, SyncType, TableType
  <2>3. bumpAt[sync[c].v] \in 1..Len(hist)
    <3>1. bumpAt \in Seq(1..Len(hist)) /\ Len(bumpAt) = version
      BY DEF IInv, TypeOK, TableType
    <3> QED
      BY <2>2, <3>1
  <2>4. sync'[c].v > 0 /\ sync'[c].at >= bumpAt[sync'[c].v] /\ toml <= sync'[c].at
    BY <1>2, <2>1, <2>2, <2>3 DEF IInv, TypeOK, TableType
  <2> QED
    BY <1>1, <1>2, <2>1, <2>4, StepInv DEF IInv, LoadedInv, Loaded
<1> QED
  BY <1>3, <1>4 DEF PullStep

(* SyncOnce moves a pulled config to the file, to frpc and to the version  *)
(* on record, in this order, whichever step fails.                         *)
LEMMA ApplyInv ==
    ASSUME IInv, TypeOK', NEW c \in Callers, ApplyStep(c) \/ SyncFault(c)
    PROVE  IInv'
<1> USE DEF Pulled, Holding, SyncPcs
<1>1. sync[c].pc \in Holding
  BY DEF ApplyStep, SyncFault, SyncReceive, Receive, WriteConfig, Reload,
         SetConfigVersion, SaveState, PullFails, WriteFails, StartFails,
         SaveFails, SyncStep
<1>2. UNCHANGED <<version, bumpAt, hist, reported, hb, late>>
  BY DEF ApplyStep, SyncFault, SyncReceive, Receive, WriteConfig, Reload,
         SetConfigVersion, SaveState, PullFails, WriteFails, StartFails,
         SaveFails, SyncReturn, syncRest, serverVars, tableVars
<1>3. /\ frpc.at <= toml /\ frpc.at \in Nat /\ toml \in Nat
      /\ Loaded(mem) /\ Loaded(disk)
  BY DEF IInv, OrderInv, LoadedInv, TypeOK, FileType, TableType
<1>4. ASSUME NEW to \in SyncPcs, NEW from \in Pulled, SyncStep(c, from, to)
      PROVE  /\ sync[c].pc = from /\ sync[c].v > 0
             /\ sync[c].at >= bumpAt[sync[c].v]
             /\ sync'[c] = [sync[c] EXCEPT !.pc = to]
             /\ sync' = [sync EXCEPT ![c] = sync'[c]]
             /\ sync'[c].pc = to /\ sync'[c].v = sync[c].v
             /\ sync'[c].at = sync[c].at
  BY <1>4 DEF IInv, PullInv, TypeOK, SyncType, SyncStep
<1>5. CASE SyncReceive(c)
  <2>1. UNCHANGED <<mem, disk, toml, frpc>> /\ sync[c].pc = "answered"
    BY <1>5 DEF SyncReceive, Receive
  <2>2. Loaded(mem)' /\ Loaded(disk)'
    BY <1>2, <1>3, <2>1 DEF Loaded
  <2>3. CASE SyncReturn(c, TRUE)
    BY <1>1, <2>1, <2>2, <2>3, ReturnInv
  <2>4. CASE SyncStep(c, "answered", "write") /\ UNCHANGED syncRest
    <3>1. toml <= sync[c].at /\ UNCHANGED lock
      BY <2>1, <2>4 DEF IInv, OrderInv, syncRest
    <3> QED
      BY <1>1, <1>2, <1>3, <1>4, <2>1, <2>2, <2>4, <3>1, StepInv
  <2> QED
    BY <1>5, <2>3, <2>4 DEF SyncReceive, Receive
<1>6. CASE WriteConfig(c)
  <2>1. /\ SyncStep(c, "write", "start") /\ toml' = sync[c].at
        /\ UNCHANGED <<mem, disk, frpc, lock>>
    BY <1>6 DEF WriteConfig, syncRest
  <2>2. frpc.at <= sync[c].at
    BY <1>3, <2>1 DEF IInv, OrderInv, SyncStep, TypeOK, SyncType, TableType
  <2>3. Loaded(mem)' /\ Loaded(disk)'
    BY <1>2, <1>3, <2>1 DEF Loaded
  <2> QED
    BY <1>1, <1>2, <1>3, <1>4, <2>1, <2>2, <2>3, StepInv
<1>7. CASE Reload(c)
  <2>1. /\ SyncStep(c, "start", "mark") /\ frpc'.at = toml
        /\ UNCHANGED <<mem, disk, toml, lock>>
    BY <1>7 DEF Reload, syncRest
  <2>2. toml = sync[c].at
    BY <2>1 DEF IInv, OrderInv, SyncStep
  <2>3. \A v \in 0..version : v > 0 => bumpAt[v] \in Nat
    BY DEF IInv, TypeOK, TableType
  <2>4. Loaded(mem)' /\ Loaded(disk)'
    BY <1>2, <1>3, <2>1, <2>3 DEF Loaded, IInv, TypeOK, FileType
  <2> QED
    BY <1>1, <1>2, <1>3, <1>4, <2>1, <2>2, <2>4, StepInv
<1>8. CASE SetConfigVersion(c)
  <2>1. /\ SyncStep(c, "mark", "save") /\ mem' = sync[c].v
        /\ UNCHANGED <<disk, toml, frpc, lock>>
    BY <1>8 DEF SetConfigVersion, syncRest
  <2>2. toml = sync[c].at /\ frpc.at = toml
    BY <2>1 DEF IInv, OrderInv, SyncStep
  <2>3. Loaded(mem)' /\ Loaded(disk)'
    BY <1>2, <1>3, <1>4, <2>1, <2>2 DEF Loaded
  <2> QED
    BY <1>1, <1>2, <1>3, <1>4, <2>1, <2>2, <2>3, StepInv
<1>9. CASE SaveState(c)
  <2>1. disk' = mem /\ UNCHANGED <<mem, toml, frpc>> /\ SyncReturn(c, TRUE)
    BY <1>9 DEF SaveState
  <2>2. Loaded(mem)' /\ Loaded(disk)'
    BY <1>2, <1>3, <2>1 DEF Loaded
  <2> QED
    BY <1>1, <2>1, <2>2, ReturnInv
<1>10. CASE PullFails(c) \/ WriteFails(c) \/ SaveFails(c)
  <2>1. PICK ok \in BOOLEAN : SyncReturn(c, ok)
    BY <1>10 DEF PullFails, WriteFails, SaveFails
  <2>2. UNCHANGED <<mem, disk, toml, frpc>>
    BY <1>10 DEF PullFails, WriteFails, SaveFails, fileVars
  <2>3. Loaded(mem)' /\ Loaded(disk)'
    BY <1>2, <1>3, <2>2 DEF Loaded
  <2> QED
    BY <1>1, <2>1, <2>2, <2>3, ReturnInv
<1>11. CASE StartFails(c)
  <2>1. UNCHANGED <<mem, disk, toml>> /\ SyncReturn(c, FALSE) /\ frpc'.at = frpc.at
    BY <1>11 DEF StartFails, IInv, TypeOK, FileType
  <2>2. Loaded(mem)' /\ Loaded(disk)'
    BY <1>2, <1>3, <2>1 DEF Loaded
  <2> QED
    BY <1>1, <2>1, <2>2, ReturnInv
<1> QED
  BY <1>5, <1>6, <1>7, <1>8, <1>9, <1>10, <1>11 DEF ApplyStep, SyncFault

(* Asking for a sync and taking the lock keep the invariant.               *)
LEMMA WantInv ==
    ASSUME IInv, TypeOK',
           LoopTick \/ LoopTrigger \/ \E c \in Callers : SyncLock(c)
    PROVE  IInv'
<1> USE DEF Pulled, Holding, SyncPcs
<1>1. UNCHANGED <<version, bumpAt, hist, reported, hb, late, mem, disk, toml, frpc>>
  BY DEF LoopTick, LoopTrigger, SyncLock, syncRest, fileVars, serverVars, tableVars
<1>2. PICK c \in Callers :
        \/ SyncStep(c, "idle", "want") /\ UNCHANGED lock
        \/ SyncStep(c, "want", "asked") /\ lock = "none" /\ lock' = c
  BY DEF LoopTick, LoopTrigger, SyncLock, syncRest, Callers
<1>3. \A d \in Callers \ {c} : sync'[d] = sync[d]
  BY <1>2 DEF SyncStep, IInv, TypeOK, SyncType
<1>4. sync'[c].pc \in {"want", "asked"}
  BY <1>2 DEF SyncStep, IInv, TypeOK, SyncType
<1>5. LockInv'
  <2>1. CASE SyncStep(c, "idle", "want") /\ UNCHANGED lock
    <3>1. sync'[c].pc = "want"
      BY <2>1 DEF SyncStep, IInv, TypeOK, SyncType
    <3> QED
      BY <1>3, <2>1, <3>1 DEF IInv, LockInv
  <2>2. CASE SyncStep(c, "want", "asked") /\ lock = "none" /\ lock' = c
    <3>1. "none" \notin Callers
      BY ActorAssumption DEF Callers
    <3>2. \A d \in Callers : sync[d].pc \notin Holding
      BY <2>2, <3>1 DEF IInv, LockInv
    <3> QED
      BY <1>3, <2>2, <3>2 DEF LockInv
  <2> QED
    BY <1>2, <2>1, <2>2
<1>6. PullInv' /\ OrderInv'
  BY <1>1, <1>3, <1>4 DEF IInv, PullInv, OrderInv
<1>7. LoadedInv'
  BY <1>1 DEF IInv, LoadedInv, Loaded
<1> QED
  BY <1>1, <1>5, <1>6, <1>7, BumpOrder DEF IInv

(* Heartbeats carry loaded versions only, late or not.                     *)
LEMMA HeartbeatInv ==
    ASSUME IInv, TypeOK',
           HeartbeatStep \/ HbTimeout \/ \E v \in late : LateTouch(v)
    PROVE  IInv'
<1>1. UNCHANGED <<tableVars, fileVars, lock, sync>>
  BY DEF HeartbeatStep, HbSend, HbTouch, HbAnswer, HbReceive, HbTimeout,
         LateTouch, serverVars
<1>2. LockInv' /\ PullInv' /\ OrderInv'
  BY <1>1 DEF IInv, LockInv, PullInv, OrderInv, tableVars, fileVars
<1>3. Loaded(0)
  BY DEF Loaded
<1>4. /\ hb'.v \in {0, mem, hb.v}
      /\ reported' \in {reported, hb.v} \cup late
      /\ late' \subseteq late \cup {hb.v}
  <2> USE DEF IInv, TypeOK, HbType
  <2>1. CASE HbSend
    BY <2>1 DEF HbSend, serverVars
  <2>2. CASE HbTouch
    BY <2>2 DEF HbTouch
  <2>3. CASE HbAnswer
    BY <2>3 DEF HbAnswer, serverVars
  <2>4. CASE HbReceive
    BY <2>4 DEF HbReceive, serverVars, IdleHb
  <2>5. CASE HbTimeout
    BY <2>5 DEF HbTimeout, Abandoned, serverVars, IdleHb
  <2>6. CASE \E v \in late : LateTouch(v)
    BY <2>6 DEF LateTouch
  <2> QED
    BY <2>1, <2>2, <2>3, <2>4, <2>5, <2>6 DEF HeartbeatStep
<1>5. UNCHANGED <<frpc, bumpAt, mem, disk>>
  BY <1>1 DEF tableVars, fileVars
<1>6. LoadedInv'
  BY <1>3, <1>4, <1>5 DEF IInv, LoadedInv, Loaded
<1> QED
  BY <1>1, <1>2, <1>6, BumpOrder DEF IInv, tableVars

(* Local publish requests touch nothing the invariant speaks of.           *)
LEMMA PublishInv ==
    ASSUME IInv, TypeOK', NEW p \in Publishers,
           PublishBegin(p) \/ PublishReply(p) \/ PublishError(p)
    PROVE  IInv'
<1> USE DEF Pulled, Holding, SyncPcs
<1>1. UNCHANGED <<tableVars, fileVars, lock, reported, hb, late>>
  BY DEF PublishBegin, PublishReply, PublishError, serverVars
<1>2. \A d \in Callers : sync'[d] = sync[d] \/ sync'[d].pc = "want"
  BY DEF PublishBegin, PublishReply, PublishError, SyncStep, IInv, TypeOK, SyncType
<1>3. LockInv' /\ PullInv' /\ OrderInv'
  BY <1>1, <1>2 DEF IInv, LockInv, PullInv, OrderInv, tableVars, fileVars
<1>4. LoadedInv'
  BY <1>1 DEF IInv, LoadedInv, Loaded, tableVars, fileVars
<1> QED
  BY <1>1, <1>3, <1>4, BumpOrder DEF IInv, tableVars

(* Crashes forget the callers and the version in memory, never a config    *)
(* that frpc was started with.                                             *)
LEMMA CrashInv ==
    ASSUME IInv, TypeOK', ServerCrash \/ FrpcDies \/ AgentCrash
    PROVE  IInv'
<1> USE DEF Pulled, Holding, SyncPcs
<1>1. /\ UNCHANGED <<version, bumpAt, disk, toml, reported>>
      /\ frpc'.at = frpc.at /\ mem' \in {mem, disk}
  BY DEF ServerCrash, FrpcDies, AgentCrash, serverVars, tableVars, fileVars,
         IInv, TypeOK, FileType
<1>2. \A d \in Callers :
        \/ sync'[d] = sync[d] /\ UNCHANGED <<lock, mem>>
        \/ sync'[d].pc = "broken" /\ sync[d].pc = "listing" /\ UNCHANGED <<lock, mem>>
        \/ sync'[d].pc \in {"idle", "want"}
  <2>1. CASE ServerCrash
    BY <2>1 DEF ServerCrash, fileVars, IInv, TypeOK, SyncType
  <2>2. CASE FrpcDies
    BY <2>2 DEF FrpcDies
  <2>3. CASE AgentCrash
    BY <2>3 DEF AgentCrash, IdleSync
  <2> QED
    BY <2>1, <2>2, <2>3
<1>3. LockInv' /\ PullInv' /\ OrderInv'
  BY <1>1, <1>2 DEF IInv, LockInv, PullInv, OrderInv
<1>4. hb'.v \in {0, hb.v} /\ late' \subseteq late \cup {hb.v}
  BY DEF ServerCrash, FrpcDies, AgentCrash, IdleHb, Abandoned
<1>5. LoadedInv'
  BY <1>1, <1>4 DEF IInv, LoadedInv, Loaded
<1> QED
  BY <1>1, <1>3, <1>5, BumpOrder DEF IInv

-----------------------------------------------------------------------------
(* The invariant holds initially.                                          *)
LEMMA IInvInit == Init => IInv
<1> SUFFICES ASSUME Init PROVE IInv
  OBVIOUS
<1>1. \A c \in Callers : sync[c].pc \in {"idle", "want"}
  BY DEF Init, IdleSync
<1>2. LockInv /\ PullInv /\ OrderInv
  BY <1>1 DEF Init, LockInv, PullInv, OrderInv, Holding, Pulled, SyncPcs
<1>3. LoadedInv
  BY DEF Init, LoadedInv, Loaded, IdleHb
<1>4. BumpInv
  BY DEF Init, BumpInv
<1> QED
  BY <1>2, <1>3, <1>4, TypeInit DEF IInv

(* Every step keeps the invariant.                                         *)
LEMMA IInvStep == IInv /\ [Next]_vars => IInv'
<1> SUFFICES ASSUME IInv, [Next]_vars PROVE IInv'
  OBVIOUS
<1>1. TypeOK'
  BY TypeStep DEF IInv
<1>2. CASE UNCHANGED vars
  <2>1. UNCHANGED <<agentVars, reported, version, bumpAt>>
    BY <1>2 DEF vars, serverVars, tableVars
  <2> QED
    BY <1>1, <2>1, TableGrows, BumpOrder
<1>3. CASE Next
  BY <1>1, <1>3, ServerStepInv, PullStepInv, ApplyInv, WantInv, HeartbeatInv,
     PublishInv, CrashInv DEF Next
<1> QED
  BY <1>2, <1>3

(* At every moment versions are announced in order, one caller at a time   *)
(* moves a config forward, and every version on record stands for a config *)
(* frpc was started with.                                                  *)
THEOREM Inductive == Spec => []IInv
  BY IInvInit, IInvStep, PTL DEF Spec
-----------------------------------------------------------------------------
(* The safety properties. *)

(* Every version marked applied, in memory or in the state file, stands    *)
(* for a config frpc was started with.                                      *)
THEOREM AppliedTheorem == Spec => []AppliedIsLoaded
<1>1. IInv => AppliedIsLoaded
  BY DEF IInv, LoadedInv, Loaded, AppliedIsLoaded
<1> QED
  BY <1>1, Inductive, PTL

(* So does every version the server was told, however late.                *)
THEOREM ReportedTheorem == Spec => []ReportedIsLoaded
<1>1. IInv => ReportedIsLoaded
  BY DEF IInv, LoadedInv, Loaded, ReportedIsLoaded
<1> QED
  BY <1>1, Inductive, PTL

(* Equal versions mean equal configs: need_sync = false is no false alarm  *)
(* in either direction, as long as every change was announced.              *)
THEOREM InSyncTheorem == Spec => []InSync
<1>1. IInv => InSync
  <2> SUFFICES ASSUME IInv, mem = version, Covered, frpc.up
               PROVE  frpc.at > 0 /\ Served(hist[frpc.at]) = Served(rows)
    BY DEF InSync
  <2>1. version > 0 /\ Len(hist) \in Nat /\ Len(hist) >= 1
    BY DEF IInv, TypeOK, TableType
  <2>2. frpc.at >= Len(hist) /\ frpc.at \in 0..Len(hist)
    BY <2>1 DEF IInv, LoadedInv, Loaded, Covered, TypeOK, FileType
  <2>3. frpc.at = Len(hist)
    BY <2>1, <2>2
  <2> QED
    BY <2>1, <2>3 DEF rows
<1> QED
  BY <1>1, Inductive, PTL

(* Under the invariant no step moves the installed or the running config   *)
(* back.                                                                   *)
LEMMA ForwardStep ==
    IInv /\ [Next]_vars => toml' >= toml /\ frpc'.at >= frpc.at
<1> SUFFICES ASSUME IInv, [Next]_vars
             PROVE  toml' >= toml /\ frpc'.at >= frpc.at
  OBVIOUS
<1> USE DEF IInv, TypeOK, TableType, FileType
<1>1. toml \in Nat /\ frpc.at \in Nat /\ frpc.at <= toml
  BY DEF OrderInv
<1>2. CASE UNCHANGED <<toml, frpc>>
  BY <1>1, <1>2
<1>3. ASSUME NEW c \in Callers, WriteConfig(c)
      PROVE  toml' >= toml /\ frpc'.at >= frpc.at
  <2>1. toml <= sync[c].at /\ toml' = sync[c].at /\ UNCHANGED frpc
    BY <1>3 DEF WriteConfig, SyncStep, OrderInv
  <2> QED
    BY <1>1, <2>1
<1>4. ASSUME NEW c \in Callers, Reload(c)
      PROVE  toml' >= toml /\ frpc'.at >= frpc.at
  BY <1>1, <1>4 DEF Reload
<1>5. ASSUME UNCHANGED toml, frpc' = [frpc EXCEPT !.up = FALSE]
      PROVE  toml' >= toml /\ frpc'.at >= frpc.at
  BY <1>1, <1>5
<1>6. \/ UNCHANGED <<toml, frpc>>
      \/ \E c \in Callers : WriteConfig(c) \/ Reload(c)
      \/ UNCHANGED toml /\ frpc' = [frpc EXCEPT !.up = FALSE]
  <2>1. CASE UNCHANGED vars
    BY <2>1 DEF vars, agentVars, fileVars
  <2>2. ASSUME NEW c \in Callers, ApplyStep(c) \/ SyncFault(c)
        PROVE  \/ UNCHANGED <<toml, frpc>>
               \/ WriteConfig(c) \/ Reload(c)
               \/ UNCHANGED toml /\ frpc' = [frpc EXCEPT !.up = FALSE]
    BY <2>2 DEF ApplyStep, SyncFault, SyncReceive, Receive, SetConfigVersion,
                SaveState, PullFails, WriteFails, StartFails, SaveFails, fileVars
  <2>3. ASSUME NEW c \in Callers, SyncLock(c) \/ PullStep(c)
        PROVE  UNCHANGED <<toml, frpc>>
    BY <2>3 DEF SyncLock, PullStep, ConfigReadVersion, ConfigListTunnels, fileVars
  <2>4. ASSUME \/ \E h \in Admins, t \in Tunnels :
                     \/ \E r \in Payloads \cup {"off"} : CreateTunnel(h, t, r)
                     \/ \E op \in {"update", "delete"} : GetTunnel(h, t, op)
               \/ \E h \in Handlers : HandlerStep(h) \/ LoseBump(h)
               \/ \E t \in Tunnels : Expire(t) \/ JanitorSkip(t)
               \/ JanitorStep \/ JanitorLoseBump
        PROVE  UNCHANGED <<toml, frpc>>
    BY <2>4
    DEF CreateTunnel, GetTunnel, HandlerStep, UpdateTunnel, DeleteTunnel, Bump,
        PublishInsert, PublishRefused, LoseBump, Expire, JanitorSkip, JanitorStep,
        JanitorTick, JanitorBump, JanitorDisable, JanitorLoseBump, agentVars, fileVars
  <2>5. ASSUME \/ HeartbeatStep \/ HbTimeout \/ \E v \in late : LateTouch(v)
               \/ LoopTick \/ LoopTrigger \/ ServerCrash
               \/ \E p \in Publishers : PublishBegin(p) \/ PublishReply(p) \/ PublishError(p)
        PROVE  UNCHANGED <<toml, frpc>>
    BY <2>5
    DEF HeartbeatStep, HbSend, HbTouch, HbAnswer, HbReceive, HbTimeout, LateTouch,
        LoopTick, LoopTrigger, ServerCrash, PublishBegin, PublishReply,
        PublishError, fileVars
  <2>6. CASE FrpcDies \/ AgentCrash
    BY <2>6 DEF FrpcDies, AgentCrash
  <2> QED
    BY <2>1, <2>2, <2>3, <2>4, <2>5, <2>6 DEF Next
<1> QED
  BY <1>2, <1>3, <1>4, <1>5, <1>6

(* frpc.toml and frpc only move to newer configs. *)
THEOREM NoRollbackTheorem == Spec => NoRollback
<1>1. IInv /\ [Next]_vars => [toml' >= toml /\ frpc'.at >= frpc.at]_vars
  BY ForwardStep
<1> QED
  BY <1>1, Inductive, PTL DEF Spec, NoRollback
-----------------------------------------------------------------------------
(* Refinement of Rollout. *)

configs == [i \in 1..Len(hist) |-> Served(hist[i])]
applied == IF mem = 0 THEN 0 ELSE bumpAt[mem]

(* The enabled rows of a table are a config.                               *)
LEMMA ServedConfig ==
    ASSUME NEW s \in Table
    PROVE  Served(s) \in Config
<1> DEFINE D == {u \in Tunnels : s[u] \in Payloads}
<1>1. D \in SUBSET Tunnels /\ Served(s) \in [D -> Payloads]
  BY DEF Served
<1> QED
  BY <1>1 DEF Config

(* The initial states are those of Rollout.                                *)
LEMMA RolloutInit == Init => R!Init
<1> SUFFICES ASSUME Init PROVE R!Init
  OBVIOUS
<1>1. TypeOK
  BY TypeInit
<1>2. hist[1] \in Table /\ Len(hist) = 1
  BY <1>1 DEF Init, TypeOK, TableType
<1>3. configs = <<Served(hist[1])>>
  BY <1>2 DEF configs
<1> QED
  BY <1>2, <1>3, ServedConfig DEF R!Init, Init, configs

(* A row write is a Change, a bump an Announce. *)
LEMMA WriteIsChange ==
    ASSUME IInv, NEW t, NEW r \in Row, Write(t, r),
           UNCHANGED <<version, bumpAt, agentVars>>
    PROVE  R!Change
<1>1. /\ hist' \in Seq(Table) /\ Len(hist') = Len(hist) + 1
      /\ \A i \in 1..Len(hist) : hist'[i] = hist[i]
  BY WriteType DEF IInv
<1>2. Len(hist) \in Nat
  BY DEF IInv, TypeOK, TableType
<1> DEFINE new == Served(hist'[Len(hist')])
<1>3. new \in Config
  BY <1>1, <1>2, ServedConfig
<1>4. configs' = Append(configs, new)
  BY <1>1, <1>2 DEF configs
<1>5. UNCHANGED <<bumpAt[version], frpc.at, applied>>
  BY DEF agentVars, fileVars, applied
<1> QED
  BY <1>3, <1>4, <1>5 DEF R!Change, configs, applied

(* A bump announces the last change.                                       *)
LEMMA BumpIsAnnounce ==
    ASSUME IInv, BumpConfigVersion, UNCHANGED agentVars
    PROVE  R!Announce
<1>1. /\ bumpAt'[version'] = Len(hist) /\ hist' = hist
      /\ \A v \in 1..version : bumpAt'[v] = bumpAt[v]
  BY BumpType DEF IInv
<1>2. UNCHANGED <<mem, frpc>> /\ mem \in 0..version /\ Len(hist) \in Nat
  BY DEF agentVars, fileVars, IInv, TypeOK, FileType, TableType
<1>3. UNCHANGED applied
  BY <1>1, <1>2 DEF applied, IInv, TypeOK, TableType
<1>4. Len(configs) = Len(hist) /\ UNCHANGED configs
  BY <1>1, <1>2 DEF configs
<1> QED
  BY <1>1, <1>2, <1>3, <1>4 DEF R!Announce, configs, applied

(* Moving forward is a Deploy, marking a loaded version a Claim. *)
LEMMA AgentIsRollout ==
    ASSUME IInv, IInv', UNCHANGED tableVars,
           frpc'.at >= frpc.at, mem' = mem \/ UNCHANGED frpc.at
    PROVE  R!Deploy \/ R!Claim
<1>1. UNCHANGED <<configs, bumpAt[version]>> /\ Len(configs) = Len(hist)
  BY DEF tableVars, configs, IInv, TypeOK, TableType
<1>2. frpc'.at \in frpc.at..Len(hist)
  BY DEF IInv, TypeOK, FileType, TableType, tableVars
<1>3. CASE mem' = mem
  BY <1>1, <1>2, <1>3 DEF R!Deploy, configs, applied, tableVars
<1>4. CASE UNCHANGED frpc.at
  <2>1. mem' \in 0..version /\ UNCHANGED <<version, bumpAt>>
    BY DEF IInv, TypeOK, FileType, tableVars
  <2>2. bumpAt \in Seq(1..Len(hist)) /\ Len(bumpAt) = version
    BY DEF IInv, TypeOK, TableType
  <2>3. mem' > 0 => frpc.at >= bumpAt[mem'] /\ bumpAt[mem'] \in 1..Len(hist)
    BY <1>4, <2>1, <2>2 DEF IInv, LoadedInv, Loaded
  <2>4. applied' = IF mem' = 0 THEN 0 ELSE bumpAt[mem']
    BY <2>1 DEF applied
  <2>5. frpc.at \in Nat
    BY DEF IInv, TypeOK, FileType, TableType
  <2>6. applied' \in 0..frpc.at
    BY <2>1, <2>3, <2>4, <2>5
  <2>7. applied' <= bumpAt[version]
    <3>1. CASE mem' = 0
      BY <2>2, <2>4, <3>1 DEF IInv, TypeOK, TableType
    <3>2. CASE mem' # 0
      BY <2>1, <2>2, <2>4, <3>2 DEF IInv, BumpInv, TypeOK, TableType
    <3> QED
      BY <3>1, <3>2
  <2> QED
    BY <1>1, <1>4, <2>6, <2>7 DEF R!Claim, configs, applied
<1> QED
  BY <1>3, <1>4

(* Every step of the server is a Change, an Announce or leaves Rollout     *)
(* alone.                                                                  *)
LEMMA ServerIsRollout ==
    ASSUME IInv, IInv',
           \/ \E h \in Admins, t \in Tunnels :
                 \/ \E r \in Payloads \cup {"off"} : CreateTunnel(h, t, r)
                 \/ \E op \in {"update", "delete"} : GetTunnel(h, t, op)
           \/ \E h \in Handlers : HandlerStep(h) \/ LoseBump(h)
           \/ \E t \in Tunnels : Expire(t) \/ JanitorSkip(t)
           \/ JanitorStep \/ JanitorLoseBump
    PROVE  R!Next
<1>1. UNCHANGED agentVars
  BY DEF CreateTunnel, GetTunnel, HandlerStep, UpdateTunnel, DeleteTunnel, Bump,
         PublishInsert, PublishRefused, LoseBump, Expire, JanitorSkip,
         JanitorStep, JanitorTick, JanitorBump, JanitorDisable, JanitorLoseBump
<1>2. \/ BumpConfigVersion
      \/ UNCHANGED tableVars
      \/ UNCHANGED <<version, bumpAt>> /\ \E t, r : r \in Row /\ Write(t, r)
  <2> USE DEF Row, Absent, tableVars
  <2>1. ASSUME NEW h, NEW t, NEW r \in Payloads \cup {"off"},
               CreateTunnel(h, t, r) \/ PublishInsert(h, t, r)
        PROVE  UNCHANGED <<version, bumpAt>> /\ r \in Row /\ Write(t, r)
    BY <2>1 DEF CreateTunnel, PublishInsert
  <2>2. ASSUME NEW h, UpdateTunnel(h)
        PROVE  \/ UNCHANGED tableVars
               \/ /\ UNCHANGED <<version, bumpAt>>
                  /\ \E r \in Row : Write(req[h].t, r)
    BY <2>2 DEF UpdateTunnel
  <2>3. ASSUME NEW h, DeleteTunnel(h)
        PROVE  /\ UNCHANGED <<version, bumpAt>>
               /\ "gone" \in Row /\ Write(req[h].t, "gone")
    BY <2>3 DEF DeleteTunnel
  <2>4. ASSUME NEW t, JanitorDisable(t)
        PROVE  \/ UNCHANGED tableVars
               \/ UNCHANGED <<version, bumpAt>> /\ "off" \in Row /\ Write(t, "off")
    BY <2>4 DEF JanitorDisable, SetDisabled
  <2>5. ASSUME NEW h, Bump(h) \/ JanitorBump
        PROVE  BumpConfigVersion
    BY <2>5 DEF Bump, JanitorBump
  <2>6. ASSUME NEW h, NEW t, NEW op,
               GetTunnel(h, t, op) \/ PublishRefused(h) \/ LoseBump(h) \/ Expire(t)
               \/ JanitorSkip(t) \/ JanitorTick \/ JanitorLoseBump
        PROVE  UNCHANGED tableVars
    BY <2>6 DEF GetTunnel, PublishRefused, LoseBump, Expire, JanitorSkip,
                JanitorTick, JanitorLoseBump
  <2> QED
    BY <2>1, <2>2, <2>3, <2>4, <2>5, <2>6 DEF HandlerStep, JanitorStep
<1>3. CASE BumpConfigVersion
  BY <1>1, <1>3, BumpIsAnnounce DEF R!Next
<1>4. CASE UNCHANGED tableVars
  BY <1>1, <1>4, AgentIsRollout DEF R!Next, agentVars, fileVars, IInv, TypeOK,
     FileType, TableType
<1>5. CASE UNCHANGED <<version, bumpAt>> /\ \E t, r : r \in Row /\ Write(t, r)
  BY <1>1, <1>5, WriteIsChange DEF R!Next
<1> QED
  BY <1>2, <1>3, <1>4, <1>5

(* Every step is one of Rollout, or leaves it alone.                       *)
LEMMA RolloutStep == IInv /\ IInv' /\ [Next]_vars => [R!Next]_(R!vars)
<1> SUFFICES ASSUME IInv, IInv', [Next]_vars PROVE [R!Next]_(R!vars)
  OBVIOUS
<1>1. CASE UNCHANGED vars
  BY <1>1 DEF vars, serverVars, tableVars, agentVars, fileVars, R!vars
<1>2. CASE /\ UNCHANGED tableVars
           /\ mem' = mem \/ UNCHANGED frpc.at
  BY <1>2, ForwardStep, AgentIsRollout DEF R!Next
<1>3. ASSUME NEW c \in Callers,
             SyncLock(c) \/ PullStep(c) \/ ApplyStep(c) \/ SyncFault(c)
      PROVE  UNCHANGED tableVars /\ (mem' = mem \/ UNCHANGED frpc.at)
  BY <1>3 DEF SyncLock, PullStep, ConfigReadVersion, ConfigListTunnels, ApplyStep,
       SyncFault, SyncReceive, Receive, WriteConfig, Reload, SetConfigVersion,
       SaveState, PullFails, WriteFails, StartFails, SaveFails, SyncReturn,
       syncRest, serverVars, fileVars
<1>4. ASSUME \/ LoopTick \/ LoopTrigger \/ ServerCrash \/ FrpcDies
             \/ HeartbeatStep \/ HbTimeout \/ \E v \in late : LateTouch(v)
             \/ \E p \in Publishers :
                   PublishBegin(p) \/ PublishReply(p) \/ PublishError(p)
      PROVE  UNCHANGED tableVars /\ mem' = mem
  BY <1>4 DEF LoopTick, LoopTrigger, ServerCrash, FrpcDies, HeartbeatStep, HbSend,
       HbTouch, HbAnswer, HbReceive, HbTimeout, LateTouch, PublishBegin,
       PublishReply, PublishError, syncRest, serverVars, fileVars
<1>5. ASSUME AgentCrash
      PROVE  UNCHANGED tableVars /\ UNCHANGED frpc.at
  BY <1>5 DEF AgentCrash, serverVars, IInv, TypeOK, FileType
<1> QED
  BY <1>1, <1>2, <1>3, <1>4, <1>5, ServerIsRollout DEF Next

(* The loop is a rollout: the gateway never moves back and never claims a  *)
(* change it has not reached or that was not announced.                     *)
THEOREM RefinementTheorem == Spec => Refinement
<1>1. IInv /\ IInv' /\ [Next]_vars => [R!Next]_(R!vars)
  BY RolloutStep
<1> QED
  BY <1>1, RolloutInit, Inductive, PTL DEF Spec, Refinement, R!Spec
=============================================================================
