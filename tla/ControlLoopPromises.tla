------------------------- MODULE ControlLoopPromises -------------------------
(* What the API promises its callers: a publish answered "ok" is live, and  *)
(* every change is announced.                                               *)
EXTENDS ControlLoopProofs

-----------------------------------------------------------------------------
(* What a step does to the table.                                          *)

ServerStep ==
    \/ \E h \in Admins, t \in Tunnels :
          \/ \E r \in Payloads \cup {"off"} : CreateTunnel(h, t, r)
          \/ \E op \in {"update", "delete"} : GetTunnel(h, t, op)
    \/ \E h \in Handlers : HandlerStep(h) \/ LoseBump(h)
    \/ \E t \in Tunnels : Expire(t) \/ JanitorSkip(t)
    \/ JanitorStep \/ JanitorLoseBump

AgentStep ==
    \/ LoopTick \/ LoopTrigger
    \/ \E c \in Callers : SyncLock(c) \/ PullStep(c) \/ ApplyStep(c) \/ SyncFault(c)
    \/ HeartbeatStep \/ HbTimeout \/ \E v \in late : LateTouch(v)
    \/ \E p \in Publishers : PublishBegin(p) \/ PublishReply(p) \/ PublishError(p)
    \/ FrpcDies \/ AgentCrash

(* Every step is one of the server or of the agent.                        *)
LEMMA Sides == Next <=> ServerStep \/ ServerCrash \/ AgentStep
  BY DEF Next, ServerStep, AgentStep

(* The agent does not write to the tunnels or the versions, nor does a     *)
(* crash of the server.                                                     *)
LEMMA AgentTable ==
    ASSUME AgentStep \/ ServerCrash
    PROVE  UNCHANGED tableVars
<1>1. ASSUME NEW c \in Callers,
             SyncLock(c) \/ PullStep(c) \/ ApplyStep(c) \/ SyncFault(c)
      PROVE  UNCHANGED tableVars
  BY <1>1 DEF SyncLock, PullStep, ConfigReadVersion, ConfigListTunnels, ApplyStep,
       SyncFault, SyncReceive, Receive, WriteConfig, Reload, SetConfigVersion,
       SaveState, PullFails, WriteFails, StartFails, SaveFails, SyncReturn,
       syncRest, serverVars
<1>2. CASE \/ LoopTick \/ LoopTrigger \/ ServerCrash \/ FrpcDies \/ AgentCrash
           \/ HeartbeatStep \/ HbTimeout \/ \E v \in late : LateTouch(v)
           \/ \E p \in Publishers :
                 PublishBegin(p) \/ PublishReply(p) \/ PublishError(p)
  BY <1>2 DEF LoopTick, LoopTrigger, ServerCrash, FrpcDies, AgentCrash,
       HeartbeatStep, HbSend, HbTouch, HbAnswer, HbReceive, HbTimeout, LateTouch,
       PublishBegin, PublishReply, PublishError, syncRest, serverVars
<1> QED
  BY <1>1, <1>2 DEF AgentStep

(* A write of a row that no request can read as one never used.            *)
RowWrite == UNCHANGED <<version, bumpAt>> /\ \E t : \E r \in Row \ {"unborn"} : Write(t, r)

(* The server writes one row, bumps the version, or does neither; no row   *)
(* is written as one that was never used.                                   *)
LEMMA ServerTable ==
    ASSUME ServerStep
    PROVE  UNCHANGED tableVars \/ BumpConfigVersion \/ RowWrite
<1> USE DEF tableVars, RowWrite
<1>0. Payloads \cup {"off", "gone"} \subseteq Row \ {"unborn"}
  BY DataAssumption DEF Row, Absent
<1>1. ASSUME NEW h, NEW t, NEW r \in Payloads \cup {"off"},
             CreateTunnel(h, t, r) \/ PublishInsert(h, t, r)
      PROVE  RowWrite
  BY <1>0, <1>1 DEF CreateTunnel, PublishInsert
<1>2. ASSUME NEW h, UpdateTunnel(h) PROVE UNCHANGED tableVars \/ RowWrite
  BY <1>0, <1>2 DEF UpdateTunnel
<1>3. ASSUME NEW h, DeleteTunnel(h) PROVE RowWrite
  BY <1>0, <1>3 DEF DeleteTunnel
<1>4. ASSUME NEW t, JanitorDisable(t) PROVE UNCHANGED tableVars \/ RowWrite
  BY <1>0, <1>4 DEF JanitorDisable, SetDisabled
<1>5. ASSUME NEW h, Bump(h) \/ JanitorBump PROVE BumpConfigVersion
  BY <1>5 DEF Bump, JanitorBump
<1>6. ASSUME NEW h, NEW t, NEW op,
             GetTunnel(h, t, op) \/ PublishRefused(h) \/ LoseBump(h) \/ Expire(t)
             \/ JanitorSkip(t) \/ JanitorTick \/ JanitorLoseBump
      PROVE  UNCHANGED tableVars
  BY <1>6 DEF GetTunnel, PublishRefused, LoseBump, Expire, JanitorSkip,
              JanitorTick, JanitorLoseBump
<1> HIDE DEF tableVars, RowWrite
<1> QED
  BY <1>1, <1>2, <1>3, <1>4, <1>5, <1>6 DEF ServerStep, HandlerStep, JanitorStep

(* The table and the versions only grow: what was recorded stays.          *)
LEMMA TableKept ==
    ASSUME IInv, UNCHANGED tableVars \/ BumpConfigVersion \/ RowWrite
    PROVE  /\ Len(hist') >= Len(hist) /\ version' >= version
           /\ \A i \in 1..Len(hist) : hist'[i] = hist[i]
           /\ \A v \in 1..version : bumpAt'[v] = bumpAt[v]
<1>0. TypeOK /\ Len(hist) \in Nat /\ version \in Nat
  BY DEF IInv, TypeOK, TableType
<1>1. CASE UNCHANGED tableVars
  BY <1>0, <1>1 DEF tableVars
<1>2. CASE BumpConfigVersion
  BY <1>0, <1>2, BumpType
<1>3. CASE RowWrite
  BY <1>0, <1>3, WriteType DEF RowWrite
<1> QED
  BY <1>1, <1>2, <1>3

(* Once inserted, a tunnel is in every later table.                        *)
LEMMA BornStep ==
    ASSUME IInv, BornInv, UNCHANGED tableVars \/ BumpConfigVersion \/ RowWrite
    PROVE  BornInv'
<1>0. TypeOK /\ Len(hist) \in Nat /\ Len(hist) >= 1
  BY DEF IInv, TypeOK, TableType
<1>1. CASE UNCHANGED hist
  BY <1>1 DEF BornInv
<1>2. CASE RowWrite
  <2>0. PICK t : \E r \in Row \ {"unborn"} : Write(t, r)
    BY <1>2 DEF RowWrite
  <2>1. PICK r \in Row \ {"unborn"} : Write(t, r)
    BY <2>0
  <2>2. /\ Len(hist') = Len(hist) + 1
        /\ \A i \in 1..Len(hist) : hist'[i] = hist[i]
    BY <1>0, <2>1, WriteType
  <2>3. hist[Len(hist)] \in [Tunnels -> Row]
    BY <1>0 DEF TypeOK, TableType, Table
  <2>4. hist'[Len(hist')] = [hist[Len(hist)] EXCEPT ![t] = r]
    BY <1>0, <2>1, <2>2 DEF Write, rows, TypeOK, TableType
  <2>5. \A u \in Tunnels :
          hist[Len(hist)][u] # "unborn" => hist'[Len(hist')][u] # "unborn"
    BY <2>3, <2>4
  <2> SUFFICES ASSUME NEW u \in Tunnels, NEW i \in 1..Len(hist'), NEW j \in 1..Len(hist'),
                      i <= j, hist'[i][u] # "unborn"
               PROVE  hist'[j][u] # "unborn"
    BY DEF BornInv
  <2>6. CASE j <= Len(hist)
    BY <1>0, <2>2, <2>6 DEF BornInv
  <2>7. CASE j > Len(hist) /\ i <= Len(hist)
    <3>1. hist[i][u] # "unborn" /\ i \in 1..Len(hist) /\ Len(hist) \in 1..Len(hist)
      BY <1>0, <2>2, <2>7
    <3>2. hist[Len(hist)][u] # "unborn"
      BY <3>1 DEF BornInv
    <3> QED
      BY <1>0, <2>2, <2>5, <2>7, <3>2
  <2>8. CASE i > Len(hist)
    BY <1>0, <2>2, <2>8
  <2> QED
    BY <1>0, <2>2, <2>6, <2>7, <2>8
<1> QED
  BY <1>1, <1>2 DEF tableVars, BumpConfigVersion

-----------------------------------------------------------------------------
(* Where a publish request is.                                             *)

(* The tunnel of a publish request is decided once.                        *)
SameTunnel(p) == req'[p].t = req[p].t \/ req[p].pc = "queued"

(* The server's steps move a publish request from queued to answered.      *)
LEMMA ServerRequest ==
    ASSUME TypeOK, RequestInv, NEW p \in Publishers, ServerStep \/ ServerCrash
    PROVE  /\ UNCHANGED pub
           /\ sync'[p] = sync[p] \/ (sync'[p].pc = "broken" /\ sync[p].pc = "listing")
           /\ \/ req'[p] = req[p]
              \/ req[p].pc = "queued" /\ req'[p].pc \in {"bump", "failed"}
              \/ req[p].pc = "bump" /\ req'[p].pc \in {"reply", "failed"}
              \/ req[p].pc = "reply" /\ req'[p].pc = "failed"
           /\ SameTunnel(p)
<1> DEFINE Moved == /\ \/ req'[p] = req[p]
                       \/ req[p].pc = "queued" /\ req'[p].pc \in {"bump", "failed"}
                       \/ req[p].pc = "bump" /\ req'[p].pc \in {"reply", "failed"}
                       \/ req[p].pc = "reply" /\ req'[p].pc = "failed"
                    /\ SameTunnel(p)
<1> USE DEF SameTunnel
<1>0. /\ p \in Handlers /\ p \notin Admins /\ p \in Callers
      /\ req \in [Handlers -> [pc : ReqPcs, t : Tunnels \cup {"none"}]]
      /\ req[p].pc \notin {"update", "delete"}
  BY ActorAssumption DEF Handlers, Callers, TypeOK, ServerType, RequestInv
<1>1. ASSUME NEW h \in Admins, NEW t, NEW r, NEW op,
             CreateTunnel(h, t, r) \/ GetTunnel(h, t, op)
      PROVE  Moved /\ UNCHANGED agentVars
  BY <1>0, <1>1 DEF CreateTunnel, GetTunnel
<1>2. ASSUME NEW h \in Handlers, UpdateTunnel(h) \/ DeleteTunnel(h)
      PROVE  Moved /\ UNCHANGED agentVars
  BY <1>0, <1>2 DEF UpdateTunnel, DeleteTunnel
<1>3. ASSUME NEW h \in Handlers, Bump(h) \/ LoseBump(h) \/ PublishRefused(h)
      PROVE  Moved /\ UNCHANGED agentVars
  BY <1>0, <1>3 DEF Bump, LoseBump, PublishRefused, HandlerEnd
<1>4. ASSUME NEW h \in Handlers, NEW t, NEW r, PublishInsert(h, t, r)
      PROVE  Moved /\ UNCHANGED agentVars
  BY <1>0, <1>4 DEF PublishInsert
<1>5. ASSUME NEW t, JanitorStep \/ JanitorLoseBump \/ Expire(t) \/ JanitorSkip(t)
      PROVE  Moved /\ UNCHANGED agentVars
  BY <1>5 DEF JanitorStep, JanitorTick, JanitorBump, JanitorDisable,
     JanitorLoseBump, Expire, JanitorSkip
<1>6. CASE ServerCrash
  <2>1. sync'[p] = IF sync[p].pc = "listing" THEN [sync[p] EXCEPT !.pc = "broken"] ELSE sync[p]
    BY <1>0, <1>6 DEF ServerCrash
  <2>2. req'[p] = IF req[p].pc \in {"queued", "bump", "reply"}
                  THEN [req[p] EXCEPT !.pc = "failed"] ELSE req[p]
    BY <1>0, <1>6 DEF ServerCrash
  <2>3. sync[p] \in [pc : SyncPcs, v : 0..version, at : 0..Len(hist)]
    BY <1>0 DEF TypeOK, SyncType
  <2>4. sync'[p] = sync[p] \/ (sync'[p].pc = "broken" /\ sync[p].pc = "listing")
    BY <2>1, <2>3
  <2>5. req[p] \in [pc : ReqPcs, t : Tunnels \cup {"none"}]
    BY <1>0
  <2>6. Moved
    BY <2>2, <2>5
  <2>7. UNCHANGED pub
    BY <1>6 DEF ServerCrash
  <2> QED
    BY <2>4, <2>6, <2>7
<1>7. CASE ServerStep
  <2>1. Moved /\ UNCHANGED agentVars
    <3> HIDE DEF Moved
    <3> QED
      BY <1>1, <1>2, <1>3, <1>4, <1>5, <1>7 DEF ServerStep, HandlerStep
  <2> QED
    BY <2>1 DEF agentVars
<1> QED
  BY <1>6, <1>7

(* The agent's steps: a request is sent, answered, and ends with a sync.   *)
LEMMA AgentRequest ==
    ASSUME TypeOK, RequestInv, NEW p \in Publishers, AgentStep
    PROVE  /\ SameTunnel(p)
           /\ \/ req'[p] = req[p]
              \/ /\ pub[p] = "idle" /\ pub'[p] = "wait"
                 /\ req'[p].pc = "queued" /\ sync'[p] = sync[p]
           /\ \/ pub'[p] = pub[p] /\ (sync'[p].pc = "idle" \/ sync[p].pc # "idle")
              \/ pub[p] = "idle" /\ pub'[p] = "wait" /\ sync'[p] = sync[p]
              \/ /\ pub[p] = "wait" /\ pub'[p] = "sync" /\ req[p].pc = "reply"
                 /\ sync'[p].pc = "want"
              \/ pub'[p] \in {"error", "pending"} /\ sync'[p].pc = "idle"
              \/ pub[p] = "sync" /\ pub'[p] = "ok" /\ sync'[p].pc = "idle"
<1> USE DEF SameTunnel
<1>0. /\ p \in Handlers /\ p \notin {"boot", "loop"} /\ p \in Callers
      /\ req \in [Handlers -> [pc : ReqPcs, t : Tunnels \cup {"none"}]]
      /\ sync \in [Callers -> [pc : SyncPcs, v : 0..version, at : 0..Len(hist)]]
      /\ pub \in [Publishers -> {"idle", "wait", "sync", "ok", "pending", "error"}]
      /\ sync[p].pc # "idle" => pub[p] = "sync"
  BY ActorAssumption DEF Handlers, Callers, TypeOK, ServerType, SyncType, RequestInv
<1>1. ASSUME LoopTick \/ LoopTrigger
      PROVE  UNCHANGED <<req, pub>> /\ sync'[p] = sync[p]
  BY <1>0, <1>1 DEF LoopTick, LoopTrigger, SyncStep, syncRest, serverVars
<1>2. ASSUME NEW c \in Callers, NEW from \in SyncPcs \ {"idle"}, NEW to \in SyncPcs,
             SyncStep(c, from, to)
      PROVE  sync'[p].pc = "idle" \/ sync[p].pc # "idle"
  BY <1>0, <1>2 DEF SyncStep
<1>3. ASSUME NEW c \in Callers,
             SyncLock(c) \/ PullStep(c) \/ WriteConfig(c) \/ Reload(c) \/ SetConfigVersion(c)
      PROVE  UNCHANGED <<req, pub>> /\ (sync'[p].pc = "idle" \/ sync[p].pc # "idle")
  BY <1>0, <1>2, <1>3 DEF SyncLock, PullStep, ConfigReadVersion, ConfigListTunnels,
     WriteConfig, Reload, SetConfigVersion, syncRest, serverVars, SyncPcs
<1>4. ASSUME NEW c \in Callers, NEW ok \in BOOLEAN, SyncReturn(c, ok), sync[c].pc # "idle"
      PROVE  /\ UNCHANGED req
             /\ \/ pub'[p] = pub[p] /\ (sync'[p].pc = "idle" \/ sync[p].pc # "idle")
                \/ /\ pub'[p] = IF ok THEN "ok" ELSE "pending"
                   /\ pub[p] = "sync" /\ sync'[p].pc = "idle"
  BY <1>0, <1>4 DEF SyncReturn, serverVars, IdleSync
<1>5. ASSUME NEW c \in Callers, SyncReceive(c) \/ SaveState(c) \/ SyncFault(c) \/ PullFails(c)
      PROVE  \/ /\ UNCHANGED <<req, pub>>
                /\ sync'[p].pc = "idle" \/ sync[p].pc # "idle"
             \/ \E ok \in BOOLEAN : SyncReturn(c, ok) /\ sync[c].pc # "idle"
  <2>1. CASE SyncReceive(c)
    BY <1>0, <1>2, <2>1 DEF SyncReceive, Receive, syncRest, serverVars, SyncPcs
  <2>2. CASE SaveState(c) \/ SyncFault(c) \/ PullFails(c)
    BY <2>2 DEF SaveState, SyncFault, PullFails, WriteFails, StartFails, SaveFails
  <2> QED
    BY <1>5, <2>1, <2>2
<1>6. ASSUME \/ HeartbeatStep \/ HbTimeout \/ FrpcDies
             \/ \E v \in late : LateTouch(v)
      PROVE  UNCHANGED <<req, pub, sync>>
  BY <1>6 DEF HeartbeatStep, HbSend, HbTouch, HbAnswer, HbReceive, HbTimeout,
     LateTouch, FrpcDies, serverVars
<1>7. CASE \E q \in Publishers : PublishBegin(q) \/ PublishReply(q) \/ PublishError(q)
  <2>1. PICK q \in Publishers : PublishBegin(q) \/ PublishReply(q) \/ PublishError(q)
    BY <1>7
  <2>2. CASE PublishBegin(q)
    BY <1>0, <2>2 DEF PublishBegin
  <2>3. CASE PublishReply(q)
    BY <1>0, <2>3 DEF PublishReply, SyncStep, serverVars
  <2>4. CASE PublishError(q)
    BY <1>0, <2>4 DEF PublishError, serverVars
  <2> QED
    BY <2>1, <2>2, <2>3, <2>4
<1>8. CASE AgentCrash
  BY <1>0, <1>8 DEF AgentCrash, serverVars, IdleSync
<1>9. ASSUME NEW c \in Callers, SyncLock(c) \/ PullStep(c) \/ ApplyStep(c) \/ SyncFault(c)
      PROVE  \/ /\ UNCHANGED <<req, pub>>
                /\ sync'[p].pc = "idle" \/ sync[p].pc # "idle"
             \/ \E ok \in BOOLEAN : SyncReturn(c, ok) /\ sync[c].pc # "idle"
  BY <1>3, <1>5, <1>9 DEF ApplyStep
<1> QED
  BY <1>1, <1>4, <1>6, <1>7, <1>8, <1>9 DEF AgentStep

(* So the states of a publish in server and agent stay in step.            *)
LEMMA RequestStep ==
    ASSUME TypeOK, RequestInv, [Next]_vars
    PROVE  RequestInv'
<1>1. CASE ServerStep \/ ServerCrash
  BY <1>1, ServerRequest DEF RequestInv
<1>2. CASE AgentStep
  BY <1>2, AgentRequest DEF RequestInv
<1>3. CASE UNCHANGED vars
  BY <1>3 DEF vars, serverVars, agentVars, RequestInv
<1> QED
  BY <1>1, <1>2, <1>3, Sides

-----------------------------------------------------------------------------
(* Every change is announced.                                              *)

(* A row write leaves its handler, or the janitor, with a bump to do; only *)
(* a bump, a lost one or a crash of the server ends that.                   *)
LEMMA PendingStep ==
    ASSUME TypeOK, RequestInv, ServerStep \/ AgentStep
    PROVE  \/ BumpConfigVersion
           \/ BumpPending'
           \/ UNCHANGED tableVars /\ ~BumpPending
           \/ \E h \in Handlers : LoseBump(h)
           \/ JanitorLoseBump
<1>0. /\ req \in [Handlers -> [pc : ReqPcs, t : Tunnels \cup {"none"}]]
      /\ jan \in [pc : {"idle", "disable", "bump"}, list : SUBSET Tunnels]
      /\ Admins \subseteq Handlers /\ Publishers \subseteq Handlers
      /\ \A p \in Publishers : pub[p] = "idle" => req[p].pc = "idle"
  BY DEF TypeOK, ServerType, Handlers, RequestInv
<1> DEFINE Rest == UNCHANGED tableVars /\ (BumpPending => BumpPending')
<1>1. ASSUME NEW h \in Handlers, UpdateTunnel(h) \/ DeleteTunnel(h)
      PROVE  BumpPending' \/ Rest
  BY <1>0, <1>1 DEF UpdateTunnel, DeleteTunnel, BumpPending, tableVars
<1>2. ASSUME NEW h \in Handlers, NEW t, NEW r, CreateTunnel(h, t, r) \/ PublishInsert(h, t, r)
      PROVE  BumpPending'
  BY <1>0, <1>2 DEF CreateTunnel, PublishInsert, BumpPending
<1>3. ASSUME NEW h \in Handlers, NEW t, NEW op, GetTunnel(h, t, op) \/ PublishRefused(h)
      PROVE  Rest
  BY <1>0, <1>3 DEF GetTunnel, PublishRefused, AdminOp, BumpPending
<1>4. ASSUME NEW h, Bump(h) \/ JanitorBump PROVE BumpConfigVersion
  BY <1>4 DEF Bump, JanitorBump
<1>5. ASSUME NEW t \in Tunnels, JanitorDisable(t) PROVE BumpPending'
  BY <1>0, <1>5 DEF JanitorDisable, BumpPending
<1>6. ASSUME NEW t, JanitorTick \/ Expire(t) \/ JanitorSkip(t) PROVE Rest
  BY <1>0, <1>6 DEF JanitorTick, Expire, JanitorSkip, BumpPending
<1>7. ASSUME AgentStep PROVE Rest
  <2>1. UNCHANGED tableVars
    BY <1>7, AgentTable
  <2>2. UNCHANGED jan
    <3>1. ASSUME NEW c \in Callers,
                 SyncLock(c) \/ PullStep(c) \/ ApplyStep(c) \/ SyncFault(c)
          PROVE  UNCHANGED jan
      BY <3>1 DEF SyncLock, PullStep, ConfigReadVersion, ConfigListTunnels, ApplyStep,
         SyncFault, SyncReceive, Receive, WriteConfig, Reload, SetConfigVersion,
         SaveState, PullFails, WriteFails, StartFails, SaveFails, SyncReturn,
         syncRest, serverVars
    <3> QED
      BY <1>7, <3>1 DEF AgentStep, LoopTick, LoopTrigger, FrpcDies, AgentCrash,
         HeartbeatStep, HbSend, HbTouch, HbAnswer, HbReceive, HbTimeout, LateTouch,
         PublishBegin, PublishReply, PublishError, syncRest, serverVars
  <2>3. UNCHANGED req \/ \E p \in Publishers : PublishBegin(p)
    <3>1. ASSUME NEW c \in Callers,
                 SyncLock(c) \/ PullStep(c) \/ ApplyStep(c) \/ SyncFault(c)
          PROVE  UNCHANGED req
      BY <3>1 DEF SyncLock, PullStep, ConfigReadVersion, ConfigListTunnels, ApplyStep,
         SyncFault, SyncReceive, Receive, WriteConfig, Reload, SetConfigVersion,
         SaveState, PullFails, WriteFails, StartFails, SaveFails, SyncReturn,
         syncRest, serverVars
    <3> QED
      BY <1>7, <3>1 DEF AgentStep, LoopTick, LoopTrigger, FrpcDies, AgentCrash,
         HeartbeatStep, HbSend, HbTouch, HbAnswer, HbReceive, HbTimeout, LateTouch,
         PublishReply, PublishError, syncRest, serverVars
  <2>4. ASSUME NEW p \in Publishers, PublishBegin(p), BumpPending PROVE BumpPending'
    BY <1>0, <2>2, <2>4 DEF PublishBegin, BumpPending
  <2> QED
    BY <2>1, <2>2, <2>3, <2>4 DEF BumpPending
<1> HIDE DEF Rest
<1>8. ASSUME ServerStep
      PROVE  \/ BumpConfigVersion \/ BumpPending' \/ Rest
             \/ (\E h \in Handlers : LoseBump(h)) \/ JanitorLoseBump
  BY <1>0, <1>1, <1>2, <1>3, <1>4, <1>5, <1>6, <1>8
     DEF ServerStep, HandlerStep, JanitorStep
<1> QED
  BY <1>7, <1>8 DEF Rest

(* Unless a bump fails or the server stops, no change of the table stays   *)
(* unannounced: a handler or the janitor is about to bump the version, or  *)
(* the current version was assigned after the last change.                  *)
THEOREM BumpContractTheorem ==
    ASSUME Faults \cap {"lostBump", "serverCrash"} = {}
    PROVE  Spec => []BumpContract
<1> DEFINE Inv == TypeOK /\ RequestInv /\ BumpContract
<1>1. Init => Inv
  <2> SUFFICES ASSUME Init PROVE Inv
    OBVIOUS
  <2>1. RequestInv
    BY ActorAssumption DEF Init, RequestInv, IdleReq, IdleSync, Handlers, Callers
  <2>2. BumpContract
    BY DEF Init, BumpContract, Covered
  <2> QED
    BY <2>1, <2>2, TypeInit
<1>2. Inv /\ [Next]_vars => Inv'
  <2> SUFFICES ASSUME TypeOK, RequestInv, BumpContract, [Next]_vars PROVE BumpContract'
    BY TypeStep, RequestStep
  <2>1. \A k : Fault(k) => k \notin {"lostBump", "serverCrash"}
    BY DEF Fault
  <2>2. CASE BumpConfigVersion
    BY <2>2, BumpType DEF BumpContract, Covered
  <2>3. CASE UNCHANGED tableVars /\ ~BumpPending
    BY <2>3 DEF BumpContract, Covered, tableVars
  <2>4. CASE BumpPending'
    BY <2>4 DEF BumpContract
  <2>5. CASE UNCHANGED vars
    BY <2>5 DEF vars, serverVars, tableVars, BumpContract, Covered, BumpPending
  <2>6. ~(\E h \in Handlers : LoseBump(h)) /\ ~JanitorLoseBump /\ ~ServerCrash
    BY <2>1 DEF LoseBump, JanitorLoseBump, ServerCrash
  <2> QED
    BY <2>2, <2>3, <2>4, <2>5, <2>6, PendingStep, Sides
<1>3. Inv => BumpContract
  OBVIOUS
<1> HIDE DEF Inv
<1> QED
  BY <1>1, <1>2, <1>3, PTL DEF Spec
-----------------------------------------------------------------------------
(* A publish answered "ok" is live.                                        *)

(* A config that includes a tunnel still does after a step.                *)
LEMMA IncludesKept ==
    ASSUME IInv, UNCHANGED tableVars \/ BumpConfigVersion \/ RowWrite,
           NEW p \in Publishers, req'[p].t = req[p].t, NEW i, Includes(p, i)
    PROVE  Includes(p, i)'
<1>1. i \in 1..Len(hist') /\ hist'[i] = hist[i]
  BY TableKept DEF Includes, IInv, TypeOK, TableType
<1> QED
  BY <1>1 DEF Includes

(* So does every later one.                                                *)
LEMMA IncludesLater ==
    ASSUME BornInv, NEW p \in Publishers, NEW i, Includes(p, i),
           NEW j \in 1..Len(hist), i <= j
    PROVE  Includes(p, j)
  BY DEF Includes, BornInv

(* A call pulls the version of the moment it asks, and keeps it.           *)
LEMMA PullMoves ==
    ASSUME TypeOK, RequestInv, NEW p \in Publishers, AgentStep,
           sync'[p].pc \in Pulled \cup {"listing"}
    PROVE  \/ sync[p].pc = "asked" /\ sync'[p].v = version
           \/ sync[p].pc \in Pulled \cup {"listing"} /\ sync'[p].v = sync[p].v
<1> USE DEF Pulled
<1>0. /\ p \notin {"boot", "loop"} /\ p \in Callers
      /\ sync \in [Callers -> [pc : SyncPcs, v : 0..version, at : 0..Len(hist)]]
  BY ActorAssumption DEF Callers, TypeOK, SyncType
<1>1. CASE sync'[p] = sync[p]
  BY <1>1
<1>2. CASE sync'[p] = IdleSync
  BY <1>2 DEF IdleSync
<1>3. ASSUME NEW c \in Callers, NEW from, NEW to, SyncStep(c, from, to)
      PROVE  \/ sync'[p] = sync[p]
             \/ sync[p].pc = from /\ sync'[p] = [sync[p] EXCEPT !.pc = to]
  BY <1>0, <1>3 DEF SyncStep
<1>4. ASSUME NEW c \in Callers, NEW ok, SyncReturn(c, ok)
      PROVE  sync'[p] \in {sync[p], IdleSync}
  BY <1>0, <1>4 DEF SyncReturn
<1>5. ASSUME NEW c \in Callers, ConfigReadVersion(c)
      PROVE  sync'[p] = sync[p] \/ (sync[p].pc = "asked" /\ sync'[p].v = version)
  BY <1>0, <1>5 DEF ConfigReadVersion
<1>6. ASSUME NEW c \in Callers, ConfigListTunnels(c)
      PROVE  sync'[p] = sync[p] \/ (sync[p].pc = "listing" /\ sync'[p].v = sync[p].v)
  BY <1>0, <1>6 DEF ConfigListTunnels
<1>7. ASSUME NEW c \in Callers, SyncLock(c)
      PROVE  sync'[p] = sync[p] \/ sync'[p].pc = "asked"
  BY <1>0, <1>7 DEF SyncLock, SyncStep
<1>8. ASSUME NEW c \in Callers, ApplyStep(c) \/ SyncFault(c)
      PROVE  \/ \E ok \in BOOLEAN : SyncReturn(c, ok)
             \/ \E from \in Pulled, to \in Pulled : SyncStep(c, from, to)
  BY <1>8 DEF ApplyStep, SyncFault, SyncReceive, Receive, WriteConfig, Reload,
     SetConfigVersion, SaveState, PullFails, WriteFails, StartFails, SaveFails
<1>9. ASSUME NEW c \in Callers, ApplyStep(c) \/ SyncFault(c)
      PROVE  \/ sync'[p] \in {sync[p], IdleSync}
             \/ sync[p].pc \in Pulled /\ sync'[p].v = sync[p].v
  <2>1. ASSUME NEW from \in Pulled, NEW to \in Pulled, SyncStep(c, from, to)
        PROVE  sync'[p] = sync[p] \/ (sync[p].pc \in Pulled /\ sync'[p].v = sync[p].v)
    BY <1>0, <2>1 DEF SyncStep
  <2> QED
    BY <1>4, <1>8, <1>9, <2>1
<1>10. CASE \E q \in Publishers : PublishBegin(q) \/ PublishReply(q) \/ PublishError(q)
  BY <1>0, <1>1, <1>10 DEF PublishBegin, PublishReply, PublishError, SyncStep
<1>11. CASE \/ LoopTick \/ LoopTrigger \/ FrpcDies \/ AgentCrash
            \/ HeartbeatStep \/ HbTimeout \/ \E v \in late : LateTouch(v)
  <2>1. CASE LoopTick \/ LoopTrigger
    BY <1>0, <1>1, <2>1 DEF LoopTick, LoopTrigger, SyncStep
  <2>2. CASE AgentCrash
    BY <1>0, <1>2, <2>2 DEF AgentCrash
  <2> QED
    BY <1>1, <1>11, <2>1, <2>2 DEF FrpcDies, HeartbeatStep, HbSend, HbTouch, HbAnswer,
       HbReceive, HbTimeout, LateTouch
<1> QED
  BY <1>1, <1>2, <1>5, <1>6, <1>7, <1>9, <1>10, <1>11 DEF AgentStep, PullStep

(* A call that ends well leaves frpc with a config at least as new as what *)
(* the pulled version announces: it was started with the pulled config, or  *)
(* the version was on record already.                                       *)
LEMMA OkMoves ==
    ASSUME IInv, RequestInv, NEW p \in Publishers, AgentStep,
           pub'[p] = "ok", pub[p] # "ok"
    PROVE  /\ UNCHANGED <<frpc, version, bumpAt>>
           /\ sync[p].pc \in Pulled
           /\ frpc.at >= bumpAt[sync[p].v]
<1> USE DEF Pulled
<1>0. /\ p \notin {"boot", "loop"} /\ p \in Callers
      /\ pub \in [Publishers -> {"idle", "wait", "sync", "ok", "pending", "error"}]
      /\ sync \in [Callers -> [pc : SyncPcs, v : 0..version, at : 0..Len(hist)]]
      /\ version \in Nat
  BY ActorAssumption DEF Callers, IInv, TypeOK, SyncType, TableType
<1>1. ASSUME NEW c \in Callers, ApplyStep(c) \/ SyncFault(c)
      PROVE  c = p /\ (SyncReceive(c) \/ SaveState(c) \/ SaveFails(c)) /\ SyncReturn(c, TRUE)
  <2>1. \A ok : SyncReturn(c, ok) => c = p /\ ok
    BY <1>0 DEF SyncReturn
  <2>2. pub' # pub
    BY <1>0
  <2> QED
    BY <1>1, <2>1, <2>2 DEF ApplyStep, SyncFault, SyncReceive, Receive, WriteConfig,
       Reload, SetConfigVersion, SaveState, PullFails, WriteFails, StartFails,
       SaveFails, syncRest
<1>2. \E c \in Callers : ApplyStep(c) \/ SyncFault(c)
  <2>1. pub' # pub
    BY <1>0
  <2>2. ASSUME NEW q \in Publishers, PublishBegin(q) \/ PublishReply(q) \/ PublishError(q)
        PROVE  FALSE
    BY <1>0, <2>2 DEF PublishBegin, PublishReply, PublishError
  <2>3. ~AgentCrash
    BY <1>0 DEF AgentCrash
  <2>4. ~(HeartbeatStep \/ HbTimeout \/ FrpcDies \/ \E v \in late : LateTouch(v))
    BY <2>1 DEF FrpcDies, HeartbeatStep, HbSend, HbTouch, HbAnswer, HbReceive,
       HbTimeout, LateTouch
  <2>5. ~(LoopTick \/ LoopTrigger \/ \E c \in Callers : SyncLock(c) \/ PullStep(c))
    BY <2>1 DEF LoopTick, LoopTrigger, SyncLock, PullStep, ConfigReadVersion,
       ConfigListTunnels, syncRest
  <2> QED
    BY <2>2, <2>3, <2>4, <2>5 DEF AgentStep
<1>3. (SyncReceive(p) \/ SaveState(p) \/ SaveFails(p)) /\ SyncReturn(p, TRUE)
  BY <1>1, <1>2
<1>4. UNCHANGED <<frpc, version, bumpAt>>
  BY <1>3 DEF SyncReceive, Receive, SaveState, SaveFails, SyncReturn, fileVars,
     serverVars, tableVars
<1>5. CASE SyncReceive(p)
  <2>1. sync[p].pc = "answered"
    BY <1>5 DEF SyncReceive, Receive
  <2>2. sync'[p] = IdleSync
    BY <1>0, <1>3 DEF SyncReturn
  <2>3. ~SyncStep(p, "answered", "write")
    BY <1>0, <2>2 DEF SyncStep, IdleSync
  <2>4. sync[p].v = mem /\ sync[p].v > 0
    BY <1>0, <1>5, <2>1, <2>3 DEF SyncReceive, Receive, IInv, PullInv
  <2> QED
    BY <1>4, <2>1, <2>4 DEF IInv, LoadedInv, Loaded
<1>6. CASE SaveState(p) \/ SaveFails(p)
  <2>1. sync[p].pc = "save"
    BY <1>6 DEF SaveState, SaveFails
  <2>2. frpc.at = sync[p].at /\ sync[p].at >= bumpAt[sync[p].v]
    BY <1>0, <2>1 DEF IInv, OrderInv, PullInv
  <2> QED
    BY <1>4, <2>1, <2>2
<1> QED
  BY <1>3, <1>5, <1>6

(* A queued publish that goes on has inserted its tunnel.                  *)
LEMMA QueuedInsert ==
    ASSUME TypeOK, NEW p \in Publishers, ServerStep,
           req[p].pc = "queued", req'[p].pc = "bump"
    PROVE  \E t \in Tunnels : \E r \in Payloads : PublishInsert(p, t, r)
<1>0. /\ p \in Handlers /\ p \notin Admins
      /\ req \in [Handlers -> [pc : ReqPcs, t : Tunnels \cup {"none"}]]
  BY ActorAssumption DEF Handlers, TypeOK, ServerType
<1>1. ASSUME NEW h \in Admins, NEW t, NEW r, NEW op,
             CreateTunnel(h, t, r) \/ GetTunnel(h, t, op)
      PROVE  FALSE
  BY <1>0, <1>1 DEF CreateTunnel, GetTunnel
<1>2. ASSUME NEW h \in Handlers,
             UpdateTunnel(h) \/ DeleteTunnel(h) \/ Bump(h) \/ LoseBump(h) \/ PublishRefused(h)
      PROVE  FALSE
  BY <1>0, <1>2 DEF UpdateTunnel, DeleteTunnel, Bump, LoseBump, PublishRefused, HandlerEnd
<1>3. ASSUME NEW h \in Handlers, NEW t, NEW r, PublishInsert(h, t, r)
      PROVE  h = p
  BY <1>0, <1>3 DEF PublishInsert
<1>4. ASSUME NEW t, JanitorStep \/ JanitorLoseBump \/ Expire(t) \/ JanitorSkip(t)
      PROVE  FALSE
  BY <1>4 DEF JanitorStep, JanitorTick, JanitorBump, JanitorDisable,
     JanitorLoseBump, Expire, JanitorSkip
<1> QED
  BY <1>1, <1>2, <1>3, <1>4 DEF ServerStep, HandlerStep

(* The tunnel it has inserted is in the table.                             *)
LEMMA InsertIncludes ==
    ASSUME TypeOK, NEW p \in Publishers, NEW t \in Tunnels,
           \E r \in Payloads : PublishInsert(p, t, r)
    PROVE  Includes(p, Len(hist))'
<1>1. PICK r \in Payloads : PublishInsert(p, t, r)
  OBVIOUS
<1>2. r \in Row /\ r # "unborn"
  BY DataAssumption DEF Row, Absent
<1>3. Write(t, r) /\ req'[p].t = t
  BY <1>1 DEF PublishInsert, TypeOK, ServerType, Handlers
<1>4. Len(hist) \in Nat /\ Len(hist) >= 1 /\ rows \in [Tunnels -> Row]
  BY DEF TypeOK, TableType, Table, rows
<1>5. hist' = Append(hist, [rows EXCEPT ![t] = r])
  BY <1>3 DEF Write
<1>6. Len(hist') = Len(hist) + 1 /\ hist'[Len(hist')] = [rows EXCEPT ![t] = r]
  BY <1>4, <1>5 DEF TypeOK, TableType
<1> QED
  BY <1>2, <1>3, <1>4, <1>6 DEF Includes

(* A publish is answered after its bump.                                   *)
LEMMA BumpReply ==
    ASSUME TypeOK, NEW p \in Publishers, ServerStep,
           req[p].pc = "bump", req'[p].pc = "reply"
    PROVE  BumpConfigVersion
<1>0. /\ p \in Handlers /\ p \notin Admins
      /\ req \in [Handlers -> [pc : ReqPcs, t : Tunnels \cup {"none"}]]
  BY ActorAssumption DEF Handlers, TypeOK, ServerType
<1>1. ASSUME NEW h \in Admins, NEW t, NEW r, NEW op,
             CreateTunnel(h, t, r) \/ GetTunnel(h, t, op)
      PROVE  FALSE
  BY <1>0, <1>1 DEF CreateTunnel, GetTunnel
<1>2. ASSUME NEW h \in Handlers,
             UpdateTunnel(h) \/ DeleteTunnel(h) \/ LoseBump(h) \/ PublishRefused(h)
      PROVE  FALSE
  BY <1>0, <1>2 DEF UpdateTunnel, DeleteTunnel, LoseBump, PublishRefused, HandlerEnd
<1>3. ASSUME NEW h \in Handlers, NEW t, NEW r, PublishInsert(h, t, r)
      PROVE  FALSE
  BY <1>0, <1>3 DEF PublishInsert
<1>4. ASSUME NEW t, \/ JanitorTick \/ JanitorDisable(t) \/ JanitorLoseBump
                    \/ Expire(t) \/ JanitorSkip(t)
      PROVE  FALSE
  BY <1>4 DEF JanitorTick, JanitorDisable, JanitorLoseBump, Expire, JanitorSkip
<1>5. ASSUME NEW h, Bump(h) \/ JanitorBump PROVE BumpConfigVersion
  BY <1>5 DEF Bump, JanitorBump
<1> QED
  BY <1>1, <1>2, <1>3, <1>4, <1>5 DEF ServerStep, HandlerStep, JanitorStep

(* Every step keeps what is known of the tunnels of publish requests.      *)
LEMMA PublishedStep ==
    ASSUME DeployInv, IInv', BornInv', RequestInv', [Next]_vars
    PROVE  PublishedInv'
<1> USE DEF DeployInv
<1>0. TypeOK /\ TypeOK' /\ IInv /\ RequestInv /\ BornInv /\ PublishedInv
  BY DEF IInv
<1>1. UNCHANGED tableVars \/ BumpConfigVersion \/ RowWrite
  BY Sides, AgentTable, ServerTable DEF vars, serverVars
<1>2. /\ version \in Nat \ {0} /\ Len(hist) \in Nat /\ Len(hist) >= 1
      /\ \A v \in 1..version : bumpAt[v] \in 1..Len(hist)
      /\ \A v \in 1..version' : bumpAt'[v] \in 1..Len(hist')
      /\ version' \in Nat /\ Len(hist') \in Nat /\ version' >= version
      /\ \A v \in 1..version : bumpAt'[v] = bumpAt[v]
      /\ Len(hist') >= Len(hist)
  <2>1. /\ version \in Nat \ {0} /\ Len(hist) \in Nat /\ Len(hist) >= 1
        /\ \A v \in 1..version : bumpAt[v] \in 1..Len(hist)
    <3>1. bumpAt \in Seq(1..Len(hist)) /\ Len(bumpAt) = version
      BY <1>0 DEF TypeOK, TableType
    <3>2. hist \in Seq(Table) /\ Len(hist) >= 1 /\ version \in Nat \ {0}
      BY <1>0 DEF TypeOK, TableType
    <3> QED
      BY <3>1, <3>2
  <2>2. /\ version' \in Nat \ {0} /\ Len(hist') \in Nat
        /\ \A v \in 1..version' : bumpAt'[v] \in 1..Len(hist')
    <3>1. bumpAt' \in Seq(1..Len(hist')) /\ Len(bumpAt') = version'
      BY <1>0 DEF TypeOK, TableType
    <3>2. hist' \in Seq(Table) /\ Len(hist') >= 1 /\ version' \in Nat \ {0}
      BY <1>0 DEF TypeOK, TableType, Table
    <3> QED
      BY <3>1, <3>2
  <2>3. /\ Len(hist') >= Len(hist) /\ version' >= version
        /\ \A v \in 1..version : bumpAt'[v] = bumpAt[v]
    BY <1>0, <1>1, TableKept
  <2> QED
    BY <2>1, <2>2, <2>3
<1>3. frpc.at \in 0..Len(hist) /\ frpc'.at \in 0..Len(hist') /\ frpc'.at >= frpc.at
  BY <1>0, ForwardStep DEF TypeOK, FileType
<1> SUFFICES ASSUME NEW p \in Publishers
             PROVE
        /\ req'[p].pc = "bump" => Includes(p, Len(hist))'
        /\ req'[p].pc = "reply" \/ pub'[p] = "sync" => Includes(p, bumpAt[version])'
        /\ sync'[p].pc \in Pulled \cup {"listing"} => Includes(p, bumpAt[sync[p].v])'
        /\ pub'[p] = "ok" => Includes(p, frpc.at)'
  BY DEF PublishedInv
<1>4. p \in Callers /\ sync \in [Callers -> [pc : SyncPcs, v : 0..version, at : 0..Len(hist)]]
  BY <1>0 DEF Callers, TypeOK, SyncType
<1>5. ASSUME req'[p].t = req[p].t, NEW i, Includes(p, i), NEW j \in 1..Len(hist'), i <= j
      PROVE  Includes(p, j)'
  <2>1. Includes(p, i)'
    BY <1>0, <1>1, <1>5, IncludesKept
  <2> QED
    BY <1>0, <1>5, <2>1 DEF Includes, BornInv
<1>6. SameTunnel(p)
  <2>1. CASE UNCHANGED vars
    BY <2>1 DEF vars, serverVars, SameTunnel
  <2> QED
    BY <1>0, <2>1, ServerRequest, AgentRequest, Sides
<1>7. ASSUME req[p].pc # "queued", NEW v \in 1..version, Includes(p, bumpAt[v]),
             NEW w \in 1..version', w >= v
      PROVE  Includes(p, bumpAt[w])'
  <2>1. bumpAt[v] = bumpAt'[v] /\ v \in 1..version'
    BY <1>2
  <2>2. bumpAt'[v] <= bumpAt'[w]
    BY <1>7, <2>1 DEF IInv, BumpInv
  <2>3. bumpAt'[w] \in 1..Len(hist')
    BY <1>2
  <2>4. req'[p].t = req[p].t
    BY <1>6, <1>7 DEF SameTunnel
  <2> QED
    BY <1>5, <1>7, <2>1, <2>2, <2>3, <2>4
<1>8. ASSUME req'[p].pc = "bump" PROVE Includes(p, Len(hist))'
  <2>1. CASE req[p].pc = "bump"
    BY <1>0, <1>2, <1>5, <1>6, <2>1 DEF PublishedInv, SameTunnel
  <2>2. CASE req[p].pc # "bump"
    <3>1. ServerStep /\ req[p].pc = "queued"
      <4>1. CASE UNCHANGED vars
        BY <1>8, <2>2, <4>1 DEF vars, serverVars
      <4>2. CASE AgentStep
        BY <1>0, <1>8, <2>2, <4>2, AgentRequest
      <4>3. CASE ServerCrash
        BY <1>8, <2>2, <4>3, ActorAssumption DEF ServerCrash, Handlers
      <4>4. CASE ServerStep
        BY <1>0, <1>8, <2>2, <4>4, ServerRequest
      <4> QED
        BY <4>1, <4>2, <4>3, <4>4, Sides
    <3>2. PICK t \in Tunnels : \E r \in Payloads : PublishInsert(p, t, r)
      BY <1>0, <1>8, <3>1, QueuedInsert
    <3> QED
      BY <1>0, <3>2, InsertIncludes
  <2> QED
    BY <2>1, <2>2
<1>9. ASSUME req'[p].pc = "reply" \/ pub'[p] = "sync"
      PROVE  Includes(p, bumpAt[version])'
  <2>1. CASE req[p].pc = "reply" \/ pub[p] = "sync"
    <3>1. req[p].pc # "queued"
      BY <1>0, <2>1 DEF RequestInv
    <3> QED
      BY <1>0, <1>2, <1>7, <2>1, <3>1 DEF PublishedInv
  <2>2. CASE ~(req[p].pc = "reply" \/ pub[p] = "sync")
    <3>1. ServerStep /\ req[p].pc = "bump" /\ req'[p].pc = "reply"
      <4>1. CASE UNCHANGED vars
        BY <1>9, <2>2, <4>1 DEF vars, serverVars, agentVars
      <4>2. CASE AgentStep
        BY <1>0, <1>9, <2>2, <4>2, AgentRequest
      <4>3. CASE ServerStep \/ ServerCrash
        <5>1. req[p].pc = "bump" /\ req'[p].pc = "reply"
          BY <1>0, <1>9, <2>2, <4>3, ServerRequest
        <5>2. ~ServerCrash
          <6>1. SUFFICES ASSUME ServerCrash PROVE FALSE
            OBVIOUS
          <6>2. p \in Handlers /\ p \notin Admins
            BY ActorAssumption DEF Handlers
          <6>3. req'[p] = [req[p] EXCEPT !.pc = "failed"]
            BY <5>1, <6>1, <6>2 DEF ServerCrash
          <6>4. req[p] \in [pc : ReqPcs, t : Tunnels \cup {"none"}]
            BY <1>0, <6>2 DEF TypeOK, ServerType
          <6> QED
            BY <5>1, <6>3, <6>4
        <5> QED
          BY <4>3, <5>1, <5>2
      <4> QED
        BY <4>1, <4>2, <4>3, Sides
    <3>2. BumpConfigVersion
      BY <1>0, <3>1, BumpReply
    <3>3. bumpAt'[version'] = Len(hist) /\ hist' = hist
      BY <1>0, <3>2, BumpType
    <3> QED
      BY <1>0, <1>2, <1>5, <1>6, <3>1, <3>3 DEF PublishedInv, SameTunnel
  <2> QED
    BY <2>1, <2>2
<1>10. ASSUME sync'[p].pc \in Pulled \cup {"listing"}
       PROVE  Includes(p, bumpAt[sync[p].v])'
  <2>1. \/ sync[p].pc = "asked" /\ sync'[p].v = version
        \/ sync[p].pc \in Pulled \cup {"listing"} /\ sync'[p].v = sync[p].v
    <3>1. CASE UNCHANGED vars
      BY <1>10, <3>1 DEF vars, agentVars
    <3>2. CASE ServerStep \/ ServerCrash
      BY <1>0, <1>10, <3>2, ServerRequest DEF Pulled
    <3>3. CASE AgentStep
      BY <1>0, <1>10, <3>3, PullMoves
    <3> QED
      BY <3>1, <3>2, <3>3, Sides
  <2>2. pub[p] = "sync" /\ req[p].pc # "queued"
    BY <1>0, <2>1 DEF RequestInv, Pulled
  <2>3. CASE sync[p].pc = "asked" /\ sync'[p].v = version
    BY <1>0, <1>2, <1>7, <2>2, <2>3 DEF PublishedInv
  <2>4. CASE sync[p].pc \in Pulled \cup {"listing"} /\ sync'[p].v = sync[p].v
    <3>1. sync[p].v \in 1..version
      BY <1>0, <1>2, <1>4, <2>4 DEF IInv, PullInv
    <3> QED
      BY <1>0, <1>2, <1>7, <2>2, <2>4, <3>1 DEF PublishedInv
  <2> QED
    BY <2>1, <2>3, <2>4
<1>11. ASSUME pub'[p] = "ok" PROVE Includes(p, frpc.at)'
  <2>1. CASE pub[p] = "ok"
    <3>1. Includes(p, frpc.at) /\ req[p].pc # "queued"
      BY <1>0, <2>1 DEF PublishedInv, RequestInv
    <3>2. frpc'.at \in 1..Len(hist')
      BY <1>2, <1>3, <3>1 DEF Includes
    <3> QED
      BY <1>3, <1>5, <1>6, <3>1, <3>2 DEF SameTunnel
  <2>2. CASE pub[p] # "ok"
    <3>1. AgentStep
      BY <1>0, <1>11, <2>2, Sides, ServerRequest DEF vars, agentVars
    <3>2. /\ UNCHANGED frpc /\ sync[p].pc \in Pulled
          /\ frpc.at >= bumpAt[sync[p].v]
      BY <1>0, <1>11, <2>2, <3>1, OkMoves
    <3>3. Includes(p, bumpAt[sync[p].v]) /\ req[p].pc # "queued"
      BY <1>0, <3>2 DEF PublishedInv, RequestInv, Pulled
    <3>4. frpc'.at \in 1..Len(hist') /\ frpc'.at >= bumpAt[sync[p].v]
      BY <1>3, <3>2, <3>3 DEF Includes
    <3> QED
      BY <1>5, <1>6, <3>3, <3>4 DEF SameTunnel
  <2> QED
    BY <2>1, <2>2
<1> QED
  BY <1>8, <1>9, <1>10, <1>11

(* What a publish relies on holds at every moment.                         *)
THEOREM DeployInductive == Spec => []DeployInv
<1>1. Init => DeployInv
  <2> SUFFICES ASSUME Init PROVE DeployInv
    OBVIOUS
  <2>1. BornInv
    BY DEF Init, BornInv
  <2>2. \A p \in Publishers :
          req[p].pc = "idle" /\ pub[p] = "idle" /\ sync[p].pc = "idle"
    BY ActorAssumption DEF Init, IdleReq, IdleSync, Handlers, Callers
  <2>3. RequestInv /\ PublishedInv
    BY <2>2 DEF RequestInv, PublishedInv, Pulled
  <2> QED
    BY <2>1, <2>3, IInvInit DEF DeployInv
<1>2. DeployInv /\ [Next]_vars => DeployInv'
  <2> SUFFICES ASSUME DeployInv, [Next]_vars PROVE DeployInv'
    OBVIOUS
  <2>1. IInv'
    BY IInvStep DEF DeployInv
  <2>2. UNCHANGED tableVars \/ BumpConfigVersion \/ RowWrite
    BY Sides, AgentTable, ServerTable DEF vars, serverVars
  <2>3. BornInv'
    BY <2>2, BornStep DEF DeployInv
  <2>4. RequestInv'
    BY RequestStep DEF DeployInv, IInv
  <2> QED
    BY <2>1, <2>3, <2>4, PublishedStep DEF DeployInv
<1> QED
  BY <1>1, <1>2, PTL DEF Spec

(* "ok" to a local publish means that frpc has been started with a config   *)
(* that was listed after the tunnel's insertion, whoever's sync did it.     *)
THEOREM PublishOkTheorem == Spec => []PublishOk
<1>1. DeployInv => PublishOk
  BY DEF DeployInv, PublishedInv, Includes, PublishOk
<1> QED
  BY <1>1, DeployInductive, PTL
=============================================================================
