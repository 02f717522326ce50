------------------------------ MODULE ControlLoop ------------------------------
(***************************************************************************)
(* The control loop of one gateway: tunnel rows and a config version in   *)
(* the control API's database, an agent that heartbeats its applied       *)
(* version, pulls the desired config and restarts frpc with it.           *)
(*                                                                         *)
(* A step is what the code does between two points where another process, *)
(* goroutine or machine can see or change its state: one SQL statement on *)
(* the server (the pool holds a single connection), one message, one file *)
(* or process operation of the agent.                                     *)
(*                                                                         *)
(* `hist' records every state the tunnels table went through; a config is *)
(* identified by the position in `hist' it was listed from, so that two   *)
(* configs can be compared by age. Nothing in the code reads `hist' at a  *)
(* position other than its last.                                           *)
(***************************************************************************)
EXTENDS Integers, Sequences, FiniteSets

CONSTANTS
    Tunnels,     \* tunnel ids; a NewID is never handed out twice
    Expiring,    \* the tunnels created with a TTL
    Payloads,    \* what an enabled row can hold: target, domain, port
    Admins,      \* concurrent requests of the admin API
    Publishers,  \* requests to the agent's local publish API
    Faults,      \* the kinds of fault that can happen
    MaxOps,      \* bound: admin requests
    MaxFaults,   \* bound: faults
    MaxEvents    \* bound: admin requests and faults together

FaultKinds ==
    {"lostBump",    \* BumpConfigVersion fails after the row was written
     "rowError",    \* the janitor fails to disable a row
     "serverCrash", "agentCrash", "frpcDies",
     "timeout",     \* a call fails although the server may have served it
     "badConfig",   \* writing or verifying frpc.toml fails
     "noStart",     \* frpc is stopped but cannot be started
     "saveFails"}   \* the state file cannot be written

Absent == {"unborn", "gone"}
Callers == {"boot", "loop"} \cup Publishers
Handlers == Admins \cup Publishers

ASSUME DataAssumption ==
    /\ Payloads \cap (Absent \cup {"off"}) = {}
    /\ Expiring \subseteq Tunnels
    /\ "none" \notin Tunnels

ASSUME ActorAssumption ==
    /\ Publishers \cap (Admins \cup {"boot", "loop", "none"}) = {}

ASSUME BoundAssumption ==
    /\ Faults \subseteq FaultKinds
    /\ MaxOps \in Nat /\ MaxFaults \in Nat /\ MaxEvents \in Nat

VARIABLES
    \* control API: database
    hist,       \* every state of the tunnels table, the last is current
    version,    \* config_versions.version
    bumpAt,     \* [v |-> Len(hist) when version became v]
    due,        \* tunnels whose expires_at has passed
    reported,   \* gateways.current_config_version
    \* control API: request handlers and the janitor
    req, jan, ops,
    \* agent
    phase,      \* "boot" until the initial SyncOnce has returned
    mem, disk,  \* current_config_version in memory, in the state file
    snap,       \* lastTunnels, the snapshot health checks use
    toml,       \* the installed frpc.toml
    frpc,       \* whether it runs, and the config it was last started with
    lock,       \* Synchronizer.mu
    sync,       \* each caller's SyncOnce
    trig,       \* Synchronizer.trigger, a channel of capacity one
    hb, late,   \* the heartbeat in progress; abandoned ones under way
    pub,        \* each local publish request
    faults

tableVars == <<hist, version, bumpAt>>
serverVars == <<tableVars, due, reported, req, jan, ops>>
fileVars == <<mem, disk, snap, toml, frpc>>
agentVars == <<phase, fileVars, lock, sync, trig, hb, late, pub>>
vars == <<serverVars, agentVars, faults>>

-----------------------------------------------------------------------------
rows == hist[Len(hist)]
Present(t) == rows[t] \notin Absent

(* The config listed from table state s: its enabled rows. *)
Served(s) == [t \in {u \in Tunnels : s[u] \in Payloads} |-> s[t]]

(* Every row change has been announced by a later version. *)
Covered == bumpAt[version] = Len(hist)

Row == Payloads \cup Absent \cup {"off"}
Table == [Tunnels -> Row]
IdleSync == [pc |-> "idle", v |-> 0, at |-> 0]
IdleReq == [pc |-> "idle", t |-> "none"]
IdleHb == [pc |-> "idle", v |-> 0, latest |-> 0]

SyncPcs == {"idle", "want", "asked", "listing", "answered", "write", "start",
            "mark", "save", "broken"}
ReqPcs == {"idle", "update", "delete", "queued", "bump", "reply", "failed"}

TableType ==
    /\ hist \in Seq(Table) /\ Len(hist) >= 1
    /\ version \in Nat \ {0}
    /\ bumpAt \in Seq(1..Len(hist)) /\ Len(bumpAt) = version

ServerType ==
    /\ due \subseteq Expiring
    /\ req \in [Handlers -> [pc : ReqPcs, t : Tunnels \cup {"none"}]]
    /\ jan \in [pc : {"idle", "disable", "bump"}, list : SUBSET Tunnels]
    /\ ops \in 0..MaxOps

FileType ==
    /\ mem \in 0..version /\ disk \in 0..version
    /\ snap \in 0..Len(hist) /\ toml \in 0..Len(hist)
    /\ frpc \in [up : BOOLEAN, at : 0..Len(hist)]

SyncType ==
    /\ phase \in {"boot", "run"}
    /\ lock \in Callers \cup {"none"}
    /\ sync \in [Callers -> [pc : SyncPcs, v : 0..version, at : 0..Len(hist)]]
    /\ trig \in BOOLEAN
    /\ pub \in [Publishers ->
                  {"idle", "wait", "sync", "ok", "pending", "error"}]

HbType ==
    /\ hb \in [pc : {"idle", "sent", "touched", "answered"},
               v : 0..version, latest : 0..version]
    /\ late \subseteq 0..version /\ reported \in 0..version

(* The types; an index into hist is 0 where there is no config yet. *)
TypeOK ==
    TableType /\ ServerType /\ FileType /\ SyncType /\ HbType /\ faults \in 0..MaxFaults

(* A registered gateway without tunnels; its agent starts for the first   *)
(* time.                                                                   *)
Init ==
    /\ hist = <<[t \in Tunnels |-> "unborn"]>>
    /\ version = 1 /\ bumpAt = <<1>>
    /\ due = {} /\ reported = 0
    /\ req = [h \in Handlers |-> IdleReq]
    /\ jan = [pc |-> "idle", list |-> {}]
    /\ ops = 0
    /\ phase = "boot"
    /\ mem = 0 /\ disk = 0 /\ snap = 0 /\ toml = 0
    /\ frpc = [up |-> FALSE, at |-> 0]
    /\ lock = "none"
    /\ sync = [c \in Callers |->
                 IF c = "boot" THEN [IdleSync EXCEPT !.pc = "want"]
                 ELSE IdleSync]
    /\ trig = FALSE
    /\ hb = IdleHb /\ late = {}
    /\ pub = [p \in Publishers |-> "idle"]
    /\ faults = 0

Fault(k) ==
    /\ k \in Faults
    /\ faults < MaxFaults /\ ops + faults < MaxEvents
    /\ faults' = faults + 1

-----------------------------------------------------------------------------
(* Server: tunnel mutations. Validation and the uniqueness checks read    *)
(* only, and a refused request changes nothing, so a handler starts here  *)
(* with its first write, or with the lookup its later steps depend on.    *)

Write(t, r) == hist' = Append(hist, [rows EXCEPT ![t] = r])

\* Defect: the upsert inserts its initial value again.
ResetConfigVersion ==
    /\ version' = 1
    /\ bumpAt' = Append(bumpAt, Len(hist))
    /\ UNCHANGED hist

BumpConfigVersion ==
    /\ version' = version + 1
    /\ bumpAt' = Append(bumpAt, Len(hist))
    /\ UNCHANGED hist

AdminOp(h) ==
    /\ h \in Admins /\ req[h].pc = "idle"
    /\ ops < MaxOps /\ ops + faults < MaxEvents
    /\ ops' = ops + 1

CreateTunnel(h, t, r) ==
    /\ AdminOp(h)
    /\ rows[t] = "unborn" /\ r \in Payloads \cup {"off"}
    /\ Write(t, r)
    /\ req' = [req EXCEPT ![h] = [pc |-> "bump", t |-> t]]
    /\ UNCHANGED <<version, bumpAt, due, reported, jan, agentVars, faults>>

GetTunnel(h, t, op) ==
    /\ AdminOp(h)
    /\ Present(t) /\ op \in {"update", "delete"}
    /\ req' = [req EXCEPT ![h] = [pc |-> op, t |-> t]]
    /\ UNCHANGED <<tableVars, due, reported, jan, agentVars, faults>>

(* UpdateTunnel reads the row, changes the given fields and writes all of *)
(* them back: whatever happened to the row in between is overwritten, so  *)
(* any content can result. When the row has been deleted the handler      *)
(* either sees it, or its UPDATE matches no row and it goes on.            *)
UpdateTunnel(h) ==
    /\ req[h].pc = "update"
    /\ \/ /\ Present(req[h].t)
          /\ \E r \in Payloads \cup {"off"} : Write(req[h].t, r)
          /\ req' = [req EXCEPT ![h].pc = "bump"]
       \/ /\ ~Present(req[h].t)
          /\ \E pc \in {"idle", "bump"} : req' = [req EXCEPT ![h].pc = pc]
          /\ UNCHANGED hist
    /\ UNCHANGED <<version, bumpAt, due, reported, jan, ops, agentVars, faults>>

\* Defect: a delete that is not announced.
DeleteWithoutBump(h) ==
    /\ req[h].pc = "delete"
    /\ Write(req[h].t, "gone")
    /\ req' = [req EXCEPT ![h].pc = "idle"]
    /\ UNCHANGED <<version, bumpAt, due, reported, jan, ops, agentVars, faults>>

DeleteTunnel(h) ==
    /\ req[h].pc = "delete"
    /\ Write(req[h].t, "gone")
    /\ req' = [req EXCEPT ![h].pc = "bump"]
    /\ UNCHANGED <<version, bumpAt, due, reported, jan, ops, agentVars, faults>>

(* The publish handler's resolveDomain and Create. *)
PublishInsert(p, t, r) ==
    /\ p \in Publishers /\ req[p].pc = "queued"
    /\ rows[t] = "unborn" /\ r \in Payloads
    /\ Write(t, r)
    /\ req' = [req EXCEPT ![p] = [pc |-> "bump", t |-> t]]
    /\ UNCHANGED <<version, bumpAt, due, reported, jan, ops, agentVars, faults>>

PublishRefused(p) ==
    /\ p \in Publishers /\ req[p].pc = "queued"
    /\ req' = [req EXCEPT ![p].pc = "failed"]
    /\ UNCHANGED <<tableVars, due, reported, jan, ops, agentVars, faults>>

HandlerEnd(h, pc) ==
    req' = [req EXCEPT ![h].pc = IF h \in Publishers THEN pc ELSE "idle"]

Bump(h) ==
    /\ req[h].pc = "bump"
    /\ BumpConfigVersion
    /\ HandlerEnd(h, "reply")
    /\ UNCHANGED <<due, reported, jan, ops, agentVars, faults>>

LoseBump(h) ==
    /\ Fault("lostBump") /\ req[h].pc = "bump"
    /\ HandlerEnd(h, "failed")
    /\ UNCHANGED <<tableVars, due, reported, jan, ops, agentVars>>

-----------------------------------------------------------------------------
(* Server: TTL expiry and the janitor.                                    *)

Expire(t) ==
    /\ t \in Expiring \ due /\ Present(t)
    /\ due' = due \cup {t}
    /\ UNCHANGED <<tableVars, reported, req, jan, ops, agentVars, faults>>

ListExpiredEnabledTunnels == {t \in due : rows[t] \in Payloads}

JanitorTick ==
    /\ jan.pc = "idle" /\ ListExpiredEnabledTunnels # {}
    /\ jan' = [pc |-> "disable", list |-> ListExpiredEnabledTunnels]
    /\ UNCHANGED <<tableVars, due, reported, req, ops, agentVars, faults>>

(* The janitor goes on to the next tunnel of its list. *)
JanitorNext(t) ==
    LET left == jan.list \ {t}
    IN  jan' = [pc |-> IF left = {} THEN "idle" ELSE "disable", list |-> left]

(* SetTunnelEnabled(id, false); of a deleted tunnel it changes no row and *)
(* reports no error.                                                       *)
SetDisabled(t) ==
    IF Present(t) THEN Write(t, "off") ELSE UNCHANGED hist

\* Defect: the expired tunnel is disabled without an announcement.
DisableWithoutBump(t) ==
    /\ jan.pc = "disable" /\ t \in jan.list
    /\ SetDisabled(t)
    /\ JanitorNext(t)
    /\ UNCHANGED <<version, bumpAt, due, reported, req, ops, agentVars, faults>>

JanitorDisable(t) ==
    /\ jan.pc = "disable" /\ t \in jan.list
    /\ SetDisabled(t)
    /\ jan' = [pc |-> "bump", list |-> jan.list \ {t}]
    /\ UNCHANGED <<version, bumpAt, due, reported, req, ops, agentVars, faults>>

JanitorSkip(t) ==
    /\ Fault("rowError") /\ jan.pc = "disable" /\ t \in jan.list
    /\ JanitorNext(t)
    /\ UNCHANGED <<tableVars, due, reported, req, ops, agentVars>>

JanitorBump ==
    /\ jan.pc = "bump"
    /\ BumpConfigVersion
    /\ JanitorNext("none")
    /\ UNCHANGED <<due, reported, req, ops, agentVars, faults>>

(* A failed bump is logged and the loop continues. *)
JanitorLoseBump ==
    /\ Fault("lostBump") /\ jan.pc = "bump"
    /\ JanitorNext("none")
    /\ UNCHANGED <<tableVars, due, reported, req, ops, agentVars>>

(* The process dies: handlers between two statements never finish, a call *)
(* they were serving breaks off, and the janitor starts afresh. Committed *)
(* rows survive.                                                           *)
ServerCrash ==
    /\ Fault("serverCrash")
    /\ req' = [h \in Handlers |->
                 IF h \in Admins THEN [req[h] EXCEPT !.pc = "idle"]
                 ELSE IF req[h].pc \in {"queued", "bump", "reply"}
                      THEN [req[h] EXCEPT !.pc = "failed"] ELSE req[h]]
    /\ jan' = [pc |-> "idle", list |-> {}]
    /\ sync' = [c \in Callers |->
                  IF sync[c].pc = "listing" THEN [sync[c] EXCEPT !.pc = "broken"]
                  ELSE sync[c]]
    /\ hb' = IF hb.pc = "touched" THEN IdleHb ELSE hb
    /\ UNCHANGED <<tableVars, due, reported, ops, phase, fileVars, lock, trig,
                   late, pub>>

-----------------------------------------------------------------------------
(* Agent: SyncOnce, called by main at boot, by Run for a tick or a        *)
(* trigger, and by every local publish request.                           *)

SyncStep(c, from, to) ==
    sync[c].pc = from /\ sync' = [sync EXCEPT ![c].pc = to]

(* SyncOnce returns to its caller: main goes on, Run goes back to its     *)
(* select, Publish answers.                                                *)
SyncReturn(c, ok) ==
    /\ lock' = "none"
    /\ sync' = [sync EXCEPT ![c] = IdleSync]
    /\ phase' = IF c = "boot" THEN "run" ELSE phase
    /\ pub' = [p \in Publishers |->
                 IF p = c THEN (IF ok THEN "ok" ELSE "pending") ELSE pub[p]]
    /\ UNCHANGED <<trig, hb, late, serverVars>>

syncRest == <<serverVars, phase, lock, trig, hb, late, pub>>

LoopTick ==
    /\ phase = "run" /\ SyncStep("loop", "idle", "want")
    /\ UNCHANGED <<syncRest, fileVars, faults>>

LoopTrigger ==
    /\ phase = "run" /\ trig /\ SyncStep("loop", "idle", "want")
    /\ trig' = FALSE
    /\ UNCHANGED <<serverVars, phase, fileVars, lock, hb, late, pub, faults>>

\* Defect: callers do not exclude each other.
UnlockedSync(c) ==
    /\ SyncStep(c, "want", "asked")
    /\ UNCHANGED <<syncRest, fileVars, faults>>

SyncLock(c) ==
    /\ lock = "none" /\ SyncStep(c, "want", "asked")
    /\ lock' = c
    /\ UNCHANGED <<serverVars, phase, fileVars, trig, hb, late, pub, faults>>

(* Server: the Config handler reads the version, then lists the tunnels. *)
ConfigReadVersion(c) ==
    /\ sync[c].pc = "asked"
    /\ sync' = [sync EXCEPT ![c].pc = "listing", ![c].v = version]
    /\ UNCHANGED <<syncRest, fileVars, faults>>

ConfigListTunnels(c) ==
    /\ sync[c].pc = "listing"
    /\ sync' = [sync EXCEPT ![c].pc = "answered", ![c].at = Len(hist)]
    /\ UNCHANGED <<syncRest, fileVars, faults>>

PullFails(c) ==
    /\ \/ sync[c].pc = "broken" /\ UNCHANGED faults
       \/ sync[c].pc \in {"asked", "listing", "answered"} /\ Fault("timeout")
    /\ SyncReturn(c, FALSE)
    /\ UNCHANGED fileVars

(* setTunnels, then the fast path: the version is applied, frpc runs. *)
Receive(c, skip) ==
    /\ sync[c].pc = "answered"
    /\ snap' = sync[c].at
    /\ \/ skip /\ SyncReturn(c, TRUE)
       \/ ~skip /\ SyncStep(c, "answered", "write") /\ UNCHANGED syncRest
    /\ UNCHANGED <<toml, frpc, disk, faults>>

\* Defect: a running frpc alone passes for "nothing changed".
ReceiveIfRunning(c) == Receive(c, frpc.up) /\ UNCHANGED mem

\* Defect: the version counts as applied once it has been pulled.
MarkOnReceipt(c) ==
    Receive(c, sync[c].v = mem /\ frpc.up) /\ mem' = sync[c].v

SyncReceive(c) ==
    Receive(c, sync[c].v = mem /\ frpc.up) /\ UNCHANGED mem

\* Defect: the version counts as applied before frpc has been restarted.
MarkBeforeReload(c) ==
    /\ SyncStep(c, "write", "start")
    /\ toml' = sync[c].at /\ mem' = sync[c].v
    /\ UNCHANGED <<syncRest, disk, snap, frpc, faults>>

WriteConfig(c) ==
    /\ SyncStep(c, "write", "start")
    /\ toml' = sync[c].at
    /\ UNCHANGED <<syncRest, mem, disk, snap, frpc, faults>>

(* The temporary file cannot be written, verified or renamed. *)
WriteFails(c) ==
    /\ Fault("badConfig") /\ sync[c].pc = "write"
    /\ SyncReturn(c, FALSE)
    /\ UNCHANGED fileVars

(* reloadLocked: kill, wait, start with the installed file. *)
Reload(c) ==
    /\ SyncStep(c, "start", "mark")
    /\ frpc' = [up |-> TRUE, at |-> toml]
    /\ UNCHANGED <<syncRest, mem, disk, snap, toml, faults>>

StartFails(c) ==
    /\ Fault("noStart") /\ sync[c].pc = "start"
    /\ frpc' = [frpc EXCEPT !.up = FALSE]
    /\ SyncReturn(c, FALSE)
    /\ UNCHANGED <<mem, disk, snap, toml>>

\* Defect: marks the version the server announced, not the one pulled.
MarkAnnounced(c) ==
    /\ SyncStep(c, "mark", "save")
    /\ mem' = IF hb.pc = "answered" THEN hb.latest ELSE sync[c].v
    /\ UNCHANGED <<syncRest, disk, snap, toml, frpc, faults>>

(* State.SetConfigVersion: memory first, then the state file. *)
SetConfigVersion(c) ==
    /\ SyncStep(c, "mark", "save")
    /\ mem' = sync[c].v
    /\ UNCHANGED <<syncRest, disk, snap, toml, frpc, faults>>

SaveState(c) ==
    /\ sync[c].pc = "save"
    /\ disk' = mem
    /\ SyncReturn(c, TRUE)
    /\ UNCHANGED <<mem, snap, toml, frpc, faults>>

(* Logged only: SyncOnce still succeeds. *)
SaveFails(c) ==
    /\ Fault("saveFails") /\ sync[c].pc = "save"
    /\ SyncReturn(c, TRUE)
    /\ UNCHANGED fileVars

-----------------------------------------------------------------------------
(* Agent: heartbeats.                                                     *)

HbSend ==
    /\ phase = "run" /\ hb.pc = "idle"
    /\ hb' = [pc |-> "sent", v |-> mem, latest |-> 0]
    /\ UNCHANGED <<serverVars, phase, fileVars, lock, sync, trig, late, pub, faults>>

(* Server: TouchGatewayHeartbeat, then GetConfigVersion. *)
HbTouch ==
    /\ hb.pc = "sent"
    /\ reported' = hb.v
    /\ hb' = [hb EXCEPT !.pc = "touched"]
    /\ UNCHANGED <<tableVars, due, req, jan, ops, phase, fileVars, lock, sync,
                   trig, late, pub, faults>>

HbAnswer ==
    /\ hb.pc = "touched"
    /\ hb' = [hb EXCEPT !.pc = "answered", !.latest = version]
    /\ UNCHANGED <<serverVars, phase, fileVars, lock, sync, trig, late, pub, faults>>

\* Defect: asks for a sync when the agent is ahead of the server.
TriggerWhenAhead ==
    /\ hb.pc = "answered"
    /\ trig' = (trig \/ hb.latest < hb.v)
    /\ hb' = IdleHb
    /\ UNCHANGED <<serverVars, phase, fileVars, lock, sync, late, pub, faults>>

(* need_sync fills the trigger; a full one already asks for a sync. *)
HbReceive ==
    /\ hb.pc = "answered"
    /\ trig' = (trig \/ hb.latest # hb.v)
    /\ hb' = IdleHb
    /\ UNCHANGED <<serverVars, phase, fileVars, lock, sync, late, pub, faults>>

(* The agent gives up; the request may still reach the server. *)
Abandoned == IF hb.pc = "sent" THEN {hb.v} ELSE {}

HbTimeout ==
    /\ Fault("timeout") /\ hb.pc # "idle"
    /\ late' = late \cup Abandoned
    /\ hb' = IdleHb
    /\ UNCHANGED <<serverVars, phase, fileVars, lock, sync, trig, pub>>

LateTouch(v) ==
    /\ v \in late
    /\ reported' = v
    /\ late' = late \ {v}
    /\ UNCHANGED <<tableVars, due, req, jan, ops, phase, fileVars, lock, sync,
                   trig, hb, pub, faults>>

-----------------------------------------------------------------------------
(* Agent: local publish requests, process failures.                       *)

PublishBegin(p) ==
    /\ phase = "run" /\ pub[p] = "idle"
    /\ pub' = [pub EXCEPT ![p] = "wait"]
    /\ req' = [req EXCEPT ![p].pc = "queued"]
    /\ UNCHANGED <<tableVars, due, reported, jan, ops, phase, fileVars, lock,
                   sync, trig, hb, late, faults>>

PublishReply(p) ==
    /\ pub[p] = "wait" /\ req[p].pc = "reply"
    /\ pub' = [pub EXCEPT ![p] = "sync"]
    /\ SyncStep(p, "idle", "want")
    /\ UNCHANGED <<serverVars, phase, fileVars, lock, trig, hb, late, faults>>

(* An error reply, or none in time: the handler goes on regardless. *)
PublishError(p) ==
    /\ pub[p] = "wait"
    /\ \/ req[p].pc = "failed" /\ UNCHANGED faults
       \/ Fault("timeout")
    /\ pub' = [pub EXCEPT ![p] = "error"]
    /\ UNCHANGED <<serverVars, phase, fileVars, lock, sync, trig, hb, late>>

FrpcDies ==
    /\ Fault("frpcDies") /\ frpc.up
    /\ frpc' = [frpc EXCEPT !.up = FALSE]
    /\ UNCHANGED <<serverVars, phase, mem, disk, snap, toml, lock, sync, trig,
                   hb, late, pub>>

(* The service manager restarts the agent and reaps its child: memory is  *)
(* reloaded from the state file, frpc is not running.                      *)
AgentCrash ==
    /\ Fault("agentCrash")
    /\ phase' = "boot"
    /\ mem' = disk /\ snap' = 0
    /\ frpc' = [frpc EXCEPT !.up = FALSE]
    /\ lock' = "none"
    /\ sync' = [c \in Callers |->
                  IF c = "boot" THEN [IdleSync EXCEPT !.pc = "want"] ELSE IdleSync]
    /\ trig' = FALSE
    /\ late' = late \cup Abandoned /\ hb' = IdleHb
    /\ pub' = [p \in Publishers |->
                 IF pub[p] \in {"wait", "sync"} THEN "error" ELSE pub[p]]
    /\ UNCHANGED <<serverVars, disk, toml>>

-----------------------------------------------------------------------------
HandlerStep(h) ==
    \/ UpdateTunnel(h) \/ DeleteTunnel(h) \/ Bump(h)
    \/ \E t \in Tunnels, r \in Payloads : PublishInsert(h, t, r)
    \/ PublishRefused(h)

JanitorStep == JanitorTick \/ JanitorBump \/ \E t \in Tunnels : JanitorDisable(t)

PullStep(c) == ConfigReadVersion(c) \/ ConfigListTunnels(c)

ApplyStep(c) ==
    \/ SyncReceive(c) \/ WriteConfig(c) \/ Reload(c) \/ SetConfigVersion(c)
    \/ SaveState(c) \/ (sync[c].pc = "broken" /\ PullFails(c))

SyncFault(c) ==
    (sync[c].pc # "broken" /\ PullFails(c)) \/ WriteFails(c) \/ StartFails(c) \/ SaveFails(c)

HeartbeatStep == HbSend \/ HbTouch \/ HbAnswer \/ HbReceive

Next ==
    \/ \E h \in Admins, t \in Tunnels :
          \/ \E r \in Payloads \cup {"off"} : CreateTunnel(h, t, r)
          \/ \E op \in {"update", "delete"} : GetTunnel(h, t, op)
    \/ \E h \in Handlers : HandlerStep(h) \/ LoseBump(h)
    \/ \E t \in Tunnels : Expire(t) \/ JanitorSkip(t)
    \/ JanitorStep \/ JanitorLoseBump \/ ServerCrash
    \/ LoopTick \/ LoopTrigger
    \/ \E c \in Callers :
          SyncLock(c) \/ PullStep(c) \/ ApplyStep(c) \/ SyncFault(c)
    \/ HeartbeatStep \/ HbTimeout \/ \E v \in late : LateTouch(v)
    \/ \E p \in Publishers : PublishBegin(p) \/ PublishReply(p) \/ PublishError(p)
    \/ FrpcDies \/ AgentCrash

Spec == Init /\ [][Next]_vars

(* Handlers, the janitor's minute ticker and SyncOnce run to their ends.  *)
(* A waiter of a Go mutex is not overtaken for ever (starvation mode), so *)
(* taking it is strongly fair.                                             *)
Fairness ==
    /\ \A h \in Handlers : WF_vars(HandlerStep(h))
    /\ WF_vars(JanitorStep)
    /\ \A c \in Callers :
          SF_vars(SyncLock(c)) /\ WF_vars(PullStep(c)) /\ WF_vars(ApplyStep(c))
    /\ WF_vars(HeartbeatStep) /\ WF_vars(LoopTrigger)
    /\ \A p \in Publishers : WF_vars(PublishReply(p)) /\ WF_vars(PublishError(p))

(* Only heartbeats make the agent sync; the ticker is needed for what they  *)
(* cannot tell, that frpc has died while its config is current.              *)
HeartbeatSpec == Spec /\ Fairness /\ WF_vars(mem = version /\ ~frpc.up /\ LoopTick)

FairSpec == Spec /\ Fairness /\ WF_vars(LoopTick)

-----------------------------------------------------------------------------
(* Properties.                                                             *)

BumpPending == jan.pc = "bump" \/ \E h \in Handlers : req[h].pc = "bump"

(* "Every tunnel create/update/delete (and TTL expiry) bumps the gateway's *)
(* config_versions.version": whenever no handler and no janitor stands     *)
(* between a row write and its bump, the current version was assigned      *)
(* after the last change of the table.                                      *)
BumpContract == ~BumpPending => Covered

(* What need_sync = false means: when the agent's applied version is the   *)
(* server's, every change was announced and frpc runs, then frpc runs with *)
(* exactly the enabled rows of the database, although Config read version  *)
(* and rows at different times and SyncOnce applied them later still.      *)
InSync ==
    mem = version /\ Covered /\ frpc.up =>
        frpc.at > 0 /\ Served(hist[frpc.at]) = Served(rows)

(* Whatever marks a version applied (SetConfigVersion, or a restart from   *)
(* the state file) does so for a config that frpc was started with, and    *)
(* that was listed no earlier than the version was assigned.               *)
AppliedIsLoaded ==
    \A v \in {mem, disk} : v > 0 => frpc.at >= bumpAt[v]

(* The same for the version the server believes the gateway applied, which *)
(* heartbeats carry there late, or out of order with the reloads.          *)
ReportedIsLoaded == reported > 0 => frpc.at >= bumpAt[reported]

(* A local publish answered "ok": frpc has been started with a config      *)
(* listed after the tunnel was inserted, even when another caller's sync   *)
(* did the work and this one took the fast path.                           *)
PublishOk ==
    \A p \in Publishers :
        pub[p] = "ok" => frpc.at > 0 /\ hist[frpc.at][req[p].t] # "unborn"

(* No step installs or starts an older config than the one it replaces:    *)
(* three kinds of callers sync, and a slow pull must not be applied over   *)
(* the result of a later one.                                               *)
NoRollback == [][toml' >= toml /\ frpc'.at >= frpc.at]_vars

(* The config frpc was last started with. *)
Live == IF frpc.at = 0 THEN Served(hist[1]) ELSE Served(hist[frpc.at])

InStep == frpc.up /\ frpc.at > 0 /\ Live = Served(rows)

(* Once changes and faults stop, frpc ends up running with the enabled     *)
(* rows, and stays so.                                                      *)
Convergence == <>[]InStep

(* An expired tunnel is eventually withdrawn from frpc for good, although  *)
(* no request names it and an update may have enabled it again.            *)
ExpiredRetired == <>[](due \cap DOMAIN Live = {})

-----------------------------------------------------------------------------
(* Why the invariants hold: what is true at every step of SyncOnce.        *)

Holding == SyncPcs \ {"idle", "want"}
Pulled == {"answered", "write", "start", "mark", "save"}

(* A later version announces no fewer changes. *)
BumpInv == \A i, j \in 1..version : i <= j => bumpAt[i] <= bumpAt[j]

(* One caller at a time is past the lock. *)
LockInv == \A c \in Callers : sync[c].pc \in Holding => lock = c

(* A pulled config was listed after its version was assigned. *)
PullInv ==
    \A c \in Callers :
        /\ sync[c].pc \in Pulled \cup {"listing"} => sync[c].v > 0
        /\ sync[c].pc \in Pulled => sync[c].at >= bumpAt[sync[c].v]

(* The config under way is no older than the installed one, which is no    *)
(* older than the running one; they become equal in this order.            *)
OrderInv ==
    /\ frpc.at <= toml
    /\ \A c \in Callers :
        /\ sync[c].pc \in {"answered", "write"} => toml <= sync[c].at
        /\ sync[c].pc \in {"start", "mark", "save"} => toml = sync[c].at
        /\ sync[c].pc \in {"mark", "save"} => frpc.at = toml
        /\ sync[c].pc = "save" => mem = sync[c].v

Loaded(v) == v > 0 => frpc.at >= bumpAt[v]

(* Every copy of an applied version stands for a loaded config. *)
LoadedInv ==
    /\ Loaded(mem) /\ Loaded(disk) /\ Loaded(reported) /\ Loaded(hb.v)
    /\ \A v \in late : Loaded(v)

(* The inductive invariant behind AppliedIsLoaded, ReportedIsLoaded, InSync *)
(* and NoRollback: the order in which SyncOnce moves a config from the      *)
(* server to frpc, under its lock, before the version is marked.            *)
IInv == TypeOK /\ BumpInv /\ LockInv /\ PullInv /\ OrderInv /\ LoadedInv

-----------------------------------------------------------------------------
(* Why BumpContract and PublishOk hold.                                     *)

(* Once a tunnel has been inserted, every later table knows of it.          *)
BornInv ==
    \A t \in Tunnels : \A i, j \in 1..Len(hist) :
        i <= j /\ hist[i][t] # "unborn" => hist[j][t] # "unborn"

(* Where a publish request is in the server, and in the agent: a call of    *)
(* SyncOnce is its last step, after the answer.                             *)
RequestInv ==
    \A p \in Publishers :
        /\ req[p].pc \notin {"update", "delete"}
        /\ pub[p] = "idle" => req[p].pc = "idle"
        /\ pub[p] \in {"sync", "ok"} => req[p].pc \in {"reply", "failed"}
        /\ sync[p].pc # "idle" => pub[p] = "sync"

(* A config listed at position i was listed after p's tunnel was inserted. *)
Includes(p, i) ==
    i \in 1..Len(hist) /\ req[p].t \in Tunnels /\ hist[i][req[p].t] # "unborn"

(* The tunnel is in the table when its bump is due, in what the current     *)
(* version announces when the answer is sent, and so in what any version    *)
(* announces that a sync reads afterwards.                                  *)
PublishedInv ==
    \A p \in Publishers :
        /\ req[p].pc = "bump" => Includes(p, Len(hist))
        /\ req[p].pc = "reply" \/ pub[p] = "sync" => Includes(p, bumpAt[version])
        /\ sync[p].pc \in Pulled \cup {"listing"} => Includes(p, bumpAt[sync[p].v])
        /\ pub[p] = "ok" => Includes(p, frpc.at)

(* The inductive invariant behind PublishOk: whichever way SyncOnce ends,   *)
(* the running config is no older than what the pulled version announces.   *)
DeployInv == IInv /\ BornInv /\ RequestInv /\ PublishedInv

-----------------------------------------------------------------------------
(* The loop implements Rollout: a config's age is its position in hist, an *)
(* applied version stands for the changes it announced.                    *)
Config == UNION {[S -> Payloads] : S \in SUBSET Tunnels}

R == INSTANCE Rollout WITH
        history <- [i \in 1..Len(hist) |-> Served(hist[i])],
        announced <- bumpAt[version],
        live <- frpc.at,
        claimed <- IF mem = 0 THEN 0 ELSE bumpAt[mem]

Refinement == R!Spec

=============================================================================
