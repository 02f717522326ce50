----------------------------- MODULE HealthReport -----------------------------
(***************************************************************************)
(* Health checks of one gateway: the agent probes the addresses of the     *)
(* tunnels as it pulled them last and reports the results by tunnel name;    *)
(* the server looks the names up and keeps one row per tunnel, while the     *)
(* admin API creates, moves, switches and deletes tunnels. A step is one     *)
(* SQL statement, one probe or one message.                                  *)
(*                                                                         *)
(* Latency and messages are left out. Tunnel names are unique here;          *)
(* TunnelService has the requests that see to it.                            *)
(***************************************************************************)
EXTENDS Integers, FiniteSets

CONSTANTS
    Ids,         \* tunnel ids, never used twice
    Names,
    Addrs,       \* what a target can be: a host and a port
    Start,       \* what answers at them at first
    Reports,     \* room for reports under way
    Faults,      \* the kinds of fault that can happen
    MaxChanges,  \* bound: changes of tunnels and of what answers at an address
    MaxFaults    \* bound: faults

FaultKinds ==
    {"timeout",      \* the agent gives up, the report is lost or goes on
     "readFails",    \* the previous status cannot be read
     "writeFails",   \* another statement of a report fails
     "eventFails",   \* the event cannot be stored
     "agentCrash", "serverCrash"}

None == "none"
Status == {"healthy", "unhealthy"}

ASSUME DataAssumption ==
    /\ None \notin Ids \cup Reports /\ IsFiniteSet(Reports)
    /\ Start \in [Addrs -> Status]

ASSUME BoundAssumption ==
    /\ Faults \subseteq FaultKinds
    /\ MaxChanges \in Nat /\ MaxFaults \in Nat

VARIABLES
    tunnels,  \* id -> [name, addr, on], the table
    target,   \* what a probe of each address would find
    health,   \* id -> status, the table health_checks
    snap,     \* the enabled tunnels as the last pull had them
    agent,    \* the loop of healthcheck.Run
    rep,      \* reports in the server
    had,      \* history: the addresses a tunnel has had
    was,      \* history: all that these have been since the tunnel had them
    namesakes,\* history: tunnels whose name was still under way from another
    crossed,  \* history: tunnels deleted while a report was about to write
    blurred,  \* history: tunnels whose previous status a report got wrong
    owed,     \* history: turns to unhealthy minus events, for each tunnel
    changes, faults

tables == <<tunnels, target, health>>
history == <<had, was, namesakes, crossed, blurred, owed>>
vars == <<tables, snap, agent, rep, history, changes, faults>>

Entry == [name : Names, addr : Addrs]
Tunnel == [name : Names, addr : Addrs, on : BOOLEAN]
Check == [name : Names, status : Status]

IdleAgent == [pc |-> "idle", todo |-> {}, checks |-> {}, rep |-> None]
IdleRep == [pc |-> "idle", todo |-> {}, id |-> None, status |-> None, prev |-> None]

AgentState ==
    [pc : {"idle", "probe", "wait"}, todo : SUBSET Entry, checks : SUBSET Check,
     rep : Reports \cup {None}]

ReportState ==
    [pc : {"idle", "next", "read", "write", "event", "done"}, todo : SUBSET Check,
     id : Ids \cup {None}, status : Status \cup {None}, prev : Status \cup {None}]

TypeOK ==
    /\ DOMAIN tunnels \subseteq Ids
    /\ \A i \in DOMAIN tunnels : tunnels[i] \in Tunnel
    /\ target \in [Addrs -> Status]
    /\ DOMAIN health \subseteq Ids /\ \A i \in DOMAIN health : health[i] \in Status
    /\ snap \subseteq Entry
    /\ agent \in AgentState /\ rep \in [Reports -> ReportState]
    /\ had \in [Ids -> SUBSET Addrs] /\ was \in [Ids -> SUBSET Status]
    /\ namesakes \subseteq Ids /\ crossed \subseteq Ids /\ blurred \subseteq Ids
    /\ owed \in [Ids -> Int]
    /\ changes \in 0..MaxChanges /\ faults \in 0..MaxFaults

Init ==
    /\ tunnels = [i \in {} |-> None] /\ health = [i \in {} |-> None]
    /\ target = Start
    /\ snap = {} /\ agent = IdleAgent
    /\ rep = [r \in Reports |-> IdleRep]
    /\ had = [i \in Ids |-> {}] /\ was = [i \in Ids |-> {}]
    /\ namesakes = {} /\ crossed = {} /\ blurred = {}
    /\ owed = [i \in Ids |-> 0]
    /\ changes = 0 /\ faults = 0

Fault(kind) ==
    /\ kind \in Faults /\ faults < MaxFaults
    /\ faults' = faults + 1

Put(f, i, v) == [j \in DOMAIN f \cup {i} |-> IF j = i THEN v ELSE f[j]]
Drop(f, i) == [j \in DOMAIN f \ {i} |-> f[j]]

-----------------------------------------------------------------------------
(* The admin API, and the world.                                           *)

Change ==
    /\ changes < MaxChanges /\ changes' = changes + 1
    /\ UNCHANGED <<snap, agent, rep, blurred, owed, faults>>

Used == {i \in Ids : had[i] # {}}

(* What the agent and the reports carry. *)
Entries == snap \cup agent.todo
Checks == agent.checks \cup UNION {rep[r].todo : r \in Reports}
Carried == {e.name : e \in Entries \cup Checks}

NewId == CHOOSE i \in Ids : i \notin Used

(* One created disabled is one that is disabled before anybody looks. *)
CreateTunnel(n, a) ==
    /\ Change
    /\ ~(Ids \subseteq Used) /\ \A j \in DOMAIN tunnels : tunnels[j].name # n
    /\ tunnels' = Put(tunnels, NewId, [name |-> n, addr |-> a, on |-> TRUE])
    /\ had' = [had EXCEPT ![NewId] = {a}]
    /\ was' = [was EXCEPT ![NewId] = {target[a]}]
    /\ namesakes' = IF n \in Carried THEN namesakes \cup {NewId} ELSE namesakes
    /\ UNCHANGED <<target, health, crossed>>

(* A PUT that changes the target, enabled or both, or writes old ones back,  *)
(* and the janitor. The health row stays as it is.                           *)
UpdateTunnel(i, a, on) ==
    /\ Change
    /\ i \in DOMAIN tunnels /\ <<a, on>> # <<tunnels[i].addr, tunnels[i].on>>
    /\ tunnels' = [tunnels EXCEPT ![i].addr = a, ![i].on = on]
    /\ had' = [had EXCEPT ![i] = @ \cup {a}]
    /\ was' = [was EXCEPT ![i] = @ \cup {target[a]}]
    /\ UNCHANGED <<target, health, namesakes, crossed>>

\* Defect: the health row is left to a foreign key that is not there.
DeleteTunnelOnly(i) ==
    /\ Change
    /\ i \in DOMAIN tunnels
    /\ tunnels' = Drop(tunnels, i)
    /\ UNCHANGED <<health, target, had, was, namesakes, crossed>>

(* One transaction for both rows. *)
DeleteTunnel(i) ==
    /\ Change
    /\ i \in DOMAIN tunnels
    /\ tunnels' = Drop(tunnels, i) /\ health' = Drop(health, i)
    /\ crossed' = IF \E r \in Reports : rep[r].id = i /\ rep[r].pc \in {"read", "write"}
                  THEN crossed \cup {i} ELSE crossed
    /\ UNCHANGED <<target, had, was, namesakes>>

(* A service goes down or comes back; what happened at an address before a  *)
(* tunnel had it is in Start.                                               *)
Turn(a) ==
    /\ Change
    /\ \E i \in Ids : a \in had[i]
    /\ \E s \in Status \ {target[a]} :
          /\ target' = [target EXCEPT ![a] = s]
          /\ was' = [i \in Ids |-> IF a \in had[i] THEN was[i] \cup {s} ELSE was[i]]
    /\ UNCHANGED <<tunnels, health, had, namesakes, crossed>>

-----------------------------------------------------------------------------
(* The agent.                                                              *)

Enabled == {i \in DOMAIN tunnels : tunnels[i].on}

(* SyncOnce keeps the enabled tunnels for the health checks. *)
SetTunnels ==
    /\ snap' = {[name |-> tunnels[i].name, addr |-> tunnels[i].addr] : i \in Enabled}
    /\ UNCHANGED <<tables, agent, rep, history, changes, faults>>

AgentStep(a) ==
    /\ agent' = a
    /\ UNCHANGED <<tables, snap, rep, history, changes, faults>>

Tick ==
    /\ agent.pc = "idle" /\ snap # {}
    /\ AgentStep([IdleAgent EXCEPT !.pc = "probe", !.todo = snap])

(* The address is the one that was pulled. *)
Probe ==
    /\ agent.pc = "probe"
    /\ \E e \in agent.todo :
          AgentStep([agent EXCEPT !.todo = @ \ {e},
                        !.checks = @ \cup {[name |-> e.name, status |-> target[e.addr]]}])

ReportHealth ==
    /\ agent.pc = "probe" /\ agent.todo = {}
    /\ \E r \in Reports :
          /\ rep[r].pc = "idle"
          /\ rep' = [rep EXCEPT ![r] = [IdleRep EXCEPT !.pc = "next", !.todo = agent.checks]]
          /\ agent' = [IdleAgent EXCEPT !.pc = "wait", !.rep = r]
    /\ UNCHANGED <<tables, snap, history, changes, faults>>

(* Success or not, the loop waits for the next tick. *)
Reported ==
    /\ agent.pc = "wait" /\ rep[agent.rep].pc = "done"
    /\ rep' = [rep EXCEPT ![agent.rep] = IdleRep] /\ agent' = IdleAgent
    /\ UNCHANGED <<tables, snap, history, changes, faults>>

(* The handler goes on without the agent, or the report never arrives. *)
GiveUp ==
    /\ Fault("timeout")
    /\ \/ agent.pc = "wait"
       \/ agent.pc = "probe" /\ agent.todo = {}
    /\ agent' = IdleAgent
    /\ UNCHANGED <<tables, snap, rep, history, changes>>

(* A new agent knows no tunnel before its first pull. *)
AgentCrash ==
    /\ Fault("agentCrash")
    /\ agent' = IdleAgent /\ snap' = {}
    /\ UNCHANGED <<tables, rep, history, changes>>

-----------------------------------------------------------------------------
(* The server: the Report handler.                                         *)

Step(r, pc, new) == rep[r].pc = pc /\ rep' = [rep EXCEPT ![r] = new]

Left(r) == [IdleRep EXCEPT !.pc = "next", !.todo = rep[r].todo]
Done == [IdleRep EXCEPT !.pc = "done"]

\* Defect: any tunnel of the gateway will do.
LookUpAny(r) ==
    /\ \E k \in rep[r].todo, i \in DOMAIN tunnels :
          Step(r, "next", [rep[r] EXCEPT !.pc = "read", !.todo = @ \ {k},
                                         !.id = i, !.status = k.status])
    /\ UNCHANGED <<tables, snap, agent, history, changes, faults>>

(* GetTunnelByName; a name without a tunnel is skipped. *)
LookUp(r) ==
    /\ \E k \in rep[r].todo :
          \/ \E i \in DOMAIN tunnels :
                /\ tunnels[i].name = k.name
                /\ Step(r, "next", [rep[r] EXCEPT !.pc = "read", !.todo = @ \ {k},
                                                  !.id = i, !.status = k.status])
          \/ /\ \A i \in DOMAIN tunnels : tunnels[i].name # k.name
             /\ Step(r, "next", [rep[r] EXCEPT !.todo = @ \ {k}])
    /\ UNCHANGED <<tables, snap, agent, history, changes, faults>>

Row(i) == IF i \in DOMAIN health THEN health[i] ELSE None

GetHealthCheck(r) ==
    /\ Step(r, "read", [rep[r] EXCEPT !.pc = "write", !.prev = Row(rep[r].id)])
    /\ UNCHANGED <<tables, snap, agent, history, changes, faults>>

(* Its error is ignored: there is no previous status then. *)
ReadFails(r) ==
    /\ Fault("readFails")
    /\ Step(r, "read", [rep[r] EXCEPT !.pc = "write", !.prev = None])
    /\ blurred' = blurred \cup {rep[r].id}
    /\ UNCHANGED <<tables, snap, agent, had, was, namesakes, crossed, owed, changes>>

(* Reports that have read the status of i and not yet written theirs. *)
Writers(i) == {r \in Reports : rep[r].id = i /\ rep[r].pc = "write"}

Announces(r) == rep[r].status = "unhealthy" /\ rep[r].prev # "unhealthy"

\* Defect: an existing row stays as it is.
InsertOnly(r) ==
    LET i == rep[r].id IN
    /\ Step(r, "write", IF Announces(r) THEN [rep[r] EXCEPT !.pc = "event"] ELSE Left(r))
    /\ health' = IF i \in DOMAIN health THEN health ELSE Put(health, i, rep[r].status)
    /\ UNCHANGED <<tunnels, target, snap, agent, history, changes, faults>>

\* Defect: every unhealthy result is announced.
AlwaysAnnounce(r) ==
    LET i == rep[r].id IN
    /\ Step(r, "write", IF rep[r].status = "unhealthy"
                        THEN [rep[r] EXCEPT !.pc = "event"] ELSE Left(r))
    /\ health' = Put(health, i, rep[r].status)
    /\ owed' = IF rep[r].status = "unhealthy" /\ Row(i) # "unhealthy"
               THEN [owed EXCEPT ![i] = @ + 1] ELSE owed
    /\ UNCHANGED <<tunnels, target, snap, agent, had, was, namesakes, crossed, blurred, changes, faults>>

UpsertHealthCheck(r) ==
    LET i == rep[r].id IN
    /\ Step(r, "write", IF Announces(r) THEN [rep[r] EXCEPT !.pc = "event"] ELSE Left(r))
    /\ health' = Put(health, i, rep[r].status)
    /\ owed' = IF rep[r].status = "unhealthy" /\ Row(i) # "unhealthy"
               THEN [owed EXCEPT ![i] = @ + 1] ELSE owed
    /\ blurred' = IF Writers(i) = {r} THEN blurred ELSE blurred \cup {i}
    /\ UNCHANGED <<tunnels, target, snap, agent, had, was, namesakes, crossed, changes, faults>>

Warn(r) ==
    /\ Step(r, "event", Left(r))
    /\ owed' = [owed EXCEPT ![rep[r].id] = @ - 1]
    /\ UNCHANGED <<tables, snap, agent, had, was, namesakes, crossed, blurred, changes, faults>>

(* An event that cannot be stored does not stop the report. *)
WarnFails(r) ==
    /\ Fault("eventFails") /\ Step(r, "event", Left(r))
    /\ blurred' = blurred \cup {rep[r].id}
    /\ UNCHANGED <<tables, snap, agent, had, was, namesakes, crossed, owed, changes>>

(* The lookup or the upsert fails: the rest of the report is not recorded. *)
WriteFails(r) ==
    /\ Fault("writeFails")
    /\ \E pc \in {"next", "write"} : Step(r, pc, Done)
    /\ UNCHANGED <<tables, snap, agent, history, changes>>

Answer(r) ==
    /\ rep[r].todo = {} /\ Step(r, "next", Done)
    /\ UNCHANGED <<tables, snap, agent, history, changes, faults>>

AnswerNobody(r) ==
    /\ agent.rep # r /\ Step(r, "done", IdleRep)
    /\ UNCHANGED <<tables, snap, agent, history, changes, faults>>

ServerCrash ==
    /\ Fault("serverCrash") /\ \E r \in Reports : rep[r].pc # "idle"
    /\ rep' = [r \in Reports |-> IF agent.rep = r THEN Done ELSE IdleRep]
    /\ blurred' = blurred \cup {rep[r].id : r \in {q \in Reports : rep[q].pc = "event"}}
    /\ UNCHANGED <<tables, snap, agent, had, was, namesakes, crossed, owed, changes>>

-----------------------------------------------------------------------------
AdminStep ==
    \/ \E n \in Names, a \in Addrs : CreateTunnel(n, a)
    \/ \E i \in Ids, a \in Addrs, on \in BOOLEAN : UpdateTunnel(i, a, on)
    \/ \E i \in Ids : DeleteTunnel(i)
    \/ \E a \in Addrs : Turn(a)

RunStep == Tick \/ Probe \/ ReportHealth \/ Reported

ReportStep(r) ==
    LookUp(r) \/ GetHealthCheck(r) \/ UpsertHealthCheck(r) \/ Warn(r) \/ Answer(r) \/ AnswerNobody(r)

ReportFault(r) == ReadFails(r) \/ WarnFails(r) \/ WriteFails(r)

Next ==
    \/ AdminStep \/ SetTunnels \/ RunStep
    \/ \E r \in Reports : ReportStep(r) \/ ReportFault(r)
    \/ GiveUp \/ AgentCrash \/ ServerCrash

Spec == Init /\ [][Next]_vars

(* Tickers tick, pulls succeed now and then, and handlers go on. *)
Fairness ==
    /\ WF_vars(SetTunnels) /\ WF_vars(RunStep)
    /\ \A r \in Reports : WF_vars(ReportStep(r))

FairSpec == Spec /\ Fairness

-----------------------------------------------------------------------------
(* Properties.                                                             *)

(* "Deletes the tunnel and its health row" holds for a deleted tunnel unless *)
(* a report had already looked it up: the rows that the dashboard counts     *)
(* belong to tunnels, or to those that such a report brought back.           *)
RowsOwned == DOMAIN health \subseteq DOMAIN tunnels \cup crossed

(* Although results travel by name and are of addresses pulled before, a     *)
(* tunnel is shown in no state but those that an address it has had has been  *)
(* in since it had it, unless its name was still under way from a deleted     *)
(* tunnel when it was created.                                                *)
HonestRow ==
    \A i \in (DOMAIN health \cap DOMAIN tunnels) \ namesakes : health[i] \in was[i]

Events(i) == {r \in Reports : rep[r].id = i /\ rep[r].pc = "event"}

(* "Only log on transition into the unhealthy state": each turn of a row to  *)
(* unhealthy is announced once, and nothing else is, unless two reports meet *)
(* between reading and writing, or a statement fails or the server stops      *)
(* between the write and the event.                                           *)
Announced ==
    \A i \in DOMAIN tunnels \ blurred :
        owed[i] = Cardinality(Events(i))

(* Once tunnels, targets and faults have come to rest, the panel shows every *)
(* enabled tunnel as its present address is, whatever late reports, reused    *)
(* names and former addresses have left.                                      *)
Truthful == <>[](\A i \in Enabled : Row(i) = target[tunnels[i].addr])

(* "Deletes the tunnel and its health row." *)
NoOrphans == DOMAIN health \subseteq DOMAIN tunnels

-----------------------------------------------------------------------------
(* Why they hold.                                                          *)

(* A report at work on a tunnel has looked it up.                           *)
Working(r) ==
    /\ rep[r].id # None <=> rep[r].pc \in {"read", "write", "event"}
    /\ rep[r].status # None <=> rep[r].pc \in {"read", "write", "event"}
    /\ rep[r].id \in Used \cup {None}
    /\ rep[r].pc \in {"read", "write"} => rep[r].id \in DOMAIN tunnels \cup crossed
    /\ rep[r].pc = "write" /\ rep[r].id \notin blurred \cup crossed => rep[r].prev = Row(rep[r].id)

WorkInv == \A r \in Reports : Working(r)

NameInv ==
    /\ \A i, j \in DOMAIN tunnels : tunnels[i].name = tunnels[j].name => i = j
    /\ DOMAIN tunnels \subseteq Used /\ crossed \subseteq Used /\ crossed \cap DOMAIN tunnels = {}
    /\ \A i \in DOMAIN tunnels : tunnels[i].addr \in had[i]
    /\ \A i \in Ids : \A a \in had[i] : target[a] \in was[i]
    /\ \A i \in Ids \ Used : owed[i] = 0

(* Everything under way with the name of a tunnel is about that tunnel.     *)
CarryInv ==
    \A i \in DOMAIN tunnels \ namesakes :
        /\ \A e \in Entries : e.name = tunnels[i].name => e.addr \in had[i]
        /\ \A k \in Checks : k.name = tunnels[i].name => k.status \in was[i]
        /\ \A r \in Reports : rep[r].id = i => rep[r].status \in was[i]

IInv == TypeOK /\ WorkInv /\ NameInv /\ CarryInv /\ RowsOwned /\ HonestRow /\ Announced

=============================================================================
