-------------------------- MODULE HealthReportProofs --------------------------
(* Health rows are owned, honest and announced, for all constants.          *)
EXTENDS HealthReport, FiniteSetTheorems, TLAPS

-----------------------------------------------------------------------------
(* Types.                                                                  *)

LEMMA IdleType == IdleAgent \in AgentState /\ IdleRep \in ReportState /\ Done \in ReportState
  BY DEF IdleAgent, IdleRep, Done, AgentState, ReportState

(* A new tunnel has an id that was never used.                              *)
LEMMA NewIdNew == ~(Ids \subseteq Used) => NewId \in Ids \ Used
  BY DEF NewId, Used

LEMMA FaultType ==
    ASSUME TypeOK, NEW kind, Fault(kind)
    PROVE  faults' \in 0..MaxFaults
  BY BoundAssumption DEF TypeOK, Fault

LEMMA ChangeType ==
    ASSUME TypeOK, Change
    PROVE  changes' \in 0..MaxChanges
  BY BoundAssumption DEF TypeOK, Change

(* A report that moves to a well-typed state.                               *)
LEMMA StepType ==
    ASSUME TypeOK, NEW r \in Reports, NEW pc, NEW new \in ReportState, Step(r, pc, new)
    PROVE  /\ rep' \in [Reports -> ReportState]
           /\ rep[r].pc = pc /\ rep'[r] = new /\ \A q \in Reports \ {r} : rep'[q] = rep[q]
  BY DEF TypeOK, Step

LEMMA LeftType ==
    ASSUME TypeOK, NEW r \in Reports
    PROVE  Left(r) \in ReportState
  BY DEF TypeOK, Left, IdleRep, ReportState

(* The types hold initially.                                                *)
LEMMA TypeInit == Init => TypeOK
  BY IdleType, DataAssumption, BoundAssumption DEF Init, TypeOK

(* The admin API and the world keep the types.                              *)
LEMMA AdminType ==
    ASSUME TypeOK, AdminStep
    PROVE  TypeOK'
<1>1. ASSUME NEW n \in Names, NEW a \in Addrs, CreateTunnel(n, a) PROVE TypeOK'
  <2>1. NewId \in Ids
    BY <1>1, NewIdNew DEF CreateTunnel
  <2> DEFINE row == [name |-> n, addr |-> a, on |-> TRUE]
  <2>2. row \in Tunnel
    BY DEF Tunnel
  <2>3. tunnels' = Put(tunnels, NewId, row)
    BY <1>1 DEF CreateTunnel
  <2> HIDE DEF row
  <2>4. /\ DOMAIN tunnels' \subseteq Ids
        /\ \A i \in DOMAIN tunnels' : tunnels'[i] \in Tunnel
    <3>1. /\ DOMAIN tunnels' = DOMAIN tunnels \cup {NewId} /\ tunnels'[NewId] = row
          /\ \A j \in DOMAIN tunnels \ {NewId} : tunnels'[j] = tunnels[j]
      BY <2>3 DEF Put
    <3> QED
      BY <2>1, <2>2, <3>1 DEF TypeOK
  <2>5. changes' \in 0..MaxChanges
    BY <1>1, ChangeType DEF CreateTunnel
  <2>6. /\ had' \in [Ids -> SUBSET Addrs] /\ was' \in [Ids -> SUBSET Status]
        /\ namesakes' \subseteq Ids
    BY <1>1, <2>1 DEF CreateTunnel, TypeOK
  <2> QED
    BY <1>1, <2>4, <2>5, <2>6 DEF CreateTunnel, Change, TypeOK
<1>2. ASSUME NEW i \in Ids, NEW a \in Addrs, NEW on \in BOOLEAN, UpdateTunnel(i, a, on)
      PROVE  TypeOK'
  <2>1. /\ DOMAIN tunnels' \subseteq Ids
        /\ \A j \in DOMAIN tunnels' : tunnels'[j] \in Tunnel
    BY <1>2 DEF UpdateTunnel, TypeOK, Tunnel
  <2>2. had' \in [Ids -> SUBSET Addrs] /\ was' \in [Ids -> SUBSET Status]
    BY <1>2 DEF UpdateTunnel, TypeOK
  <2> QED
    BY <1>2, <2>1, <2>2, ChangeType DEF UpdateTunnel, Change, TypeOK
<1>3. ASSUME NEW i \in Ids, DeleteTunnel(i) PROVE TypeOK'
  <2>1. /\ DOMAIN tunnels' \subseteq Ids /\ DOMAIN health' \subseteq Ids
        /\ \A j \in DOMAIN tunnels' : tunnels'[j] \in Tunnel
        /\ \A j \in DOMAIN health' : health'[j] \in Status
    <3>1. /\ DOMAIN tunnels' = DOMAIN tunnels \ {i} /\ DOMAIN health' = DOMAIN health \ {i}
          /\ \A j \in DOMAIN tunnels \ {i} : tunnels'[j] = tunnels[j]
          /\ \A j \in DOMAIN health \ {i} : health'[j] = health[j]
      BY <1>3 DEF DeleteTunnel, Drop
    <3> QED
      BY <3>1 DEF TypeOK
  <2>2. crossed' \subseteq Ids
    BY <1>3 DEF DeleteTunnel, TypeOK
  <2> QED
    BY <1>3, <2>1, <2>2, ChangeType DEF DeleteTunnel, Change, TypeOK
<1>4. ASSUME NEW a \in Addrs, Turn(a) PROVE TypeOK'
  <2>1. target' \in [Addrs -> Status] /\ was' \in [Ids -> SUBSET Status]
    BY <1>4 DEF Turn, TypeOK
  <2> QED
    BY <1>4, <2>1, ChangeType DEF Turn, Change, TypeOK
<1> QED
  BY <1>1, <1>2, <1>3, <1>4 DEF AdminStep

(* So does the agent.                                                       *)
LEMMA AgentType ==
    ASSUME TypeOK, SetTunnels \/ RunStep \/ GiveUp \/ AgentCrash
    PROVE  TypeOK'
<1>1. CASE SetTunnels
  <2>1. snap' \subseteq Entry
    BY <1>1 DEF SetTunnels, Enabled, Entry, Tunnel, TypeOK
  <2> QED
    BY <1>1, <2>1 DEF SetTunnels, tables, history, TypeOK
<1>2. CASE Tick
  <2>1. agent' \in AgentState
    BY <1>2, IdleType DEF Tick, AgentStep, AgentState, TypeOK
  <2> QED
    BY <1>2, <2>1 DEF Tick, AgentStep, tables, history, TypeOK
<1>3. CASE Probe
  <2> PICK e \in agent.todo :
         AgentStep([agent EXCEPT !.todo = @ \ {e},
                      !.checks = @ \cup {[name |-> e.name, status |-> target[e.addr]]}])
    BY <1>3 DEF Probe
  <2>1. e \in Entry
    BY DEF TypeOK, AgentState
  <2>2. [name |-> e.name, status |-> target[e.addr]] \in Check
    BY <2>1 DEF TypeOK, Entry, Check
  <2>3. agent' \in AgentState
    BY <2>2 DEF AgentStep, AgentState, TypeOK
  <2> QED
    BY <2>3 DEF AgentStep, tables, history, TypeOK
<1>4. CASE ReportHealth
  <2> PICK r \in Reports :
         /\ rep' = [rep EXCEPT ![r] = [IdleRep EXCEPT !.pc = "next", !.todo = agent.checks]]
         /\ agent' = [IdleAgent EXCEPT !.pc = "wait", !.rep = r]
    BY <1>4 DEF ReportHealth
  <2>1. [IdleRep EXCEPT !.pc = "next", !.todo = agent.checks] \in ReportState
    BY IdleType DEF TypeOK, AgentState, ReportState
  <2>2. agent' \in AgentState
    BY IdleType DEF AgentState
  <2> QED
    BY <1>4, <2>1, <2>2 DEF ReportHealth, tables, history, TypeOK
<1>5. CASE Reported
  BY <1>5, IdleType DEF Reported, tables, history, TypeOK
<1>6. CASE GiveUp
  BY <1>6, IdleType, FaultType DEF GiveUp, tables, history, TypeOK
<1>7. CASE AgentCrash
  BY <1>7, IdleType, FaultType DEF AgentCrash, tables, history, TypeOK
<1> QED
  BY <1>1, <1>2, <1>3, <1>4, <1>5, <1>6, <1>7 DEF RunStep

LEMMA RowType ==
    ASSUME TypeOK, NEW i
    PROVE  Row(i) \in Status \cup {None}
  BY DEF TypeOK, Row

(* And the reports.                                                         *)
LEMMA ReportType ==
    ASSUME TypeOK, WorkInv, NEW r \in Reports, ReportStep(r) \/ ReportFault(r)
    PROVE  TypeOK'
<1>0. rep[r] \in ReportState
  BY DEF TypeOK
<1>1. CASE LookUp(r)
  <2>1. ASSUME NEW k \in rep[r].todo, NEW i \in DOMAIN tunnels,
               Step(r, "next", [rep[r] EXCEPT !.pc = "read", !.todo = @ \ {k},
                                              !.id = i, !.status = k.status])
        PROVE  rep' \in [Reports -> ReportState]
    <3>1. k.status \in Status /\ i \in Ids
      BY <1>0 DEF ReportState, Check, TypeOK
    <3>2. [rep[r] EXCEPT !.pc = "read", !.todo = @ \ {k}, !.id = i, !.status = k.status]
             \in ReportState
      BY <1>0, <3>1 DEF ReportState
    <3> QED
      BY <2>1, <3>2, StepType
  <2>2. ASSUME NEW k \in rep[r].todo, Step(r, "next", [rep[r] EXCEPT !.todo = @ \ {k}])
        PROVE  rep' \in [Reports -> ReportState]
    <3>1. [rep[r] EXCEPT !.todo = @ \ {k}] \in ReportState
      BY <1>0 DEF ReportState
    <3> QED
      BY <2>2, <3>1, StepType
  <2> QED
    BY <1>1, <2>1, <2>2 DEF LookUp, tables, history, TypeOK
<1>2. CASE GetHealthCheck(r)
  <2>1. [rep[r] EXCEPT !.pc = "write", !.prev = Row(rep[r].id)] \in ReportState
    BY <1>0, RowType DEF ReportState
  <2> QED
    BY <1>2, <2>1, StepType DEF GetHealthCheck, tables, history, TypeOK
<1>3. CASE ReadFails(r)
  <2>1. [rep[r] EXCEPT !.pc = "write", !.prev = None] \in ReportState
    BY <1>0 DEF ReportState
  <2>2. rep[r].pc = "read" /\ rep[r].id \in Ids
    BY <1>0, <1>3 DEF ReadFails, Step, WorkInv, Working, ReportState
  <2> QED
    BY <1>3, <2>1, <2>2, StepType, FaultType DEF ReadFails, tables, TypeOK
<1>4. CASE UpsertHealthCheck(r)
  <2>1. [rep[r] EXCEPT !.pc = "event"] \in ReportState
    BY <1>0 DEF ReportState
  <2>2. rep' \in [Reports -> ReportState]
    BY <1>4, <2>1, StepType, LeftType DEF UpsertHealthCheck
  <2>3. rep[r].id \in Ids /\ rep[r].status \in Status
    BY <1>0, <1>4 DEF UpsertHealthCheck, Step, WorkInv, Working, ReportState
  <2>4. health' = Put(health, rep[r].id, rep[r].status)
    BY <1>4 DEF UpsertHealthCheck
  <2>5. DOMAIN health' \subseteq Ids /\ \A i \in DOMAIN health' : health'[i] \in Status
    <3>1. /\ DOMAIN health' = DOMAIN health \cup {rep[r].id} /\ health'[rep[r].id] = rep[r].status
          /\ \A j \in DOMAIN health \ {rep[r].id} : health'[j] = health[j]
      BY <2>4 DEF Put
    <3> QED
      BY <2>3, <3>1 DEF TypeOK
  <2>6. owed' \in [Ids -> Int] /\ blurred' \subseteq Ids
    BY <1>4, <2>3 DEF UpsertHealthCheck, TypeOK
  <2> QED
    BY <1>4, <2>2, <2>5, <2>6 DEF UpsertHealthCheck, TypeOK
<1>5. CASE Warn(r)
  <2>1. owed' \in [Ids -> Int]
    <3>1. rep[r].id \in Ids
      BY <1>0, <1>5 DEF Warn, Step, WorkInv, Working, ReportState
    <3>2. owed[rep[r].id] - 1 \in Int
      BY <3>1 DEF TypeOK
    <3> QED
      BY <1>5, <3>1, <3>2 DEF Warn, TypeOK
  <2> QED
    BY <1>5, <2>1, StepType, LeftType DEF Warn, tables, TypeOK
<1>6. CASE WarnFails(r)
  <2>1. rep[r].id \in Ids
    BY <1>0, <1>6 DEF WarnFails, Step, WorkInv, Working, ReportState
  <2> QED
    BY <1>6, <2>1, StepType, LeftType, FaultType DEF WarnFails, tables, TypeOK
<1>7. CASE WriteFails(r)
  BY <1>7, StepType, IdleType, FaultType DEF WriteFails, tables, history, TypeOK
<1>8. CASE Answer(r)
  BY <1>8, StepType, IdleType DEF Answer, tables, history, TypeOK
<1>9. CASE AnswerNobody(r)
  BY <1>9, StepType, IdleType DEF AnswerNobody, tables, history, TypeOK
<1> QED
  BY <1>1, <1>2, <1>3, <1>4, <1>5, <1>6, <1>7, <1>8, <1>9 DEF ReportStep, ReportFault

LEMMA CrashType ==
    ASSUME TypeOK, WorkInv, ServerCrash
    PROVE  TypeOK'
<1>1. rep' \in [Reports -> ReportState]
  BY IdleType DEF ServerCrash
<1>2. blurred' \subseteq Ids
  BY DEF ServerCrash, WorkInv, Working, TypeOK, ReportState
<1> QED
  BY <1>1, <1>2, FaultType DEF ServerCrash, tables, TypeOK

-----------------------------------------------------------------------------
(* What quiet steps keep.                                                  *)

(* Less under way, and tunnels whose targets have been more, keep CarryInv. *)
LEMMA CarryKept ==
    ASSUME TypeOK, CarryInv, None \notin Ids,
           DOMAIN tunnels' \subseteq DOMAIN tunnels,
           \A i \in DOMAIN tunnels' : tunnels'[i].name = tunnels[i].name,
           namesakes' = namesakes,
           \A i \in Ids : had[i] \subseteq had'[i] /\ was[i] \subseteq was'[i],
           Entries' \subseteq Entries, Checks' \subseteq Checks,
           \A r \in Reports : \/ rep'[r].id = None
                              \/ rep'[r].id = rep[r].id /\ rep'[r].status = rep[r].status
    PROVE  CarryInv'
<1> SUFFICES ASSUME NEW i \in DOMAIN tunnels' \ namesakes'
             PROVE  /\ \A e \in Entries' : e.name = tunnels'[i].name => e.addr \in had'[i]
                    /\ \A k \in Checks' : k.name = tunnels'[i].name => k.status \in was'[i]
                    /\ \A r \in Reports : rep'[r].id = i => rep'[r].status \in was'[i]
  BY DEF CarryInv
<1>1. i \in DOMAIN tunnels \ namesakes /\ i \in Ids /\ i # None
  BY DEF TypeOK
<1> QED
  BY <1>1 DEF CarryInv

(* Reports that forget what they carry; a lost event is a blurred one.      *)
Forgets(r) ==
    /\ rep'[r].pc \in {"idle", "next", "done"} /\ rep'[r].id = None /\ rep'[r].status = None
    /\ rep[r].pc = "event" => rep[r].id \in blurred'

LEMMA QuietReports ==
    ASSUME TypeOK, WorkInv, NameInv, RowsOwned, HonestRow, Announced,
           UNCHANGED <<tables, had, was, namesakes, crossed, owed>>, blurred \subseteq blurred',
           \A r \in Reports : rep'[r] = rep[r] \/ Forgets(r)
    PROVE  WorkInv' /\ NameInv' /\ RowsOwned' /\ HonestRow' /\ Announced'
<1>1. WorkInv'
  <2> SUFFICES ASSUME NEW r \in Reports PROVE Working(r)'
    BY DEF WorkInv
  <2>1. CASE rep'[r] = rep[r]
    BY <2>1 DEF WorkInv, Working, Used, Row, tables
  <2>2. CASE Forgets(r)
    BY <2>2 DEF Forgets, Working
  <2> QED
    BY <2>1, <2>2
<1>2. NameInv' /\ RowsOwned' /\ HonestRow'
  BY DEF NameInv, RowsOwned, HonestRow, Used, tables
<1>3. ASSUME NEW i \in DOMAIN tunnels \ blurred' PROVE Events(i)' = Events(i)
  <2> SUFFICES ASSUME NEW r \in Reports
               PROVE  rep'[r].id = i /\ rep'[r].pc = "event" <=> rep[r].id = i /\ rep[r].pc = "event"
    BY DEF Events
  <2> QED
    BY <1>3 DEF Forgets
<1>4. Announced'
  BY <1>3 DEF Announced, tables
<1> QED
  BY <1>1, <1>2, <1>4

(* The reports that announce are finitely many.                             *)
LEMMA EventsFinite == \A i : IsFiniteSet(Events(i))
  BY DataAssumption, FS_Subset DEF Events

Sound == WorkInv /\ NameInv /\ CarryInv /\ RowsOwned /\ HonestRow /\ Announced

(* What a report carried to the server is what the agent had checked.       *)
LEMMA AgentSound ==
    ASSUME TypeOK, Sound, SetTunnels \/ RunStep \/ GiveUp \/ AgentCrash
    PROVE  Sound'
<1> USE DEF Sound
<1>1. UNCHANGED <<tables, had, was, namesakes, crossed, owed>> /\ blurred' = blurred
  BY DEF SetTunnels, RunStep, Tick, Probe, ReportHealth, Reported, AgentStep, GiveUp, AgentCrash, history
<1>2. \A r \in Reports :
         \/ rep'[r] = rep[r]
         \/ /\ rep[r].pc # "event" /\ rep'[r].pc \in {"idle", "next"}
            /\ rep'[r].id = None /\ rep'[r].status = None
            /\ rep'[r].todo \subseteq agent.checks
  <2>1. CASE ReportHealth
    BY <2>1 DEF ReportHealth, TypeOK, IdleRep
  <2>2. CASE Reported
    BY <2>2 DEF Reported, TypeOK, IdleRep
  <2>3. CASE SetTunnels \/ Tick \/ Probe \/ GiveUp \/ AgentCrash
    BY <2>3 DEF SetTunnels, Tick, Probe, AgentStep, GiveUp, AgentCrash
  <2> QED
    BY <2>1, <2>2, <2>3 DEF RunStep
<1>3. WorkInv' /\ NameInv' /\ RowsOwned' /\ HonestRow' /\ Announced'
  <2>1. \A r \in Reports : rep'[r] = rep[r] \/ Forgets(r)
    BY <1>2 DEF Forgets
  <2> QED
    BY <1>1, <2>1, QuietReports
<1>4. CarryInv'
  <2>1. CASE SetTunnels
    <3> SUFFICES ASSUME NEW i \in DOMAIN tunnels \ namesakes, NEW e \in Entries',
                        e.name = tunnels[i].name
                 PROVE  e.addr \in had[i]
      BY <1>1, <2>1 DEF CarryInv, SetTunnels, Checks, tables
    <3>1. CASE e \in agent.todo
      BY <3>1 DEF CarryInv, Entries
    <3>2. CASE \E j \in Enabled : e = [name |-> tunnels[j].name, addr |-> tunnels[j].addr]
      BY <3>2 DEF NameInv, Enabled
    <3> QED
      BY <2>1, <3>1, <3>2 DEF SetTunnels, Entries
  <2>2. CASE Probe
    <3> PICK f \in agent.todo :
           AgentStep([agent EXCEPT !.todo = @ \ {f},
                        !.checks = @ \cup {[name |-> f.name, status |-> target[f.addr]]}])
      BY <2>2 DEF Probe
    <3>1. /\ agent'.todo \subseteq agent.todo /\ snap' = snap /\ rep' = rep
          /\ agent'.checks = agent.checks \cup {[name |-> f.name, status |-> target[f.addr]]}
      BY DEF AgentStep, TypeOK, AgentState
    <3> SUFFICES ASSUME NEW i \in DOMAIN tunnels \ namesakes
                 PROVE  /\ \A e \in Entries' : e.name = tunnels[i].name => e.addr \in had[i]
                        /\ \A k \in Checks' : k.name = tunnels[i].name => k.status \in was[i]
      BY <1>1, <3>1 DEF CarryInv, tables
    <3>2. f.name = tunnels[i].name => target[f.addr] \in was[i]
      BY DEF CarryInv, NameInv, Entries, TypeOK
    <3> QED
      BY <3>1, <3>2 DEF CarryInv, Entries, Checks
  <2>3. CASE Tick \/ ReportHealth \/ Reported \/ GiveUp \/ AgentCrash
    <3>1. snap' \subseteq snap /\ agent'.todo \subseteq snap /\ agent'.checks = {}
      <4>1. CASE Tick
        BY <4>1 DEF Tick, AgentStep, IdleAgent
      <4>2. CASE ReportHealth
        BY <4>2 DEF ReportHealth, IdleAgent
      <4>3. CASE Reported \/ GiveUp \/ AgentCrash
        BY <4>3 DEF Reported, GiveUp, AgentCrash, IdleAgent
      <4> QED
        BY <2>3, <4>1, <4>2, <4>3
    <3>2. Entries' \subseteq Entries /\ Checks' \subseteq Checks
      BY <1>2, <3>1 DEF Entries, Checks
    <3> QED
      BY <1>1, <1>2, <3>2, CarryKept, DataAssumption DEF tables
  <2> QED
    BY <2>1, <2>2, <2>3 DEF RunStep
<1> QED
  BY <1>3, <1>4

(* The admin API and the world.                                             *)
LEMMA CreateSound ==
    ASSUME TypeOK, Sound, NEW n \in Names, NEW a \in Addrs, CreateTunnel(n, a)
    PROVE  Sound'
<1> USE DEF Sound
<1> DEFINE new == NewId
           row == [name |-> n, addr |-> a, on |-> TRUE]
<1>1. new \in Ids \ Used
  BY NewIdNew DEF CreateTunnel
<1>2. /\ DOMAIN tunnels' = DOMAIN tunnels \cup {new}
      /\ tunnels'[new] = row /\ \A i \in DOMAIN tunnels : tunnels'[i] = tunnels[i]
  BY <1>1 DEF CreateTunnel, Put, NameInv
<1>3. /\ had'[new] = {a} /\ was'[new] = {target[a]}
      /\ \A i \in Ids \ {new} : had'[i] = had[i] /\ was'[i] = was[i]
  BY <1>1 DEF CreateTunnel, TypeOK
<1>4. /\ UNCHANGED <<target, snap, agent, rep, blurred, owed, health, crossed>>
      /\ namesakes' = IF n \in Carried THEN namesakes \cup {new} ELSE namesakes
      /\ \A i \in DOMAIN tunnels : tunnels[i].name # n
  BY DEF CreateTunnel, Change
<1> HIDE DEF new
<1>5. Used' = Used \cup {new}
  BY <1>1, <1>3 DEF Used
<1>6. \A r \in Reports : rep[r].id # new
  BY <1>1, DataAssumption DEF WorkInv, Working
<1>7. new \notin DOMAIN health /\ new \notin crossed /\ new \notin DOMAIN tunnels
  BY <1>1 DEF RowsOwned, NameInv
<1>8. WorkInv'
  BY <1>2, <1>4, <1>5 DEF WorkInv, Working, Row
<1>9. NameInv'
  <2>1. \A i, j \in DOMAIN tunnels' : tunnels'[i].name = tunnels'[j].name => i = j
    BY <1>2, <1>4 DEF NameInv
  <2>2. DOMAIN tunnels' \subseteq Used' /\ crossed' \subseteq Used' /\ crossed' \cap DOMAIN tunnels' = {}
    BY <1>2, <1>4, <1>5, <1>7 DEF NameInv
  <2>3. \A i \in DOMAIN tunnels' : tunnels'[i].addr \in had'[i]
    BY <1>2, <1>3, <1>7 DEF NameInv, TypeOK
  <2>4. \A i \in Ids : \A b \in had'[i] : target'[b] \in was'[i]
    BY <1>3, <1>4 DEF NameInv
  <2>5. \A i \in Ids \ Used' : owed'[i] = 0
    BY <1>4, <1>5 DEF NameInv
  <2> QED
    BY <2>1, <2>2, <2>3, <2>4, <2>5 DEF NameInv
<1>10. Entries' = Entries /\ Checks' = Checks
  BY <1>4 DEF Entries, Checks
<1>11. CarryInv'
  <2> SUFFICES ASSUME NEW i \in DOMAIN tunnels' \ namesakes'
               PROVE  /\ \A e \in Entries : e.name = tunnels'[i].name => e.addr \in had'[i]
                      /\ \A k \in Checks : k.name = tunnels'[i].name => k.status \in was'[i]
                      /\ \A r \in Reports : rep[r].id = i => rep[r].status \in was'[i]
    BY <1>4, <1>10 DEF CarryInv
  <2>1. CASE i = new
    <3>1. n \notin Carried
      BY <1>4, <2>1
    <3> QED
      BY <1>2, <1>6, <2>1, <3>1 DEF Carried
  <2>2. CASE i \in DOMAIN tunnels \ namesakes
    BY <1>2, <1>3, <1>7, <2>2 DEF CarryInv, TypeOK
  <2> QED
    BY <1>2, <1>4, <2>1, <2>2
<1>12. RowsOwned'
  BY <1>2, <1>4 DEF RowsOwned
<1>13. HonestRow'
  BY <1>2, <1>3, <1>4, <1>7 DEF HonestRow, TypeOK
<1>14. Announced'
  <2>1. \A i : Events(i)' = Events(i)
    BY <1>4 DEF Events
  <2>2. Events(new) = {}
    BY <1>6 DEF Events
  <2>3. owed[new] = 0
    BY <1>1 DEF NameInv
  <2> QED
    BY <1>2, <1>4, <2>1, <2>2, <2>3, FS_EmptySet DEF Announced
<1> QED
  BY <1>8, <1>9, <1>11, <1>12, <1>13, <1>14

LEMMA UpdateSound ==
    ASSUME TypeOK, Sound, NEW i \in Ids, NEW a \in Addrs, NEW on \in BOOLEAN,
           UpdateTunnel(i, a, on)
    PROVE  Sound'
<1> USE DEF Sound
<1>1. /\ i \in DOMAIN tunnels /\ DOMAIN tunnels' = DOMAIN tunnels
      /\ tunnels'[i].addr = a /\ \A j \in DOMAIN tunnels \ {i} : tunnels'[j] = tunnels[j]
      /\ \A j \in DOMAIN tunnels : tunnels'[j].name = tunnels[j].name
      /\ UNCHANGED <<target, health, namesakes, crossed, snap, agent, rep, blurred, owed>>
  BY DEF UpdateTunnel, Change, TypeOK, Tunnel
<1>2. /\ had'[i] = had[i] \cup {a} /\ was'[i] = was[i] \cup {target[a]}
      /\ \A j \in Ids \ {i} : had'[j] = had[j] /\ was'[j] = was[j]
  BY DEF UpdateTunnel, TypeOK
<1>3. Used' = Used
  BY <1>1, <1>2 DEF Used, NameInv
<1>4. WorkInv'
  BY <1>1, <1>3 DEF WorkInv, Working, Row
<1>5. NameInv'
  <2>1. \A j, k \in DOMAIN tunnels' : tunnels'[j].name = tunnels'[k].name => j = k
    BY <1>1 DEF NameInv
  <2>2. \A j \in DOMAIN tunnels' : tunnels'[j].addr \in had'[j]
    BY <1>1, <1>2 DEF NameInv, TypeOK
  <2>3. \A j \in Ids : \A b \in had'[j] : target'[b] \in was'[j]
    BY <1>1, <1>2 DEF NameInv
  <2> QED
    BY <1>1, <1>3, <2>1, <2>2, <2>3 DEF NameInv
<1>6. RowsOwned' /\ HonestRow'
  BY <1>1, <1>2 DEF RowsOwned, HonestRow, TypeOK
<1>7. CarryInv'
  <2>1. Entries' = Entries /\ Checks' = Checks
    BY <1>1 DEF Entries, Checks
  <2>2. \A j \in Ids : had[j] \subseteq had'[j] /\ was[j] \subseteq was'[j]
    BY <1>2
  <2> QED
    BY <1>1, <2>1, <2>2, CarryKept, DataAssumption
<1>8. Announced'
  BY <1>1 DEF Announced, Events
<1> QED
  BY <1>4, <1>5, <1>6, <1>7, <1>8

LEMMA DeleteSound ==
    ASSUME TypeOK, Sound, NEW i \in Ids, DeleteTunnel(i)
    PROVE  Sound'
<1> USE DEF Sound
<1>1. /\ i \in DOMAIN tunnels /\ DOMAIN tunnels' = DOMAIN tunnels \ {i}
      /\ DOMAIN health' = DOMAIN health \ {i}
      /\ \A j \in DOMAIN tunnels \ {i} : tunnels'[j] = tunnels[j]
      /\ \A j \in DOMAIN health \ {i} : health'[j] = health[j]
      /\ UNCHANGED <<target, had, was, namesakes, snap, agent, rep, blurred, owed>>
  BY DEF DeleteTunnel, Change, Drop
<1>2. /\ crossed' = crossed \/ crossed' = crossed \cup {i}
      /\ \A r \in Reports : rep[r].id = i /\ rep[r].pc \in {"read", "write"} => i \in crossed'
  BY DEF DeleteTunnel
<1>3. WorkInv'
  <2> SUFFICES ASSUME NEW r \in Reports PROVE Working(r)'
    BY DEF WorkInv
  <2>1. CASE rep[r].id = i
    BY <1>1, <1>2, <2>1 DEF WorkInv, Working, Used
  <2>2. CASE rep[r].id # i
    <3>1. Row(rep[r].id)' = Row(rep[r].id)
      BY <1>1, <2>2 DEF Row
    <3> QED
      BY <1>1, <1>2, <2>2, <3>1 DEF WorkInv, Working, Used
  <2> QED
    BY <2>1, <2>2
<1>4. NameInv'
  BY <1>1, <1>2 DEF NameInv, Used
<1>5. RowsOwned' /\ HonestRow'
  BY <1>1, <1>2 DEF RowsOwned, HonestRow
<1>6. CarryInv'
  BY <1>1 DEF CarryInv, Entries, Checks
<1>7. Announced'
  BY <1>1 DEF Announced, Events
<1> QED
  BY <1>3, <1>4, <1>5, <1>6, <1>7

LEMMA TurnSound ==
    ASSUME TypeOK, Sound, NEW a \in Addrs, Turn(a)
    PROVE  Sound'
<1> USE DEF Sound
<1>1. UNCHANGED <<tunnels, health, had, namesakes, crossed, snap, agent, rep, blurred, owed>>
  BY DEF Turn, Change
<1>2. /\ \A b \in Addrs \ {a} : target'[b] = target[b]
      /\ \A j \in Ids : was[j] \subseteq was'[j]
      /\ \A j \in Ids : a \in had[j] => target'[a] \in was'[j]
  BY DEF Turn, TypeOK
<1>3. Used' = Used
  BY <1>1 DEF Used
<1>4. WorkInv'
  BY <1>1, <1>3 DEF WorkInv, Working, Row
<1>5. NameInv'
  <2>1. \A j \in Ids : \A b \in had'[j] : target'[b] \in was'[j]
    BY <1>1, <1>2 DEF NameInv, TypeOK
  <2> QED
    BY <1>1, <1>3, <2>1 DEF NameInv
<1>6. RowsOwned' /\ HonestRow'
  BY <1>1, <1>2 DEF RowsOwned, HonestRow, TypeOK
<1>7. CarryInv'
  <2>1. Entries' = Entries /\ Checks' = Checks
    BY <1>1 DEF Entries, Checks
  <2> QED
    BY <1>1, <1>2, <2>1, CarryKept, DataAssumption
<1>8. Announced'
  BY <1>1 DEF Announced, Events
<1> QED
  BY <1>4, <1>5, <1>6, <1>7, <1>8

-----------------------------------------------------------------------------
(* The reports.                                                            *)

(* A report that begins nothing leaves the rest as it is.                   *)
LEMMA ForgetSound ==
    ASSUME TypeOK, Sound, NEW r \in Reports, Forgets(r),
           \A q \in Reports \ {r} : rep'[q] = rep[q],
           rep'[r].todo \subseteq rep[r].todo,
           UNCHANGED <<tables, snap, agent, had, was, namesakes, crossed, owed>>,
           blurred \subseteq blurred'
    PROVE  Sound'
<1> USE DEF Sound
<1>1. WorkInv' /\ NameInv' /\ RowsOwned' /\ HonestRow' /\ Announced'
  BY QuietReports
<1>2. Entries' \subseteq Entries /\ Checks' \subseteq Checks
  BY DEF Entries, Checks
<1>3. CarryInv'
  BY <1>2, CarryKept, DataAssumption DEF Forgets, tables
<1> QED
  BY <1>1, <1>3

(* A report that goes on with a tunnel, without an event.                   *)
LEMMA AdvanceSound ==
    ASSUME TypeOK, Sound, NEW r \in Reports, rep[r].pc # "event", rep'[r].pc # "event",
           Working(r)', \A q \in Reports \ {r} : rep'[q] = rep[q],
           rep'[r].todo \subseteq rep[r].todo,
           \A i \in DOMAIN tunnels \ namesakes : rep'[r].id = i => rep'[r].status \in was[i],
           UNCHANGED <<tables, snap, agent, had, was, namesakes, crossed, owed>>,
           blurred \subseteq blurred'
    PROVE  Sound'
<1> USE DEF Sound
<1>1. NameInv' /\ RowsOwned' /\ HonestRow'
  BY DEF NameInv, RowsOwned, HonestRow, Used, tables
<1>2. WorkInv'
  <2> SUFFICES ASSUME NEW q \in Reports \ {r} PROVE Working(q)'
    BY DEF WorkInv
  <2> QED
    BY DEF WorkInv, Working, Used, Row, tables
<1>3. Announced'
  <2>1. \A i : Events(i)' = Events(i)
    BY DEF Events
  <2> QED
    BY <2>1 DEF Announced, tables
<1>4. CarryInv'
  <2>1. Entries' \subseteq Entries /\ Checks' \subseteq Checks
    BY DEF Entries, Checks
  <2> QED
    BY <2>1 DEF CarryInv, tables
<1> QED
  BY <1>1, <1>2, <1>3, <1>4

(* The lookup by name finds the tunnel that was probed, or a namesake.      *)
LEMMA LookUpSound ==
    ASSUME TypeOK, Sound, NEW r \in Reports, LookUp(r)
    PROVE  Sound'
<1> USE DEF Sound
<1>0. UNCHANGED <<tables, snap, agent, had, was, namesakes, crossed, owed>> /\ blurred' = blurred
  BY DEF LookUp, history
<1> PICK k \in rep[r].todo :
       \/ \E i \in DOMAIN tunnels :
             /\ tunnels[i].name = k.name
             /\ Step(r, "next", [rep[r] EXCEPT !.pc = "read", !.todo = @ \ {k},
                                               !.id = i, !.status = k.status])
       \/ Step(r, "next", [rep[r] EXCEPT !.todo = @ \ {k}])
  BY DEF LookUp
<1>1. rep[r] \in ReportState /\ k \in Checks /\ k.status \in Status
  <2>1. rep[r] \in ReportState
    BY DEF TypeOK
  <2>2. k \in Checks
    BY DEF Checks
  <2> QED
    BY <2>1, <2>2 DEF ReportState, Check
<1>2. ASSUME NEW i \in DOMAIN tunnels, tunnels[i].name = k.name,
             Step(r, "next", [rep[r] EXCEPT !.pc = "read", !.todo = @ \ {k},
                                            !.id = i, !.status = k.status])
      PROVE  Sound'
  <2>1. /\ rep[r].pc = "next" /\ rep'[r].pc = "read" /\ rep'[r].id = i /\ rep'[r].status = k.status
        /\ rep'[r].todo \subseteq rep[r].todo /\ \A q \in Reports \ {r} : rep'[q] = rep[q]
    BY <1>1, <1>2 DEF Step, TypeOK, ReportState
  <2>2. i # None /\ k.status # None /\ i \in Used
    BY <1>1, DataAssumption DEF TypeOK, Status, None, NameInv
  <2>3. Working(r)'
    BY <1>0, <2>1, <2>2 DEF Working, Used, tables
  <2>4. i \notin namesakes => k.status \in was[i]
    BY <1>1, <1>2 DEF CarryInv
  <2>5. \A j \in DOMAIN tunnels \ namesakes : rep'[r].id = j => rep'[r].status \in was[j]
    BY <2>1, <2>4
  <2> QED
    BY <1>0, <2>1, <2>3, <2>5, AdvanceSound
<1>3. ASSUME Step(r, "next", [rep[r] EXCEPT !.todo = @ \ {k}]) PROVE Sound'
  <2>1. /\ rep[r].pc = "next" /\ rep'[r].pc = "next"
        /\ rep'[r].id = rep[r].id /\ rep'[r].status = rep[r].status
        /\ rep'[r].todo \subseteq rep[r].todo /\ \A q \in Reports \ {r} : rep'[q] = rep[q]
    BY <1>1, <1>3 DEF Step, TypeOK, ReportState
  <2>2. Forgets(r)
    BY <2>1 DEF Forgets, WorkInv, Working
  <2> QED
    BY <1>0, <2>1, <2>2, ForgetSound
<1> QED
  BY <1>2, <1>3

(* What is read stays what is there, unless another report writes.          *)
LEMMA ReadSound ==
    ASSUME TypeOK, Sound, NEW r \in Reports, GetHealthCheck(r) \/ ReadFails(r)
    PROVE  Sound'
<1> USE DEF Sound
<1>1. UNCHANGED <<tables, snap, agent, had, was, namesakes, crossed, owed>> /\ blurred \subseteq blurred'
  BY DEF GetHealthCheck, ReadFails, history
<1>2. /\ rep[r].pc = "read" /\ rep'[r].pc = "write"
      /\ rep'[r].id = rep[r].id /\ rep'[r].status = rep[r].status /\ rep'[r].todo = rep[r].todo
      /\ rep'[r].prev = Row(rep[r].id) \/ rep[r].id \in blurred'
      /\ \A q \in Reports \ {r} : rep'[q] = rep[q]
  <2>1. rep[r] \in ReportState
    BY DEF TypeOK
  <2>2. CASE GetHealthCheck(r)
    BY <2>1, <2>2 DEF GetHealthCheck, Step, TypeOK, ReportState
  <2>3. CASE ReadFails(r)
    BY <2>1, <2>3 DEF ReadFails, Step, TypeOK, ReportState
  <2> QED
    BY <2>2, <2>3
<1>4. Working(r)'
  BY <1>1, <1>2 DEF WorkInv, Working, Used, Row, tables
<1>5. \A i \in DOMAIN tunnels \ namesakes : rep'[r].id = i => rep'[r].status \in was[i]
  BY <1>2 DEF CarryInv
<1> QED
  BY <1>1, <1>2, <1>4, <1>5, AdvanceSound

(* Left reports carry the rest of their results only.                       *)
LEMMA LeftValue ==
    ASSUME NEW r \in Reports
    PROVE  /\ Left(r).pc = "next" /\ Left(r).id = None /\ Left(r).status = None
           /\ Left(r).todo = rep[r].todo
  BY DEF Left, IdleRep

(* The write: a turn to unhealthy is owed an event exactly when the report  *)
(* is about to send one, as the row it read is still the row there is.      *)
LEMMA UpsertSound ==
    ASSUME TypeOK, Sound, NEW r \in Reports, UpsertHealthCheck(r)
    PROVE  Sound'
<1> USE DEF Sound
<1> DEFINE i == rep[r].id
<1>1. /\ rep[r].pc = "write" /\ i \in Ids /\ rep[r].status \in Status /\ i \in Used
      /\ i \in DOMAIN tunnels \cup crossed
  BY DEF UpsertHealthCheck, Step, WorkInv, Working, TypeOK, ReportState
<1>2. /\ \/ Announces(r) /\ rep'[r] = [rep[r] EXCEPT !.pc = "event"]
         \/ ~Announces(r) /\ rep'[r] = Left(r)
      /\ \A q \in Reports \ {r} : rep'[q] = rep[q]
  BY DEF UpsertHealthCheck, Step, TypeOK
<1>3. /\ DOMAIN health' = DOMAIN health \cup {i} /\ health'[i] = rep[r].status
      /\ \A j \in DOMAIN health \ {i} : health'[j] = health[j]
  BY DEF UpsertHealthCheck, Put
<1>4. /\ UNCHANGED <<tunnels, target, snap, agent, had, was, namesakes, crossed>>
      /\ blurred' = IF Writers(i) = {r} THEN blurred ELSE blurred \cup {i}
      /\ owed' = IF rep[r].status = "unhealthy" /\ Row(i) # "unhealthy"
                 THEN [owed EXCEPT ![i] = @ + 1] ELSE owed
  BY DEF UpsertHealthCheck
<1>5. /\ Announces(r) => /\ rep'[r].pc = "event" /\ rep'[r].id = i
                         /\ rep'[r].status = rep[r].status
      /\ ~Announces(r) => rep'[r].pc = "next" /\ rep'[r].id = None /\ rep'[r].status = None
      /\ rep'[r].todo = rep[r].todo
  BY <1>2, LeftValue DEF TypeOK, ReportState
<1> HIDE DEF i
<1>6. \A j : j # i => Row(j)' = Row(j)
  BY <1>3 DEF Row
<1>7. i \notin blurred' => \A q \in Reports \ {r} : rep[q].id = i => rep[q].pc # "write"
  BY <1>1, <1>4 DEF Writers
<1>8. WorkInv'
  <2> SUFFICES ASSUME NEW q \in Reports PROVE Working(q)'
    BY DEF WorkInv
  <2>1. CASE q = r
    <3>1. i # None /\ rep[r].status # None
      BY <1>1, DataAssumption DEF Status, None
    <3> QED
      BY <1>1, <1>4, <1>5, <2>1, <3>1 DEF Working, Used
  <2>2. CASE q # r /\ rep[q].id = i
    BY <1>2, <1>4, <1>7, <2>2 DEF WorkInv, Working, Used
  <2>3. CASE q # r /\ rep[q].id # i
    <3>1. Row(rep[q].id)' = Row(rep[q].id) /\ rep'[q] = rep[q]
      BY <1>2, <1>6, <2>3 DEF Row
    <3> QED
      BY <1>4, <3>1 DEF WorkInv, Working, Used
  <2> QED
    BY <2>1, <2>2, <2>3
<1>9. NameInv'
  BY <1>1, <1>4 DEF NameInv, Used
<1>10. RowsOwned'
  BY <1>1, <1>3, <1>4 DEF RowsOwned
<1>11. HonestRow'
  BY <1>3, <1>4 DEF HonestRow, CarryInv, i
<1>12. CarryInv'
  <2>1. Entries' = Entries /\ Checks' = Checks
    BY <1>2, <1>4, <1>5 DEF Entries, Checks
  <2>2. \A q \in Reports : \/ rep'[q].id = None
                           \/ rep'[q].id = rep[q].id /\ rep'[q].status = rep[q].status
    BY <1>2, <1>5 DEF i
  <2> QED
    BY <1>4, <2>1, <2>2, CarryKept, DataAssumption
<1>13. Announced'
  <2> SUFFICES ASSUME NEW j \in DOMAIN tunnels \ blurred'
               PROVE  owed'[j] = Cardinality(Events(j)')
    BY <1>4 DEF Announced
  <2>1. owed[j] = Cardinality(Events(j)) /\ j \in Ids /\ owed[j] \in Int
    BY <1>4 DEF Announced, TypeOK
  <2>2. CASE j # i
    <3>1. Events(j)' = Events(j)
      BY <1>1, <1>2, <1>5, <2>2, DataAssumption DEF Events, i
    <3> QED
      BY <1>1, <1>4, <2>1, <2>2, <3>1 DEF TypeOK
  <2>3. CASE j = i
    <3>1. rep[r].prev = Row(i)
      BY <1>1, <1>4, <2>3 DEF WorkInv, Working, NameInv, i
    <3>2. CASE Announces(r)
      <4>1. Events(j)' = Events(j) \cup {r} /\ r \notin Events(j)
        BY <1>1, <1>2, <1>5, <2>3, <3>2 DEF Events
      <4>2. Cardinality(Events(j)') = Cardinality(Events(j)) + 1
        BY <4>1, EventsFinite, FS_AddElement
      <4>3. owed'[j] = owed[j] + 1
        BY <1>1, <1>4, <2>3, <3>1, <3>2 DEF Announces, TypeOK
      <4> QED
        BY <2>1, <4>2, <4>3
    <3>3. CASE ~Announces(r)
      <4>1. Events(j)' = Events(j)
        BY <1>1, <1>2, <1>5, <3>3 DEF Events
      <4>2. owed' = owed
        BY <1>4, <3>1, <3>3 DEF Announces
      <4> QED
        BY <2>1, <4>1, <4>2
    <3> QED
      BY <3>2, <3>3
  <2> QED
    BY <2>2, <2>3
<1> QED
  BY <1>8, <1>9, <1>10, <1>11, <1>12, <1>13

(* The event pays what is owed.                                             *)
LEMMA WarnSound ==
    ASSUME TypeOK, Sound, NEW r \in Reports, Warn(r)
    PROVE  Sound'
<1> USE DEF Sound
<1> DEFINE i == rep[r].id
<1>1. /\ rep[r].pc = "event" /\ i \in Ids /\ i \in Used
      /\ rep'[r] = Left(r) /\ \A q \in Reports \ {r} : rep'[q] = rep[q]
  BY DEF Warn, Step, WorkInv, Working, TypeOK, ReportState
<1>2. /\ UNCHANGED <<tables, snap, agent, had, was, namesakes, crossed, blurred>>
      /\ owed' = [owed EXCEPT ![i] = @ - 1]
  BY DEF Warn
<1>3. rep'[r].pc = "next" /\ rep'[r].id = None /\ rep'[r].status = None /\ rep'[r].todo = rep[r].todo
  BY <1>1, LeftValue
<1>4. WorkInv'
  <2> SUFFICES ASSUME NEW q \in Reports PROVE Working(q)'
    BY DEF WorkInv
  <2> QED
    BY <1>1, <1>2, <1>3 DEF WorkInv, Working, Used, Row, tables
<1>5. NameInv' /\ RowsOwned' /\ HonestRow'
  BY <1>1, <1>2 DEF NameInv, RowsOwned, HonestRow, Used, tables, TypeOK
<1>6. CarryInv'
  <2>1. Entries' = Entries /\ Checks' = Checks
    BY <1>1, <1>2, <1>3 DEF Entries, Checks
  <2> QED
    BY <1>1, <1>2, <1>3, <2>1, CarryKept, DataAssumption DEF tables
<1>7. Announced'
  <2> SUFFICES ASSUME NEW j \in DOMAIN tunnels \ blurred
               PROVE  owed'[j] = Cardinality(Events(j)')
    BY <1>2 DEF Announced, tables
  <2>1. owed[j] = Cardinality(Events(j)) /\ j \in Ids /\ j # None
    BY DataAssumption DEF Announced, TypeOK
  <2>2. CASE j # i
    <3>1. Events(j)' = Events(j)
      BY <1>1, <1>3, <2>1, <2>2 DEF Events
    <3> QED
      BY <1>2, <2>1, <2>2, <3>1 DEF TypeOK
  <2>3. CASE j = i
    <3>1. Events(j)' = Events(j) \ {r} /\ r \in Events(j)
      BY <1>1, <1>3, <2>1, <2>3 DEF Events
    <3>2. Cardinality(Events(j)') = Cardinality(Events(j)) - 1
      BY <3>1, EventsFinite, FS_RemoveElement
    <3> QED
      BY <1>1, <1>2, <2>1, <2>3, <3>2 DEF TypeOK
  <2> QED
    BY <2>2, <2>3
<1> QED
  BY <1>4, <1>5, <1>6, <1>7

(* The steps after which a report has forgotten its tunnel.                 *)
LEMMA EndSound ==
    ASSUME TypeOK, Sound, NEW r \in Reports,
           WarnFails(r) \/ WriteFails(r) \/ Answer(r) \/ AnswerNobody(r)
    PROVE  Sound'
<1>1. /\ rep'[r].pc \in {"idle", "next", "done"} /\ rep'[r].id = None /\ rep'[r].status = None
      /\ rep[r].pc = "event" => rep[r].id \in blurred'
      /\ rep'[r].todo \subseteq rep[r].todo /\ \A q \in Reports \ {r} : rep'[q] = rep[q]
      /\ UNCHANGED <<tables, snap, agent, had, was, namesakes, crossed, owed>> /\ blurred \subseteq blurred'
  <2>1. CASE WarnFails(r)
    BY <2>1, LeftValue DEF WarnFails, Step, TypeOK
  <2>2. CASE WriteFails(r)
    BY <2>2 DEF WriteFails, Step, TypeOK, Done, IdleRep, history
  <2>3. CASE Answer(r)
    BY <2>3 DEF Answer, Step, TypeOK, Done, IdleRep, history
  <2>4. CASE AnswerNobody(r)
    BY <2>4 DEF AnswerNobody, Step, TypeOK, Done, IdleRep, history
  <2> QED
    BY <2>1, <2>2, <2>3, <2>4
<1>2. Forgets(r)
  BY <1>1 DEF Forgets
<1> QED
  BY <1>1, <1>2, ForgetSound

(* A crash of the server.                                                   *)
LEMMA CrashSound ==
    ASSUME TypeOK, Sound, ServerCrash
    PROVE  Sound'
<1> USE DEF Sound
<1>1. /\ UNCHANGED <<tables, snap, agent, had, was, namesakes, crossed, owed>> /\ blurred \subseteq blurred'
      /\ \A r \in Reports : rep[r].pc = "event" => rep[r].id \in blurred'
      /\ \A r \in Reports : rep'[r] \in {Done, IdleRep}
  BY DEF ServerCrash
<1>2. \A r \in Reports :
         /\ rep'[r].pc \in {"idle", "next", "done"} /\ rep'[r].id = None /\ rep'[r].status = None
         /\ rep'[r].todo = {}
  BY <1>1 DEF Done, IdleRep
<1>3. WorkInv' /\ NameInv' /\ RowsOwned' /\ HonestRow' /\ Announced'
  <2>1. \A r \in Reports : Forgets(r)
    BY <1>1, <1>2 DEF Forgets
  <2> QED
    BY <1>1, <2>1, QuietReports
<1>4. CarryInv'
  <2>1. Entries' \subseteq Entries /\ Checks' \subseteq Checks
    BY <1>1, <1>2 DEF Entries, Checks
  <2> QED
    BY <1>1, <1>2, <2>1, CarryKept, DataAssumption DEF tables
<1> QED
  BY <1>3, <1>4

-----------------------------------------------------------------------------
(* Theorems.                                                               *)

(* IInv is an inductive invariant of HealthReport.                          *)
THEOREM Inductive == Spec => []IInv
<1>1. Init => IInv
  <2> SUFFICES ASSUME Init PROVE IInv
    OBVIOUS
  <2>1. TypeOK
    BY TypeInit
  <2>2. /\ DOMAIN tunnels = {} /\ DOMAIN health = {} /\ Used = {}
    BY DEF Init, Used
  <2>3. WorkInv
    BY DEF Init, WorkInv, Working, IdleRep, None
  <2> QED
    BY <2>1, <2>2, <2>3 DEF Init, IInv, NameInv, CarryInv, RowsOwned, HonestRow, Announced
<1>2. IInv /\ [Next]_vars => IInv'
  <2> SUFFICES ASSUME IInv, [Next]_vars PROVE TypeOK' /\ Sound'
    BY DEF IInv, Sound
  <2>1. TypeOK /\ Sound /\ WorkInv
    BY DEF IInv, Sound
  <2>2. CASE AdminStep
    BY <2>1, <2>2, AdminType, CreateSound, UpdateSound, DeleteSound, TurnSound DEF AdminStep
  <2>3. CASE SetTunnels \/ RunStep \/ GiveUp \/ AgentCrash
    BY <2>1, <2>3, AgentType, AgentSound
  <2>4. ASSUME NEW r \in Reports, ReportStep(r) \/ ReportFault(r) PROVE TypeOK' /\ Sound'
    BY <2>1, <2>4, ReportType, LookUpSound, ReadSound, UpsertSound, WarnSound, EndSound
       DEF ReportStep, ReportFault
  <2>5. CASE ServerCrash
    BY <2>1, <2>5, CrashType, CrashSound
  <2>6. CASE UNCHANGED vars
    <3>1. TypeOK'
      BY <2>1, <2>6 DEF vars, tables, history, TypeOK
    <3>2. UNCHANGED <<tables, snap, agent, had, was, namesakes, crossed, owed, rep, blurred>>
      BY <2>6 DEF vars, history
    <3>3. WorkInv' /\ NameInv' /\ RowsOwned' /\ HonestRow' /\ Announced'
      BY <2>1, <3>2, QuietReports DEF Sound
    <3>4. CarryInv'
      BY <2>1, <3>2 DEF Sound, CarryInv, Entries, Checks, tables
    <3> QED
      BY <3>1, <3>3, <3>4 DEF Sound
  <2> QED
    BY <2>2, <2>3, <2>4, <2>5, <2>6 DEF Next
<1> QED
  BY <1>1, <1>2, PTL DEF Spec

(* A health row belongs to a tunnel, or to one that was deleted while a     *)
(* report was about to write its row.                                       *)
THEOREM RowsOwnedTheorem == Spec => []RowsOwned
  BY Inductive, PTL DEF IInv

(* A row shows a state that an address of the tunnel has been in since the  *)
(* tunnel had it, unless the tunnel's name was still under way from another  *)
(* when it was created.                                                      *)
THEOREM HonestRowTheorem == Spec => []HonestRow
  BY Inductive, PTL DEF IInv

(* Turns to unhealthy and events match, but for reports that meet, failed   *)
(* statements and stops of the server.                                      *)
THEOREM AnnouncedTheorem == Spec => []Announced
  BY Inductive, PTL DEF IInv

=============================================================================
