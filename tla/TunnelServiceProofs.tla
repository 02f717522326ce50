-------------------------- MODULE TunnelServiceProofs --------------------------
(* Types and uniqueness of TunnelService, and what the renderer makes of    *)
(* its table, for all constants.                                            *)
EXTENDS TunnelRender, RenderProofs

-----------------------------------------------------------------------------
(* Types.                                                                  *)

(* The request of an idle handler, and the rows requests are made of.      *)
LEMMA IdleType == Idle \in Request /\ Idle.pc = "idle"
  BY DEF Idle, Request

(* The requests of create and publish carry rows.                          *)
LEMMA NewTypes ==
    /\ NewTunnels \subseteq Row
    /\ \A g \in Gateways, s \in Slugs : Published(g, s) \in Row
  BY DataAssumption, PortAssumption DEF NewTunnels, Row, Published, Domains, Ports

(* A request replaced by a well-typed one keeps the types.                 *)
LEMMA ContinueType ==
    ASSUME TypeOK, NEW h \in Handlers, NEW q \in Request,
           q.pc # "idle" => q.row \in Row, Continue(h, q)
    PROVE  TypeOK'
  BY DEF TypeOK, Continue

(* A refused request keeps the types.                                      *)
LEMMA RefuseType ==
    ASSUME TypeOK, NEW h \in Handlers, Refuse(h)
    PROVE  TypeOK'
  BY IdleType, ContinueType DEF Refuse

(* So does a request that starts with a row.                               *)
LEMMA StartType ==
    ASSUME TypeOK, NEW h \in Handlers, NEW q \in Request, q.row \in Row, Start(h, q)
    PROVE  TypeOK'
  BY BoundAssumption DEF TypeOK, Start

(* So does a table of rows with known ids.                                  *)
LEMMA WriteType ==
    ASSUME TypeOK, NEW h \in Handlers, op[h].pc # "idle", NEW table,
           used \subseteq used', used' \subseteq Ids,
           DOMAIN table \subseteq used', \A i \in DOMAIN table : table[i] \in Row,
           Write(h, table)
    PROVE  TypeOK'
<1> op[h].row \in Row /\ op[h] \in Request /\ op[h].row.gw \in Gateways
  BY DEF TypeOK, Row
<1> [op[h] EXCEPT !.pc = "bump"] \in Request
  BY DEF Request
<1> QED
  BY DEF TypeOK, Write

(* The requests of the start actions.                                       *)
LEMMA CreateStartType ==
    ASSUME TypeOK, NEW h \in Handlers, NEW r \in NewTunnels, CreateStart(h, r)
    PROVE  TypeOK'
<1> DEFINE q == [Idle EXCEPT !.pc = "check", !.row = r, !.n = PortMin,
                   !.todo = {"name"} \cup IF r.type = "http" THEN {"domain"}
                                           ELSE IF r.port # 0 THEN {"port"} ELSE {}]
<1>1. q \in Request /\ q.row \in Row
  BY NewTypes, PortAssumption DEF Idle, Request, Checks, Fields
<1> QED
  BY <1>1, StartType DEF CreateStart

(* A publish starts with the row of its slug.                              *)
LEMMA PublishStartType ==
    ASSUME TypeOK, NEW h \in Handlers, NEW g \in Gateways, NEW s \in Slugs,
           PublishStart(h, g, s)
    PROVE  TypeOK'
<1> DEFINE q == [Idle EXCEPT !.pc = "resolve", !.row = Published(g, s), !.n = 1]
<1>1. q \in Request /\ q.row \in Row
  BY NewTypes DEF Idle, Request
<1> QED
  BY <1>1, StartType DEF PublishStart

(* An update starts with the row as it would be.                           *)
LEMMA UpdateStartType ==
    ASSUME TypeOK, NEW h \in Handlers, NEW i \in Ids, NEW chg \in SUBSET Fields,
           NEW d \in Domains, NEW p \in Ports, UpdateStart(h, i, chg, d, p)
    PROVE  TypeOK'
<1> DEFINE q == [Idle EXCEPT !.pc = "check", !.id = i, !.chg = chg,
                   !.row = [tunnels[i] EXCEPT !.domain = d, !.port = p],
                   !.todo = {f \in chg :
                       \/ f = "domain" /\ d \notin {"none", tunnels[i].domain}
                       \/ f = "port" /\ p \notin {0, tunnels[i].port}}]
<1>1. tunnels[i] \in Row
  BY DEF UpdateStart, TypeOK
<1>2. [tunnels[i] EXCEPT !.domain = d, !.port = p] \in Row
  BY <1>1 DEF Row
<1>3. q \in Request /\ q.row \in Row
  BY <1>2 DEF Idle, Request, Checks
<1> QED
  BY <1>3, StartType DEF UpdateStart

(* A delete starts with the row as it is.                                  *)
LEMMA DeleteStartType ==
    ASSUME TypeOK, NEW h \in Handlers, NEW i \in Ids, DeleteStart(h, i)
    PROVE  TypeOK'
<1> DEFINE q == [Idle EXCEPT !.pc = "delete", !.id = i, !.row = tunnels[i]]
<1>1. q \in Request /\ q.row \in Row
  BY DEF Idle, Request, DeleteStart, TypeOK
<1> QED
  BY <1>1, StartType DEF DeleteStart

(* The steps of a request at work.                                          *)
LEMMA StepType ==
    ASSUME TypeOK, NEW h \in Handlers, Step(h)
    PROVE  TypeOK'
<1> USE DEF Request
<1>0. op[h] \in Request /\ (op[h].pc # "idle" => op[h].row \in Row)
  BY DEF TypeOK
<1>1. CASE ResolveDomain(h)
  <2>1. CASE Continue(h, [op[h] EXCEPT !.pc = "check", !.todo = {"name", "domain"}])
    <3>1. [op[h] EXCEPT !.pc = "check", !.todo = {"name", "domain"}] \in Request
      BY <1>0 DEF Checks, Fields
    <3> QED
      BY <1>0, <1>1, <2>1, <3>1, ContinueType DEF ResolveDomain
  <2>2. CASE \E s \in Slugs :
               Continue(h, [op[h] EXCEPT !.row = Published(op[h].row.gw, s), !.n = @ + 1])
    <3> PICK s \in Slugs :
               Continue(h, [op[h] EXCEPT !.row = Published(op[h].row.gw, s), !.n = @ + 1])
      BY <2>2
    <3>1. Published(op[h].row.gw, s) \in Row
      BY <1>0, <1>1, NewTypes DEF ResolveDomain, Row
    <3>2. [op[h] EXCEPT !.row = Published(op[h].row.gw, s), !.n = @ + 1] \in Request
      <4> DEFINE r == Published(op[h].row.gw, s)
      <4>1. r \in Row
        BY <3>1
      <4> HIDE DEF r
      <4>2. op[h].n + 1 \in Nat
        BY <1>0
      <4> DEFINE n == op[h].n + 1
      <4> HIDE DEF n
      <4>3. [op[h] EXCEPT !.row = r, !.n = n] \in Request
        BY <1>0, <4>1, <4>2 DEF n
      <4> QED
        BY <4>3 DEF r, n
    <3> QED
      BY <1>0, <3>1, <3>2, ContinueType
  <2> QED
    BY <1>1, <2>1, <2>2, RefuseType DEF ResolveDomain
<1>2. CASE ScanPort(h)
  <2>1. CASE op[h].n <= PortMax /\ Continue(h, [op[h] EXCEPT !.n = @ + 1])
    <3>1. [op[h] EXCEPT !.n = @ + 1] \in Request
      BY <1>0
    <3> QED
      BY <1>0, <1>2, <2>1, <3>1, ContinueType DEF ScanPort, Checked
  <2>2. CASE op[h].n <= PortMax /\ Continue(h, [op[h] EXCEPT !.row.port = op[h].n])
    <3>1. op[h].n \in Ports
      BY <1>0, <2>2, PortAssumption DEF Ports
    <3>2. op[h].row \in Row
      BY <1>0, <1>2 DEF ScanPort, Checked
    <3>3. [op[h].row EXCEPT !.port = op[h].n] \in Row
      BY <3>1, <3>2 DEF Row
    <3>4. [op[h] EXCEPT !.row.port = op[h].n] \in Request
      BY <1>0, <3>3
    <3>5. [op[h] EXCEPT !.row.port = op[h].n].row \in Row
      BY <1>0, <3>3
    <3> QED
      BY <2>2, <3>4, <3>5, ContinueType
  <2> QED
    BY <1>2, <2>1, <2>2, RefuseType DEF ScanPort
<1>3. CASE InsertRow(h)
  <2> PICK i \in Ids \ used : Write(h, Put(i, op[h].row)) /\ used' = used \cup {i}
    BY <1>3 DEF InsertRow
  <2>1. op[h].pc # "idle" /\ op[h].row \in Row
    BY <1>0, <1>3 DEF InsertRow, Checked
  <2> DEFINE table == Put(i, op[h].row)
  <2>2. DOMAIN table = DOMAIN tunnels \cup {i} /\ \A j \in DOMAIN table : table[j] \in Row
    BY <2>1 DEF Put, TypeOK
  <2>3. used \subseteq used' /\ used' \subseteq Ids /\ DOMAIN table \subseteq used'
    BY <2>2 DEF TypeOK
  <2> HIDE DEF table
  <2> QED
    BY <2>1, <2>2, <2>3, WriteType DEF table
<1>4. ASSUME NEW f \in Checks, Check(h, f) PROVE TypeOK'
  <2>1. [op[h] EXCEPT !.todo = @ \ {f}] \in Request
    BY <1>0
  <2> QED
    BY <1>0, <1>4, <2>1, ContinueType, RefuseType DEF Check
<1>5. CASE ReadRow(h)
  <2> DEFINE r == [tunnels[op[h].id] EXCEPT
                     !.domain = IF Given(h, "domain") THEN op[h].row.domain ELSE @,
                     !.port = IF Given(h, "port") THEN op[h].row.port ELSE @]
  <2>1. CASE op[h].id \in DOMAIN tunnels
    <3>1. r \in Row
      BY <1>0, <1>5, <2>1 DEF ReadRow, Checked, Row, TypeOK
    <3>2. [op[h] EXCEPT !.pc = "write", !.row = r] \in Request
      BY <1>0, <3>1
    <3>3. Continue(h, [op[h] EXCEPT !.pc = "write", !.row = r])
      BY <1>5, <2>1 DEF ReadRow
    <3> HIDE DEF r
    <3> QED
      BY <1>0, <3>1, <3>2, <3>3, ContinueType
  <2> QED
    BY <1>5, <2>1, RefuseType DEF ReadRow
<1>6. CASE WriteRow(h) \/ DeleteRow(h)
  <2>1. op[h].pc # "idle" /\ op[h].row \in Row /\ UNCHANGED used
    BY <1>0, <1>6 DEF WriteRow, DeleteRow
  <2>2. CASE Write(h, Put(op[h].id, op[h].row)) /\ op[h].id \in DOMAIN tunnels
    <3> DEFINE table == Put(op[h].id, op[h].row)
    <3>1. DOMAIN table = DOMAIN tunnels /\ \A j \in DOMAIN table : table[j] \in Row
      BY <2>1, <2>2 DEF Put, TypeOK
    <3>2. used \subseteq used' /\ used' \subseteq Ids /\ DOMAIN table \subseteq used'
      BY <2>1, <3>1 DEF TypeOK
    <3> HIDE DEF table
    <3> QED
      BY <2>1, <2>2, <3>1, <3>2, WriteType DEF table
  <2>3. CASE Write(h, Without(op[h].id))
    <3> DEFINE table == Without(op[h].id)
    <3>1. DOMAIN table \subseteq DOMAIN tunnels /\ \A j \in DOMAIN table : table[j] \in Row
      BY DEF Without, TypeOK
    <3>2. used \subseteq used' /\ used' \subseteq Ids /\ DOMAIN table \subseteq used'
      BY <2>1, <3>1 DEF TypeOK
    <3> HIDE DEF table
    <3> QED
      BY <2>1, <2>3, <3>1, <3>2, WriteType DEF table
  <2>4. CASE WriteNothing(h)
    <3>1. [op[h] EXCEPT !.pc = "bump"] \in Request
      BY <1>0
    <3> QED
      BY <1>0, <2>1, <2>4, <3>1, ContinueType DEF WriteNothing
  <2> QED
    BY <1>6, <2>2, <2>3, <2>4 DEF WriteRow, DeleteRow
<1>7. CASE Bump(h)
  BY <1>7, IdleType DEF Bump, TypeOK
<1>8. CASE Fail(h)
  BY <1>8, RefuseType DEF Fail
<1> QED
  BY <1>1, <1>2, <1>3, <1>4, <1>5, <1>6, <1>7, <1>8 DEF Step

(* Types are kept by every step.                                            *)
LEMMA TypeStep == TypeOK /\ [Next]_vars => TypeOK'
<1> SUFFICES ASSUME TypeOK, [Next]_vars PROVE TypeOK'
  OBVIOUS
<1>1. CASE UNCHANGED vars
  BY <1>1 DEF vars, TypeOK
<1>2. CASE Next
  BY <1>2, CreateStartType, PublishStartType, UpdateStartType, DeleteStartType, StepType
     DEF Next
<1> QED
  BY <1>1, <1>2

(* The types hold initially.                                               *)
LEMMA TypeInit == Init => TypeOK
<1> SUFFICES ASSUME Init PROVE TypeOK
  OBVIOUS
<1>1. op \in [Handlers -> Request] /\ \A h \in Handlers : op[h].pc = "idle"
  BY IdleType DEF Init
<1>2. DOMAIN tunnels = {}
  BY DEF Init
<1>3. ops \in 0..MaxOps
  BY BoundAssumption DEF Init
<1>4. used = {} /\ undisturbed = {} /\ overlapped = FALSE
  BY DEF Init
<1> QED
  BY <1>1, <1>2, <1>3, <1>4 DEF TypeOK

(* The variables of TunnelService keep their types.                         *)
THEOREM TypeCorrect == Spec => []TypeOK
  BY TypeInit, TypeStep, PTL DEF Spec

-----------------------------------------------------------------------------
(* Uniqueness without overlap.                                             *)

(* What a lookup that finds nothing says about a row, in the terms of       *)
(* Clash.                                                                   *)
LEMMA FreeNoClash ==
    ASSUME NEW r, NEW f, NEW i, ~Taken(r, f), f \in Checks
    PROVE  ~Clash(r, f, i)
  BY DEF Taken, TunnelNameExists, DomainExists, RemotePortExists, Clash, Checks, Fields

(* A trusted request stays so while the table does.                         *)
LEMMA SameTable ==
    ASSUME tunnels' = tunnels, NEW q, Trusted(q)
    PROVE  /\ Unique => Unique'
           /\ \A k : op'[k] = q => Trusted(op[k])'
  BY DEF Unique, Apart, Trusted, Clash

(* A handler moves on to a request it can trust if nobody disturbed it.     *)
LEMMA ContinueSerial ==
    ASSUME TypeOK, Serial, NEW h \in Handlers, NEW q,
           tunnels' = tunnels, op' = [op EXCEPT ![h] = q], overlapped' = overlapped,
           undisturbed' \subseteq undisturbed \cup {h},
           ~overlapped /\ h \in undisturbed' => Trusted(q)
    PROVE  Serial'
<1> SUFFICES ASSUME ~overlapped
             PROVE  Unique' /\ \A k \in undisturbed' : Trusted(op[k])'
  BY DEF Serial
<1>1. Unique /\ \A k \in undisturbed : Trusted(op[k])
  BY DEF Serial
<1>2. Unique'
  BY <1>1 DEF Unique, Apart
<1>3. ASSUME NEW k \in undisturbed' PROVE Trusted(op[k])'
  <2>1. CASE k = h
    <3>1. op'[k] = q /\ Trusted(q)
      BY <1>3, <2>1 DEF TypeOK
    <3> QED
      BY <3>1, SameTable
  <2>2. CASE k # h
    <3>1. op'[k] = op[k] /\ Trusted(op[k])
      BY <1>1, <1>3, <2>2 DEF TypeOK
    <3> QED
      BY <3>1, SameTable
  <2> QED
    BY <2>1, <2>2
<1> QED
  BY <1>2, <1>3

(* A write by a request nobody disturbed leaves no other undisturbed; it    *)
(* need only keep the rows apart.                                           *)
LEMMA WriteSerial ==
    ASSUME TypeOK, Serial, NEW h \in Handlers, NEW table, Write(h, table),
           ~overlapped /\ h \in undisturbed => Unique'
    PROVE  Serial'
<1> SUFFICES ASSUME ~overlapped'
             PROVE  Unique' /\ \A k \in undisturbed' : Trusted(op[k])'
  BY DEF Serial
<1>1. ~overlapped /\ h \in undisturbed /\ undisturbed' \subseteq {h}
  BY DEF Write, TypeOK
<1>2. op'[h].pc = "bump"
  <2>1. op' = [op EXCEPT ![h] = [op[h] EXCEPT !.pc = "bump"]]
    BY DEF Write
  <2>2. op[h] \in Request /\ op \in [Handlers -> Request]
    BY DEF TypeOK
  <2> QED
    BY <2>1, <2>2 DEF Request
<1>3. Trusted(op[h])'
  BY <1>2 DEF Trusted
<1> QED
  BY <1>1, <1>3

(* A row that clashes with no other row can be put into the table.          *)
LEMMA PutUnique ==
    ASSUME Unique, NEW i, NEW r, tunnels' = Put(i, r),
           \A f \in Checks : ~Clash(r, f, i)
    PROVE  Unique'
<1> SUFFICES ASSUME NEW j \in DOMAIN tunnels', NEW k \in DOMAIN tunnels', j # k
             PROVE  Apart(j, k)'
  BY DEF Unique
<1>1. DOMAIN tunnels' = DOMAIN tunnels \cup {i}
  BY DEF Put
<1>2. \A m \in DOMAIN tunnels' : tunnels'[m] = IF m = i THEN r ELSE tunnels[m]
  BY DEF Put
<1>3. \A m \in DOMAIN tunnels \ {i} :
         /\ ~(tunnels[m].gw = r.gw /\ tunnels[m].name = r.name)
         /\ ~(r.domain # "none" /\ tunnels[m].domain = r.domain)
         /\ ~(r.port # 0 /\ tunnels[m].port = r.port)
  BY DEF Clash, Checks, Fields
<1>4. CASE j = i
  BY <1>1, <1>2, <1>3, <1>4 DEF Apart
<1>5. CASE k = i
  BY <1>1, <1>2, <1>3, <1>5 DEF Apart
<1>6. CASE j # i /\ k # i
  <2>1. j \in DOMAIN tunnels /\ k \in DOMAIN tunnels /\ Apart(j, k)
    BY <1>1, <1>6 DEF Unique
  <2> QED
    BY <1>2, <1>6, <2>1 DEF Apart
<1> QED
  BY <1>4, <1>5, <1>6

(* The request is over: nothing is left to trust.                           *)
LEMMA IdleSerial ==
    ASSUME TypeOK, Serial, NEW h \in Handlers,
           Refuse(h) \/ (/\ tunnels' = tunnels /\ op' = [op EXCEPT ![h] = Idle]
                         /\ overlapped' = overlapped /\ undisturbed' = undisturbed)
    PROVE  Serial'
<1>1. Trusted(Idle)
  BY DEF Trusted, Idle
<1> QED
  BY <1>1, ContinueSerial DEF Refuse, Continue

(* The requests that start: what they will not look up cannot clash.        *)
LEMMA CreateStartSerial ==
    ASSUME TypeOK, Serial, NEW h \in Handlers, NEW r \in NewTunnels, CreateStart(h, r)
    PROVE  Serial'
<1> DEFINE q == [Idle EXCEPT !.pc = "check", !.row = r, !.n = PortMin,
                   !.todo = {"name"} \cup IF r.type = "http" THEN {"domain"}
                                           ELSE IF r.port # 0 THEN {"port"} ELSE {}]
<1>1. q.pc = "check" /\ q.row = r /\ q.id = "none" /\ "name" \in q.todo
  BY DEF Idle
<1>2. "domain" \in q.todo \/ r.domain = "none"
  BY DEF Idle, NewTunnels
<1>3. "port" \in q.todo \/ r.port = 0
  BY DEF Idle, NewTunnels
<1>4. Start(h, q)
  BY DEF CreateStart
<1> HIDE DEF q
<1>5. Trusted(q)
  BY <1>1, <1>2, <1>3 DEF Trusted, Clash, Checks, Fields
<1> QED
  BY <1>4, <1>5, ContinueSerial DEF Start

(* A publish has looked up nothing yet.                                    *)
LEMMA PublishStartSerial ==
    ASSUME TypeOK, Serial, NEW h \in Handlers, NEW g \in Gateways, NEW s \in Slugs,
           PublishStart(h, g, s)
    PROVE  Serial'
<1> DEFINE q == [Idle EXCEPT !.pc = "resolve", !.row = Published(g, s), !.n = 1]
<1>1. q.pc = "resolve" /\ q.row.port = 0 /\ q.id = "none"
  BY DEF Idle, Published
<1>2. Start(h, q)
  BY DEF PublishStart
<1> HIDE DEF q
<1>3. Trusted(q)
  BY <1>1 DEF Trusted
<1> QED
  BY <1>2, <1>3, ContinueSerial DEF Start

(* An update need not look up what the row already has, nor an empty       *)
(* value.                                                                  *)
LEMMA UpdateStartSerial ==
    ASSUME TypeOK, Serial, NEW h \in Handlers, NEW i \in Ids, NEW chg \in SUBSET Fields,
           NEW d \in Domains, NEW p \in Ports, UpdateStart(h, i, chg, d, p)
    PROVE  Serial'
<1> DEFINE r == [tunnels[i] EXCEPT !.domain = d, !.port = p]
<1> DEFINE q == [Idle EXCEPT !.pc = "check", !.id = i, !.chg = chg, !.row = r,
                   !.todo = {f \in chg :
                       \/ f = "domain" /\ d \notin {"none", tunnels[i].domain}
                       \/ f = "port" /\ p \notin {0, tunnels[i].port}}]
<1>1. i \in DOMAIN tunnels /\ tunnels[i] \in Row
  BY DEF UpdateStart, TypeOK
<1>2. r.gw = tunnels[i].gw /\ r.name = tunnels[i].name /\ r.domain = d /\ r.port = p
  BY <1>1 DEF Row
<1>3. Start(h, q)
  BY DEF UpdateStart
<1>4. "domain" \in q.todo \/ d \in {"none", tunnels[i].domain}
  BY DEF Idle, UpdateStart
<1>5. "port" \in q.todo \/ p \in {0, tunnels[i].port}
  BY DEF Idle, UpdateStart
<1>6. q.pc = "check" /\ q.id = i /\ q.row = r
  BY DEF Idle
<1> HIDE DEF q, r
<1>7. ASSUME Unique PROVE Trusted(q)
  <2>1. ASSUME NEW f \in Checks \ q.todo PROVE ~Clash(r, f, i)
    <3>1. \A j \in DOMAIN tunnels \ {i} : Apart(j, i)
      BY <1>1, <1>7 DEF Unique
    <3>2. CASE f = "name"
      BY <1>2, <3>1, <3>2 DEF Clash, Apart
    <3>3. CASE f = "domain"
      BY <1>2, <1>4, <2>1, <3>1, <3>3 DEF Clash, Apart
    <3>4. CASE f = "port"
      BY <1>2, <1>5, <2>1, <3>1, <3>4 DEF Clash, Apart
    <3> QED
      BY <3>2, <3>3, <3>4 DEF Checks, Fields
  <2> QED
    BY <1>1, <1>2, <1>6, <2>1 DEF Trusted
<1>8. ~overlapped => Unique
  BY DEF Serial
<1> QED
  BY <1>3, <1>7, <1>8, ContinueSerial DEF Start

(* A request that goes on trusts what it has looked up.                     *)
LEMMA ResolveSerial ==
    ASSUME TypeOK, Serial, NEW h \in Handlers, ResolveDomain(h)
    PROVE  Serial'
<1>0. op[h] \in Request /\ op[h].pc = "resolve"
      /\ (~overlapped /\ h \in undisturbed => Trusted(op[h]))
  BY DEF TypeOK, Serial, ResolveDomain
<1>1. CASE /\ ~DomainExists(op[h].row.domain)
           /\ Continue(h, [op[h] EXCEPT !.pc = "check", !.todo = {"name", "domain"}])
  <2> DEFINE q == [op[h] EXCEPT !.pc = "check", !.todo = {"name", "domain"}]
  <2>1. q.pc = "check" /\ q.todo = {"name", "domain"} /\ q.row = op[h].row /\ q.id = op[h].id
    BY <1>0 DEF Request
  <2>2. Continue(h, q)
    BY <1>1
  <2> HIDE DEF q
  <2>3. Trusted(op[h]) => Trusted(q)
    BY <1>0, <2>1 DEF Trusted, Clash, Checks, Fields
  <2> QED
    BY <1>0, <2>2, <2>3, ContinueSerial DEF Continue, TypeOK
<1>2. ASSUME NEW s \in Slugs,
             Continue(h, [op[h] EXCEPT !.row = Published(op[h].row.gw, s), !.n = @ + 1])
      PROVE  Serial'
  <2> DEFINE q == [op[h] EXCEPT !.row = Published(op[h].row.gw, s), !.n = @ + 1]
  <2>1. q.pc = "resolve" /\ q.row.port = 0 /\ q.id = op[h].id
    BY <1>0 DEF Request, Published
  <2>2. Continue(h, q)
    BY <1>2
  <2> HIDE DEF q
  <2>3. Trusted(op[h]) => Trusted(q)
    BY <1>0, <2>1 DEF Trusted
  <2> QED
    BY <1>0, <2>2, <2>3, ContinueSerial DEF Continue, TypeOK
<1>3. CASE Refuse(h)
  BY <1>3, IdleSerial
<1> QED
  BY <1>1, <1>2, <1>3 DEF ResolveDomain

(* A lookup that finds nothing makes its field trusted.                    *)
LEMMA CheckSerial ==
    ASSUME TypeOK, Serial, NEW h \in Handlers, NEW f \in Checks, Check(h, f)
    PROVE  Serial'
<1> DEFINE q == [op[h] EXCEPT !.todo = @ \ {f}]
<1>0. op[h] \in Request /\ op[h].pc = "check"
      /\ (~overlapped /\ h \in undisturbed => Trusted(op[h]))
  BY DEF TypeOK, Serial, Check
<1>1. CASE Refuse(h)
  BY <1>1, IdleSerial
<1>2. CASE ~Taken(op[h].row, f) /\ Continue(h, q)
  <2>1. /\ q.pc = "check" /\ q.todo = op[h].todo \ {f}
        /\ q.row = op[h].row /\ q.id = op[h].id
    BY <1>0 DEF Request
  <2>2. ~Clash(q.row, f, q.id)
    BY <1>2, <2>1, FreeNoClash
  <2> HIDE DEF q
  <2>3. Trusted(op[h]) => Trusted(q)
    BY <1>0, <2>1, <2>2 DEF Trusted
  <2> QED
    BY <1>0, <1>2, <2>3, ContinueSerial DEF Continue, TypeOK
<1> QED
  BY <1>1, <1>2 DEF Check

(* A port found free by the scan clashes with no row.                      *)
LEMMA ScanSerial ==
    ASSUME TypeOK, Serial, NEW h \in Handlers, ScanPort(h)
    PROVE  Serial'
<1>0. /\ op[h] \in Request /\ op[h].pc = "check" /\ op[h].todo = {} /\ op[h].id = "none"
      /\ op[h].row \in Row
      /\ ~overlapped /\ h \in undisturbed => Trusted(op[h])
  BY DEF TypeOK, Serial, ScanPort, Checked, Creating
<1>1. CASE Refuse(h)
  BY <1>1, IdleSerial
<1>2. CASE op[h].n <= PortMax /\ Continue(h, [op[h] EXCEPT !.n = @ + 1])
  <2> DEFINE q == [op[h] EXCEPT !.n = @ + 1]
  <2>1. /\ q.pc = op[h].pc /\ q.todo = op[h].todo /\ q.row = op[h].row /\ q.id = op[h].id
    BY <1>0 DEF Request
  <2>2. Continue(h, q)
    BY <1>2
  <2> HIDE DEF q
  <2>3. Trusted(op[h]) => Trusted(q)
    BY <1>0, <2>1 DEF Trusted
  <2> QED
    BY <1>0, <2>2, <2>3, ContinueSerial DEF Continue, TypeOK
<1>3. CASE /\ op[h].n <= PortMax /\ ~RemotePortExists(op[h].n)
           /\ Continue(h, [op[h] EXCEPT !.row.port = op[h].n])
  <2> DEFINE r == [op[h].row EXCEPT !.port = op[h].n]
  <2> DEFINE q == [op[h] EXCEPT !.row = r]
  <2>1. /\ r.gw = op[h].row.gw /\ r.name = op[h].row.name
        /\ r.domain = op[h].row.domain /\ r.port = op[h].n
    BY <1>0 DEF Row
  <2>2. q.pc = op[h].pc /\ q.todo = {} /\ q.row = r /\ q.id = "none"
    BY <1>0 DEF Request
  <2>3. Continue(h, q)
    BY <1>3
  <2>4. ~RemotePortExists(r.port)
    BY <1>3, <2>1
  <2> HIDE DEF q, r
  <2>5. Trusted(op[h]) => Trusted(q)
    BY <1>0, <2>1, <2>2, <2>4 DEF Trusted, Clash, RemotePortExists, Checks, Fields
  <2> QED
    BY <1>0, <2>3, <2>5, ContinueSerial DEF Continue, TypeOK
<1> QED
  BY <1>1, <1>2, <1>3 DEF ScanPort

(* The row an update reads again differs from the table only in the fields  *)
(* it was given, and those it has looked up.                                *)
LEMMA ReadSerial ==
    ASSUME TypeOK, Serial, NEW h \in Handlers, ReadRow(h)
    PROVE  Serial'
<1>0. /\ op[h] \in Request /\ op[h].pc = "check" /\ op[h].todo = {} /\ op[h].id # "none"
      /\ ~overlapped /\ h \in undisturbed => Trusted(op[h]) /\ Unique
  BY DEF TypeOK, Serial, ReadRow, Checked, Creating
<1> DEFINE i == op[h].id
<1> DEFINE r == [tunnels[i] EXCEPT
                   !.domain = IF Given(h, "domain") THEN op[h].row.domain ELSE @,
                   !.port = IF Given(h, "port") THEN op[h].row.port ELSE @]
<1> DEFINE q == [op[h] EXCEPT !.pc = "write", !.row = r]
<1>1. CASE Refuse(h)
  BY <1>1, IdleSerial
<1>2. CASE i \in DOMAIN tunnels /\ Continue(h, q)
  <2>1. tunnels[i] \in Row
    BY <1>2 DEF TypeOK
  <2>2. /\ r.gw = tunnels[i].gw /\ r.name = tunnels[i].name
        /\ r.domain \in {tunnels[i].domain, op[h].row.domain}
        /\ r.port \in {tunnels[i].port, op[h].row.port}
    BY <2>1 DEF Row
  <2> HIDE DEF r
  <2>3. q.pc = "write" /\ q.todo = {} /\ q.row = r /\ q.id = i /\ i # "none"
    BY <1>0 DEF Request
  <2> HIDE DEF q
  <2>4. ASSUME Trusted(op[h]), Unique PROVE Trusted(q)
    <3>1. \A f \in Checks : ~Clash(op[h].row, f, i)
      BY <1>0, <2>4 DEF Trusted
    <3>2. \A j \in DOMAIN tunnels \ {i} : Apart(j, i)
      BY <1>2, <2>4 DEF Unique
    <3>3. ~Clash(r, "name", i)
      BY <2>2, <3>2 DEF Clash, Apart
    <3>4. ~Clash(r, "domain", i)
      BY <2>2, <3>1, <3>2 DEF Clash, Apart, Checks, Fields
    <3>5. ~Clash(r, "port", i)
      BY <2>2, <3>1, <3>2 DEF Clash, Apart, Checks, Fields
    <3> QED
      BY <1>2, <2>2, <2>3, <3>3, <3>4, <3>5 DEF Trusted, Checks, Fields
  <2> QED
    BY <1>0, <1>2, <2>4, ContinueSerial DEF Continue, TypeOK
<1> QED
  BY <1>1, <1>2 DEF ReadRow

(* The three writes.                                                        *)
LEMMA InsertSerial ==
    ASSUME TypeOK, Serial, NEW h \in Handlers, InsertRow(h)
    PROVE  Serial'
<1> PICK i \in Ids \ used : Write(h, Put(i, op[h].row))
  BY DEF InsertRow
<1>1. ASSUME ~overlapped, h \in undisturbed PROVE Unique'
  <2>1. Unique /\ Trusted(op[h])
    BY <1>1 DEF Serial
  <2>2. \A f \in Checks : ~Clash(op[h].row, f, "none")
    BY <2>1 DEF Trusted, InsertRow, Checked, Creating
  <2>3. \A f \in Checks : ~Clash(op[h].row, f, i)
    BY <2>2, DataAssumption DEF Clash, TypeOK
  <2> QED
    BY <2>1, <2>3, PutUnique DEF Write
<1> QED
  BY <1>1, WriteSerial

(* An update that trusts its row keeps the rows apart; a delete always     *)
(* does.                                                                   *)
LEMMA UpdateDeleteSerial ==
    ASSUME TypeOK, Serial, NEW h \in Handlers, WriteRow(h) \/ DeleteRow(h)
    PROVE  Serial'
<1>1. CASE op[h].pc = "write" /\ Write(h, Put(op[h].id, op[h].row))
  <2>1. ASSUME ~overlapped, h \in undisturbed PROVE Unique'
    <3>1. Unique /\ Trusted(op[h])
      BY <2>1 DEF Serial
    <3>2. \A f \in Checks : ~Clash(op[h].row, f, op[h].id)
      BY <1>1, <3>1 DEF Trusted
    <3> QED
      BY <1>1, <3>1, <3>2, PutUnique DEF Write
  <2> QED
    BY <1>1, <2>1, WriteSerial
<1>2. CASE Write(h, Without(op[h].id))
  <2>1. Unique => Unique'
    BY <1>2 DEF Write, Without, Unique, Apart
  <2> QED
    BY <1>2, <2>1, WriteSerial DEF Serial
<1>3. CASE WriteNothing(h)
  <2> DEFINE q == [op[h] EXCEPT !.pc = "bump"]
  <2>1. q.pc = "bump"
    BY DEF TypeOK, Request
  <2>2. Continue(h, q)
    BY <1>3 DEF WriteNothing
  <2> HIDE DEF q
  <2>3. Trusted(q)
    BY <2>1 DEF Trusted
  <2> QED
    BY <2>2, <2>3, ContinueSerial DEF Continue, TypeOK
<1> QED
  BY <1>1, <1>2, <1>3 DEF WriteRow, DeleteRow

(* A delete has nothing to trust.                                          *)
LEMMA DeleteStartSerial ==
    ASSUME TypeOK, Serial, NEW h \in Handlers, NEW i \in Ids, DeleteStart(h, i)
    PROVE  Serial'
<1> DEFINE q == [Idle EXCEPT !.pc = "delete", !.id = i, !.row = tunnels[i]]
<1>1. Trusted(q) /\ Start(h, q)
  BY DEF Idle, Trusted, DeleteStart
<1> HIDE DEF q
<1> QED
  BY <1>1, ContinueSerial DEF Start

(* Every step keeps Serial.                                                 *)
LEMMA SerialStep == TypeOK /\ Serial /\ [Next]_vars => Serial'
<1> SUFFICES ASSUME TypeOK, Serial, [Next]_vars PROVE Serial'
  OBVIOUS
<1>1. CASE UNCHANGED vars
  BY <1>1 DEF vars, Serial, Unique, Apart, Trusted, Clash
<1>2. ASSUME NEW h \in Handlers, Step(h) PROVE Serial'
  <2>1. CASE Bump(h)
    BY <2>1, IdleSerial DEF Bump
  <2>2. CASE Fail(h)
    BY <2>2, IdleSerial DEF Fail, Refuse, Continue
  <2> QED
    BY <1>2, <2>1, <2>2, ResolveSerial, ScanSerial, InsertSerial, CheckSerial,
       ReadSerial, UpdateDeleteSerial DEF Step
<1> QED
  BY <1>1, <1>2, CreateStartSerial, PublishStartSerial, UpdateStartSerial,
     DeleteStartSerial DEF Next

-----------------------------------------------------------------------------
(* The port scan.                                                          *)

ScanInv == \A h \in undisturbed : Scanned(op[h])

(* A request that goes on without writing, or starts, and is Scanned.       *)
LEMMA ContinueScan ==
    ASSUME TypeOK, ScanInv, NEW h \in Handlers, NEW q, op' = [op EXCEPT ![h] = q],
           tunnels' = tunnels, undisturbed' \subseteq undisturbed \cup {h},
           h \in undisturbed' => Scanned(q)
    PROVE  ScanInv'
<1> SUFFICES ASSUME NEW k \in undisturbed' PROVE Scanned(op[k])'
  BY DEF ScanInv
<1>1. k \in Handlers /\ op'[k] = IF k = h THEN q ELSE op[k]
  BY DEF TypeOK
<1>2. CASE k = h
  BY <1>1, <1>2 DEF Scanned, RemotePortExists
<1>3. CASE k # h
  BY <1>1, <1>3 DEF ScanInv, Scanned, RemotePortExists
<1> QED
  BY <1>2, <1>3

(* A request past its checks, or none.                                      *)
LEMMA LeaveScan ==
    ASSUME TypeOK, ScanInv, NEW h \in Handlers, NEW q, q.pc \notin {"resolve", "check"},
           op' = [op EXCEPT ![h] = q],
           \/ tunnels' = tunnels /\ undisturbed' \subseteq undisturbed \cup {h}
           \/ undisturbed' \subseteq {h}
    PROVE  ScanInv'
<1>1. Scanned(q)
  BY DEF Scanned
<1>2. ASSUME undisturbed' \subseteq {h} PROVE ScanInv'
  BY <1>1, <1>2 DEF ScanInv, Scanned, TypeOK
<1> QED
  BY <1>1, <1>2, ContinueScan

(* The writing step, and an update or delete that matches no row.           *)
LEMMA WriteScan ==
    ASSUME TypeOK, ScanInv, NEW h \in Handlers,
           (\E table : Write(h, table)) \/ WriteNothing(h)
    PROVE  ScanInv'
<1> DEFINE q == [op[h] EXCEPT !.pc = "bump"]
<1>1. q.pc = "bump"
  BY DEF TypeOK, Request
<1>2. op' = [op EXCEPT ![h] = q]
  BY DEF Write, WriteNothing, Continue
<1> HIDE DEF q
<1> QED
  BY <1>1, <1>2, LeaveScan DEF Write, WriteNothing, Continue

(* The requests that start: a create has passed no port yet.                *)
LEMMA StartScan ==
    ASSUME TypeOK, ScanInv, NEW h \in Handlers, NEW q, Start(h, q), Scanned(q)
    PROVE  ScanInv'
  BY ContinueScan DEF Start

(* Every step of the scan passes a port that is taken, or takes one.        *)
LEMMA PortScan ==
    ASSUME TypeOK, ScanInv, NEW h \in Handlers, ScanPort(h)
    PROVE  ScanInv'
<1>0. op[h] \in Request /\ op[h].pc = "check" /\ op[h].row \in Row /\ op[h].n \in Nat
  BY DEF TypeOK, ScanPort, Checked, Request
<1>1. CASE Refuse(h)
  BY <1>1, LeaveScan, IdleType DEF Refuse, Continue
<1>2. CASE RemotePortExists(op[h].n) /\ Continue(h, [op[h] EXCEPT !.n = @ + 1])
  <2> DEFINE q == [op[h] EXCEPT !.n = @ + 1]
  <2>1. q.pc = "check" /\ q.row = op[h].row /\ q.id = op[h].id /\ q.n = op[h].n + 1
    BY <1>0 DEF Request
  <2>2. Continue(h, q)
    BY <1>2
  <2> HIDE DEF q
  <2>3. ASSUME h \in undisturbed PROVE Scanned(q)
    <3>1. Scanned(op[h])
      BY <2>3 DEF ScanInv
    <3>2. \A p \in PortMin..(q.n - 1) : p \in PortMin..(op[h].n - 1) \/ p = op[h].n
      BY <1>0, <2>1, PortAssumption
    <3> QED
      BY <1>0, <1>2, <2>1, <3>1, <3>2 DEF Scanned
  <2> QED
    BY <2>2, <2>3, ContinueScan DEF Continue
<1>3. CASE Continue(h, [op[h] EXCEPT !.row.port = op[h].n])
  <2> DEFINE r == [op[h].row EXCEPT !.port = op[h].n]
  <2> DEFINE q == [op[h] EXCEPT !.row = r]
  <2>1. r.port = op[h].n /\ r.type = op[h].row.type
    BY <1>0 DEF Row
  <2>2. q.pc = "check" /\ q.row = r /\ q.id = op[h].id /\ q.n = op[h].n
    BY <1>0 DEF Request
  <2>3. Continue(h, q)
    BY <1>3
  <2> HIDE DEF r, q
  <2>4. Scanned(q)
    BY <1>0, <2>1, <2>2, PortAssumption DEF Scanned
  <2> QED
    BY <2>3, <2>4, ContinueScan DEF Continue
<1> QED
  BY <1>1, <1>2, <1>3 DEF ScanPort

(* Every step of a request keeps what the scans have found.                 *)
LEMMA WorkScan ==
    ASSUME TypeOK, ScanInv, NEW h \in Handlers, Step(h)
    PROVE  ScanInv'
<1>0. op[h] \in Request
  BY DEF TypeOK
<1>1. CASE Refuse(h)
  BY <1>1, LeaveScan, IdleType DEF Refuse, Continue
<1>2. CASE ResolveDomain(h)
  <2>1. CASE Continue(h, [op[h] EXCEPT !.pc = "check", !.todo = {"name", "domain"}])
    <3> DEFINE q == [op[h] EXCEPT !.pc = "check", !.todo = {"name", "domain"}]
    <3>1. q.pc = "check" /\ q.row = op[h].row
      BY <1>0 DEF Request
    <3>2. Continue(h, q) /\ op[h].pc = "resolve"
      BY <1>2, <2>1 DEF ResolveDomain
    <3> HIDE DEF q
    <3>3. ASSUME h \in undisturbed PROVE Scanned(q)
      BY <3>1, <3>2, <3>3 DEF ScanInv, Scanned
    <3> QED
      BY <3>2, <3>3, ContinueScan DEF Continue
  <2>2. ASSUME NEW s \in Slugs,
               Continue(h, [op[h] EXCEPT !.row = Published(op[h].row.gw, s), !.n = @ + 1])
        PROVE  ScanInv'
    <3> DEFINE q == [op[h] EXCEPT !.row = Published(op[h].row.gw, s), !.n = @ + 1]
    <3>1. q.pc = "resolve" /\ q.row.type = "http"
      BY <1>0, <1>2 DEF Request, Published, ResolveDomain
    <3>2. Continue(h, q)
      BY <2>2
    <3> HIDE DEF q
    <3>3. Scanned(q)
      BY <3>1 DEF Scanned
    <3> QED
      BY <3>2, <3>3, ContinueScan DEF Continue
  <2> QED
    BY <1>1, <1>2, <2>1, <2>2 DEF ResolveDomain
<1>3. ASSUME NEW f \in Checks, Check(h, f) PROVE ScanInv'
  <2> DEFINE q == [op[h] EXCEPT !.todo = @ \ {f}]
  <2>1. q.pc = op[h].pc /\ q.row = op[h].row /\ q.id = op[h].id /\ q.n = op[h].n
    BY <1>0 DEF Request
  <2> HIDE DEF q
  <2>2. ASSUME Continue(h, q), op[h].pc = "check" PROVE ScanInv'
    <3>1. ASSUME h \in undisturbed PROVE Scanned(q)
      BY <2>1, <3>1 DEF ScanInv, Scanned
    <3> QED
      BY <2>2, <3>1, ContinueScan DEF Continue
  <2> QED
    BY <1>1, <1>3, <2>2 DEF Check, q
<1>4. CASE ReadRow(h)
  <2> DEFINE r == [tunnels[op[h].id] EXCEPT
                     !.domain = IF Given(h, "domain") THEN op[h].row.domain ELSE @,
                     !.port = IF Given(h, "port") THEN op[h].row.port ELSE @]
  <2> DEFINE q == [op[h] EXCEPT !.pc = "write", !.row = r]
  <2>1. q.pc = "write"
    BY <1>0 DEF Request
  <2>2. Refuse(h) \/ Continue(h, q)
    BY <1>4 DEF ReadRow
  <2> HIDE DEF q
  <2> QED
    BY <1>1, <2>1, <2>2, LeaveScan DEF Continue
<1>5. CASE InsertRow(h) \/ WriteRow(h) \/ DeleteRow(h)
  BY <1>5, WriteScan DEF InsertRow, WriteRow, DeleteRow
<1>6. CASE Bump(h)
  BY <1>6, LeaveScan, IdleType DEF Bump
<1> QED
  BY <1>1, <1>2, <1>3, <1>4, <1>5, <1>6, PortScan DEF Step, Fail

(* Every step keeps what the scans of undisturbed requests have found.      *)
LEMMA ScanStep == TypeOK /\ ScanInv /\ [Next]_vars => ScanInv'
<1> SUFFICES ASSUME TypeOK, ScanInv, [Next]_vars PROVE ScanInv'
  OBVIOUS
<1>1. CASE UNCHANGED vars
  BY <1>1 DEF vars, ScanInv, Scanned, RemotePortExists
<1>2. ASSUME NEW h \in Handlers, NEW r \in NewTunnels, CreateStart(h, r) PROVE ScanInv'
  <2> DEFINE q == [Idle EXCEPT !.pc = "check", !.row = r, !.n = PortMin,
                     !.todo = {"name"} \cup IF r.type = "http" THEN {"domain"}
                                             ELSE IF r.port # 0 THEN {"port"} ELSE {}]
  <2>1. q.pc = "check" /\ q.n = PortMin /\ Start(h, q)
    BY <1>2 DEF Idle, CreateStart
  <2> HIDE DEF q
  <2>2. Scanned(q)
    BY <2>1, PortAssumption DEF Scanned
  <2> QED
    BY <2>1, <2>2, StartScan
<1>3. ASSUME NEW h \in Handlers, NEW g \in Gateways, NEW s \in Slugs, PublishStart(h, g, s)
      PROVE  ScanInv'
  <2> DEFINE q == [Idle EXCEPT !.pc = "resolve", !.row = Published(g, s), !.n = 1]
  <2>1. Scanned(q) /\ Start(h, q)
    BY <1>3 DEF Idle, Published, PublishStart, Scanned
  <2> HIDE DEF q
  <2> QED
    BY <2>1, StartScan
<1>4. ASSUME NEW h \in Handlers, NEW i \in Ids, NEW chg \in SUBSET Fields,
             NEW d \in Domains, NEW p \in Ports, UpdateStart(h, i, chg, d, p)
      PROVE  ScanInv'
  <2> DEFINE q == [Idle EXCEPT !.pc = "check", !.id = i, !.chg = chg,
                     !.row = [tunnels[i] EXCEPT !.domain = d, !.port = p],
                     !.todo = {f \in chg :
                         \/ f = "domain" /\ d \notin {"none", tunnels[i].domain}
                         \/ f = "port" /\ p \notin {0, tunnels[i].port}}]
  <2>1. q.pc = "check" /\ q.id = i /\ Start(h, q)
    BY <1>4 DEF Idle, UpdateStart
  <2> HIDE DEF q
  <2>2. Scanned(q)
    BY <2>1, DataAssumption DEF Scanned
  <2> QED
    BY <2>1, <2>2, StartScan
<1>5. ASSUME NEW h \in Handlers, NEW i \in Ids, DeleteStart(h, i) PROVE ScanInv'
  <2> DEFINE q == [Idle EXCEPT !.pc = "delete", !.id = i, !.row = tunnels[i]]
  <2>1. Scanned(q) /\ Start(h, q)
    BY <1>5 DEF Idle, DeleteStart, Scanned
  <2> HIDE DEF q
  <2> QED
    BY <2>1, StartScan
<1> QED
  BY <1>1, <1>2, <1>3, <1>4, <1>5, WorkScan DEF Next

-----------------------------------------------------------------------------
(* Theorems.                                                               *)

(* As long as no request has written after another one did, rows are unique *)
(* and every undisturbed request can rely on the lookups it has made; its    *)
(* port scan has passed taken ports only.                                    *)
THEOREM SerialInductive == Spec => []SerialInv
<1>1. Init => SerialInv
  <2>1. Init => Serial /\ ScanInv
    BY DEF Init, Serial, Unique, ScanInv
  <2> QED
    BY <2>1, TypeInit DEF SerialInv, ScanInv
<1>2. SerialInv /\ [Next]_vars => SerialInv'
  BY TypeStep, SerialStep, ScanStep DEF SerialInv, ScanInv
<1> QED
  BY <1>1, <1>2, PTL DEF Spec

(* Duplicate names, domains and ports come from overlapping requests only.  *)
THEOREM SerialUniqueTheorem == Spec => []SerialUnique
<1>1. SerialInv => SerialUnique
  BY DEF SerialInv, Serial, SerialUnique
<1> QED
  BY <1>1, SerialInductive, PTL

(* A create that nobody disturbed is refused a port only when none is free. *)
THEOREM ExhaustedOnlyTheorem == Spec => ExhaustedOnly
<1>1. ASSUME SerialInv, NEW h \in undisturbed, ScanPort(h), op'[h].pc = "idle",
             NEW p \in PortMin..PortMax
      PROVE  RemotePortExists(p)
  <2>0. /\ h \in Handlers /\ op[h] \in Request /\ op \in [Handlers -> Request]
        /\ op[h].pc = "check" /\ op[h].n \in Nat /\ Scanned(op[h])
    BY <1>1 DEF SerialInv, TypeOK, ScanPort, Checked, Request
  <2>1. ASSUME NEW q, Continue(h, q), q.pc = "check" PROVE FALSE
    BY <1>1, <2>0, <2>1 DEF Continue
  <2>2. /\ [op[h] EXCEPT !.n = @ + 1].pc = "check"
        /\ [op[h] EXCEPT !.row.port = op[h].n].pc = "check"
    BY <2>0 DEF Request
  <2>3. op[h].n > PortMax
    BY <1>1, <2>1, <2>2 DEF ScanPort
  <2>4. p \in PortMin..(op[h].n - 1)
    BY <2>0, <2>3, PortAssumption
  <2> QED
    BY <1>1, <2>0, <2>4 DEF Scanned, ScanPort, Creating, NeedsPort
<1>2. SerialInv /\ [Next]_vars =>
        [\A h \in undisturbed : ScanPort(h) /\ op'[h].pc = "idle"
            => \A p \in PortMin..PortMax : RemotePortExists(p)]_vars
  BY <1>1
<1> QED
  BY <1>2, SerialInductive, PTL DEF Spec, ExhaustedOnly

-----------------------------------------------------------------------------
(* What the renderer makes of the table.                                   *)

(* A step adds or changes one row, removes one, or leaves the table alone.  *)
LEMMA TableMoves ==
    ASSUME [Next]_vars
    PROVE  \/ tunnels' = tunnels
           \/ \E i, r : tunnels' = Put(i, r)
           \/ \E i : tunnels' = Without(i)
<1>1. ASSUME NEW h, NEW q, Start(h, q) PROVE tunnels' = tunnels
  BY <1>1 DEF Start
<1>2. ASSUME NEW h, NEW q, Continue(h, q) PROVE tunnels' = tunnels
  BY <1>2 DEF Continue
<1>3. ASSUME NEW h, NEW t, Write(h, t) PROVE tunnels' = t
  BY <1>3 DEF Write
<1>4. ASSUME NEW h, InsertRow(h) \/ WriteRow(h) \/ DeleteRow(h)
      PROVE  \/ tunnels' = tunnels
             \/ \E i, r : tunnels' = Put(i, r)
             \/ \E i : tunnels' = Without(i)
  BY <1>2, <1>3, <1>4 DEF InsertRow, WriteRow, DeleteRow, WriteNothing
<1>5. ASSUME NEW h, Step(h), ~InsertRow(h), ~WriteRow(h), ~DeleteRow(h)
      PROVE  tunnels' = tunnels
  BY <1>2, <1>5 DEF Step, ResolveDomain, ScanPort, Check, ReadRow, Bump, Fail, Refuse
<1>6. CASE UNCHANGED vars
  BY <1>6 DEF vars
<1>7. CASE Next
  BY <1>1, <1>4, <1>5, <1>7 DEF Next, CreateStart, PublishStart, UpdateStart, DeleteStart
<1> QED
  BY <1>6, <1>7

(* The table is finite.                                                     *)
Finite == IsFiniteSet(DOMAIN tunnels)

LEMMA TableFinite == Spec => []Finite
<1>1. Init => Finite
  BY FS_EmptySet DEF Init, Finite
<1>2. ASSUME Finite, [Next]_vars PROVE Finite'
  <2>1. ASSUME NEW i, NEW r, tunnels' = Put(i, r) PROVE Finite'
    BY <1>2, <2>1, FS_AddElement DEF Put, Finite
  <2>2. ASSUME NEW i, tunnels' = Without(i) PROVE Finite'
    BY <1>2, <2>2, FS_RemoveElement DEF Without, Finite
  <2> QED
    BY <1>2, <2>1, <2>2, TableMoves DEF Finite
<1> QED
  BY <1>1, <1>2, PTL DEF Spec

(* A listing has each row of the set once.                                  *)
LEMMA ListedOnce ==
    ASSUME NEW S, IsFiniteSet(S)
    PROVE  /\ SetToSeq(S) \in [1..Cardinality(S) -> S] /\ Cardinality(S) \in Nat
           /\ \A j, k \in 1..Cardinality(S) : SetToSeq(S)[j] = SetToSeq(S)[k] => j = k
           /\ \A i \in S : \E k \in 1..Cardinality(S) : SetToSeq(S)[k] = i
<1> DEFINE n == Cardinality(S)
           f == SetToSeq(S)
<1>1. n \in Nat /\ ExistsBijection(1..n, S)
  BY FS_CardinalityType
<1>2. \E g \in [1..n -> S] : IsInjective(g)
  BY <1>1 DEF ExistsBijection, Bijection, Injection
<1>3. f \in [1..n -> S] /\ IsInjective(f)
  BY <1>2 DEF SetToSeq
<1> HIDE DEF f
<1>4. \A j, k \in 1..n : f[j] = f[k] => j = k
  BY <1>3 DEF IsInjective
<1>5. f \in Surjection(1..n, S)
  <2>1. f \in Injection(1..n, S)
    BY <1>3 DEF Injection
  <2>2. Cardinality(1..n) = n
    BY <1>1, FS_Interval
  <2> QED
    BY <2>1, <2>2, FS_Injection
<1>6. \A i \in S : \E k \in 1..n : f[k] = i
  BY <1>5 DEF Surjection
<1> QED
  BY <1>1, <1>3, <1>4, <1>6 DEF f

(* When no two tunnels of a list share a sanitized name, each valid one     *)
(* with a name left wins its own.                                           *)
LEMMA AllWin ==
    ASSUME NEW ps \in Seq(Proxy),
           \A j, k \in DOMAIN ps : j # k => Sanitized[ps[j].name] # Sanitized[ps[k].name],
           \A k \in DOMAIN ps : Sanitized[ps[k].name] # ""
    PROVE  Winners(ps) = {k \in DOMAIN ps : Valid(ps[k])}
<1> DEFINE V == {k \in DOMAIN ps : Valid(ps[k]) /\ Sanitized[ps[k].name] # ""}
<1>1. V = {k \in DOMAIN ps : Valid(ps[k])}
  OBVIOUS
<1>2. ASSUME NEW k \in V PROVE Winner(ps, Sanitized[ps[k].name]) = k
  <2>1. Claims(ps, Sanitized[ps[k].name]) = {k}
    BY DEF Claims
  <2> QED
    BY <2>1, IsWinner
<1>3. Winners(ps) = {Winner(ps, n) : n \in {Sanitized[ps[k].name] : k \in V}}
  BY DEF Winners
<1> HIDE DEF V
<1>4. Winners(ps) = V
  <2>1. Winners(ps) = {Winner(ps, Sanitized[ps[k].name]) : k \in V}
    BY <1>3
  <2> QED
    BY <1>2, <2>1
<1> QED
  BY <1>1, <1>4

(* The names of a gateway's rows once they are sanitized.                   *)
KeptApart(g) ==
    /\ \A i, j \in Listed(g) : i # j => Sanitized[tunnels[i].name] # Sanitized[tunnels[j].name]
    /\ \A i \in Listed(g) : Sanitized[tunnels[i].name] # ""

(* A gateway's file has a block for each of its rows with a route, if the   *)
(* names of its rows differ once they are sanitized.                        *)
LEMMA BlockEach ==
    ASSUME TypeOK, Finite, NEW g \in Gateways, KeptApart(g)
    PROVE  Len(Toml(g)) = Cardinality({i \in Listed(g) : Routed(i)})
<1> DEFINE L == Listed(g)
           n == Cardinality(L)
           order == SetToSeq(L)
           ps == [k \in 1..n |-> ProxyOf(tunnels[order[k]])]
           blocks == RenderBlocks(ps)
<1>1. IsFiniteSet(L) /\ L \subseteq DOMAIN tunnels
  BY FS_Subset DEF Finite, Listed
<1>2. /\ order \in [1..n -> L] /\ n \in Nat
      /\ \A j, k \in 1..n : order[j] = order[k] => j = k
      /\ \A i \in L : \E k \in 1..n : order[k] = i
  BY <1>1, ListedOnce
<1>3. Toml(g) = blocks
  BY <1>2 DEF Toml
<1> HIDE DEF order, n
<1>4. ASSUME NEW i \in L
      PROVE  /\ ProxyOf(tunnels[i]) \in Proxy /\ ProxyOf(tunnels[i]).name = tunnels[i].name
             /\ Valid(ProxyOf(tunnels[i])) <=> Routed(i)
  <2>1. tunnels[i] \in Row
    BY <1>1 DEF TypeOK
  <2> QED
    BY <2>1, NamesAssumption DEF Row, ProxyOf, Proxy, Valid, Routed
<1>5. /\ ps \in Seq(Proxy) /\ DOMAIN ps = 1..n
      /\ \A k \in 1..n : ps[k] = ProxyOf(tunnels[order[k]])
  <2>1. \A k \in 1..n : order[k] \in L
    BY <1>2
  <2>2. \A k \in 1..n : ProxyOf(tunnels[order[k]]) \in Proxy
    BY <1>4, <2>1
  <2>3. DOMAIN ps = 1..n /\ \A k \in 1..n : ps[k] = ProxyOf(tunnels[order[k]])
    OBVIOUS
  <2>4. ps \in [1..n -> Proxy]
    BY <2>2
  <2> HIDE DEF ps
  <2>5. ps \in Seq(Proxy)
    <3>1. n \in Nat
      BY <1>2
    <3> QED
      BY <2>4, <3>1
  <2> QED
    BY <2>3, <2>5
<1> HIDE DEF ps
<1>6. \A k \in 1..n : order[k] \in L /\ ps[k].name = tunnels[order[k]].name /\ (Valid(ps[k]) <=> Routed(order[k]))
  <2>1. ASSUME NEW k \in 1..n PROVE order[k] \in L /\ ps[k] = ProxyOf(tunnels[order[k]])
    BY <1>2, <1>5
  <2> QED
    BY <1>4, <2>1
<1>7. Winners(ps) = {k \in 1..n : Routed(order[k])}
  <2>1. \A j, k \in DOMAIN ps : j # k => Sanitized[ps[j].name] # Sanitized[ps[k].name]
    <3> SUFFICES ASSUME NEW j \in 1..n, NEW k \in 1..n, j # k
                 PROVE  Sanitized[ps[j].name] # Sanitized[ps[k].name]
      BY <1>5
    <3>1. order[j] # order[k]
      BY <1>2
    <3>2. order[j] \in L /\ order[k] \in L
      BY <1>6
    <3>3. Sanitized[tunnels[order[j]].name] # Sanitized[tunnels[order[k]].name]
      BY <3>1, <3>2 DEF KeptApart
    <3> QED
      BY <1>6, <3>3
  <2>2. \A k \in DOMAIN ps : Sanitized[ps[k].name] # ""
    BY <1>5, <1>6 DEF KeptApart
  <2>3. Winners(ps) = {k \in DOMAIN ps : Valid(ps[k])}
    BY <1>5, <2>1, <2>2, AllWin
  <2> QED
    BY <1>5, <1>6, <2>3
<1> HIDE DEF blocks
<1>8. PICK w \in [1..Len(blocks) -> DOMAIN ps] :
            /\ DOMAIN blocks = 1..Len(blocks) /\ Len(blocks) \in Nat
            /\ Winners(ps) = {w[m] : m \in DOMAIN blocks}
            /\ \A l, m \in DOMAIN blocks : l < m => Before(ps, w[l], w[m])
  BY <1>5, Rendered DEF blocks
<1>0. PICK b \in Nat : b = Len(blocks)
  BY <1>8
<1> DEFINE R == {i \in L : Routed(i)}
           row == [m \in 1..b |-> order[w[m]]]
<1>9. \A m \in 1..b : w[m] \in 1..n /\ row[m] = order[w[m]] /\ w[m] \in Winners(ps)
  BY <1>0, <1>5, <1>8
<1> HIDE DEF row
<1>10. row \in [1..b -> R]
  <2>1. \A m \in 1..b : row[m] \in R
    BY <1>6, <1>7, <1>9
  <2> QED
    BY <2>1 DEF row
<1>11. \A l, m \in 1..b : row[l] = row[m] => l = m
  <2>1. \A l, m \in 1..b : l < m => w[l] # w[m]
    BY <1>0, <1>5, <1>8, <1>9, BeforeOrder
  <2>2. \A l, m \in 1..b : w[l] = w[m] => l = m
    <3>1. \A l, m \in 1..b : l < m \/ m < l \/ l = m
      OBVIOUS
    <3> QED
      BY <2>1, <3>1
  <2> QED
    BY <1>2, <1>9, <2>2
<1>12. \A i \in R : \E m \in 1..b : row[m] = i
  <2> TAKE i \in R
  <2>1. PICK k \in 1..n : order[k] = i
    BY <1>2
  <2>2. k \in Winners(ps)
    BY <1>7, <2>1
  <2>3. PICK m \in 1..b : w[m] = k
    BY <1>0, <1>8, <2>2
  <2> QED
    BY <1>9, <2>1, <2>3
<1>13. ExistsBijection(1..b, R)
  <2>1. row \in Injection(1..b, R)
    BY <1>10, <1>11 DEF Injection, IsInjective
  <2>2. row \in Surjection(1..b, R)
    BY <1>10, <1>12 DEF Surjection
  <2> QED
    BY <2>1, <2>2 DEF ExistsBijection, Bijection
<1>14. IsFiniteSet(1..b) /\ Cardinality(1..b) = b
  BY FS_Interval
<1>15. Cardinality(R) = b
  BY <1>13, <1>14, FS_Bijection
<1> QED
  BY <1>0, <1>3, <1>15

(* When sanitizing keeps names apart and leaves something of each, requests *)
(* that do not overlap leave every row with a route a block of its          *)
(* gateway's file, whatever the tables, names and requests.                 *)
THEOREM SerialBlocksTheorem ==
    ASSUME \A m, n \in Names : Sanitized[m] = Sanitized[n] => m = n,
           \A n \in Names : Sanitized[n] # ""
    PROVE  Spec => []SerialBlocks
<1>1. ASSUME TypeOK, SerialUnique, Finite, ~overlapped, NEW g \in Gateways
      PROVE  Len(Toml(g)) = Cardinality({i \in Listed(g) : Routed(i)})
  <2>1. \A i \in Listed(g) : i \in DOMAIN tunnels /\ tunnels[i].gw = g /\ tunnels[i].name \in Names
    BY <1>1 DEF TypeOK, Row, Listed
  <2>2. \A i, j \in Listed(g) : i # j => tunnels[i].name # tunnels[j].name
    BY <1>1, <2>1 DEF SerialUnique, Unique, Apart
  <2>3. \A i, j \in Listed(g) : i # j => Sanitized[tunnels[i].name] # Sanitized[tunnels[j].name]
    BY <2>1, <2>2
  <2>4. \A i \in Listed(g) : Sanitized[tunnels[i].name] # ""
    BY <2>1
  <2> QED
    BY <1>1, <2>3, <2>4, BlockEach DEF KeptApart
<1>2. TypeOK /\ SerialUnique /\ Finite => SerialBlocks
  BY <1>1 DEF SerialBlocks
<1> QED
  BY <1>2, TypeCorrect, SerialUniqueTheorem, TableFinite, PTL

=============================================================================
