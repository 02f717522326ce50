----------------------------- MODULE TunnelService -----------------------------
(***************************************************************************)
(* The tunnels table of the control API under concurrent requests: create, *)
(* publish, update and delete, each as the SQL statements it executes. The *)
(* schema has no unique index on names, domains or ports; the handlers     *)
(* look first and write later.                                             *)
(*                                                                         *)
(* A domain stands for <slug>.<suffix>; the fields no statement compares   *)
(* (target, enabled, source, expiry) are left out. What follows the bump   *)
(* of a version is the subject of ControlLoop.                             *)
(***************************************************************************)
EXTENDS Integers

CONSTANTS
    Gateways,          \* registered gateways; they are never removed
    Ids,               \* tunnel ids, handed out once each
    Names,             \* tunnel names
    Slugs,             \* the names that are also subdomains
    Handlers,          \* requests in progress at a time
    PortMin, PortMax,  \* tcp_port_min, tcp_port_max
    Tries,             \* candidates resolveDomain looks up
    Failures,          \* whether statements can fail
    MaxOps             \* bound: requests

ASSUME DataAssumption == Slugs \subseteq Names /\ "none" \notin Names \cup Ids

ASSUME PortAssumption == PortMin \in Nat \ {0} /\ PortMax \in Nat /\ PortMin <= PortMax

ASSUME BoundAssumption == Tries \in Nat \ {0} /\ MaxOps \in Nat /\ Failures \in BOOLEAN

VARIABLES
    tunnels,     \* the table: a function from the ids in use to rows
    used,        \* ids handed out so far
    op,          \* each handler's request
    ops,
    undisturbed, \* handlers whose request has seen no other's write
    overlapped   \* some request wrote although another had written meanwhile

vars == <<tunnels, used, op, ops, undisturbed, overlapped>>

Domains == Slugs \cup {"none"}
Ports == {0} \cup 1..(PortMax + 1)

Row == [gw : Gateways, name : Names, type : {"http", "tcp"},
        domain : Domains, port : Ports]

(* The fields an update can name, and the checks a handler has to make.   *)
Fields == {"domain", "port"}
Checks == Fields \cup {"name"}

Blank == [gw |-> "none", name |-> "none", type |-> "none", domain |-> "none", port |-> 0]

Idle == [pc |-> "idle", id |-> "none", row |-> Blank, todo |-> {}, chg |-> {}, n |-> 0]

Request ==
    [pc : {"idle", "resolve", "check", "write", "delete", "bump"},
     id : Ids \cup {"none"}, row : Row \cup {Blank},
     todo : SUBSET Checks, chg : SUBSET Fields, n : Nat]

(* The types; a request at work has a row.                                 *)
TypeOK ==
    /\ DOMAIN tunnels \subseteq used /\ used \subseteq Ids
    /\ \A i \in DOMAIN tunnels : tunnels[i] \in Row
    /\ op \in [Handlers -> Request]
    /\ \A h \in Handlers : op[h].pc # "idle" => op[h].row \in Row
    /\ ops \in 0..MaxOps
    /\ undisturbed \subseteq Handlers /\ overlapped \in BOOLEAN

Init ==
    /\ tunnels = [i \in {} |-> Blank] /\ used = {}
    /\ op = [h \in Handlers |-> Idle] /\ ops = 0
    /\ undisturbed = {} /\ overlapped = FALSE

-----------------------------------------------------------------------------
(* Lookups.                                                                *)

\* Defect: only tunnels of the same type are looked at.
SameTypeNameExists(r) == \E i \in DOMAIN tunnels :
    tunnels[i].gw = r.gw /\ tunnels[i].type = r.type /\ tunnels[i].name = r.name

TunnelNameExists(r) == \E i \in DOMAIN tunnels :
    tunnels[i].gw = r.gw /\ tunnels[i].name = r.name

DomainExists(d) == d # "none" /\ \E i \in DOMAIN tunnels : tunnels[i].domain = d

RemotePortExists(p) == p # 0 /\ \E i \in DOMAIN tunnels : tunnels[i].port = p

Taken(r, f) ==
    \/ f = "name" /\ TunnelNameExists(r)
    \/ f = "domain" /\ DomainExists(r.domain)
    \/ f = "port" /\ RemotePortExists(r.port)

-----------------------------------------------------------------------------
(* Steps common to the handlers.                                           *)

Start(h, request) ==
    /\ op[h].pc = "idle" /\ ops < MaxOps
    /\ op' = [op EXCEPT ![h] = request]
    /\ ops' = ops + 1
    /\ undisturbed' = undisturbed \cup {h}
    /\ UNCHANGED <<tunnels, used, overlapped>>

Continue(h, request) ==
    /\ op' = [op EXCEPT ![h] = request]
    /\ UNCHANGED <<tunnels, used, ops, undisturbed, overlapped>>

(* A 4xx or 5xx answer before anything was written. *)
Refuse(h) == Continue(h, Idle)

(* The statement that changes the table; the bump comes next. *)
Write(h, table) ==
    /\ tunnels' = table
    /\ op' = [op EXCEPT ![h].pc = "bump"]
    /\ undisturbed' = undisturbed \cap {h}
    /\ overlapped' = (overlapped \/ h \notin undisturbed)
    /\ UNCHANGED ops

(* An UPDATE or DELETE that matches no row is no error. *)
WriteNothing(h) == Continue(h, [op[h] EXCEPT !.pc = "bump"])

Put(i, r) == [j \in DOMAIN tunnels \cup {i} |-> IF j = i THEN r ELSE tunnels[j]]
Without(i) == [j \in DOMAIN tunnels \ {i} |-> tunnels[j]]

-----------------------------------------------------------------------------
(* Create and publish.                                                     *)

NewTunnels ==
    [gw : Gateways, name : Names, type : {"http"}, domain : Slugs, port : {0}]
    \cup [gw : Gateways, name : Names, type : {"tcp"}, domain : {"none"}, port : Ports]

CreateStart(h, r) ==
    Start(h, [Idle EXCEPT !.pc = "check", !.row = r, !.n = PortMin,
                !.todo = {"name"} \cup IF r.type = "http" THEN {"domain"}
                                        ELSE IF r.port # 0 THEN {"port"} ELSE {}])

Published(g, s) ==
    [gw |-> g, name |-> s, type |-> "http", domain |-> s, port |-> 0]

PublishStart(h, g, s) ==
    Start(h, [Idle EXCEPT !.pc = "resolve", !.row = Published(g, s), !.n = 1])

(* resolveDomain: the first candidate is the slug itself, the next ones    *)
(* have random suffixes.                                                   *)
ResolveDomain(h) ==
    /\ op[h].pc = "resolve"
    /\ \/ /\ ~DomainExists(op[h].row.domain)
          /\ Continue(h, [op[h] EXCEPT !.pc = "check", !.todo = {"name", "domain"}])
       \/ /\ DomainExists(op[h].row.domain) /\ op[h].n < Tries
          /\ \E s \in Slugs :
                Continue(h, [op[h] EXCEPT !.row = Published(op[h].row.gw, s), !.n = @ + 1])
       \/ DomainExists(op[h].row.domain) /\ op[h].n = Tries /\ Refuse(h)

(* The checks are made in the order name, domain, port. *)
Earlier(f) == CASE f = "name" -> {} [] f = "domain" -> {"name"} [] f = "port" -> {"name", "domain"}

Check(h, f) ==
    /\ op[h].pc = "check" /\ f \in op[h].todo /\ Earlier(f) \cap op[h].todo = {}
    /\ IF Taken(op[h].row, f)
       THEN Refuse(h)
       ELSE Continue(h, [op[h] EXCEPT !.todo = @ \ {f}])

Checked(h) == op[h].pc = "check" /\ op[h].todo = {}
Creating(h) == op[h].id = "none"
NeedsPort(h) == op[h].row.type = "tcp" /\ op[h].row.port = 0

\* Defect: the last port of the range is never looked at.
ScanShort(h) ==
    /\ Checked(h) /\ Creating(h) /\ NeedsPort(h)
    /\ \/ op[h].n >= PortMax /\ Refuse(h)
       \/ /\ op[h].n < PortMax /\ RemotePortExists(op[h].n)
          /\ Continue(h, [op[h] EXCEPT !.n = @ + 1])
       \/ /\ op[h].n < PortMax /\ ~RemotePortExists(op[h].n)
          /\ Continue(h, [op[h] EXCEPT !.row.port = op[h].n])

(* allocateRemotePort, one lookup per step. *)
ScanPort(h) ==
    /\ Checked(h) /\ Creating(h) /\ NeedsPort(h)
    /\ \/ op[h].n > PortMax /\ Refuse(h)
       \/ /\ op[h].n <= PortMax /\ RemotePortExists(op[h].n)
          /\ Continue(h, [op[h] EXCEPT !.n = @ + 1])
       \/ /\ op[h].n <= PortMax /\ ~RemotePortExists(op[h].n)
          /\ Continue(h, [op[h] EXCEPT !.row.port = op[h].n])

InsertRow(h) ==
    /\ Checked(h) /\ Creating(h) /\ ~NeedsPort(h)
    /\ \E i \in Ids \ used :
          /\ Write(h, Put(i, op[h].row))
          /\ used' = used \cup {i}

-----------------------------------------------------------------------------
(* Update: the fields named by the request change; an empty domain and     *)
(* port 0 are accepted and not checked.                                    *)

\* Defect: a given domain is taken as it is.
UpdateUnchecked(h, i, chg, d, p) ==
    /\ i \in DOMAIN tunnels
    /\ "domain" \in chg \/ d = tunnels[i].domain
    /\ "port" \in chg \/ p = tunnels[i].port
    /\ Start(h, [Idle EXCEPT !.pc = "check", !.id = i, !.chg = chg,
                   !.row = [tunnels[i] EXCEPT !.domain = d, !.port = p],
                   !.todo = {f \in chg : f = "port" /\ p \notin {0, tunnels[i].port}}])

UpdateStart(h, i, chg, d, p) ==
    /\ i \in DOMAIN tunnels
    /\ "domain" \in chg \/ d = tunnels[i].domain
    /\ "port" \in chg \/ p = tunnels[i].port
    /\ Start(h, [Idle EXCEPT !.pc = "check", !.id = i, !.chg = chg,
                   !.row = [tunnels[i] EXCEPT !.domain = d, !.port = p],
                   !.todo = {f \in chg :
                       \/ f = "domain" /\ d \notin {"none", tunnels[i].domain}
                       \/ f = "port" /\ p \notin {0, tunnels[i].port}}])

Given(h, f) == f \in op[h].chg

(* Store.UpdateTunnel reads the row again and fills in the given fields. *)
ReadRow(h) ==
    /\ Checked(h) /\ ~Creating(h)
    /\ LET i == op[h].id  r == op[h].row
       IN  IF i \in DOMAIN tunnels
           THEN Continue(h, [op[h] EXCEPT !.pc = "write",
                   !.row = [tunnels[i] EXCEPT
                       !.domain = IF Given(h, "domain") THEN r.domain ELSE @,
                       !.port = IF Given(h, "port") THEN r.port ELSE @]])
           ELSE Refuse(h)

(* Every column is written back. *)
WriteRow(h) ==
    /\ op[h].pc = "write" /\ UNCHANGED used
    /\ IF op[h].id \in DOMAIN tunnels
       THEN Write(h, Put(op[h].id, op[h].row))
       ELSE WriteNothing(h)

-----------------------------------------------------------------------------
(* Delete, the bump, failures.                                             *)

DeleteStart(h, i) ==
    /\ i \in DOMAIN tunnels
    /\ Start(h, [Idle EXCEPT !.pc = "delete", !.id = i, !.row = tunnels[i]])

DeleteRow(h) ==
    /\ op[h].pc = "delete" /\ UNCHANGED used
    /\ IF op[h].id \in DOMAIN tunnels
       THEN Write(h, Without(op[h].id))
       ELSE WriteNothing(h)

(* BumpConfigVersion for the row's gateway; tried once, it may fail. The    *)
(* versions are a variable of ControlLoop.                                 *)
Bump(h) ==
    /\ op[h].pc = "bump"
    /\ op' = [op EXCEPT ![h] = Idle]
    /\ UNCHANGED <<tunnels, used, ops, undisturbed, overlapped>>

(* A lookup or a write fails and the handler answers 500. *)
Fail(h) == Failures /\ op[h].pc \notin {"idle", "bump"} /\ Refuse(h)

Step(h) ==
    \/ ResolveDomain(h) \/ ScanPort(h) \/ InsertRow(h)
    \/ \E f \in Checks : Check(h, f)
    \/ ReadRow(h) \/ WriteRow(h) \/ DeleteRow(h) \/ Bump(h) \/ Fail(h)

Next ==
    \E h \in Handlers :
        \/ \E r \in NewTunnels : CreateStart(h, r)
        \/ \E g \in Gateways, s \in Slugs : PublishStart(h, g, s)
        \/ \E i \in Ids, chg \in SUBSET Fields, d \in Domains, p \in Ports :
              UpdateStart(h, i, chg, d, p)
        \/ \E i \in Ids : DeleteStart(h, i)
        \/ Step(h)

Spec == Init /\ [][Next]_vars

-----------------------------------------------------------------------------
(* Properties.                                                             *)

Apart(i, j) ==
    /\ tunnels[i].gw = tunnels[j].gw => tunnels[i].name # tunnels[j].name
    /\ tunnels[i].domain # "none" => tunnels[i].domain # tunnels[j].domain
    /\ tunnels[i].port # 0 => tunnels[i].port # tunnels[j].port

(* "http requires a valid, unique domain"; the name must "be unique within *)
(* the gateway"; a remote port in use is refused.                           *)
Unique == \A i, j \in DOMAIN tunnels : i # j => Apart(i, j)

(* Look first, write later is enough as long as no request writes after    *)
(* another one has written since it began: every duplicate is due to an     *)
(* overlap, never to a check that is missing on some path.                  *)
SerialUnique == ~overlapped => Unique

(* "No free TCP remote port" is answered to a request that nobody           *)
(* disturbed only when every port of the range is taken.                     *)
ExhaustedOnly ==
    [][\A h \in undisturbed :
          ScanPort(h) /\ op'[h].pc = "idle"
            => \A p \in PortMin..PortMax : RemotePortExists(p)]_vars

-----------------------------------------------------------------------------
(* Why SerialUnique holds: a request nobody has disturbed can trust the     *)
(* checks it made, about the row that it will write.                        *)

Clash(r, f, i) ==
    \E j \in DOMAIN tunnels \ {i} :
        \/ f = "name" /\ tunnels[j].gw = r.gw /\ tunnels[j].name = r.name
        \/ f = "domain" /\ r.domain # "none" /\ tunnels[j].domain = r.domain
        \/ f = "port" /\ r.port # 0 /\ tunnels[j].port = r.port

Trusted(q) ==
    /\ q.pc = "resolve" => q.row.port = 0 /\ q.id = "none"
    /\ q.pc \in {"check", "write"} =>
          /\ \A f \in Checks \ q.todo : ~Clash(q.row, f, q.id)
          /\ q.id # "none" => /\ q.id \in DOMAIN tunnels
                              /\ q.row.gw = tunnels[q.id].gw
                              /\ q.row.name = tunnels[q.id].name
    /\ q.pc = "write" => q.todo = {} /\ q.id # "none"

Serial == ~overlapped => Unique /\ \A h \in undisturbed : Trusted(op[h])

(* A publish is for an http tunnel; a create that looks for a port has found *)
(* every port taken that it has passed.                                      *)
Scanned(q) ==
    /\ q.pc = "resolve" => q.row.type = "http"
    /\ q.pc = "check" /\ q.id = "none" /\ q.row.type = "tcp" /\ q.row.port = 0 =>
          \A p \in PortMin..(q.n - 1) : RemotePortExists(p)

(* The inductive invariant behind SerialUnique and ExhaustedOnly. *)
SerialInv == TypeOK /\ Serial /\ \A h \in undisturbed : Scanned(op[h])

=============================================================================
