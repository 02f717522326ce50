-------------------------- MODULE RegistrationProofs --------------------------
(* Credentials that agents hold work and are their own, for all constants.  *)
EXTENDS Registration, FiniteSetTheorems, TLAPS

-----------------------------------------------------------------------------
(* Types.                                                                  *)

(* The requests that carry nothing.                                         *)
LEMMA EmptyType == IdleReq \in Request /\ Failed \in Request
  BY BoundAssumption DEF IdleReq, Failed, Request

(* A request replaced by a well-typed one keeps the types of all.           *)
LEMMA HandleType ==
    ASSUME TypeOK, NEW q \in Requests, NEW r \in Request, Handle(q, r)
    PROVE  req' \in [Requests -> Request]
  BY DEF TypeOK, Handle

(* So does an agent at another place.                                       *)
LEMMA GoToType ==
    ASSUME TypeOK, NEW a \in Agents,
           NEW pc \in {"boot", "register", "wait", "save", "ready", "down"}, GoTo(a, pc)
    PROVE  agent' \in [Agents -> AgentState]
  BY DEF TypeOK, GoTo, AgentState

(* The request of a waiting agent is one, and dropping it keeps the types.  *)
LEMMA DropType ==
    ASSUME TypeOK, WaitInv, NEW a \in Agents, agent[a].pc = "wait", Drop(a)
    PROVE  agent[a].req \in Requests /\ req' \in [Requests -> Request]
  BY EmptyType DEF TypeOK, WaitInv, AgentState, Drop

(* The counts stay within their types.                                      *)
LEMMA FaultType ==
    ASSUME TypeOK, NEW kind, Fault(kind)
    PROVE  faults' \in 0..MaxFaults
  BY BoundAssumption DEF TypeOK, Fault

(* The types hold initially.                                               *)
LEMMA TypeInit == Init => TypeOK
<1> SUFFICES ASSUME Init PROVE TypeOK
  OBVIOUS
<1>1. [pc |-> "boot", req |-> None] \in AgentState
  BY DEF AgentState
<1>2. faults \in 0..MaxFaults /\ spoiled \in Nat
  BY BoundAssumption DEF Init
<1> QED
  BY <1>1, <1>2, EmptyType DEF Init, TypeOK

(* The steps of an agent keep the types.                                    *)
LEMMA AgentType ==
    ASSUME TypeOK, WaitInv, ReplyInv, NEW a \in Agents, AgentStep(a) \/ AgentFault(a)
    PROVE  TypeOK'
<1>1. CASE LoadState(a)
  BY <1>1, GoToType DEF LoadState, TypeOK, serverVars
<1>2. CASE Register(a)
  <2> PICK q \in Requests :
         /\ req' = [req EXCEPT ![q] = [IdleReq EXCEPT !.pc = "lookup", !.id = Slug[a]]]
         /\ agent' = [agent EXCEPT ![a] = [pc |-> "wait", req |-> q]]
    BY <1>2 DEF Register
  <2>1. [IdleReq EXCEPT !.pc = "lookup", !.id = Slug[a]] \in Request
    BY EmptyType, DataAssumption DEF Request
  <2>2. [pc |-> "wait", req |-> q] \in AgentState
    BY DEF AgentState
  <2> QED
    BY <1>2, <2>1, <2>2 DEF Register, TypeOK, serverVars
<1>3. CASE Receive(a)
  <2>1. agent[a].req \in Requests /\ req' \in [Requests -> Request]
    BY <1>3, DropType DEF Receive, At
  <2>2. [id |-> req[agent[a].req].id, secret |-> req[agent[a].req].secret] \in Creds
    BY <1>3, <2>1 DEF Receive, At, ReplyInv, Creds
  <2> QED
    BY <1>3, <2>1, <2>2, GoToType DEF Receive, TypeOK, serverVars
<1>4. CASE ReceiveNothing(a)
  BY <1>4, DropType, GoToType, FaultType DEF ReceiveNothing, At, Spoil, TypeOK, serverVars
<1>5. CASE Retry(a)
  BY <1>5, DropType, GoToType DEF Retry, At, TypeOK, serverVars
<1>6. CASE GiveUp(a)
  BY <1>6, DropType, GoToType, FaultType DEF GiveUp, Spoil, TypeOK, serverVars
<1>7. CASE Save(a)
  BY <1>7, GoToType DEF Save, TypeOK, serverVars
<1>8. CASE SaveFails(a)
  BY <1>8, GoToType, FaultType DEF SaveFails, Spoil, TypeOK, serverVars
<1>9. CASE AgentCrash(a)
  BY <1>9, GoToType, FaultType DEF AgentCrash, Spoil, TypeOK, serverVars
<1>10. CASE Restart(a)
  BY <1>10, GoToType DEF Restart, TypeOK, serverVars
<1> QED
  BY <1>1, <1>2, <1>3, <1>4, <1>5, <1>6, <1>7, <1>8, <1>9, <1>10 DEF AgentStep, AgentFault

(* A new secret is one of the secrets nobody has seen.                      *)
LEMMA NewSecretNew == ~(Secrets \subseteq Seen) => NewSecret \in Secrets \ Seen
  BY DEF NewSecret

(* The steps of a request keep the types.                                   *)
LEMMA RequestType ==
    ASSUME TypeOK, ReplyInv, NEW q \in Requests,
           ServerStep(q) \/ InsertFails(q) \/ VersionFails(q)
    PROVE  TypeOK'
<1>0. req[q] \in Request /\ Failed \in Request /\ IdleReq \in Request
  BY EmptyType DEF TypeOK
<1>1. CASE Allocate(q)
  <2>1. [req[q] EXCEPT !.pc = "insert", !.secret = NewSecret] \in Request
    BY <1>0, <1>1, NewSecretNew DEF Allocate, Request
  <2> QED
    BY <1>1, <2>1, HandleType DEF Allocate, Continue, TypeOK, serverVars
<1>2. ASSUME NEW i \in Ids, Candidate(q, i) PROVE TypeOK'
  <2>1. req[q].n + 1 \in 0..Tries
    BY <1>0, <1>2, BoundAssumption DEF Candidate, Request
  <2>2. [req[q] EXCEPT !.id = i, !.n = req[q].n + 1] \in Request
    BY <1>0, <2>1 DEF Request
  <2> QED
    BY <1>2, <2>2, HandleType DEF Candidate, Continue, TypeOK, serverVars
<1>3. CASE NoId(q)
  BY <1>0, <1>3, HandleType DEF NoId, Continue, TypeOK, serverVars
<1>4. CASE CreateGateway(q)
  <2>1. CASE Continue(q, Failed)
    BY <1>0, <2>1, HandleType DEF Continue, TypeOK, serverVars
  <2>2. CASE gateways' = Put(req[q].id, req[q].secret)
    <3>1. [req[q] EXCEPT !.pc = "version"] \in Request
      BY <1>0 DEF Request
    <3>2. req[q].id \in Ids /\ req[q].secret \in Secrets
      BY <1>4 DEF CreateGateway, ReplyInv
    <3>3. DOMAIN gateways' \subseteq Ids /\ \A i \in DOMAIN gateways' : gateways'[i] \in Secrets
      BY <2>2, <3>2 DEF Put, TypeOK
    <3>4. CASE Handle(q, [req[q] EXCEPT !.pc = "version"])
      BY <1>4, <2>2, <3>1, <3>3, <3>4, HandleType DEF CreateGateway, Continue, TypeOK, serverVars
    <3> QED
      BY <1>4, <2>1, <3>4 DEF CreateGateway
  <2> QED
    BY <1>4, <2>1, <2>2 DEF CreateGateway
<1>5. CASE EnsureConfigVersion(q)
  <2>1. [req[q] EXCEPT !.pc = "created"] \in Request /\ req[q].id \in Ids
    BY <1>0, <1>5 DEF EnsureConfigVersion, Request, ReplyInv
  <2> QED
    BY <1>5, <2>1, HandleType DEF EnsureConfigVersion, TypeOK
<1>6. CASE ReplyToNobody(q)
  BY <1>0, <1>6, HandleType DEF ReplyToNobody, Continue, TypeOK, serverVars
<1>7. CASE InsertFails(q)
  BY <1>0, <1>7, HandleType, FaultType DEF InsertFails, TypeOK, serverVars
<1>8. CASE VersionFails(q)
  BY <1>0, <1>8, HandleType, FaultType DEF VersionFails, Spoil, TypeOK, serverVars
<1> QED
  BY <1>1, <1>2, <1>3, <1>4, <1>5, <1>6, <1>7, <1>8 DEF ServerStep

(* So does a crash of the server.                                           *)
LEMMA CrashType ==
    ASSUME TypeOK, ServerCrash
    PROVE  TypeOK'
<1>1. IsFiniteSet(AtWork) /\ Cardinality(AtWork) \in Nat
  BY DataAssumption, FS_Subset, FS_CardinalityType DEF AtWork
<1>2. spoiled' \in Nat
  BY <1>1 DEF ServerCrash, Spoil, TypeOK
<1>3. req' \in [Requests -> Request]
  BY EmptyType DEF ServerCrash
<1> QED
  BY <1>2, <1>3, FaultType DEF ServerCrash, TypeOK, serverVars

-----------------------------------------------------------------------------
(* Credentials.                                                            *)

(* Agents that gain no credentials keep what is true of theirs.             *)
LEMMA NoNewCreds ==
    ASSUME TypeOK, CredentialsWork, OwnGateway,
           gateways' = gateways, versions \subseteq versions',
           \A a \in Agents : /\ mem'[a] \in {mem[a], file[a], NoCreds}
                             /\ file'[a] \in {mem[a], file[a]}
    PROVE  /\ CredentialsWork' /\ OwnGateway'
           /\ Held' \subseteq Held \cup {NoCreds}
<1>1. Held' \subseteq Held \cup {NoCreds}
  BY DEF Held
<1>2. CredentialsWork'
  BY <1>1 DEF CredentialsWork, Usable
<1>3. ASSUME NEW a \in Agents, NEW b \in Agents, a # b,
             NEW c \in {mem'[a], file'[a]} \ {NoCreds}, NEW d \in {mem'[b], file'[b]}
      PROVE  c.id # d.id
  <2>1. c \in {mem[a], file[a]} \ {NoCreds}
    BY <1>3
  <2>2. CASE d \in {mem[b], file[b]}
    BY <1>3, <2>1, <2>2 DEF OwnGateway
  <2>3. CASE d = NoCreds
    <3>1. c.id \in Ids
      BY <2>1 DEF TypeOK, Creds
    <3> QED
      BY <2>3, <3>1, DataAssumption DEF NoCreds
  <2> QED
    BY <1>3, <2>2, <2>3
<1> QED
  BY <1>1, <1>2, <1>3 DEF OwnGateway

(* What is true of a request stays true when it moves only to "idle",       *)
(* "failed" or a lookup, and nobody gains credentials.                      *)
LEMMA NoNewReply ==
    ASSUME ReplyInv, gateways' = gateways, versions \subseteq versions',
           Held' \subseteq Held \cup {NoCreds},
           \A q \in Requests : \/ req'[q] = req[q]
                               \/ req'[q].pc \in {"idle", "failed"}
                               \/ req'[q].pc = "lookup" /\ req'[q].id \in Ids
    PROVE  ReplyInv'
<1>1. \A q \in Requests : req'[q].pc \in {"insert", "version", "created"} => req'[q] = req[q]
  OBVIOUS
<1>2. NoCreds.id \notin Ids
  BY DataAssumption DEF NoCreds
<1> QED
  BY <1>1, <1>2 DEF ReplyInv, Usable

(* What an agent's change of place does.                                    *)
LEMMA GoToPlace ==
    ASSUME TypeOK, NEW a \in Agents, NEW pc, GoTo(a, pc)
    PROVE  \A b \in Agents : agent'[b] = IF b = a THEN [pc |-> pc, req |-> None] ELSE agent[b]
  BY DEF TypeOK, GoTo

(* What dropping a request does.                                            *)
LEMMA DropRequest ==
    ASSUME TypeOK, WaitInv, NEW a \in Agents, agent[a].pc = "wait", Drop(a)
    PROVE  \A q \in Requests : req'[q] = IF q = agent[a].req THEN IdleReq ELSE req[q]
  BY DropType DEF TypeOK, Drop

(* An agent that stops waiting, or was not waiting, disturbs no other.      *)
LEMMA LeaveWait ==
    ASSUME TypeOK, WaitInv, NEW a \in Agents, NEW pc, pc # "wait", GoTo(a, pc),
           \A q \in Requests : req'[q] = req[q] \/ (agent[a].pc = "wait" /\ q = agent[a].req)
    PROVE  WaitInv'
<1>1. \A b \in Agents : agent'[b] = IF b = a THEN [pc |-> pc, req |-> None] ELSE agent[b]
  BY GoToPlace
<1>2. \A b \in Agents : agent[b].pc = "wait" => agent[b].req \in Requests /\ agent[b].req # None
  BY DEF WaitInv, TypeOK, AgentState
<1> QED
  BY <1>1, <1>2 DEF WaitInv

(* The parts of IInv besides the types.                                     *)
Secured == WaitInv /\ ReplyInv /\ CredentialsWork /\ OwnGateway

(* The steps of an agent that give it no credentials, but for Register.     *)
LEMMA PlainAgentSecured ==
    ASSUME TypeOK, Secured, NEW a \in Agents,
           \/ LoadState(a) \/ Save(a) \/ SaveFails(a) \/ AgentCrash(a) \/ Restart(a)
           \/ Retry(a) \/ GiveUp(a) \/ ReceiveNothing(a)
    PROVE  Secured'
<1> USE DEF Secured
<1>1. UNCHANGED <<gateways, versions>>
  BY DEF LoadState, Save, SaveFails, AgentCrash, Restart, Retry, GiveUp, ReceiveNothing, serverVars
<1>2. \A b \in Agents : /\ mem'[b] \in {mem[b], file[b], NoCreds}
                        /\ file'[b] \in {mem[b], file[b]}
  BY DEF LoadState, Save, SaveFails, AgentCrash, Restart, Retry, GiveUp, ReceiveNothing, TypeOK
<1>3. PICK pc : GoTo(a, pc) /\ pc # "wait"
  BY DEF LoadState, Save, SaveFails, AgentCrash, Restart, Retry, GiveUp, ReceiveNothing
<1>4. \A q \in Requests : \/ req'[q] = req[q]
                          \/ req'[q] = IdleReq /\ agent[a].pc = "wait" /\ q = agent[a].req
  BY DropRequest
     DEF LoadState, Save, SaveFails, AgentCrash, Restart, Retry, GiveUp, ReceiveNothing, At
<1>5. WaitInv'
  BY <1>3, <1>4, LeaveWait
<1>6. CredentialsWork' /\ OwnGateway' /\ Held' \subseteq Held \cup {NoCreds}
  BY <1>1, <1>2, NoNewCreds
<1>7. \A q \in Requests : req'[q] = req[q] \/ req'[q].pc \in {"idle", "failed"}
  BY <1>4 DEF IdleReq
<1>8. ReplyInv /\ gateways' = gateways /\ versions \subseteq versions'
  BY <1>1
<1>9. ReplyInv'
  BY <1>6, <1>7, <1>8, NoNewReply
<1> QED
  BY <1>5, <1>6, <1>9

(* An agent that sends a request waits for it alone.                        *)
LEMMA RegisterSecured ==
    ASSUME TypeOK, Secured, NEW a \in Agents, Register(a)
    PROVE  Secured'
<1> USE DEF Secured
<1> PICK q \in Requests :
       /\ req[q].pc = "idle"
       /\ req' = [req EXCEPT ![q] = [IdleReq EXCEPT !.pc = "lookup", !.id = Slug[a]]]
       /\ agent' = [agent EXCEPT ![a] = [pc |-> "wait", req |-> q]]
  BY DEF Register
<1>1. req'[q].pc = "lookup" /\ req'[q].id \in Ids /\ \A p \in Requests \ {q} : req'[p] = req[p]
  BY DataAssumption DEF TypeOK, IdleReq
<1>2. \A b \in Agents : agent'[b] = IF b = a THEN [pc |-> "wait", req |-> q] ELSE agent[b]
  BY DEF TypeOK
<1>3. \A b \in Agents : agent[b].pc = "wait" => agent[b].req \in Requests \ {q}
  BY DEF WaitInv, TypeOK, AgentState
<1>4. WaitInv'
  <2>1. q # None
    BY DataAssumption
  <2>2. \A b \in Agents : agent[b].req # q
    BY <1>3, <2>1 DEF WaitInv
  <2> QED
    BY <1>1, <1>2, <1>3, <2>1, <2>2 DEF WaitInv
<1>5. CredentialsWork' /\ OwnGateway' /\ Held' \subseteq Held \cup {NoCreds}
  BY NoNewCreds DEF Register, serverVars
<1>6. gateways' = gateways /\ versions \subseteq versions'
  BY DEF Register, serverVars
<1>7. \A p \in Requests : req'[p] = req[p] \/ (req'[p].pc = "lookup" /\ req'[p].id \in Ids)
  BY <1>1
<1>8. ReplyInv'
  BY <1>5, <1>6, <1>7, NoNewReply
<1> QED
  BY <1>4, <1>5, <1>8

(* The credentials received are those of the request's own new gateway.     *)
LEMMA ReceiveSecured ==
    ASSUME TypeOK, Secured, NEW a \in Agents, Receive(a)
    PROVE  Secured'
<1> USE DEF Secured
<1> DEFINE q == agent[a].req
           new == [id |-> req[q].id, secret |-> req[q].secret]
<1>1. agent[a].pc = "wait" /\ q \in Requests /\ req[q].pc = "created"
  BY DropType DEF Receive, At
<1>2. \A p \in Requests : req'[p] = IF p = q THEN IdleReq ELSE req[p]
  BY <1>1, DropRequest DEF Receive
<1>3. WaitInv'
  BY <1>1, <1>2, LeaveWait DEF Receive
<1>4. /\ \A b \in Agents : mem'[b] = IF b = a THEN new ELSE mem[b]
      /\ UNCHANGED <<gateways, versions, file>>
  BY DEF Receive, TypeOK, serverVars
<1>5. Usable(new) /\ new.id \in versions /\ \A c \in Held : c.id # new.id
  BY <1>1 DEF ReplyInv, Usable
<1>6. Held' \subseteq Held \cup {new}
  BY <1>4 DEF Held
<1>7. CredentialsWork'
  BY <1>4, <1>5, <1>6 DEF CredentialsWork, Usable
<1>8. OwnGateway'
  <2> HIDE DEF new
  <2>1. \A b \in Agents : mem[b] \in Held /\ file[b] \in Held
    BY DEF Held
  <2> QED
    BY <1>4, <1>5, <2>1 DEF OwnGateway
<1>9. ReplyInv'
  <2> SUFFICES ASSUME NEW p \in Requests, req'[p].pc # "idle" PROVE
          /\ req'[p].pc # "failed" => req'[p].id \in Ids
          /\ req'[p].pc \in {"insert", "version", "created"} => req'[p].secret \in Secrets
          /\ req'[p].pc \in {"version", "created"} =>
                /\ Usable(req[p])
                /\ \A c \in Held' : c.id # req'[p].id
                /\ \A r \in Requests \ {p} :
                      req'[r].pc \in {"version", "created"} => req'[r].id # req'[p].id
          /\ req'[p].pc = "created" => req'[p].id \in versions
    BY <1>2, <1>4 DEF ReplyInv, Usable, IdleReq
  <2>1. p # q /\ req'[p] = req[p]
    BY <1>2 DEF IdleReq
  <2>2. req[p].pc \in {"version", "created"} => new.id # req[p].id
    BY <1>1, <2>1 DEF ReplyInv
  <2>3. \A r \in Requests : req'[r].pc \in {"version", "created"} => req'[r] = req[r]
    BY <1>2 DEF IdleReq
  <2> QED
    BY <1>6, <2>1, <2>2, <2>3 DEF ReplyInv
<1> QED
  BY <1>3, <1>7, <1>8, <1>9

-----------------------------------------------------------------------------
(* Requests.                                                               *)

(* What a step of a request does to the requests.                           *)
LEMMA HandleRequest ==
    ASSUME TypeOK, NEW q \in Requests, NEW r, Handle(q, r)
    PROVE  \A p \in Requests : req'[p] = IF p = q THEN r ELSE req[p]
  BY DEF TypeOK, Handle

(* A request that is not left idle keeps its agent waiting.                 *)
LEMMA KeepWait ==
    ASSUME TypeOK, WaitInv, NEW q \in Requests, NEW r, Handle(q, r), agent' = agent,
           r.pc # "idle" \/ ~Awaited(q)
    PROVE  WaitInv'
  BY HandleRequest DEF WaitInv, TypeOK, AgentState, Awaited

(* A request that ends, fails or goes on looking.                           *)
LEMMA PlainRequestSecured ==
    ASSUME TypeOK, Secured, NEW q \in Requests, NEW r, Handle(q, r),
           UNCHANGED <<gateways, versions, agent, mem, file>>,
           \/ r.pc = "failed"
           \/ r.pc = "lookup" /\ r.id \in Ids
           \/ r.pc = "idle" /\ ~Awaited(q)
    PROVE  Secured'
<1> USE DEF Secured
<1>1. WaitInv'
  BY KeepWait
<1>2. CredentialsWork' /\ OwnGateway' /\ Held' \subseteq Held \cup {NoCreds}
  BY NoNewCreds
<1>3. \A p \in Requests : \/ req'[p] = req[p]
                          \/ req'[p].pc \in {"idle", "failed"}
                          \/ req'[p].pc = "lookup" /\ req'[p].id \in Ids
  BY HandleRequest
<1>4. versions \subseteq versions'
  OBVIOUS
<1>5. ReplyInv'
  BY <1>2, <1>3, <1>4, NoNewReply
<1> QED
  BY <1>1, <1>2, <1>5

(* A request that has allocated an id has a secret as well.                 *)
LEMMA AllocateSecured ==
    ASSUME TypeOK, Secured, NEW q \in Requests, Allocate(q)
    PROVE  Secured'
<1> USE DEF Secured
<1> DEFINE r == [req[q] EXCEPT !.pc = "insert", !.secret = NewSecret]
<1>1. r.pc = "insert" /\ r.id \in Ids /\ r.secret \in Secrets
  BY NewSecretNew DEF Allocate, ReplyInv, TypeOK, Request
<1>2. Handle(q, r) /\ UNCHANGED <<gateways, versions, agent, mem, file>>
  BY DEF Allocate, Continue, serverVars
<1> HIDE DEF r
<1>3. WaitInv'
  BY <1>1, <1>2, KeepWait
<1>4. CredentialsWork' /\ OwnGateway' /\ Held' = Held
  BY <1>2, NoNewCreds DEF Held
<1>5. ReplyInv'
  BY <1>1, <1>2, <1>4, HandleRequest DEF ReplyInv, Usable
<1> QED
  BY <1>3, <1>4, <1>5

(* The primary key makes the new gateway one that nobody has.               *)
LEMMA CreateSecured ==
    ASSUME TypeOK, Secured, NEW q \in Requests, CreateGateway(q), ~Exists(req[q].id)
    PROVE  Secured'
<1> USE DEF Secured
<1> DEFINE r == [req[q] EXCEPT !.pc = "version"]
           i == req[q].id
<1>1. /\ r.pc = "version" /\ r.id = i /\ r.secret = req[q].secret
      /\ i \in Ids /\ r.secret \in Secrets /\ i \notin DOMAIN gateways
  BY DEF CreateGateway, ReplyInv, TypeOK, Request, Exists
<1>2. Handle(q, r) /\ UNCHANGED <<versions, agent, mem, file>> /\ gateways' = Put(i, req[q].secret)
  BY DEF CreateGateway
<1>3. /\ DOMAIN gateways' = DOMAIN gateways \cup {i} /\ gateways'[i] = r.secret
      /\ \A j \in DOMAIN gateways : gateways'[j] = gateways[j]
  BY <1>1, <1>2 DEF Put
<1> HIDE DEF r, i
<1>4. Held' = Held /\ \A c \in Held : c.id # i
  <2>1. \A c \in Held : c = NoCreds \/ c.id \in DOMAIN gateways
    BY DEF CredentialsWork, Usable
  <2> QED
    BY <1>1, <1>2, <2>1, DataAssumption DEF Held, NoCreds
<1>5. WaitInv'
  BY <1>1, <1>2, KeepWait
<1>6. CredentialsWork' /\ OwnGateway'
  BY <1>2, <1>3, <1>4 DEF CredentialsWork, OwnGateway, Usable
<1>7. \A p \in Requests : req'[p] = IF p = q THEN r ELSE req[p]
  BY <1>2, HandleRequest
<1>8. \A p \in Requests : req[p].pc \in {"version", "created"} =>
          req[p].id \in DOMAIN gateways /\ req[p].id # i
  BY <1>1 DEF ReplyInv, Usable
<1>9. ReplyInv'
  BY <1>1, <1>2, <1>3, <1>4, <1>7, <1>8 DEF ReplyInv, Usable
<1> QED
  BY <1>5, <1>6, <1>9

(* The version row comes before the answer.                                 *)
LEMMA VersionSecured ==
    ASSUME TypeOK, Secured, NEW q \in Requests, EnsureConfigVersion(q)
    PROVE  Secured'
<1> USE DEF Secured
<1> DEFINE r == [req[q] EXCEPT !.pc = "created"]
<1>1. r.pc = "created" /\ r.id = req[q].id /\ r.secret = req[q].secret
  BY DEF TypeOK, Request
<1>2. /\ Handle(q, r) /\ UNCHANGED <<gateways, agent, mem, file>>
      /\ versions' = versions \cup {r.id} /\ req[q].pc = "version"
  BY <1>1 DEF EnsureConfigVersion
<1> HIDE DEF r
<1>3. WaitInv'
  BY <1>1, <1>2, KeepWait
<1>4. CredentialsWork' /\ OwnGateway' /\ Held' = Held
  BY <1>2, NoNewCreds DEF Held
<1>5. ReplyInv'
  BY <1>1, <1>2, <1>4, HandleRequest DEF ReplyInv, Usable
<1> QED
  BY <1>3, <1>4, <1>5

(* A crash answers those who wait with a broken connection.                 *)
LEMMA CrashSecured ==
    ASSUME TypeOK, Secured, ServerCrash
    PROVE  Secured'
<1> USE DEF Secured
<1>1. /\ \A q \in Requests : req'[q] = IF Awaited(q) THEN Failed ELSE IdleReq
      /\ UNCHANGED <<gateways, versions, agent, mem, file>>
  BY DEF ServerCrash, serverVars
<1>2. \A a \in Agents : agent[a].pc = "wait" => agent[a].req \in Requests /\ Awaited(agent[a].req)
  BY DEF WaitInv, TypeOK, AgentState, Awaited
<1>3. Failed.pc = "failed" /\ IdleReq.pc = "idle"
  BY DEF Failed, IdleReq
<1>4. WaitInv'
  BY <1>1, <1>2, <1>3 DEF WaitInv
<1>5. CredentialsWork' /\ OwnGateway' /\ Held' \subseteq Held \cup {NoCreds}
  BY <1>1, NoNewCreds
<1>6. versions \subseteq versions' /\ \A q \in Requests : req'[q].pc \in {"idle", "failed"}
  BY <1>1, <1>3
<1>7. ReplyInv'
  BY <1>1, <1>5, <1>6, NoNewReply
<1> QED
  BY <1>4, <1>5, <1>7

-----------------------------------------------------------------------------
(* Counting gateways.                                                      *)

(* One element more or less counts one.                                     *)
LEMMA CountOneMore ==
    ASSUME NEW S, NEW T, NEW x, IsFiniteSet(T), S \subseteq T \cup {x}
    PROVE  /\ IsFiniteSet(S) /\ Cardinality(S) \in Nat /\ Cardinality(T) \in Nat
           /\ Cardinality(S) <= Cardinality(T) + 1
<1>0. Cardinality(T) \in Nat
  BY FS_CardinalityType
<1>1. IsFiniteSet(T \cup {x}) /\ Cardinality(T \cup {x}) <= Cardinality(T) + 1
  BY <1>0, FS_AddElement
<1>2. IsFiniteSet(S) /\ Cardinality(S) <= Cardinality(T \cup {x})
  BY <1>1, FS_Subset
<1> QED
  BY <1>1, <1>2, FS_CardinalityType

(* The sets that are counted are finite.                                    *)
LEMMA Countable ==
    /\ IsFiniteSet(Owners) /\ Cardinality(Owners) \in Nat
    /\ IsFiniteSet(Owners') /\ Cardinality(Owners') \in Nat
    /\ IsFiniteSet(Orphans) /\ Cardinality(Orphans) \in Nat
    /\ IsFiniteSet(Orphans') /\ Cardinality(Orphans') \in Nat
<1>1. Owners \subseteq Agents /\ Owners' \subseteq Agents
  BY DEF Owners
<1>2. Orphans \subseteq Requests /\ Orphans' \subseteq Requests
  BY DEF Orphans
<1> QED
  BY <1>1, <1>2, DataAssumption, FS_Subset, FS_CardinalityType

(* The agents that register have nothing in their files.                    *)
Fresh == \A a \in Agents : agent[a].pc \in {"register", "wait", "save"} => file[a] = NoCreds

(* A step that makes no gateway: it loses no owner and makes no orphan, or  *)
(* one of both, for which it is charged.                                    *)
LEMMA Charged ==
    ASSUME TypeOK, AccountInv, gateways' = gateways, Fresh',
           \/ Owners \subseteq Owners' /\ Orphans' \subseteq Orphans /\ spoiled' = spoiled
           \/ /\ spoiled' = spoiled + 1
              /\ \/ Owners \subseteq Owners' /\ Orphans' \subseteq Orphans
                 \/ Owners \subseteq Owners' /\ \E q : Orphans' \subseteq Orphans \cup {q}
                 \/ Orphans' \subseteq Orphans /\ \E a : Owners \subseteq Owners' \cup {a}
    PROVE  AccountInv'
<1>1. Cardinality(DOMAIN gateways) \in Nat /\ spoiled \in Nat
  BY FS_CardinalityType DEF AccountInv, TypeOK
<1>2. ASSUME Owners \subseteq Owners' PROVE Cardinality(Owners) <= Cardinality(Owners')
  BY <1>2, Countable, FS_Subset
<1>3. ASSUME Orphans' \subseteq Orphans PROVE Cardinality(Orphans') <= Cardinality(Orphans)
  BY <1>3, Countable, FS_Subset
<1>4. ASSUME NEW q, Orphans' \subseteq Orphans \cup {q}
      PROVE  Cardinality(Orphans') <= Cardinality(Orphans) + 1
  BY <1>4, Countable, CountOneMore
<1>5. ASSUME NEW a, Owners \subseteq Owners' \cup {a}
      PROVE  Cardinality(Owners) <= Cardinality(Owners') + 1
  BY <1>5, Countable, CountOneMore
<1>6. /\ Cardinality(DOMAIN gateways) + Cardinality(Orphans) <= Cardinality(Owners) + spoiled
      /\ Cardinality(Owners) \in Nat /\ Cardinality(Owners') \in Nat
      /\ Cardinality(Orphans) \in Nat /\ Cardinality(Orphans') \in Nat
  BY Countable DEF AccountInv
<1>7. Cardinality(DOMAIN gateways) + Cardinality(Orphans') <= Cardinality(Owners') + spoiled'
  <2>1. CASE Owners \subseteq Owners' /\ Orphans' \subseteq Orphans /\ spoiled' \in {spoiled, spoiled + 1}
    BY <1>1, <1>2, <1>3, <1>6, <2>1
  <2>2. CASE spoiled' = spoiled + 1 /\ Owners \subseteq Owners' /\ \E q : Orphans' \subseteq Orphans \cup {q}
    <3>1. Cardinality(Owners) <= Cardinality(Owners') /\ Cardinality(Orphans') <= Cardinality(Orphans) + 1
      BY <1>2, <1>4, <2>2
    <3> QED
      BY <1>1, <1>6, <2>2, <3>1
  <2>3. CASE spoiled' = spoiled + 1 /\ Orphans' \subseteq Orphans /\ \E a : Owners \subseteq Owners' \cup {a}
    <3>1. Cardinality(Owners) <= Cardinality(Owners') + 1 /\ Cardinality(Orphans') <= Cardinality(Orphans)
      BY <1>3, <1>5, <2>3
    <3> QED
      BY <1>1, <1>6, <2>3, <3>1
  <2> QED
    BY <2>1, <2>2, <2>3
<1> QED
  BY <1>7 DEF AccountInv, Fresh

(* What an agent that stops waiting, or was not waiting, changes: its own   *)
(* ownership, and whether its request is an orphan.                         *)
LEMMA LeaveAccount ==
    ASSUME TypeOK, WaitInv, NEW a \in Agents, NEW pc, pc # "wait", GoTo(a, pc),
           \A b \in Agents \ {a} : mem'[b] = mem[b] /\ file'[b] = file[b],
           \A q \in Requests : \/ req'[q] = req[q]
                               \/ req'[q] = IdleReq /\ agent[a].pc = "wait" /\ q = agent[a].req
    PROVE  /\ Owners \subseteq Owners' \cup {a} /\ Owners' \subseteq Owners \cup {a}
           /\ \A q \in Orphans' : \/ q \in Orphans
                                  \/ /\ agent[a].pc = "wait" /\ q = agent[a].req
                                     /\ req'[q] = req[q]
<1>1. \A b \in Agents : agent'[b] = IF b = a THEN [pc |-> pc, req |-> None] ELSE agent[b]
  BY GoToPlace
<1>2. \A b \in Agents \ {a} : agent[b].pc = "wait" =>
          agent[b].req \in Requests /\ req'[agent[b].req] = req[agent[b].req]
  BY DEF WaitInv, TypeOK, AgentState
<1>3. Owners \subseteq Owners' \cup {a} /\ Owners' \subseteq Owners \cup {a}
  BY <1>1, <1>2 DEF Owners, At
<1>4. ASSUME NEW q \in Orphans', q \notin Orphans
      PROVE  agent[a].pc = "wait" /\ q = agent[a].req /\ req'[q] = req[q]
  <2>1. q \in Requests /\ req'[q].pc \in {"lookup", "insert"} /\ ~Awaited(q)'
    BY <1>4 DEF Orphans
  <2>2. req'[q] = req[q]
    BY <2>1 DEF IdleReq
  <2>3. PICK b \in Agents : agent[b].req = q
    BY <1>4, <2>1, <2>2 DEF Orphans, Awaited
  <2>4. b = a
    BY <1>1, <2>1, <2>3 DEF Awaited
  <2>5. q # None
    BY <2>1, DataAssumption
  <2> QED
    BY <2>2, <2>3, <2>4, <2>5 DEF WaitInv
<1> QED
  BY <1>3, <1>4

(* The steps of an agent that keep its gateway, or have none to lose.       *)
LEMMA KeepAccount ==
    ASSUME TypeOK, Secured, AccountInv, NEW a \in Agents,
           LoadState(a) \/ Receive(a) \/ Retry(a) \/ Save(a) \/ Restart(a)
    PROVE  AccountInv'
<1> USE DEF Secured
<1>1. PICK pc : /\ GoTo(a, pc) /\ pc # "wait"
                /\ pc \in {"register", "save"} => file'[a] = NoCreds
  BY DEF AccountInv, LoadState, Receive, Retry, Save, Restart, At
<1>2. gateways' = gateways /\ spoiled' = spoiled
  BY DEF LoadState, Receive, Retry, Save, Restart, serverVars
<1>3. \A b \in Agents \ {a} : mem'[b] = mem[b] /\ file'[b] = file[b]
  BY DEF LoadState, Receive, Retry, Save, Restart, TypeOK
<1>4. \A q \in Requests : \/ req'[q] = req[q]
                          \/ req'[q] = IdleReq /\ agent[a].pc = "wait" /\ q = agent[a].req
  BY DropRequest DEF LoadState, Receive, Retry, Save, Restart, At
<1>5. /\ Owners \subseteq Owners' \cup {a}
      /\ \A q \in Orphans' : \/ q \in Orphans
                             \/ /\ agent[a].pc = "wait" /\ q = agent[a].req
                                /\ req'[q] = req[q]
  BY <1>1, <1>3, <1>4, LeaveAccount
<1>6. \A b \in Agents : agent'[b] = IF b = a THEN [pc |-> pc, req |-> None] ELSE agent[b]
  BY <1>1, GoToPlace
<1>7. Orphans' \subseteq Orphans
  <2>1. ASSUME NEW q \in Orphans', agent[a].pc = "wait", q = agent[a].req, req'[q] = req[q]
        PROVE  FALSE
    BY <2>1, DropRequest DEF Orphans, LoadState, Receive, Retry, Save, Restart, At, IdleReq
  <2> QED
    BY <1>5, <2>1
<1>8. a \in Owners => a \in Owners'
  <2>1. CASE LoadState(a) \/ Retry(a) \/ Restart(a)
    BY <1>6, <2>1 DEF Owners, At, LoadState, Retry, Restart
  <2>2. CASE Receive(a)
    <3>1. mem'[a] = [id |-> req[agent[a].req].id, secret |-> req[agent[a].req].secret]
      BY <2>2 DEF Receive, TypeOK
    <3>2. mem'[a].id \in Ids /\ agent'[a].pc = "save"
      BY <1>6, <2>2, <3>1, DropType DEF Receive, At, ReplyInv, GoTo, TypeOK
    <3>3. mem'[a] # NoCreds
      BY <3>2, DataAssumption DEF NoCreds
    <3> QED
      BY <3>2, <3>3 DEF Owners
  <2>3. CASE Save(a)
    <3>1. file'[a] = mem[a] /\ agent[a].pc = "save" /\ file[a] = NoCreds
      BY <2>3 DEF Save, TypeOK, AccountInv
    <3> QED
      BY <3>1 DEF Owners, At
  <2> QED
    BY <2>1, <2>2, <2>3
<1>9. Fresh'
  BY <1>1, <1>3, <1>6 DEF Fresh, AccountInv
<1> QED
  BY <1>2, <1>5, <1>7, <1>8, <1>9, Charged

(* A fault of an agent costs it a gateway, or makes its request an orphan.  *)
LEMMA FaultAccount ==
    ASSUME TypeOK, Secured, AccountInv, NEW a \in Agents, AgentFault(a)
    PROVE  AccountInv'
<1> USE DEF Secured
<1>1. PICK pc : /\ GoTo(a, pc) /\ pc # "wait"
                /\ pc \in {"register", "save"} => file[a] = NoCreds
  BY DEF AccountInv, AgentFault, ReceiveNothing, GiveUp, SaveFails, AgentCrash, At
<1>2. gateways' = gateways /\ file' = file
  BY DEF AgentFault, ReceiveNothing, GiveUp, SaveFails, AgentCrash, serverVars
<1>3. \A b \in Agents \ {a} : mem'[b] = mem[b] /\ file'[b] = file[b]
  BY DEF AgentFault, ReceiveNothing, GiveUp, SaveFails, AgentCrash, TypeOK
<1>4. \A q \in Requests : \/ req'[q] = req[q]
                          \/ req'[q] = IdleReq /\ agent[a].pc = "wait" /\ q = agent[a].req
  BY DropRequest DEF AgentFault, ReceiveNothing, GiveUp, SaveFails, AgentCrash, At
<1>5. /\ Owners \subseteq Owners' \cup {a}
      /\ \A q \in Orphans' : \/ q \in Orphans
                             \/ /\ agent[a].pc = "wait" /\ q = agent[a].req
                                /\ req'[q] = req[q]
  BY <1>1, <1>3, <1>4, LeaveAccount
<1>6. \A b \in Agents : agent'[b] = IF b = a THEN [pc |-> pc, req |-> None] ELSE agent[b]
  BY <1>1, GoToPlace
<1>7. Fresh'
  BY <1>1, <1>2, <1>6 DEF Fresh, AccountInv
<1>8. CASE agent[a].pc \notin {"wait", "save"}
  <2>1. spoiled' = spoiled
    BY <1>8 DEF AgentFault, ReceiveNothing, GiveUp, SaveFails, AgentCrash, At, Spoil, TypeOK
  <2>2. Orphans' \subseteq Orphans
    BY <1>5, <1>8
  <2>3. Owners \subseteq Owners'
    BY <1>2, <1>5, <1>8 DEF Owners, At
  <2> QED
    BY <1>2, <1>7, <2>1, <2>2, <2>3, Charged
<1>9. CASE agent[a].pc \in {"wait", "save"}
  <2>1. spoiled' = spoiled + 1
    BY <1>9 DEF AgentFault, ReceiveNothing, GiveUp, SaveFails, AgentCrash, Spoil
  <2>2. CASE \E q \in Orphans' : q \notin Orphans
    <3>1. PICK q \in Orphans' : q \notin Orphans
      BY <2>2
    <3>2. /\ agent[a].pc = "wait" /\ q = agent[a].req /\ req'[q] = req[q]
          /\ req[q].pc \in {"lookup", "insert"}
      BY <1>5, <3>1 DEF Orphans
    <3>3. a \notin Owners
      BY <3>2 DEF Owners, At, AccountInv
    <3>4. Orphans' \subseteq Orphans \cup {q}
      BY <1>5, <3>2
    <3> QED
      BY <1>2, <1>5, <1>7, <2>1, <3>3, <3>4, Charged
  <2>3. CASE Orphans' \subseteq Orphans
    BY <1>2, <1>5, <1>7, <2>1, <2>3, Charged
  <2> QED
    BY <2>2, <2>3
<1> QED
  BY <1>8, <1>9

(* An agent that registers owns nothing yet, and is waited for.             *)
LEMMA RegisterAccount ==
    ASSUME TypeOK, Secured, AccountInv, NEW a \in Agents, Register(a)
    PROVE  AccountInv'
<1> USE DEF Secured
<1>0. PICK q \in Requests :
         /\ req[q].pc = "idle"
         /\ req' = [req EXCEPT ![q] = [IdleReq EXCEPT !.pc = "lookup", !.id = Slug[a]]]
         /\ agent' = [agent EXCEPT ![a] = [pc |-> "wait", req |-> q]]
  BY DEF Register
<1>1. /\ \A b \in Agents : agent'[b] = IF b = a THEN [pc |-> "wait", req |-> q] ELSE agent[b]
      /\ \A p \in Requests \ {q} : req'[p] = req[p]
      /\ agent[a].pc = "register" /\ agent[a].req = None
      /\ UNCHANGED <<gateways, mem, file, spoiled>>
  BY <1>0 DEF TypeOK, Register, serverVars, WaitInv
<1>2. \A b \in Agents : agent[b].pc = "wait" => agent[b].req \in Requests \ {q}
  BY <1>0 DEF WaitInv, TypeOK, AgentState
<1>3. Owners \subseteq Owners'
  BY <1>1, <1>2 DEF Owners, At
<1>4. Orphans' \subseteq Orphans
  <2> SUFFICES ASSUME NEW p \in Orphans' PROVE p \in Orphans
    OBVIOUS
  <2>1. p \in Requests \ {q} /\ p # None
    BY <1>1, DataAssumption DEF Orphans, Awaited
  <2>2. Awaited(p) => Awaited(p)'
    BY <1>1, <2>1 DEF Awaited
  <2> QED
    BY <1>1, <2>1, <2>2 DEF Orphans
<1>5. Fresh'
  BY <1>1 DEF Fresh, AccountInv
<1> QED
  BY <1>1, <1>3, <1>4, <1>5, Charged

(* A request that makes no gateway loses at most the one it has made.       *)
LEMMA RequestAccount ==
    ASSUME TypeOK, Secured, AccountInv, NEW q \in Requests, NEW r, Handle(q, r),
           UNCHANGED <<gateways, agent, mem, file>>,
           \/ spoiled' = spoiled + 1
           \/ /\ spoiled' = spoiled
              /\ req[q].pc \in {"version", "created"} =>
                    r.pc \in {"version", "created"} \/ ~Awaited(q),
           r.pc \in {"lookup", "insert"} => req[q].pc \in {"lookup", "insert"}
    PROVE  AccountInv'
<1> USE DEF Secured
<1>1. \A p \in Requests : req'[p] = IF p = q THEN r ELSE req[p]
  BY HandleRequest
<1>2. Orphans' \subseteq Orphans
  BY <1>1 DEF Orphans, Awaited
<1>3. \A b \in Agents : agent[b].pc = "wait" => agent[b].req \in Requests
  BY DEF WaitInv, TypeOK, AgentState
<1>4. Fresh'
  BY DEF Fresh, AccountInv
<1>5. CASE ~Awaited(q) \/ (req[q].pc \in {"version", "created"} => r.pc \in {"version", "created"})
  <2>1. Owners \subseteq Owners'
    BY <1>1, <1>3, <1>5 DEF Owners, At, Awaited
  <2> QED
    BY <1>2, <1>4, <2>1, Charged
<1>6. ASSUME NEW a \in Agents, agent[a].req = q, spoiled' = spoiled + 1 PROVE AccountInv'
  <2>1. \A b \in Agents \ {a} : agent[b].pc = "wait" => agent[b].req # q
    BY <1>6, DataAssumption DEF WaitInv
  <2>2. Owners \subseteq Owners' \cup {a}
    BY <1>1, <1>3, <2>1 DEF Owners, At
  <2> QED
    BY <1>2, <1>4, <1>6, <2>2, Charged
<1> QED
  BY <1>5, <1>6 DEF Awaited

(* A new gateway goes to the agent that waits for it, or was counted as an  *)
(* orphan before.                                                           *)
LEMMA CreateAccount ==
    ASSUME TypeOK, Secured, AccountInv, NEW q \in Requests,
           CreateGateway(q), ~Exists(req[q].id)
    PROVE  AccountInv'
<1> USE DEF Secured
<1> DEFINE r == [req[q] EXCEPT !.pc = "version"]
           i == req[q].id
<1>0. r.pc = "version" /\ req[q].pc = "insert"
  BY DEF TypeOK, Request, CreateGateway
<1>1. /\ Handle(q, r) /\ UNCHANGED <<agent, mem, file, spoiled>>
      /\ DOMAIN gateways' = DOMAIN gateways \cup {i} /\ i \notin DOMAIN gateways
  BY DEF CreateGateway, Put, Exists
<1> HIDE DEF r, i
<1>2. \A p \in Requests : req'[p] = IF p = q THEN r ELSE req[p]
  BY <1>1, HandleRequest
<1>3. \A b \in Agents : agent[b].pc = "wait" => agent[b].req \in Requests
  BY DEF WaitInv, TypeOK, AgentState
<1>4. /\ IsFiniteSet(DOMAIN gateways') /\ Cardinality(DOMAIN gateways) \in Nat
      /\ Cardinality(DOMAIN gateways') = Cardinality(DOMAIN gateways) + 1
  BY <1>1, FS_AddElement, FS_CardinalityType DEF AccountInv
<1>5. Owners \subseteq Owners'
  BY <1>0, <1>1, <1>2, <1>3 DEF Owners, At
<1>6. Orphans' \subseteq Orphans
  BY <1>0, <1>1, <1>2 DEF Orphans, Awaited
<1>7. Cardinality(Owners) <= Cardinality(Owners') /\ Cardinality(Orphans') <= Cardinality(Orphans)
  BY <1>5, <1>6, Countable, FS_Subset
<1>8. \/ Cardinality(Owners) + 1 <= Cardinality(Owners')
      \/ Cardinality(Orphans') + 1 <= Cardinality(Orphans)
  <2>1. CASE Awaited(q)
    <3>1. PICK a \in Agents : agent[a].req = q
      BY <2>1 DEF Awaited
    <3>2. agent[a].pc = "wait" /\ file[a] = NoCreds
      BY <3>1, DataAssumption DEF WaitInv, AccountInv
    <3>3. a \notin Owners /\ a \in Owners'
      BY <1>0, <1>1, <1>2, <3>1, <3>2 DEF Owners, At
    <3>4. Owners \cup {a} \subseteq Owners' /\ Cardinality(Owners \cup {a}) = Cardinality(Owners) + 1
      BY <1>5, <3>3, Countable, FS_AddElement
    <3> QED
      BY <3>4, Countable, FS_Subset
  <2>2. CASE ~Awaited(q)
    <3>1. q \in Orphans /\ q \notin Orphans'
      BY <1>0, <1>2, <2>2 DEF Orphans
    <3>2. Orphans' \cup {q} \subseteq Orphans /\ Cardinality(Orphans' \cup {q}) = Cardinality(Orphans') + 1
      BY <1>6, <3>1, Countable, FS_AddElement
    <3> QED
      BY <3>2, Countable, FS_Subset
  <2> QED
    BY <2>1, <2>2
<1>9. Cardinality(DOMAIN gateways') + Cardinality(Orphans') <= Cardinality(Owners') + spoiled'
  BY <1>1, <1>4, <1>7, <1>8, Countable DEF AccountInv, TypeOK
<1> QED
  BY <1>1, <1>4, <1>9 DEF AccountInv

(* A crash of the server is charged for every request at work.              *)
LEMMA CrashAccount ==
    ASSUME TypeOK, Secured, AccountInv, ServerCrash
    PROVE  AccountInv'
<1> USE DEF Secured
<1> DEFINE Lost == Owners \ Owners'
<1>1. /\ \A q \in Requests : req'[q] = IF Awaited(q) THEN Failed ELSE IdleReq
      /\ UNCHANGED <<gateways, agent, mem, file>>
      /\ spoiled' = spoiled + Cardinality(AtWork)
  BY DEF ServerCrash, Spoil, serverVars
<1>2. IsFiniteSet(AtWork) /\ Cardinality(AtWork) \in Nat
  BY DataAssumption, FS_Subset, FS_CardinalityType DEF AtWork
<1>3. Orphans' = {}
  BY <1>1 DEF Orphans, Failed, IdleReq
<1>4. \A a \in Lost : agent[a].pc = "wait" /\ agent[a].req \in AtWork
  BY <1>1 DEF Owners, At, WaitInv, TypeOK, AgentState, AtWork
<1>5. [a \in Lost |-> agent[a].req] \in Injection(Lost, AtWork)
  <2>1. Lost \subseteq Agents
    BY DEF Owners
  <2> QED
    BY <1>4, <2>1 DEF Injection, IsInjective, WaitInv
<1>6. IsFiniteSet(Lost) /\ Cardinality(Lost) <= Cardinality(AtWork)
  BY <1>2, <1>5, FS_Injection
<1>7. Cardinality(Owners) <= Cardinality(Owners') + Cardinality(Lost)
  <2>1. IsFiniteSet(Owners' \cup Lost) /\ Owners \subseteq Owners' \cup Lost
    BY <1>6, Countable, FS_Union
  <2>2. Owners' \cap Lost = {} /\ Cardinality(Owners' \cap Lost) = 0
    BY FS_EmptySet
  <2>3. Cardinality(Owners' \cup Lost)
           = Cardinality(Owners') + Cardinality(Lost) - Cardinality(Owners' \cap Lost)
    BY <1>6, Countable, FS_Union
  <2> QED
    BY <1>6, <2>1, <2>2, <2>3, Countable, FS_Subset, FS_CardinalityType
<1>8. /\ Cardinality(Orphans') = 0 /\ Cardinality(DOMAIN gateways) \in Nat
      /\ Cardinality(Lost) \in Nat /\ spoiled \in Nat
  BY <1>3, <1>6, FS_EmptySet, FS_CardinalityType DEF AccountInv, TypeOK
<1>9. Cardinality(DOMAIN gateways') + Cardinality(Orphans') <= Cardinality(Owners') + spoiled'
  BY <1>1, <1>2, <1>6, <1>7, <1>8, Countable DEF AccountInv
<1> QED
  BY <1>1, <1>9 DEF AccountInv

(* Every step keeps the account.                                            *)
LEMMA AccountStep ==
    ASSUME TypeOK, Secured, AccountInv, [Next]_vars
    PROVE  AccountInv'
<1>1. ASSUME NEW a \in Agents, AgentStep(a) \/ AgentFault(a) PROVE AccountInv'
  BY <1>1, KeepAccount, RegisterAccount, FaultAccount DEF AgentStep
<1>2. ASSUME NEW q \in Requests, ServerStep(q) \/ InsertFails(q) \/ VersionFails(q)
      PROVE  AccountInv'
  <2>0. req[q] \in Request
    BY DEF TypeOK
  <2>1. CASE Allocate(q)
    <3>1. [req[q] EXCEPT !.pc = "insert", !.secret = NewSecret].pc = "insert"
      BY <2>0 DEF Request
    <3> QED
      BY <2>1, <3>1, RequestAccount DEF Allocate, Continue, serverVars
  <2>2. ASSUME NEW i \in Ids, Candidate(q, i) PROVE AccountInv'
    <3>1. [req[q] EXCEPT !.id = i, !.n = @ + 1].pc = "lookup"
      BY <2>0, <2>2 DEF Request, Candidate
    <3> QED
      BY <2>2, <3>1, RequestAccount DEF Candidate, Continue, serverVars
  <2>3. CASE NoId(q) \/ InsertFails(q) \/ (CreateGateway(q) /\ Exists(req[q].id))
    BY <2>3, RequestAccount
       DEF NoId, InsertFails, CreateGateway, Continue, Failed, IdleReq, serverVars
  <2>4. CASE CreateGateway(q) /\ ~Exists(req[q].id)
    BY <2>4, CreateAccount
  <2>5. CASE EnsureConfigVersion(q)
    <3>1. [req[q] EXCEPT !.pc = "created"].pc = "created"
      BY <2>0 DEF Request
    <3> QED
      BY <2>5, <3>1, RequestAccount DEF EnsureConfigVersion
  <2>6. CASE VersionFails(q)
    BY <2>6, RequestAccount DEF VersionFails, Spoil, Failed, IdleReq, serverVars
  <2>7. CASE ReplyToNobody(q)
    BY <2>7, RequestAccount DEF ReplyToNobody, Continue, IdleReq, serverVars
  <2> QED
    BY <1>2, <2>1, <2>2, <2>3, <2>4, <2>5, <2>6, <2>7 DEF ServerStep
<1>3. CASE UNCHANGED vars
  BY <1>3 DEF vars, serverVars, AccountInv, Owners, Orphans, Awaited, At
<1> QED
  BY <1>1, <1>2, <1>3, CrashAccount DEF Next

-----------------------------------------------------------------------------
(* Theorems.                                                               *)

(* IInv is an inductive invariant of Registration.                          *)
THEOREM Inductive == Spec => []IInv
<1>1. Init => IInv
  <2> SUFFICES ASSUME Init PROVE IInv
    OBVIOUS
  <2>1. TypeOK
    BY TypeInit
  <2>2. Held \subseteq {NoCreds}
    BY DEF Init, Held
  <2> QED
    BY <2>1, <2>2
       DEF Init, IInv, WaitInv, ReplyInv, CredentialsWork, OwnGateway, IdleReq
<1>2. IInv /\ [Next]_vars => IInv'
  <2> SUFFICES ASSUME IInv, [Next]_vars PROVE IInv'
    OBVIOUS
  <2>1. TypeOK /\ Secured
    BY DEF IInv, Secured
  <2>2. ASSUME NEW a \in Agents, AgentStep(a) \/ AgentFault(a) PROVE TypeOK' /\ Secured'
    BY <2>1, <2>2, AgentType, PlainAgentSecured, RegisterSecured, ReceiveSecured
       DEF AgentStep, AgentFault, Secured
  <2>3. ASSUME NEW q \in Requests, ServerStep(q) \/ InsertFails(q) \/ VersionFails(q)
        PROVE  TypeOK' /\ Secured'
    <3>1. TypeOK'
      BY <2>1, <2>3, RequestType DEF Secured
    <3>2. ASSUME NEW i \in Ids, Candidate(q, i) PROVE Secured'
      <4>1. [req[q] EXCEPT !.id = i, !.n = @ + 1].pc = "lookup" /\ [req[q] EXCEPT !.id = i, !.n = @ + 1].id = i
        BY <2>1, <3>2 DEF Candidate, TypeOK, Request
      <4> QED
        BY <2>1, <3>2, <4>1, PlainRequestSecured DEF Candidate, Continue, serverVars
    <3>3. ASSUME NoId(q) \/ InsertFails(q) \/ VersionFails(q) \/ ReplyToNobody(q) PROVE Secured'
      BY <2>1, <3>3, PlainRequestSecured
         DEF NoId, InsertFails, VersionFails, ReplyToNobody, Continue, Failed, IdleReq, serverVars
    <3>4. ASSUME CreateGateway(q), Exists(req[q].id) PROVE Secured'
      BY <2>1, <3>4, PlainRequestSecured DEF CreateGateway, Continue, Failed, IdleReq, serverVars
    <3> QED
      BY <2>1, <2>3, <3>1, <3>2, <3>3, <3>4, AllocateSecured, CreateSecured, VersionSecured
         DEF ServerStep
  <2>4. ASSUME ServerCrash PROVE TypeOK' /\ Secured'
    BY <2>1, <2>4, CrashType, CrashSecured
  <2>5. ASSUME UNCHANGED vars PROVE TypeOK' /\ Secured'
    <3>1. TypeOK' /\ WaitInv'
      BY <2>1, <2>5 DEF vars, serverVars, Secured, TypeOK, WaitInv
    <3>2. Held' = Held /\ CredentialsWork' /\ OwnGateway'
      BY <2>1, <2>5 DEF vars, serverVars, Secured, CredentialsWork, OwnGateway, Usable, Held
    <3>3. ReplyInv'
      BY <2>1, <2>5, <3>2 DEF vars, serverVars, Secured, ReplyInv, Usable
    <3> QED
      BY <3>1, <3>2, <3>3 DEF Secured
  <2>6. TypeOK' /\ Secured'
    BY <2>2, <2>3, <2>4, <2>5 DEF Next
  <2> QED
    BY <2>6 DEF IInv, Secured
<1> QED
  BY <1>1, <1>2, PTL DEF Spec

(* Credentials that an agent holds open a gateway with a config version.    *)
THEOREM CredentialsWorkTheorem == Spec => []CredentialsWork
  BY Inductive, PTL DEF IInv

(* No two agents act as the same gateway.                                   *)
THEOREM OwnGatewayTheorem == Spec => []OwnGateway
  BY Inductive, PTL DEF IInv

(* Every gateway, made or about to be made for nobody, has an owner or a    *)
(* fault to its name.                                                       *)
THEOREM AccountTheorem == Spec => []AccountInv
<1>1. Init => AccountInv
  <2> SUFFICES ASSUME Init PROVE AccountInv
    OBVIOUS
  <2>1. DOMAIN gateways = {} /\ Orphans = {} /\ spoiled = 0
    BY DEF Init, Orphans, IdleReq
  <2>2. Cardinality(Owners) \in Nat
    BY Countable
  <2> QED
    BY <2>1, <2>2, FS_EmptySet DEF Init, AccountInv
<1>2. IInv /\ AccountInv /\ [Next]_vars => AccountInv'
  BY AccountStep DEF IInv, Secured
<1> QED
  BY <1>1, <1>2, Inductive, PTL DEF Spec

(* There are never more gateways than agents and results lost to faults.    *)
THEOREM FewGatewaysTheorem == Spec => []FewGateways
<1>1. TypeOK /\ AccountInv => FewGateways
  <2> SUFFICES ASSUME TypeOK, AccountInv PROVE FewGateways
    OBVIOUS
  <2>1. Owners \subseteq Agents
    BY DEF Owners
  <2>2. Cardinality(Owners) <= Cardinality(Agents) /\ Cardinality(Agents) \in Nat
    BY <2>1, DataAssumption, FS_Subset, FS_CardinalityType
  <2>3. Cardinality(DOMAIN gateways) \in Nat /\ spoiled \in Nat
    BY FS_CardinalityType DEF AccountInv, TypeOK
  <2> QED
    BY <2>2, <2>3, Countable DEF AccountInv, FewGateways
<1> QED
  BY <1>1, Inductive, AccountTheorem, PTL DEF IInv

=============================================================================
