----------------------------- MODULE Registration -----------------------------
(***************************************************************************)
(* First boot: agents register gateways with the control API and keep the  *)
(* credentials, of which the server stores a hash only, in their state     *)
(* file. A step is one SQL statement of the server, one message, one file  *)
(* operation or the end of an agent process.                                *)
(*                                                                         *)
(* Checks that always end alike for a configured agent (the token, a name) *)
(* are left out, and so are the columns that describe the host.             *)
(***************************************************************************)
EXTENDS Integers, FiniteSets

CONSTANTS
    Agents,
    Ids,        \* gateway ids: slugs, and slugs with a random suffix
    Slug,       \* each agent's slugified name
    Secrets,    \* random: a new one has never been seen
    Requests,   \* room for register requests under way
    Tries,      \* suffixes looked up before giving up, 8 in the code
    Faults,     \* the kinds of fault that can happen
    MaxFaults   \* bound: faults

FaultKinds ==
    {"timeout",      \* the agent gives up, the request is lost or goes on
     "insertFails",  \* CreateGateway fails for another reason than the key
     "versionFails", \* EnsureConfigVersion fails
     "cutOff",       \* a 2xx reply arrives without its body
     "saveFails",    \* the state file cannot be written
     "agentCrash", "serverCrash"}

None == "none"
NoCreds == [id |-> None, secret |-> None]
Creds == [id : Ids, secret : Secrets]

ASSUME DataAssumption ==
    /\ Slug \in [Agents -> Ids]
    /\ None \notin Ids \cup Secrets \cup Requests \cup Agents
    /\ IsFiniteSet(Requests) /\ IsFiniteSet(Agents)

ASSUME BoundAssumption ==
    /\ Faults \subseteq FaultKinds
    /\ Tries \in Nat /\ MaxFaults \in Nat

VARIABLES
    gateways,  \* id -> secret, the table with its primary key
    versions,  \* the ids with a row in config_versions
    req,       \* register requests in the server
    agent,     \* where an agent is, and the request it waits for
    mem, file, \* its credentials in memory and in the state file
    spoiled,   \* history: requests or results that a fault made useless
    emptied,   \* history: agent processes whose registration was answered by nothing
    faults

serverVars == <<gateways, versions>>
vars == <<gateways, versions, req, agent, mem, file, spoiled, emptied, faults>>

IdleReq == [pc |-> "idle", id |-> None, secret |-> None, n |-> 0]

Failed == [IdleReq EXCEPT !.pc = "failed"]

Request ==
    [pc : {"idle", "lookup", "insert", "version", "created", "failed"},
     id : Ids \cup {None}, secret : Secrets \cup {None}, n : 0..Tries]

AgentState ==
    [pc : {"boot", "register", "wait", "save", "ready", "down"}, req : Requests \cup {None}]

TypeOK ==
    /\ DOMAIN gateways \subseteq Ids /\ \A i \in DOMAIN gateways : gateways[i] \in Secrets
    /\ versions \subseteq Ids
    /\ req \in [Requests -> Request]
    /\ agent \in [Agents -> AgentState]
    /\ mem \in [Agents -> Creds \cup {NoCreds}] /\ file \in [Agents -> Creds \cup {NoCreds}]
    /\ spoiled \in Nat /\ emptied \subseteq Agents /\ faults \in 0..MaxFaults

Init ==
    /\ gateways = [i \in {} |-> None] /\ versions = {}
    /\ req = [q \in Requests |-> IdleReq]
    /\ agent = [a \in Agents |-> [pc |-> "boot", req |-> None]]
    /\ mem = [a \in Agents |-> NoCreds] /\ file = [a \in Agents |-> NoCreds]
    /\ spoiled = 0 /\ emptied = {} /\ faults = 0

Fault(kind) ==
    /\ kind \in Faults /\ faults < MaxFaults
    /\ faults' = faults + 1

Spoil(n) == spoiled' = spoiled + n

GoTo(a, pc) == agent' = [agent EXCEPT ![a] = [pc |-> pc, req |-> None]]

-----------------------------------------------------------------------------
(* Agent.                                                                  *)

\* Defect: stored credentials are ignored, every start registers.
RegisterAlways(a) ==
    /\ agent[a].pc = "boot"
    /\ mem' = [mem EXCEPT ![a] = file[a]]
    /\ GoTo(a, "register")
    /\ UNCHANGED <<serverVars, req, file, spoiled, emptied, faults>>

(* LoadState, then EnsureRegistered reuses what is there. *)
LoadState(a) ==
    /\ agent[a].pc = "boot"
    /\ mem' = [mem EXCEPT ![a] = file[a]]
    /\ GoTo(a, IF file[a] # NoCreds THEN "ready" ELSE "register")
    /\ UNCHANGED <<serverVars, req, file, spoiled, emptied, faults>>

Register(a) ==
    /\ agent[a].pc = "register"
    /\ \E q \in Requests :
          /\ req[q].pc = "idle"
          /\ req' = [req EXCEPT ![q] =
                [IdleReq EXCEPT !.pc = "lookup", !.id = Slug[a]]]
          /\ agent' = [agent EXCEPT ![a] = [pc |-> "wait", req |-> q]]
    /\ UNCHANGED <<serverVars, mem, file, spoiled, emptied, faults>>

Awaited(q) == \E a \in Agents : agent[a].req = q
At(a, pc) == agent[a].pc = "wait" /\ req[agent[a].req].pc = pc
Drop(a) == req' = [req EXCEPT ![agent[a].req] = IdleReq]

(* SetCredentials sets them in memory first. *)
Receive(a) ==
    /\ At(a, "created")
    /\ mem' = [mem EXCEPT ![a] = [id |-> req[agent[a].req].id, secret |-> req[agent[a].req].secret]]
    /\ Drop(a) /\ GoTo(a, "save")
    /\ UNCHANGED <<serverVars, file, spoiled, emptied, faults>>

(* No body is no error: the zero value passes for the response. *)
ReceiveNothing(a) ==
    /\ Fault("cutOff") /\ At(a, "created")
    /\ mem' = [mem EXCEPT ![a] = NoCreds]
    /\ Spoil(1) /\ emptied' = emptied \cup {a}
    /\ Drop(a) /\ GoTo(a, "save")
    /\ UNCHANGED <<serverVars, file>>

(* An error, or a connection broken by a crash: again after the backoff. *)
Retry(a) ==
    /\ At(a, "failed")
    /\ Drop(a) /\ GoTo(a, "register")
    /\ UNCHANGED <<serverVars, mem, file, spoiled, emptied, faults>>

(* The request never arrives, or the server goes on without the agent. *)
GiveUp(a) ==
    /\ Fault("timeout") /\ agent[a].pc = "wait"
    /\ Spoil(1)
    /\ \/ UNCHANGED req
       \/ At(a, "lookup") /\ Drop(a)
    /\ GoTo(a, "register")
    /\ UNCHANGED <<serverVars, mem, file, emptied>>

\* Defect: the file gets the snapshot from before the credentials were set.
SaveSnapshot(a) ==
    /\ agent[a].pc = "save"
    /\ GoTo(a, "ready")
    /\ UNCHANGED <<serverVars, req, mem, file, spoiled, emptied, faults>>

Save(a) ==
    /\ agent[a].pc = "save"
    /\ file' = [file EXCEPT ![a] = mem[a]]
    /\ GoTo(a, "ready")
    /\ UNCHANGED <<serverVars, req, mem, spoiled, emptied, faults>>

(* EnsureRegistered returns the error and main gives up. *)
SaveFails(a) ==
    /\ Fault("saveFails") /\ agent[a].pc = "save"
    /\ Spoil(1) /\ GoTo(a, "down")
    /\ UNCHANGED <<serverVars, req, mem, file, emptied>>

AgentCrash(a) ==
    /\ Fault("agentCrash") /\ agent[a].pc # "down"
    /\ Spoil(IF agent[a].pc \in {"wait", "save"} THEN 1 ELSE 0)
    /\ GoTo(a, "down")
    /\ UNCHANGED <<serverVars, req, mem, file, emptied>>

(* The service manager starts it again. *)
Restart(a) ==
    /\ agent[a].pc = "down"
    /\ mem' = [mem EXCEPT ![a] = NoCreds] /\ GoTo(a, "boot")
    /\ emptied' = emptied \ {a}
    /\ UNCHANGED <<serverVars, req, file, spoiled, faults>>

-----------------------------------------------------------------------------
(* Server: the Register handler.                                           *)

Handle(q, r) == req' = [req EXCEPT ![q] = r]

Continue(q, r) ==
    /\ Handle(q, r)
    /\ UNCHANGED <<serverVars, agent, mem, file, spoiled, emptied, faults>>

Exists(i) == i \in DOMAIN gateways

(* generateSecret: one that is in no row, on no way and with no agent. *)
Seen ==
    {gateways[i] : i \in DOMAIN gateways} \cup {req[q].secret : q \in Requests}
    \cup {mem[a].secret : a \in Agents} \cup {file[a].secret : a \in Agents}

NewSecret == CHOOSE s \in Secrets : s \notin Seen

(* allocateGatewayID: the slug, then candidates with a random suffix. *)
Allocate(q) ==
    /\ req[q].pc = "lookup" /\ ~Exists(req[q].id)
    /\ ~(Secrets \subseteq Seen)
    /\ Continue(q, [req[q] EXCEPT !.pc = "insert", !.secret = NewSecret])

Candidate(q, i) ==
    /\ req[q].pc = "lookup" /\ Exists(req[q].id) /\ req[q].n < Tries
    /\ Continue(q, [req[q] EXCEPT !.id = i, !.n = @ + 1])

NoId(q) ==
    /\ req[q].pc = "lookup" /\ Exists(req[q].id) /\ req[q].n = Tries
    /\ Continue(q, Failed)

Put(i, s) == [j \in DOMAIN gateways \cup {i} |-> IF j = i THEN s ELSE gateways[j]]

\* Defect: a row with the same id is replaced.
InsertOrReplace(q) ==
    /\ req[q].pc = "insert"
    /\ gateways' = Put(req[q].id, req[q].secret)
    /\ Handle(q, [req[q] EXCEPT !.pc = "version"])
    /\ UNCHANGED <<versions, agent, mem, file, spoiled, emptied, faults>>

(* The primary key decides between two requests that found the same id free. *)
CreateGateway(q) ==
    /\ req[q].pc = "insert"
    /\ IF Exists(req[q].id)
       THEN Continue(q, Failed)
       ELSE /\ gateways' = Put(req[q].id, req[q].secret)
            /\ Handle(q, [req[q] EXCEPT !.pc = "version"])
            /\ UNCHANGED <<versions, agent, mem, file, spoiled, emptied, faults>>

InsertFails(q) ==
    /\ Fault("insertFails") /\ req[q].pc = "insert"
    /\ Handle(q, Failed)
    /\ UNCHANGED <<serverVars, agent, mem, file, spoiled, emptied>>

\* Defect: the version row is left to the first change of a tunnel.
ReplyWithoutVersion(q) ==
    /\ req[q].pc = "version"
    /\ Continue(q, [req[q] EXCEPT !.pc = "created"])

EnsureConfigVersion(q) ==
    /\ req[q].pc = "version"
    /\ versions' = versions \cup {req[q].id}
    /\ Handle(q, [req[q] EXCEPT !.pc = "created"])
    /\ UNCHANGED <<gateways, agent, mem, file, spoiled, emptied, faults>>

(* The gateway row stays, and its id is taken. *)
VersionFails(q) ==
    /\ Fault("versionFails") /\ req[q].pc = "version"
    /\ Spoil(1)
    /\ Handle(q, Failed)
    /\ UNCHANGED <<serverVars, agent, mem, file, emptied>>

(* The answer to an agent that no longer waits. *)
ReplyToNobody(q) ==
    /\ req[q].pc \in {"created", "failed"} /\ ~Awaited(q)
    /\ Continue(q, IdleReq)

AtWork == {q \in Requests : req[q].pc # "idle"}

ServerCrash ==
    /\ Fault("serverCrash") /\ AtWork # {}
    /\ Spoil(Cardinality(AtWork))
    /\ req' = [q \in Requests |-> IF Awaited(q) THEN Failed ELSE IdleReq]
    /\ UNCHANGED <<serverVars, agent, mem, file, emptied>>

-----------------------------------------------------------------------------
AgentStep(a) ==
    LoadState(a) \/ Register(a) \/ Receive(a) \/ Retry(a) \/ Save(a) \/ Restart(a)

AgentFault(a) == ReceiveNothing(a) \/ GiveUp(a) \/ SaveFails(a) \/ AgentCrash(a)

ServerStep(q) ==
    \/ Allocate(q) \/ (\E i \in Ids : Candidate(q, i)) \/ NoId(q)
    \/ CreateGateway(q) \/ EnsureConfigVersion(q) \/ ReplyToNobody(q)

Next ==
    \/ \E a \in Agents : AgentStep(a) \/ AgentFault(a)
    \/ \E q \in Requests : ServerStep(q) \/ InsertFails(q) \/ VersionFails(q)
    \/ ServerCrash

Spec == Init /\ [][Next]_vars

(* The loop of EnsureRegistered, the handler and the service manager go on, *)
(* and random suffixes hit a free id now and then.                          *)
Fairness ==
    /\ \A a \in Agents : WF_vars(AgentStep(a))
    /\ \A q \in Requests : WF_vars(ServerStep(q))
    /\ \A q \in Requests : SF_vars(\E i \in Ids \ DOMAIN gateways : Candidate(q, i))

FairSpec == Spec /\ Fairness

-----------------------------------------------------------------------------
(* Properties.                                                             *)

Usable(c) == c.id \in DOMAIN gateways /\ gateways[c.id] = c.secret

Held == {mem[a] : a \in Agents} \cup {file[a] : a \in Agents}

(* Credentials that an agent holds, in memory or in its file, open a       *)
(* gateway that has a config version, so its first heartbeat is told to     *)
(* sync; lost replies, crashes and racing registrations never leave it with *)
(* anything else.                                                            *)
CredentialsWork == \A c \in Held \ {NoCreds} : Usable(c) /\ c.id \in versions

(* No two agents act as the same gateway, although they may have the same   *)
(* name and find the same id free.                                           *)
OwnGateway ==
    \A a, b \in Agents : a # b =>
        \A c \in {mem[a], file[a]} \ {NoCreds} : \A d \in {mem[b], file[b]} : c.id # d.id

(* A gateway nobody uses is the trace of a fault: there are never more of    *)
(* them than agents and results that a fault made useless.                   *)
FewGateways == Cardinality(DOMAIN gateways) <= Cardinality(Agents) + spoiled

(* "Retrying with capped backoff until it succeeds": with faults over, every *)
(* agent is up and stays so with credentials, the same in memory and in its   *)
(* file, whatever was lost or failed before; only a process that was answered *)
(* by nothing can be without, and only until its restart.                     *)
Registered ==
    <>[](\A a \in Agents :
            /\ agent[a].pc = "ready" /\ mem[a] = file[a]
            /\ mem[a] # NoCreds \/ a \in emptied)

(* "EnsureRegistered makes sure the agent has credentials": once it has       *)
(* returned without an error, there are some.                                 *)
Credentialed == \A a \in Agents : agent[a].pc = "ready" => mem[a] # NoCreds

-----------------------------------------------------------------------------
(* Why they hold.                                                          *)

(* A request looks for an id, then has a secret, and when it is about to     *)
(* answer it has made a gateway that nobody else has yet.                    *)
ReplyInv ==
    \A q \in Requests :
        /\ req[q].pc \notin {"idle", "failed"} => req[q].id \in Ids
        /\ req[q].pc \in {"insert", "version", "created"} => req[q].secret \in Secrets
        /\ req[q].pc \in {"version", "created"} =>
              /\ Usable(req[q])
              /\ \A c \in Held : c.id # req[q].id
              /\ \A p \in Requests \ {q} :
                    req[p].pc \in {"version", "created"} => req[p].id # req[q].id
        /\ req[q].pc = "created" => req[q].id \in versions

(* An agent waits for a request of its own.                                 *)
WaitInv ==
    /\ \A a \in Agents : agent[a].req # None <=> agent[a].pc = "wait"
    /\ \A a \in Agents : agent[a].pc = "wait" => req[agent[a].req].pc # "idle"
    /\ \A a, b \in Agents : a # b /\ agent[a].pc = "wait" => agent[a].req # agent[b].req

IInv == TypeOK /\ WaitInv /\ ReplyInv /\ CredentialsWork /\ OwnGateway

(* The agents with a gateway: its credentials are in the file, on the way    *)
(* there, or in the request the agent waits for.                             *)
Owners ==
    {a \in Agents :
        \/ file[a] # NoCreds
        \/ agent[a].pc = "save" /\ mem[a] # NoCreds
        \/ At(a, "version") \/ At(a, "created")}

(* Requests that nobody waits for and that may still make a gateway.         *)
Orphans == {q \in Requests : req[q].pc \in {"lookup", "insert"} /\ ~Awaited(q)}

(* An agent registers only while it has nothing to lose, and every gateway,  *)
(* made or about to be made for nobody, has an owner or a fault to its name. *)
AccountInv ==
    /\ \A a \in Agents : agent[a].pc \in {"register", "wait", "save"} => file[a] = NoCreds
    /\ IsFiniteSet(DOMAIN gateways)
    /\ Cardinality(DOMAIN gateways) + Cardinality(Orphans) <= Cardinality(Owners) + spoiled

=============================================================================
