------------------------------ MODULE FrpcManager ------------------------------
(***************************************************************************)
(* The frpc child process: SyncOnce's callers apply configs through the    *)
(* manager, the process may die or resist being killed, and the agent       *)
(* shuts down, crashes and is started again.                                *)
(*                                                                         *)
(* A process that was sent SIGKILL is "doomed": it runs no more of its own  *)
(* code, though the kernel may take its time. Configs are numbered in the   *)
(* order the server issues them. ControlLoop has the pull, the versions and *)
(* the state file in detail.                                                *)
(***************************************************************************)
EXTENDS Integers, FiniteSets

CONSTANTS
    Loops,       \* callers of SyncOnce with main's context
    Requests,    \* local publish requests, with a context of their own
    Slots,       \* room for the processes that exist at the same time
    Faults,      \* the kinds of fault that can happen
    MaxConfigs,  \* bound: configs issued
    MaxFaults    \* bound: faults and shutdowns

FaultKinds ==
    {"dies",       \* frpc exits by itself
     "slowKill",   \* a killed frpc is still there after 5 seconds
     "badConfig",  \* writing or verifying frpc.toml fails
     "noStart",    \* frpc is stopped but cannot be started
     "signal",     \* SIGTERM: the agent shuts down
     "slowDrain",  \* requests are still at work 5 seconds after the signal
     "crash"}      \* the agent dies

None == "none"
Callers == Loops \cup Requests

ASSUME ActorAssumption ==
    /\ Callers \cap {None, "main"} = {} /\ None \notin Slots

ASSUME BoundAssumption ==
    /\ Faults \subseteq FaultKinds
    /\ MaxConfigs \in Nat \ {0} /\ MaxFaults \in Nat

(* Every process besides the tracked one is there because of a fault. *)
ASSUME SlotAssumption == IsFiniteSet(Slots) /\ Cardinality(Slots) > MaxFaults

VARIABLES
    latest,   \* the newest config the server has
    applied,  \* the config marked applied
    toml,     \* the installed frpc.toml
    proc,     \* the processes
    current,  \* Manager.current
    mu,       \* Manager.mu
    lock,     \* Synchronizer.mu
    call,     \* each caller's SyncOnce
    main,     \* where main() is
    late,     \* history: a call entered the manager after Stop had returned
    faults

procVars == <<toml, proc, current, mu>>
vars == <<latest, applied, toml, proc, current, mu, lock, call, main, late, faults>>

CallPcs == {"idle", "want", "pulled", "write", "reload", "wait", "start", "mark"}
IdleCall == [pc |-> "idle", cfg |-> 0]
NoProc == [st |-> "free", cfg |-> 0]

TypeOK ==
    /\ latest \in 1..MaxConfigs /\ applied \in 0..MaxConfigs /\ toml \in 0..MaxConfigs
    /\ proc \in [Slots -> [st : {"free", "up", "doomed", "dead"}, cfg : 0..MaxConfigs]]
    /\ current \in Slots \cup {None}
    /\ mu \in Callers \cup {None, "main"} /\ lock \in Callers \cup {None}
    /\ call \in [Callers -> [pc : CallPcs, cfg : 0..MaxConfigs]]
    /\ main \in {"run", "drain", "stop", "kill", "stopped", "exited", "crashed"}
    /\ late \in BOOLEAN /\ faults \in 0..MaxFaults

Init ==
    /\ latest = 1 /\ applied = 0 /\ toml = 0
    /\ proc = [s \in Slots |-> NoProc] /\ current = None
    /\ mu = None /\ lock = None
    /\ call = [c \in Callers |-> IdleCall]
    /\ main = "run" /\ late = FALSE /\ faults = 0

Fault(kind) ==
    /\ kind \in Faults /\ faults < MaxFaults
    /\ faults' = faults + 1

(* isRunningLocked: `done' is closed once the process has been waited for. *)
Running == current # None /\ proc[current].st # "free"

-----------------------------------------------------------------------------
(* SyncOnce.                                                               *)

(* The server issues another config. *)
Change ==
    /\ latest < MaxConfigs /\ latest' = latest + 1
    /\ UNCHANGED <<applied, procVars, lock, call, main, late, faults>>

Step(c, from, to) == call[c].pc = from /\ call' = [call EXCEPT ![c].pc = to]

Return(c) == call' = [call EXCEPT ![c] = IdleCall] /\ lock' = None

(* A tick, a trigger, or a publish request that was accepted. *)
Want(c) ==
    /\ main = "run" /\ Step(c, "idle", "want")
    /\ UNCHANGED <<latest, applied, procVars, lock, main, late, faults>>

(* Main's context is cancelled by the signal, a request's is not. *)
Pull(c) ==
    /\ call[c].pc = "want" /\ lock = None
    /\ IF c \in Loops /\ main # "run"
       THEN Return(c)
       ELSE /\ call' = [call EXCEPT ![c] = [pc |-> "pulled", cfg |-> latest]]
            /\ lock' = c
    /\ UNCHANGED <<latest, applied, procVars, main, late, faults>>

\* Defect: the fast path looks at the version only.
CompareVersions(c) ==
    /\ call[c].pc = "pulled"
    /\ IF call[c].cfg = applied THEN Return(c) ELSE Step(c, "pulled", "write") /\ UNCHANGED lock
    /\ UNCHANGED <<latest, applied, procVars, main, late, faults>>

(* The fast path; Status waits for the manager's mutex. *)
Compare(c) ==
    /\ call[c].pc = "pulled"
    /\ IF call[c].cfg = applied
       THEN /\ mu = None
            /\ IF Running THEN Return(c) ELSE Step(c, "pulled", "write") /\ UNCHANGED lock
       ELSE Step(c, "pulled", "write") /\ UNCHANGED lock
    /\ UNCHANGED <<latest, applied, procVars, main, late, faults>>

WriteConfig(c) ==
    /\ Step(c, "write", "reload")
    /\ toml' = call[c].cfg
    /\ UNCHANGED <<latest, applied, proc, current, mu, lock, main, late, faults>>

WriteFails(c) ==
    /\ Fault("badConfig") /\ call[c].pc = "write"
    /\ Return(c)
    /\ UNCHANGED <<latest, applied, procVars, main, late>>

-----------------------------------------------------------------------------
(* Manager: stopLocked and startLocked.                                    *)

(* SIGKILL for the tracked process; nothing happens to one that has exited. *)
Killed == [s \in Slots |-> IF s = current /\ proc[s].st = "up"
                            THEN [proc[s] EXCEPT !.st = "doomed"] ELSE proc[s]]

\* Defect: reload leaves a running process alone.
StartUnlessRunning(c) ==
    /\ call[c].pc = "reload" /\ mu = None
    /\ IF Running THEN Step(c, "reload", "mark") /\ UNCHANGED <<mu, current>>
                  ELSE Step(c, "reload", "start") /\ mu' = c /\ current' = None
    /\ UNCHANGED <<latest, applied, toml, proc, lock, main, late, faults>>

\* Defect: the process is forgotten without being killed.
ForgetAndStart(c) ==
    /\ mu = None /\ Step(c, "reload", "start") /\ mu' = c
    /\ current' = None
    /\ UNCHANGED <<latest, applied, toml, proc, lock, main, late, faults>>

BeginReload(c) ==
    /\ call[c].pc = "reload" /\ mu = None /\ mu' = c
    /\ IF Running THEN Step(c, "reload", "wait") /\ proc' = Killed /\ UNCHANGED current
                  ELSE Step(c, "reload", "start") /\ current' = None /\ UNCHANGED proc
    /\ late' = (late \/ main = "stopped")
    /\ UNCHANGED <<latest, applied, toml, lock, main, faults>>

(* The wait for the killed process ends when `done' is closed or after 5 s; *)
(* either way the manager no longer tracks it.                               *)
EndWait(c) ==
    /\ \/ ~Running /\ UNCHANGED faults
       \/ Running /\ Fault("slowKill")
    /\ Step(c, "wait", "start") /\ current' = None
    /\ UNCHANGED <<latest, applied, toml, proc, mu, lock, main, late>>

Start(c) ==
    /\ Step(c, "start", "mark")
    /\ \E s \in Slots :
          /\ proc[s].st = "free"
          /\ proc' = [proc EXCEPT ![s] = [st |-> "up", cfg |-> toml]]
          /\ current' = s
    /\ mu' = None
    /\ UNCHANGED <<latest, applied, toml, lock, main, late, faults>>

(* No binary, or no process: the manager has none. *)
StartFails(c) ==
    /\ Fault("noStart") /\ call[c].pc = "start"
    /\ Return(c) /\ mu' = None
    /\ UNCHANGED <<latest, applied, toml, proc, current, main, late>>

MarkApplied(c) ==
    /\ call[c].pc = "mark" /\ applied' = call[c].cfg
    /\ Return(c)
    /\ UNCHANGED <<latest, procVars, main, late, faults>>

-----------------------------------------------------------------------------
(* The process.                                                            *)

Become(s, st) == proc' = [proc EXCEPT ![s] = st]

Dies(s) ==
    /\ Fault("dies") /\ proc[s].st = "up"
    /\ Become(s, [proc[s] EXCEPT !.st = "dead"])
    /\ UNCHANGED <<latest, applied, toml, current, mu, lock, call, main, late>>

Vanish(s) ==
    /\ proc[s].st = "doomed"
    /\ Become(s, [proc[s] EXCEPT !.st = "dead"])
    /\ UNCHANGED <<latest, applied, toml, current, mu, lock, call, main, late, faults>>

(* cmd.Wait returns and closes `done'; it needs no lock. *)
Waited(s) ==
    /\ proc[s].st = "dead"
    /\ Become(s, NoProc)
    /\ UNCHANGED <<latest, applied, toml, current, mu, lock, call, main, late, faults>>

-----------------------------------------------------------------------------
(* main: shutdown, crash, restart by the service manager.                  *)

Signal ==
    /\ Fault("signal") /\ main = "run" /\ main' = "drain"
    /\ UNCHANGED <<latest, applied, procVars, lock, call, late>>

(* Server.Shutdown waits for the requests, 5 seconds at most. *)
Drained ==
    /\ main = "drain" /\ main' = "stop"
    /\ \/ (\A c \in Requests : call[c].pc = "idle") /\ UNCHANGED faults
       \/ Fault("slowDrain")
    /\ UNCHANGED <<latest, applied, procVars, lock, call, late>>

\* Defect: Stop gives up when a reload holds the mutex.
TryStop ==
    /\ main = "stop"
    /\ IF mu = None /\ Running
       THEN main' = "kill" /\ proc' = Killed /\ mu' = "main" /\ UNCHANGED current
       ELSE main' = "stopped" /\ UNCHANGED <<proc, mu, current>>
    /\ UNCHANGED <<latest, applied, toml, lock, call, late, faults>>

StopFrpc ==
    /\ main = "stop" /\ mu = None
    /\ IF Running
       THEN main' = "kill" /\ proc' = Killed /\ mu' = "main" /\ UNCHANGED current
       ELSE main' = "stopped" /\ current' = None /\ UNCHANGED <<proc, mu>>
    /\ UNCHANGED <<latest, applied, toml, lock, call, late, faults>>

EndStop ==
    /\ main = "kill" /\ main' = "stopped"
    /\ \/ ~Running /\ UNCHANGED faults
       \/ Running /\ Fault("slowKill")
    /\ current' = None /\ mu' = None
    /\ UNCHANGED <<latest, applied, toml, proc, lock, call, late>>

(* All goroutines end with main; a child process does not. *)
Halt ==
    /\ call' = [c \in Callers |-> IdleCall]
    /\ lock' = None /\ mu' = None /\ current' = None
    /\ UNCHANGED <<latest, applied, toml, proc, late>>

Exit == main = "stopped" /\ main' = "exited" /\ Halt /\ UNCHANGED faults

Crash ==
    /\ Fault("crash") /\ main \notin {"exited", "crashed"}
    /\ main' = "crashed" /\ Halt

(* The service manager kills what the agent has left behind and starts it. *)
Restart ==
    /\ main \in {"exited", "crashed"} /\ main' = "run"
    /\ proc' = [s \in Slots |-> IF proc[s].st = "up"
                                 THEN [proc[s] EXCEPT !.st = "doomed"] ELSE proc[s]]
    /\ late' = FALSE
    /\ UNCHANGED <<latest, applied, toml, current, mu, lock, call, faults>>

-----------------------------------------------------------------------------
SyncStep(c) ==
    Pull(c) \/ Compare(c) \/ WriteConfig(c) \/ BeginReload(c) \/ EndWait(c) \/ Start(c)
    \/ MarkApplied(c)

MainStep == Drained \/ StopFrpc \/ EndStop \/ Exit \/ Restart

ProcStep(s) == Vanish(s) \/ Waited(s)

Next ==
    \/ Change
    \/ \E c \in Callers : Want(c) \/ SyncStep(c) \/ WriteFails(c) \/ StartFails(c)
    \/ \E s \in Slots : ProcStep(s) \/ Dies(s)
    \/ Signal \/ Crash \/ MainStep

Spec == Init /\ [][Next]_vars

(* The ticker, every goroutine that blocks on nothing but a mutex, and the *)
(* kernel, sooner or later. A Go mutex is not withheld from a waiter for    *)
(* ever. Nothing forces a config, a request or a fault.                      *)
Fairness ==
    /\ \A c \in Loops : WF_vars(Want(c))
    /\ \A c \in Callers : SF_vars(SyncStep(c))
    /\ \A s \in Slots : WF_vars(ProcStep(s))
    /\ SF_vars(MainStep)

FairSpec == Spec /\ Fairness

-----------------------------------------------------------------------------
(* Properties.                                                             *)

Serving == {s \in Slots : proc[s].st = "up"}

(* Whatever dies, resists being killed or fails to start, the manager never *)
(* loses sight of a process it has not killed: "stop it first to avoid      *)
(* duplicate proxies".                                                       *)
NoStray == main \notin {"exited", "crashed"} => Serving \subseteq {current}

(* Unless a caller stands between installing a file and reloading, the      *)
(* process that Status calls running was started with the installed file.   *)
RunsInstalled ==
    (\A c \in Callers : call[c].pc # "reload") =>
        \A s \in Serving \cap {current} : proc[s].cfg = toml

(* "Shutdown: stop frpc": when Stop has returned no frpc serves and none is  *)
(* about to be started, even if it came in the middle of a reload, unless a *)
(* call that had not yet reached the manager does so afterwards.             *)
ExitClean == main \in {"stopped", "exited"} /\ ~late => Serving = {}

(* With faults, deaths and shutdowns over, one frpc runs the latest config  *)
(* for good: its death is noticed, a failed start repeated, and nobody       *)
(* keeps a mutex for ever.                                                   *)
Revived == <>[](main = "run" /\ \E s \in Slots : Serving = {s} /\ proc[s].cfg = latest)

(* The manager keeps the promise of Child. *)
C == INSTANCE Child WITH installed <- toml, serving <- {proc[s].cfg : s \in Serving}

Refinement == C!Spec

-----------------------------------------------------------------------------
(* Why they hold.                                                          *)

(* One caller is past the synchronizer's mutex, and one is in the manager. *)
LockInv ==
    \A c \in Callers :
        /\ call[c].pc \notin {"idle", "want"} => lock = c
        /\ call[c].pc \in {"wait", "start"} <=> mu = c

StopInv == main = "kill" <=> mu = "main"

(* No call outlives the agent. *)
HaltInv == main \in {"exited", "crashed"} => \A c \in Callers : call[c].pc = "idle"

(* Not even between an agent's crash and its restart do two frpc serve.     *)
Alone == \A s, t \in Serving : s = t

(* Nothing serves while a new process is about to be started or Stop waits. *)
GapInv ==
    /\ \A c \in Callers : call[c].pc \in {"wait", "start"} => Serving = {}
    /\ \A c \in Callers : call[c].pc = "start" => current = None
    /\ main = "kill" => Serving = {}
    /\ main = "stopped" /\ ~late => Serving = {} /\ mu = None

IInv ==
    TypeOK /\ LockInv /\ StopInv /\ HaltInv /\ NoStray /\ Alone /\ GapInv /\ RunsInstalled

=============================================================================
