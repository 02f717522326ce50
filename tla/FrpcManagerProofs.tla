--------------------------- MODULE FrpcManagerProofs ---------------------------
(* The frpc manager never loses a process it has not killed, and implements *)
(* Child, for all constants.                                                *)
EXTENDS FrpcManager, TLAPS

-----------------------------------------------------------------------------
(* Types.                                                                  *)

(* A caller that moves on, and one that returns, keep the calls' types.     *)
LEMMA CallType ==
    ASSUME TypeOK, NEW c \in Callers
    PROVE  /\ \A from, to \in CallPcs : Step(c, from, to) => call' \in [Callers -> [pc : CallPcs, cfg : 0..MaxConfigs]]
           /\ Return(c) => call' \in [Callers -> [pc : CallPcs, cfg : 0..MaxConfigs]]
<1>1. IdleCall \in [pc : CallPcs, cfg : 0..MaxConfigs]
  BY BoundAssumption DEF IdleCall, CallPcs
<1>2. ASSUME NEW to \in CallPcs
      PROVE  [call[c] EXCEPT !.pc = to] \in [pc : CallPcs, cfg : 0..MaxConfigs]
  BY DEF TypeOK
<1> QED
  BY <1>1, <1>2 DEF TypeOK, Step, Return

(* Killing the tracked process keeps the processes' types.                  *)
LEMMA KilledType ==
    ASSUME TypeOK
    PROVE  Killed \in [Slots -> [st : {"free", "up", "doomed", "dead"}, cfg : 0..MaxConfigs]]
  BY DEF TypeOK, Killed

(* The number of faults stays within its bound.                             *)
LEMMA FaultType ==
    ASSUME TypeOK, NEW kind, Fault(kind)
    PROVE  faults' \in 0..MaxFaults
  BY BoundAssumption DEF TypeOK, Fault

(* The initial state is well typed.                                        *)
LEMMA TypeInit == Init => TypeOK
<1> SUFFICES ASSUME Init PROVE TypeOK
  OBVIOUS
<1>1. /\ IdleCall \in [pc : CallPcs, cfg : 0..MaxConfigs]
      /\ NoProc \in [st : {"free", "up", "doomed", "dead"}, cfg : 0..MaxConfigs]
  BY BoundAssumption DEF NoProc, IdleCall, CallPcs
<1>2. latest \in 1..MaxConfigs /\ applied \in 0..MaxConfigs /\ toml \in 0..MaxConfigs /\ faults \in 0..MaxFaults
  BY BoundAssumption DEF Init
<1> QED
  BY <1>1, <1>2 DEF Init, TypeOK

(* The steps of a call keep the types.                                      *)
LEMMA CallStepType ==
    ASSUME TypeOK, NEW c \in Callers,
           Want(c) \/ SyncStep(c) \/ WriteFails(c) \/ StartFails(c)
    PROVE  TypeOK'
<1> USE BoundAssumption DEF CallPcs
<1>1. CASE Want(c)
  BY <1>1, CallType DEF Want, TypeOK, procVars
<1>2. CASE Pull(c)
  <2>1. [pc |-> "pulled", cfg |-> latest] \in [pc : CallPcs, cfg : 0..MaxConfigs]
    BY DEF TypeOK
  <2>2. call' \in [Callers -> [pc : CallPcs, cfg : 0..MaxConfigs]] /\ lock' \in Callers \cup {None}
    BY <1>2, <2>1, CallType DEF Pull, TypeOK, Return
  <2> QED
    BY <1>2, <2>2 DEF Pull, TypeOK, procVars
<1>3. CASE Compare(c)
  BY <1>3, CallType DEF Compare, TypeOK, procVars, Return
<1>4. CASE WriteConfig(c)
  BY <1>4, CallType DEF WriteConfig, TypeOK
<1>5. CASE BeginReload(c)
  BY <1>5, CallType, KilledType DEF BeginReload, TypeOK
<1>6. CASE EndWait(c)
  BY <1>6, CallType DEF EndWait, TypeOK, Fault
<1>7. CASE Start(c)
  <2> PICK s \in Slots : proc' = [proc EXCEPT ![s] = [st |-> "up", cfg |-> toml]] /\ current' = s
    BY <1>7 DEF Start
  <2>1. [st |-> "up", cfg |-> toml] \in [st : {"free", "up", "doomed", "dead"}, cfg : 0..MaxConfigs]
    BY DEF TypeOK
  <2> QED
    BY <1>7, <2>1, CallType DEF Start, TypeOK
<1>8. CASE MarkApplied(c)
  BY <1>8, CallType DEF MarkApplied, TypeOK, procVars, Return
<1>9. CASE WriteFails(c)
  BY <1>9, CallType, FaultType DEF WriteFails, TypeOK, procVars, Return
<1>10. CASE StartFails(c)
  BY <1>10, CallType, FaultType DEF StartFails, TypeOK, Return
<1> QED
  BY <1>1, <1>2, <1>3, <1>4, <1>5, <1>6, <1>7, <1>8, <1>9, <1>10 DEF SyncStep

(* So do all other steps.                                                   *)
LEMMA OtherStepType ==
    ASSUME TypeOK,
           \/ Change \/ Signal \/ Crash \/ MainStep
           \/ \E s \in Slots : ProcStep(s) \/ Dies(s)
    PROVE  TypeOK'
<1> USE BoundAssumption
<1>1. CASE Change
  BY <1>1 DEF Change, TypeOK, procVars
<1>2. CASE Signal
  BY <1>2 DEF Signal, TypeOK, procVars, Fault
<1>3. ASSUME Halt PROVE call' \in [Callers -> [pc : CallPcs, cfg : 0..MaxConfigs]]
  BY <1>3 DEF Halt, IdleCall, CallPcs
<1>4. CASE Crash
  BY <1>3, <1>4 DEF Crash, Halt, TypeOK, Fault
<1>5. CASE Drained
  BY <1>5 DEF Drained, TypeOK, procVars, Fault
<1>6. CASE StopFrpc
  BY <1>6, KilledType DEF StopFrpc, TypeOK
<1>7. CASE EndStop
  BY <1>7 DEF EndStop, TypeOK, Fault
<1>8. CASE Exit
  BY <1>3, <1>8 DEF Exit, Halt, TypeOK
<1>9. CASE Restart
  BY <1>9 DEF Restart, TypeOK
<1>10. ASSUME NEW s \in Slots, ProcStep(s) \/ Dies(s) PROVE TypeOK'
  <2>1. /\ NoProc \in [st : {"free", "up", "doomed", "dead"}, cfg : 0..MaxConfigs]
        /\ [proc[s] EXCEPT !.st = "dead"] \in [st : {"free", "up", "doomed", "dead"}, cfg : 0..MaxConfigs]
    BY DEF NoProc, TypeOK
  <2> QED
    BY <1>10, <2>1 DEF ProcStep, Dies, Vanish, Waited, Become, TypeOK, Fault
<1> QED
  BY <1>1, <1>2, <1>4, <1>5, <1>6, <1>7, <1>8, <1>9, <1>10 DEF MainStep

(* Every step keeps the types.                                             *)
LEMMA TypeStep == TypeOK /\ [Next]_vars => TypeOK'
<1>1. TypeOK /\ UNCHANGED vars => TypeOK'
  BY DEF vars, procVars, TypeOK
<1> QED
  BY <1>1, CallStepType, OtherStepType DEF Next

(* The variables of FrpcManager keep their types.                           *)
THEOREM TypeCorrect == Spec => []TypeOK
  BY TypeInit, TypeStep, PTL DEF Spec

-----------------------------------------------------------------------------
(* The two mutexes.                                                        *)

(* What moving on does to the callers' places.                              *)
LEMMA StepPc ==
    ASSUME TypeOK, NEW c \in Callers, NEW from, NEW to, Step(c, from, to)
    PROVE  /\ call[c].pc = from
           /\ \A d \in Callers : call'[d].pc = IF d = c THEN to ELSE call[d].pc
  BY DEF TypeOK, Step

(* What returning does to them.                                             *)
LEMMA ReturnPc ==
    ASSUME TypeOK, NEW c \in Callers, Return(c)
    PROVE  \A d \in Callers : call'[d].pc = IF d = c THEN "idle" ELSE call[d].pc
  BY DEF TypeOK, Return, IdleCall

(* What pulling a config does to them.                                      *)
LEMMA PullPc ==
    ASSUME TypeOK, NEW c \in Callers, Pull(c)
    PROVE  \/ lock' = c /\ \A d \in Callers : call'[d].pc = IF d = c THEN "pulled" ELSE call[d].pc
           \/ lock' = None /\ \A d \in Callers : call'[d].pc = IF d = c THEN "idle" ELSE call[d].pc
<1>1. CASE Return(c)
  BY <1>1, ReturnPc DEF Return
<1>2. CASE call' = [call EXCEPT ![c] = [pc |-> "pulled", cfg |-> latest]] /\ lock' = c
  BY <1>2 DEF TypeOK
<1> QED
  BY <1>1, <1>2 DEF Pull

(* Who holds what, and that nobody does when the agent is gone.             *)
Mutexes == LockInv /\ StopInv /\ HaltInv

(* A caller past the synchronizer's mutex is the only one, and it can take   *)
(* and give back the manager's.                                              *)
LEMMA HolderMoves ==
    ASSUME Mutexes, NEW c \in Callers, call[c].pc \notin {"idle", "want"}, NEW to,
           \A d \in Callers : call'[d].pc = IF d = c THEN to ELSE call[d].pc,
           to \in {"idle", "want"} \/ lock' = c,
           to \in {"wait", "start"} <=> mu' = c,
           mu' = mu \/ (mu \in {None, c} /\ mu' \in {None, c}),
           main' = main
    PROVE  Mutexes'
<1>1. \A d \in Callers \ {c} : call[d].pc \in {"idle", "want"}
  BY DEF Mutexes, LockInv
<1>2. c # None /\ c # "main"
  BY ActorAssumption
<1>3. \A d \in Callers \ {c} : mu # d /\ mu' # d
  BY <1>1, ActorAssumption DEF Mutexes, LockInv
<1>4. LockInv'
  BY <1>1, <1>3 DEF LockInv
<1>5. StopInv'
  BY <1>2, ActorAssumption DEF Mutexes, StopInv, None
<1>6. HaltInv'
  BY DEF Mutexes, HaltInv
<1> QED
  BY <1>4, <1>5, <1>6 DEF Mutexes

(* The steps of a call respect the mutexes.                                 *)
LEMMA CallStepMutexes ==
    ASSUME TypeOK, Mutexes, NEW c \in Callers,
           Want(c) \/ SyncStep(c) \/ WriteFails(c) \/ StartFails(c)
    PROVE  Mutexes'
<1>0. /\ call[c].pc \notin {"idle", "want"} => lock = c
      /\ call[c].pc \in {"wait", "start"} <=> mu = c
      /\ c # None /\ c # "main"
  BY ActorAssumption DEF Mutexes, LockInv
<1>1. CASE Want(c)
  BY <1>1, StepPc, ActorAssumption DEF Want, procVars, Mutexes, LockInv, StopInv, HaltInv
<1>2. CASE Pull(c)
  BY <1>2, PullPc, ActorAssumption DEF Pull, procVars, Mutexes, LockInv, StopInv, HaltInv
<1>3. CASE Compare(c)
  <2>1. CASE Return(c)
    BY <1>0, <1>3, <2>1, ReturnPc, HolderMoves DEF Compare, procVars
  <2>2. CASE Step(c, "pulled", "write") /\ UNCHANGED lock
    BY <1>0, <1>3, <2>2, StepPc, HolderMoves DEF Compare, procVars
  <2> QED
    BY <1>3, <2>1, <2>2 DEF Compare
<1>4. CASE WriteConfig(c)
  BY <1>0, <1>4, StepPc, HolderMoves DEF WriteConfig
<1>5. CASE BeginReload(c)
  <2>1. CASE Step(c, "reload", "wait")
    BY <1>0, <1>5, <2>1, StepPc, HolderMoves DEF BeginReload
  <2>2. CASE Step(c, "reload", "start")
    BY <1>0, <1>5, <2>2, StepPc, HolderMoves DEF BeginReload
  <2> QED
    BY <1>5, <2>1, <2>2 DEF BeginReload
<1>6. CASE EndWait(c)
  BY <1>0, <1>6, StepPc, HolderMoves DEF EndWait
<1>7. CASE Start(c)
  BY <1>0, <1>7, StepPc, HolderMoves DEF Start
<1>8. CASE MarkApplied(c)
  BY <1>0, <1>8, ReturnPc, HolderMoves DEF MarkApplied, procVars
<1>9. CASE WriteFails(c)
  BY <1>0, <1>9, ReturnPc, HolderMoves DEF WriteFails, procVars
<1>10. CASE StartFails(c)
  BY <1>0, <1>10, ReturnPc, HolderMoves DEF StartFails
<1> QED
  BY <1>1, <1>2, <1>3, <1>4, <1>5, <1>6, <1>7, <1>8, <1>9, <1>10 DEF SyncStep

(* So do main, which may end the agent, and the processes.                  *)
LEMMA OtherStepMutexes ==
    ASSUME TypeOK, Mutexes,
           \/ Change \/ Signal \/ Crash \/ MainStep
           \/ \E s \in Slots : ProcStep(s) \/ Dies(s)
    PROVE  Mutexes'
<1> USE ActorAssumption DEF Mutexes, LockInv, StopInv, HaltInv
<1>1. CASE Change \/ Signal \/ Drained \/ Restart
  BY <1>1 DEF Change, Signal, Drained, Restart, procVars
<1>2. CASE Crash \/ Exit
  <2>1. main' \in {"exited", "crashed"} /\ mu' = None /\ \A d \in Callers : call'[d].pc = "idle" /\ d # None
    BY <1>2 DEF Crash, Exit, Halt, IdleCall
  <2> QED
    BY <2>1 DEF None
<1>3. CASE StopFrpc
  BY <1>3 DEF StopFrpc
<1>4. CASE EndStop
  <2>1. mu = "main" /\ mu' = None /\ main' = "stopped" /\ UNCHANGED <<call, lock>>
    BY <1>4 DEF EndStop
  <2>2. \A d \in Callers : d # None /\ d # "main"
    OBVIOUS
  <2> QED
    BY <2>1, <2>2 DEF None
<1>5. CASE \E s \in Slots : ProcStep(s) \/ Dies(s)
  BY <1>5 DEF ProcStep, Dies, Vanish, Waited
<1> QED
  BY <1>1, <1>2, <1>3, <1>4, <1>5 DEF MainStep

-----------------------------------------------------------------------------
(* The processes.                                                          *)

(* What is true of the processes whoever holds which mutex.                 *)
Processes == NoStray /\ Alone /\ GapInv /\ RunsInstalled

(* Nobody serves after the only process that served was killed.             *)
LEMMA KilledServes ==
    ASSUME TypeOK, Serving \subseteq {current}, proc' = Killed
    PROVE  Serving' = {}
  BY DEF TypeOK, Serving, Killed

(* When nothing runs, nothing serves but strays.                            *)
LEMMA NotRunning ==
    ASSUME TypeOK, ~Running, Serving \subseteq {current}
    PROVE  Serving = {}
  BY ActorAssumption DEF TypeOK, Serving, Running

(* The steps of a call before it enters the manager and after it left.      *)
LEMMA OutsideStep ==
    ASSUME TypeOK, Mutexes, Processes, NEW c \in Callers,
           \/ Want(c) \/ Pull(c) \/ Compare(c) \/ MarkApplied(c) \/ WriteFails(c)
    PROVE  Processes'
<1> USE DEF Processes, NoStray, Alone, GapInv, RunsInstalled, Mutexes, LockInv, StopInv, HaltInv
<1>1. UNCHANGED <<toml, proc, current, mu, main, late>> /\ Serving' = Serving
  BY DEF Want, Pull, Compare, MarkApplied, WriteFails, procVars, Serving
<1>2. \A d \in Callers : /\ call'[d].pc \notin {"wait", "start", "reload"} \/ call'[d].pc = call[d].pc
                         /\ call[d].pc = "reload" => call'[d].pc = "reload"
  <2>1. CASE Want(c)
    BY <2>1, StepPc DEF Want
  <2>2. CASE Pull(c)
    BY <2>2, PullPc DEF Pull
  <2>3. CASE Compare(c)
    BY <2>3, StepPc, ReturnPc DEF Compare
  <2>4. CASE MarkApplied(c) \/ WriteFails(c)
    BY <2>4, ReturnPc DEF MarkApplied, WriteFails
  <2> QED
    BY <2>1, <2>2, <2>3, <2>4
<1> QED
  BY <1>1, <1>2

(* The steps of a call inside the manager, and the file written before.     *)
LEMMA InsideStep ==
    ASSUME TypeOK, Mutexes, Processes, NEW c \in Callers,
           WriteConfig(c) \/ BeginReload(c) \/ EndWait(c) \/ Start(c) \/ StartFails(c)
    PROVE  Processes'
<1> USE ActorAssumption
    DEF Processes, NoStray, Alone, GapInv, RunsInstalled, Mutexes, LockInv, StopInv, HaltInv
<1>1. CASE WriteConfig(c)
  <2>1. UNCHANGED <<proc, current, mu, main, late>> /\ Serving' = Serving
    BY <1>1 DEF WriteConfig, Serving
  <2> QED
    BY <1>1, <2>1, StepPc DEF WriteConfig
<1>2. CASE BeginReload(c)
  <2>1. call[c].pc = "reload" /\ main \notin {"exited", "crashed"} /\ Serving \subseteq {current}
    BY <1>2, StepPc DEF BeginReload
  <2>2. Serving' = {}
    BY <1>2, <2>1, KilledServes, NotRunning DEF BeginReload, Serving
  <2>3. CASE Step(c, "reload", "wait")
    <3>1. \A d \in Callers : call'[d].pc = IF d = c THEN "wait" ELSE call[d].pc
      BY <2>3, StepPc
    <3>2. \A d \in Callers : call[d].pc # "start"
      BY <1>2 DEF BeginReload, Callers, None
    <3>3. mu' = c /\ c # None /\ main' = main /\ late' = (late \/ main = "stopped") /\ main # "kill"
      BY <1>2 DEF BeginReload, Callers, None
    <3> QED
      BY <2>2, <3>1, <3>2, <3>3
  <2>4. CASE Step(c, "reload", "start") /\ current' = None
    <3>1. \A d \in Callers : call'[d].pc = IF d = c THEN "start" ELSE call[d].pc
      BY <2>4, StepPc
    <3>2. mu' = c /\ c # None /\ main' = main /\ late' = (late \/ main = "stopped") /\ main # "kill"
      BY <1>2 DEF BeginReload, Callers, None
    <3> QED
      BY <2>2, <2>4, <3>1, <3>2
  <2> QED
    BY <1>2, <2>3, <2>4, StepPc DEF BeginReload
<1>3. CASE EndWait(c)
  <2>1. Serving' = {}
    BY <1>3, StepPc DEF EndWait, Serving
  <2> QED
    BY <1>3, <2>1, StepPc DEF EndWait
<1>4. CASE Start(c)
  <2> PICK s \in Slots : proc' = [proc EXCEPT ![s] = [st |-> "up", cfg |-> toml]] /\ current' = s
    BY <1>4 DEF Start
  <2>1. call[c].pc = "start" /\ Serving = {} /\ mu = c
    BY <1>4, StepPc DEF Start
  <2>2. Serving' = {s} /\ proc'[s].cfg = toml
    BY <2>1 DEF TypeOK, Serving
  <2>3. toml' = toml /\ mu' = None /\ main' = main /\ late' = late
    BY <1>4 DEF Start
  <2>4. \A d \in Callers : call'[d].pc \notin {"wait", "start"}
    BY <1>4, <2>1, StepPc DEF Start
  <2>5. main # "kill" /\ (main = "stopped" => late)
    BY <2>1 DEF Callers
  <2> QED
    BY <2>2, <2>3, <2>4, <2>5
<1>5. CASE StartFails(c)
  <2>1. Serving' = {} /\ UNCHANGED <<current, main, late>> /\ mu' = None /\ mu = c
    BY <1>5 DEF StartFails, Serving
  <2> QED
    BY <1>5, <2>1, ReturnPc DEF StartFails
<1> QED
  BY <1>1, <1>2, <1>3, <1>4, <1>5

(* The end and the restart of the agent, and what the processes do.         *)
LEMMA OtherStepProcesses ==
    ASSUME TypeOK, Mutexes, Processes,
           \/ Change \/ Signal \/ Crash \/ MainStep
           \/ \E s \in Slots : ProcStep(s) \/ Dies(s)
    PROVE  Processes'
<1> USE ActorAssumption
    DEF Processes, NoStray, Alone, GapInv, RunsInstalled, Mutexes, LockInv, StopInv, HaltInv
<1>1. CASE Change \/ Signal \/ Drained
  <2>1. Serving' = Serving
    BY <1>1 DEF Change, Signal, Drained, procVars, Serving
  <2> QED
    BY <1>1, <2>1 DEF Change, Signal, Drained, procVars
<1>2. CASE Crash \/ Exit
  <2>1. Serving' = Serving /\ current' = None /\ main' \in {"exited", "crashed"}
    BY <1>2 DEF Crash, Exit, Halt, Serving
  <2>2. None \notin Serving
    BY DEF Serving
  <2>3. \A d \in Callers : call'[d].pc = "idle"
    BY <1>2 DEF Crash, Exit, Halt, IdleCall
  <2> QED
    BY <2>1, <2>2, <2>3
<1>3. CASE StopFrpc
  <2>1. Serving' = {}
    BY <1>3, KilledServes, NotRunning DEF StopFrpc, Serving
  <2> QED
    BY <1>3, <2>1 DEF StopFrpc
<1>4. CASE EndStop
  <2>1. Serving' = {}
    BY <1>4 DEF EndStop, Serving
  <2> QED
    BY <1>4, <2>1 DEF EndStop
<1>5. CASE Restart
  <2>1. Serving' = {}
    BY <1>5 DEF Restart, TypeOK, Serving
  <2> QED
    BY <1>5, <2>1 DEF Restart
<1>6. ASSUME NEW s \in Slots, ProcStep(s) \/ Dies(s) PROVE Processes'
  <2>1. /\ Serving' \subseteq Serving
        /\ \A t \in Serving' : proc'[t].cfg = proc[t].cfg
    BY <1>6 DEF ProcStep, Dies, Vanish, Waited, Become, NoProc, TypeOK, Serving
  <2>2. UNCHANGED <<toml, current, mu, call, main, late>>
    BY <1>6 DEF ProcStep, Dies, Vanish, Waited
  <2> QED
    BY <2>1, <2>2
<1> QED
  BY <1>1, <1>2, <1>3, <1>4, <1>5, <1>6 DEF MainStep

(* IInv is an inductive invariant of FrpcManager.                           *)
THEOREM Inductive == Spec => []IInv
<1>1. Init => IInv
  <2> SUFFICES ASSUME Init PROVE IInv
    OBVIOUS
  <2>1. TypeOK
    BY TypeInit
  <2>2. Serving = {}
    BY DEF Init, Serving, NoProc
  <2>3. \A c \in Callers : call[c].pc = "idle" /\ c # None
    BY ActorAssumption DEF Init, IdleCall
  <2> QED
    BY <2>1, <2>2, <2>3
       DEF Init, None, IInv, LockInv, StopInv, HaltInv, NoStray, Alone, GapInv, RunsInstalled
<1>2. IInv /\ [Next]_vars => IInv'
  <2> SUFFICES ASSUME IInv, [Next]_vars PROVE IInv'
    OBVIOUS
  <2>1. TypeOK /\ Mutexes /\ Processes /\ TypeOK'
    BY TypeStep DEF IInv, Mutexes, Processes
  <2>2. CASE UNCHANGED vars
    <3>1. Serving' = Serving
      BY <2>2 DEF vars, procVars, Serving
    <3> QED
      BY <2>1, <2>2, <3>1
         DEF vars, procVars, IInv, LockInv, StopInv, HaltInv, NoStray, Alone, GapInv, RunsInstalled
  <2>3. CASE Next
    <3>1. Mutexes'
      BY <2>1, <2>3, CallStepMutexes, OtherStepMutexes DEF Next
    <3>2. Processes'
      BY <2>1, <2>3, OutsideStep, InsideStep, OtherStepProcesses DEF Next, SyncStep
    <3> QED
      BY <2>1, <3>1, <3>2 DEF IInv, Mutexes, Processes
  <2> QED
    BY <2>2, <2>3
<1> QED
  BY <1>1, <1>2, PTL DEF Spec

(* The manager never loses a process that it has not killed.                *)
THEOREM NoStrayTheorem == Spec => []NoStray
  BY Inductive, PTL DEF IInv

(* The process it calls running serves the installed file.                  *)
THEOREM RunsInstalledTheorem == Spec => []RunsInstalled
  BY Inductive, PTL DEF IInv

(* Once Stop has returned nothing serves, unless a call came later.         *)
THEOREM ExitCleanTheorem == Spec => []ExitClean
<1>1. Spec => [](main = "exited" /\ ~late => Serving = {})
  <2> DEFINE Clean == main = "exited" /\ ~late => Serving = {}
  <2>1. Init => Clean
    BY DEF Init
  <2>2. IInv /\ Clean /\ [Next]_vars => Clean'
    <3> SUFFICES ASSUME IInv, Clean, [Next]_vars, main' = "exited", ~late' PROVE Serving' = {}
      OBVIOUS
    <3>1. CASE Exit
      BY <3>1 DEF Exit, Halt, IInv, GapInv, Serving
    <3>2. CASE main = "exited"
      <4>1. \A c \in Callers : call[c].pc = "idle"
        BY <3>2 DEF IInv, HaltInv
      <4>2. late' = late
        BY <3>2, <4>1 DEF Next, Change, Signal, Crash, MainStep, Drained, StopFrpc, EndStop, Exit,
              Restart, Halt, Want, SyncStep, Pull, Compare, WriteConfig, BeginReload, EndWait, Start,
              MarkApplied, WriteFails, StartFails, ProcStep, Dies, Vanish, Waited, Step, vars
      <4>3. Serving' \subseteq Serving
        <5>1. CASE \E s \in Slots : ProcStep(s) \/ Dies(s)
          BY <5>1 DEF ProcStep, Dies, Vanish, Waited, Become, NoProc, IInv, TypeOK, Serving
        <5>2. CASE ~ \E s \in Slots : ProcStep(s) \/ Dies(s)
          <6>1. proc' = proc
            BY <3>2, <4>1, <5>2 DEF Next, Change, Signal, Crash, MainStep, Drained, StopFrpc, EndStop,
                  Exit, Restart, Halt, Want, SyncStep, Pull, Compare, WriteConfig, BeginReload, EndWait,
                  Start, MarkApplied, WriteFails, StartFails, Step, vars, procVars
          <6> QED
            BY <6>1 DEF Serving
        <5> QED
          BY <5>1, <5>2
      <4> QED
        BY <3>2, <4>2, <4>3
    <3>3. main = "exited" \/ Exit
      BY DEF Next, Change, Signal, Crash, MainStep, Drained, StopFrpc, EndStop, Restart, Want, SyncStep,
             Pull, Compare, WriteConfig, BeginReload, EndWait, Start, MarkApplied, WriteFails, StartFails,
             ProcStep, Dies, Vanish, Waited, vars
    <3> QED
      BY <3>1, <3>2, <3>3
  <2> QED
    BY <2>1, <2>2, Inductive, PTL DEF Spec
<1>2. IInv /\ (main = "exited" /\ ~late => Serving = {}) => ExitClean
  BY DEF IInv, GapInv, ExitClean
<1> QED
  BY <1>1, <1>2, Inductive, PTL

-----------------------------------------------------------------------------
(* The manager implements Child.                                           *)

(* The configs that are served stay when the processes stay.                *)
LEMMA SameConfigs ==
    ASSUME UNCHANGED <<toml, proc>>
    PROVE  UNCHANGED C!vars
  BY DEF C!vars, Serving

(* Nothing is served when nobody serves.                                    *)
LEMMA LoseStep ==
    ASSUME Serving' = {}, toml' = toml
    PROVE  C!Next
  BY DEF C!Next, C!Lose

(* A step of the manager is a step of Child, or none.                       *)
LEMMA StepRefines ==
    ASSUME IInv, [Next]_vars
    PROVE  [C!Next]_C!vars
<1> USE DEF IInv
<1>1. CASE UNCHANGED <<toml, proc>>
  BY <1>1, SameConfigs
<1>2. ASSUME NEW c \in Callers, WriteConfig(c) PROVE C!Next
  <2>1. toml' \in Nat /\ UNCHANGED proc
    BY <1>2, BoundAssumption DEF WriteConfig, TypeOK
  <2> QED
    BY <2>1 DEF C!Next, C!Install, Serving
<1>3. ASSUME NEW c \in Callers, BeginReload(c), proc' # proc PROVE C!Next
  <2>1. Serving \subseteq {current}
    BY <1>3 DEF BeginReload, Step, HaltInv, NoStray
  <2> QED
    BY <1>3, <2>1, KilledServes, LoseStep DEF BeginReload
<1>4. ASSUME NEW c \in Callers, Start(c) PROVE C!Next
  <2> PICK s \in Slots : proc' = [proc EXCEPT ![s] = [st |-> "up", cfg |-> toml]]
    BY <1>4 DEF Start
  <2>1. Serving = {} /\ toml' = toml
    BY <1>4 DEF Start, Step, GapInv
  <2>2. Serving' = {s} /\ proc'[s].cfg = toml
    BY <2>1 DEF TypeOK, Serving
  <2> QED
    BY <2>1, <2>2 DEF C!Next, C!Serve
<1>5. ASSUME StopFrpc, proc' # proc PROVE C!Next
  <2>1. Serving \subseteq {current}
    BY <1>5 DEF StopFrpc, NoStray
  <2> QED
    BY <1>5, <2>1, KilledServes, LoseStep DEF StopFrpc
<1>6. ASSUME Restart PROVE C!Next
  <2>1. Serving' = {}
    BY <1>6 DEF Restart, TypeOK, Serving
  <2> QED
    BY <1>6, <2>1, LoseStep DEF Restart
<1>7. ASSUME NEW s \in Slots, Dies(s) PROVE C!Next
  <2>1. Serving' = {} /\ toml' = toml
    BY <1>7 DEF Dies, Become, TypeOK, Serving, Alone
  <2> QED
    BY <2>1, LoseStep
<1>8. ASSUME NEW s \in Slots, ProcStep(s) PROVE UNCHANGED C!vars
  <2>1. Serving' = Serving /\ toml' = toml /\ \A t \in Serving : proc'[t] = proc[t]
    BY <1>8 DEF ProcStep, Vanish, Waited, Become, NoProc, TypeOK, Serving
  <2>2. {proc'[t].cfg : t \in Serving'} = {proc[t].cfg : t \in Serving}
    BY <2>1
  <2> QED
    BY <2>1, <2>2 DEF C!vars
<1>9. CASE Next
  <2>1. ASSUME NEW c \in Callers,
               \/ Want(c) \/ Pull(c) \/ Compare(c) \/ EndWait(c) \/ MarkApplied(c)
               \/ WriteFails(c) \/ StartFails(c)
        PROVE  UNCHANGED <<toml, proc>>
    BY <2>1 DEF Want, Pull, Compare, EndWait, MarkApplied, WriteFails, StartFails, procVars
  <2>2. ASSUME Change \/ Signal \/ Crash \/ Drained \/ EndStop \/ Exit
        PROVE  UNCHANGED <<toml, proc>>
    BY <2>2 DEF Change, Signal, Crash, Drained, EndStop, Exit, Halt, procVars
  <2>3. ASSUME NEW c \in Callers, BeginReload(c) PROVE toml' = toml
    BY <2>3 DEF BeginReload
  <2>4. StopFrpc => toml' = toml
    BY DEF StopFrpc
  <2> QED
    BY <1>1, <1>2, <1>3, <1>4, <1>5, <1>6, <1>7, <1>8, <1>9, <2>1, <2>2, <2>3, <2>4
       DEF Next, SyncStep, MainStep
<1>10. CASE UNCHANGED vars
  BY <1>1, <1>10 DEF vars, procVars
<1> QED
  BY <1>9, <1>10

(* The frpc manager implements Child.                                       *)
THEOREM RefinementTheorem == Spec => Refinement
<1>1. Init => C!Init
  <2> SUFFICES ASSUME Init PROVE toml = 0 /\ Serving = {}
    BY DEF C!Init
  <2> QED
    BY DEF Init, Serving, NoProc
<1>2. IInv /\ [Next]_vars => [C!Next]_C!vars
  BY StepRefines
<1> QED
  BY <1>1, <1>2, Inductive, PTL DEF Spec, Refinement, C!Spec

=============================================================================
