--------------------------- MODULE TaskHubProofs ---------------------------
(***************************************************************************)
(* Theorems about TaskHub, for any number of tasks, any mix of backends,   *)
(* agents and deadlines, and any bounds.                                   *)
(***************************************************************************)
EXTENDS TaskHub, TLAPS

-----------------------------------------------------------------------------
(* Type correctness *)

LEMMA InitTypeOK == Init => TypeOK
  BY HubAssumption DEF Init, TypeOK, Status, Wait, NoWait, Scheduler, Checker, IdleScheduler, IdleChecker

LEMMA DispatchCursor ==
  ASSUME TypeOK, sch.pc \in {"provision", "configure", "remote"}
  PROVE  sch.task \in Task /\ sch.tok \in Token
  BY DEF TypeOK, Scheduler

LEMMA FailDispatchTypeOK ==
  ASSUME TypeOK, NEW t \in Task, NEW transient \in BOOLEAN, FailDispatch(t, transient)
  PROVE  /\ attempts' \in [Task -> Nat]
         /\ status' \in [Task -> Status]
         /\ cooling' \subseteq Task
         /\ sch' \in Scheduler
<1>1. attempts[t] + 1 \in Nat
  BY DEF TypeOK
<1>2. attempts' \in [Task -> Nat]
  BY <1>1 DEF TypeOK, FailDispatch
<1>3. status' \in [Task -> Status]
  BY DEF TypeOK, FailDispatch, Status
<1>4. cooling' \subseteq Task
  BY DEF TypeOK, FailDispatch
<1>5. sch' \in Scheduler
  BY DEF FailDispatch, SelectingScheduler, Scheduler
<1>6. QED
  BY <1>2, <1>3, <1>4, <1>5

LEMMA RevokeAndSetTypeOK ==
  ASSUME TypeOK, NEW t \in Task, NEW n, NEW m \in 0..MaxTokens, RevokeAndSet(t, n, m)
  PROVE  /\ token' \in [Task -> 0..MaxTokens]
         /\ valid' \in [Task -> SUBSET Token]
         /\ issued' \in [Task -> 0..MaxTokens]
  BY DEF TypeOK, RevokeAndSet

LEMMA IssueTokenTypeOK ==
  ASSUME TypeOK, NEW t \in Task, IssueToken(t)
  PROVE  /\ token' \in [Task -> 0..MaxTokens]
         /\ valid' \in [Task -> SUBSET Token]
         /\ issued' \in [Task -> 0..MaxTokens]
         /\ issued[t] + 1 \in Token
<1>1. issued[t] + 1 \in Token
  BY HubAssumption DEF TypeOK, IssueToken, Token
<1>2. issued[t] + 1 \in 0..MaxTokens
  BY <1>1, HubAssumption DEF Token
<1>3. QED
  BY <1>1, <1>2 DEF TypeOK, IssueToken

LEMMA SchedulerTypeOK == TypeOK /\ SchedulerNext => TypeOK'
<1> SUFFICES ASSUME TypeOK, SchedulerNext PROVE TypeOK'
  OBVIOUS
<1> USE HubAssumption DEF TypeOK, vars, taskVars, tokenVars, timeVars, worldVars
<1>1. CASE SchedulerTick
  BY <1>1 DEF SchedulerTick, SelectingScheduler, Scheduler, AfterTick, Woken, Status, Wait, NoWait
<1>2. CASE SchedulerSleep
  BY <1>2 DEF SchedulerSleep, IdleScheduler, Scheduler
<1>3. ASSUME NEW t \in Task, BeginDispatch(t) PROVE TypeOK'
  <2>1. /\ token' \in [Task -> 0..MaxTokens]
        /\ valid' \in [Task -> SUBSET Token]
        /\ issued' \in [Task -> 0..MaxTokens]
        /\ issued[t] + 1 \in Token
    BY <1>3, IssueTokenTypeOK DEF BeginDispatch
  <2>2. sch' \in Scheduler
    BY <1>3, <2>1 DEF BeginDispatch, Scheduler
  <2>3. remote' \subseteq Task /\ named' \subseteq Task
    BY <1>3 DEF BeginDispatch, PlaceRemote
  <2>4. status' \in [Task -> Status]
    BY <1>3 DEF BeginDispatch, Status
  <2>5. QED
    BY <1>3, <2>1, <2>2, <2>3, <2>4 DEF BeginDispatch
<1>4. ASSUME NEW t \in Task, DispatchWithoutAgent(t) PROVE TypeOK'
  BY <1>4 DEF DispatchWithoutAgent, Status
<1>5. ASSUME NEW t \in Task, DispatchRefused(t) PROVE TypeOK'
  <2>1. issued[t] + 1 \in 0..MaxTokens
    BY <1>5 DEF DispatchRefused, Selected, Ready
  <2>2. /\ attempts' \in [Task -> Nat]
        /\ status' \in [Task -> Status]
        /\ cooling' \subseteq Task
        /\ sch' \in Scheduler
    BY <1>5, FailDispatchTypeOK DEF DispatchRefused
  <2>3. QED
    <3>1. token' \in [Task -> 0..MaxTokens] /\ issued' \in [Task -> 0..MaxTokens]
      BY <1>5, <2>1 DEF DispatchRefused
    <3>2. named' \subseteq Task /\ remote' \subseteq Task
      BY <1>5 DEF DispatchRefused, PlaceRemote
    <3>3. QED
      BY <1>5, <2>2, <3>1, <3>2 DEF DispatchRefused
<1>6. CASE DispatchProvisioned
  BY <1>6 DEF DispatchProvisioned, Provisioned, Scheduler
<1>7. CASE DispatchStarted
  BY <1>7 DEF DispatchStarted, SelectingScheduler, Scheduler
<1>8. CASE DispatchRaised
  <2>1. sch.task \in Task /\ sch.tok \in Token
    BY <1>8, DispatchCursor DEF DispatchRaised
  <2>2. /\ attempts' \in [Task -> Nat]
        /\ status' \in [Task -> Status]
        /\ cooling' \subseteq Task
        /\ sch' \in Scheduler
    <3>1. PICK transient \in BOOLEAN : FailDispatch(sch.task, transient)
      BY <1>8 DEF DispatchRaised
    <3>2. QED
      BY <2>1, <3>1, FailDispatchTypeOK
  <2>3. /\ token' \in [Task -> 0..MaxTokens]
        /\ valid' \in [Task -> SUBSET Token]
        /\ issued' \in [Task -> 0..MaxTokens]
    BY <1>8, <2>1, RevokeAndSetTypeOK DEF DispatchRaised
  <2>4. QED
    BY <1>8, <2>1, <2>2, <2>3 DEF DispatchRaised, PipelineRaised
<1>9. CASE RemoteStarted
  BY <1>9 DEF RemoteStarted, SelectingScheduler, Scheduler
<1>10. CASE RemoteRaised
  <2>1. sch.task \in Task /\ sch.tok \in Token
    BY <1>10, DispatchCursor DEF RemoteRaised
  <2>2. /\ attempts' \in [Task -> Nat]
        /\ status' \in [Task -> Status]
        /\ cooling' \subseteq Task
        /\ sch' \in Scheduler
    BY <1>10, <2>1, FailDispatchTypeOK DEF RemoteRaised
  <2>3. /\ token' \in [Task -> 0..MaxTokens]
        /\ valid' \in [Task -> SUBSET Token]
        /\ issued' \in [Task -> 0..MaxTokens]
    BY <1>10, <2>1, RevokeAndSetTypeOK DEF RemoteRaised
  <2>4. QED
    BY <1>10, <2>1, <2>2, <2>3 DEF RemoteRaised
<1>11. QED
  BY <1>1, <1>2, <1>3, <1>4, <1>5, <1>6, <1>7, <1>8, <1>9, <1>10 DEF SchedulerNext

LEMMA CheckCursor ==
  ASSUME TypeOK
  PROVE  /\ chk.todo \subseteq Task
         /\ chk.pc \in {"provision", "configure"}
              => chk.task \in Task /\ chk.tok \in Token /\ chk.old \in 0..MaxTokens
  BY DEF TypeOK, Checker

LEMMA BeginRecycleTypeOK ==
  ASSUME TypeOK, NEW t \in Task, NEW who \in {"api", "check", "operator"}, BeginRecycle(t, who)
  PROVE  /\ fin' \subseteq Finalizer
         /\ session' \in [Task -> {"none", "live", "recycling"}]
<1>1. [task |-> t, by |-> who, at |-> IF session[t] = "none" THEN "revoke" ELSE "stop"] \in Finalizer
  BY DEF Finalizer
<1>2. QED
  BY <1>1 DEF TypeOK, BeginRecycle

LEMMA EndTaskTypeOK ==
  ASSUME TypeOK, NEW t \in Task, NEW from, NEW to \in Status,
         NEW who \in {"api", "check"}, EndTask(t, from, to, who), chk' \in Checker
  PROVE  TypeOK'
<1>1. /\ fin' \subseteq Finalizer
      /\ session' \in [Task -> {"none", "live", "recycling"}]
      /\ token' \in [Task -> 0..MaxTokens]
      /\ valid' \in [Task -> SUBSET Token]
      /\ issued' \in [Task -> 0..MaxTokens]
  <2>1. CASE t \in named /\ BeginRecycle(t, who) /\ UNCHANGED tokenVars
    BY <2>1, BeginRecycleTypeOK DEF TypeOK, tokenVars
  <2>2. CASE t \notin named /\ RevokeAndSet(t, token[t], token[t]) /\ UNCHANGED <<fin, session>>
    <3>1. token[t] \in 0..MaxTokens
      BY DEF TypeOK
    <3>2. QED
      BY <2>2, <3>1, RevokeAndSetTypeOK DEF TypeOK
  <2>3. QED
    BY <2>1, <2>2 DEF EndTask, BeginFinalize
<1>2. status' \in [Task -> Status]
  BY DEF TypeOK, EndTask
<1>3. QED
  BY <1>1, <1>2 DEF TypeOK, EndTask, timeVars

LEMMA CheckTypeOK == TypeOK /\ CheckNext => TypeOK'
<1> SUFFICES ASSUME TypeOK, CheckNext PROVE TypeOK'
  OBVIOUS
<1> USE HubAssumption
<1>0. \A t \in Task : Rest(t) \subseteq Task
  BY CheckCursor DEF Rest, Scope, Submitted
<1>1. ASSUME NEW t \in Task, NEW to \in {"FAILED", "CANCELLED"}, CheckEnds(t, to) PROVE TypeOK'
  <2>1. chk' \in Checker
    BY <1>0, <1>1 DEF CheckEnds, IdleChecker, Checker
  <2>2. QED
    BY <1>1, <2>1, EndTaskTypeOK DEF CheckEnds, Status
<1>2. ASSUME NEW t \in Task, CheckRestarts(t) PROVE TypeOK'
  <2>1. /\ token' \in [Task -> 0..MaxTokens]
        /\ valid' \in [Task -> SUBSET Token]
        /\ issued' \in [Task -> 0..MaxTokens]
        /\ issued[t] + 1 \in Token
    BY <1>2, IssueTokenTypeOK DEF CheckRestarts
  <2>2. chk' \in Checker
    BY <1>0, <1>2, <2>1 DEF CheckRestarts, Checker, TypeOK
  <2>3. QED
    BY <1>2, <2>1, <2>2 DEF CheckRestarts, TypeOK, taskVars, timeVars, worldVars
<1>3. CASE RestartProvisioned
  <2>1. chk' \in Checker
    BY <1>3 DEF TypeOK, RestartProvisioned, Checker
  <2>2. QED
    BY <1>3, <2>1 DEF RestartProvisioned, Provisioned, TypeOK, taskVars, tokenVars, timeVars
<1>4. CASE RestartDone
  <2>1. chk' \in Checker
    BY <1>4, CheckCursor DEF RestartDone, IdleChecker, Checker
  <2>2. QED
    BY <1>4, <2>1 DEF RestartDone, TypeOK, taskVars, timeVars, worldVars
<1>5. CASE RestartRaised
  <2>1. chk.task \in Task /\ chk.tok \in Token /\ chk.old \in 0..MaxTokens
    BY <1>5, CheckCursor DEF RestartRaised
  <2>2. /\ token' \in [Task -> 0..MaxTokens]
        /\ valid' \in [Task -> SUBSET Token]
        /\ issued' \in [Task -> 0..MaxTokens]
    BY <1>5, <2>1, RevokeAndSetTypeOK DEF RestartRaised
  <2>3. box' \in [Task -> SUBSET {"local", "runner"}]
    BY <1>5, <2>1 DEF RestartRaised, PipelineRaised, TypeOK
  <2>4. /\ status' \in [Task -> Status]
        /\ fin' \subseteq Finalizer
        /\ session' \in [Task -> {"none", "live", "recycling"}]
        /\ chk' \in Checker
    <3>1. CASE BeginRecycle(chk.task, "check")
               /\ status' = [status EXCEPT ![chk.task] = "FAILED"]
               /\ chk' = [pc |-> "finalize", task |-> chk.task, todo |-> chk.todo,
                          tok |-> 0, old |-> 0]
      BY <2>1, <3>1, BeginRecycleTypeOK, CheckCursor DEF TypeOK, Status, Checker
    <3>2. CASE UNCHANGED <<status, session, fin>> /\ chk' = [IdleChecker EXCEPT !.pc = "dead"]
      BY <3>2 DEF TypeOK, IdleChecker, Checker
    <3>3. QED
      <4>1. CASE chk' = [chk EXCEPT !.pc = "finalize", !.tok = 0, !.old = 0]
        <5>1. chk' = [pc |-> "finalize", task |-> chk.task, todo |-> chk.todo,
                      tok |-> 0, old |-> 0]
          BY <1>5, <4>1 DEF RestartRaised, TypeOK, Checker
        <5>2. QED
          BY <1>5, <3>1, <3>2, <5>1 DEF RestartRaised
      <4>2. QED
        BY <1>5, <3>2, <4>1 DEF RestartRaised
  <2>5. QED
    BY <1>5, <2>2, <2>3, <2>4 DEF RestartRaised, PipelineRaised, TypeOK, timeVars
<1>6. CASE CheckPassEnds
  BY <1>6 DEF CheckPassEnds, IdleChecker, Checker, TypeOK, taskVars, tokenVars, timeVars, worldVars
<1>7. QED
  BY <1>1, <1>2, <1>3, <1>4, <1>5, <1>6 DEF CheckNext, CheckFails, CheckCancels

LEMMA RecycleTypeOK ==
  ASSUME TypeOK, NEW f \in fin, RecycleNext(f)
  PROVE  TypeOK'
<1>0. f \in Finalizer /\ f.task \in Task
  BY DEF TypeOK, Finalizer
<1>1. CASE RecycleBackend(f)
  <2>1. [f EXCEPT !.at = "pop"] \in Finalizer
    BY <1>0 DEF Finalizer
  <2>2. PICK g \in {{"local"}, {"runner"}} : box' = [box EXCEPT ![f.task] = @ \ g]
    BY <1>1 DEF RecycleBackend
  <2>3. box' \in [Task -> SUBSET {"local", "runner"}]
    BY <1>0, <2>2 DEF TypeOK
  <2>4. QED
    BY <1>1, <2>1, <2>3 DEF RecycleBackend, TypeOK, taskVars, tokenVars, timeVars
<1>2. CASE RecyclePop(f)
  <2>1. [f EXCEPT !.at = "revoke"] \in Finalizer
    BY <1>0 DEF Finalizer
  <2>2. QED
    BY <1>0, <1>2, <2>1 DEF RecyclePop, TypeOK, taskVars, tokenVars, timeVars
<1>3. CASE RecycleDone(f)
  <2>1. token[f.task] \in 0..MaxTokens
    BY <1>0 DEF TypeOK
  <2>2. /\ token' \in [Task -> 0..MaxTokens]
        /\ valid' \in [Task -> SUBSET Token]
        /\ issued' \in [Task -> 0..MaxTokens]
    BY <1>0, <1>3, <2>1, RevokeAndSetTypeOK DEF RecycleDone, TypeOK, tokenVars
  <2>3. chk' \in Checker
    BY <1>3, CheckCursor DEF RecycleDone, TypeOK, IdleChecker, Checker
  <2>4. QED
    BY <1>3, <2>2, <2>3 DEF RecycleDone, TypeOK, taskVars, timeVars, worldVars
<1>4. QED
  BY <1>1, <1>2, <1>3 DEF RecycleNext

LEMMA ClientTypeOK == TypeOK /\ ClientNext => TypeOK'
<1> SUFFICES ASSUME TypeOK, ClientNext PROVE TypeOK'
  OBVIOUS
<1> USE HubAssumption DEF taskVars, tokenVars, timeVars, worldVars
<1>1. ASSUME NEW t \in Task, SubmitTask(t) PROVE TypeOK'
  BY <1>1 DEF SubmitTask, TypeOK, Status
<1>2. ASSUME NEW t \in Task, StartLoopParent(t) PROVE TypeOK'
  BY <1>2 DEF StartLoopParent, TypeOK, Status
<1>3. ASSUME NEW t \in Task, CompleteTask(t) \/ FailTask(t) \/ CancelTask(t) PROVE TypeOK'
  <2>1. chk' \in Checker
    BY <1>3 DEF CompleteTask, FailTask, CancelTask, TypeOK
  <2>2. QED
    BY <1>3, <2>1, EndTaskTypeOK DEF CompleteTask, FailTask, CancelTask, Status
<1>4. ASSUME NEW t \in Task, StopSession(t) PROVE TypeOK'
  <2>1. fin' \subseteq Finalizer /\ session' \in [Task -> {"none", "live", "recycling"}]
    BY <1>4, BeginRecycleTypeOK DEF StopSession
  <2>2. QED
    BY <1>4, <2>1 DEF StopSession, TypeOK
<1>5. ASSUME NEW t \in Task, NEW kind \in SuspendKinds, NEW kids \in SUBSET Task,
             SuspendTask(t, kind, kids)
      PROVE  TypeOK'
  <2>1. [kind |-> kind, kids |-> kids, asleep |-> kind = "schedule"] \in Wait
    BY DEF Wait
  <2>2. QED
    BY <1>5, <2>1 DEF SuspendTask, TypeOK, Status
<1>6. ASSUME NEW t \in Task, ResumeTask(t) PROVE TypeOK'
  BY <1>6 DEF ResumeTask, TypeOK, Status, NoWait, Wait
<1>7. ASSUME NEW t \in Task, EndLoopParent(t) PROVE TypeOK'
  BY <1>7 DEF EndLoopParent, TypeOK, Status, Terminal
<1>8. QED
  BY <1>1, <1>2, <1>3, <1>4, <1>5, <1>6, <1>7 DEF ClientNext

LEMMA WorldTypeOK == TypeOK /\ WorldNext => TypeOK'
<1> SUFFICES ASSUME TypeOK, NEW t \in Task,
                    \/ LateResult(t) \/ BackoffElapses(t) \/ ResumeTimeComes(t)
                    \/ DeadlinePasses(t) \/ ContainerDies(t)
             PROVE  TypeOK'
  BY DEF WorldNext
<1> USE DEF taskVars, tokenVars, timeVars, worldVars
<1>1. CASE LateResult(t)
  BY <1>1 DEF LateResult, TypeOK
<1>2. CASE BackoffElapses(t)
  BY <1>2 DEF BackoffElapses, TypeOK
<1>3. CASE ResumeTimeComes(t)
  <2>1. PICK v \in Wait : v = wait[t]
    BY DEF TypeOK
  <2>2. PICK w : w = [v EXCEPT !.asleep = FALSE]
    OBVIOUS
  <2>3. w \in Wait
    BY <2>2 DEF Wait
  <2>4. wait' = [wait EXCEPT ![t] = w]
    BY <1>3, <2>1, <2>2 DEF ResumeTimeComes
  <2>5. wait' \in [Task -> Wait]
    BY <2>3, <2>4 DEF TypeOK
  <2>6. QED
    BY <1>3, <2>5 DEF ResumeTimeComes, TypeOK
<1>4. CASE DeadlinePasses(t)
  BY <1>4 DEF DeadlinePasses, TypeOK
<1>5. CASE ContainerDies(t)
  BY <1>5 DEF ContainerDies, TypeOK
<1>6. QED
  BY <1>1, <1>2, <1>3, <1>4, <1>5

LEMMA StutterTypeOK == TypeOK /\ UNCHANGED vars => TypeOK'
  BY DEF TypeOK, vars, taskVars, tokenVars, timeVars, worldVars

LEMMA NextTypeOK == TypeOK /\ [Next]_vars => TypeOK'
  BY SchedulerTypeOK, CheckTypeOK, RecycleTypeOK, ClientTypeOK, WorldTypeOK, StutterTypeOK DEF Next

(* Every variable of the hub keeps its type; in particular the scheduler and *)
(* the restart of the health check never await a pipeline without a task and *)
(* the token issued for it.                                                  *)
THEOREM TypeCorrect == Spec => []TypeOK
<1>1. Init => TypeOK
  BY InitTypeOK
<1>2. TypeOK /\ [Next]_vars => TypeOK'
  BY NextTypeOK
<1>3. QED
  BY <1>1, <1>2, PTL DEF Spec

-----------------------------------------------------------------------------
(* The hub implements TaskLifecycle *)

\* what _wake_resumable relies on: it never looks at a human's wait
HumanWaits == \A t \in Task : status[t] = "NEEDS_ACTION" => wait[t].kind = "human"

LEMMA SuccessorsAre ==
  /\ Lifecycle!Successors["absent"] = {"PENDING", "RUNNING"}
  /\ Lifecycle!Successors["PENDING"] = {"FAILED", "CANCELLED", "BLOCKED", "NEEDS_ACTION"}
  /\ Lifecycle!Successors["RUNNING"]
       = {"COMPLETED", "FAILED", "CANCELLED", "BLOCKED", "NEEDS_ACTION"}
  /\ Lifecycle!Successors["BLOCKED"] = {"PENDING", "FAILED", "CANCELLED"}
  /\ Lifecycle!Successors["NEEDS_ACTION"] = {"PENDING", "CANCELLED"}
  /\ \A s \in Terminal : Lifecycle!Successors[s] = {}
  BY DEF Lifecycle!Successors, Terminal

LEMMA OneOpen == \A t, u \in Open : t = u
  BY DEF Open, Dispatching

LEMMA OneOpenNext == \A t, u \in Open' : t = u
  BY DEF Open, Dispatching

LEMMA IdleStep ==
  ASSUME status' = status, Open' = Open
  PROVE  Lifecycle!LifecycleNext
  BY OneOpenNext DEF Lifecycle!LifecycleNext, Lifecycle!Stays

LEMMA MoveStep ==
  ASSUME TypeOK, NEW t \in Task, NEW to, status' = [status EXCEPT ![t] = to],
         to \in Lifecycle!Successors[status[t]], Open' = Open
  PROVE  Lifecycle!LifecycleNext
<1>1. Lifecycle!Moves(t)
  BY DEF TypeOK, Lifecycle!Moves
<1>2. \A u \in Task \ {t} : Lifecycle!Stays(u)
  BY DEF TypeOK, Lifecycle!Stays
<1>3. QED
  BY <1>1, <1>2, OneOpenNext DEF Lifecycle!LifecycleNext

LEMMA LandStep ==
  ASSUME TypeOK, NEW t \in Task, Open = {t}, Open' = {},
         \/ status' = status
         \/ \E to \in {"PENDING", "FAILED"} : status' = [status EXCEPT ![t] = to]
  PROVE  Lifecycle!LifecycleNext
<1>1. Lifecycle!Lands(t)
  BY DEF TypeOK, Lifecycle!Lands
<1>2. \A u \in Task \ {t} : Lifecycle!Stays(u)
  BY DEF TypeOK, Lifecycle!Stays
<1>3. QED
  BY <1>1, <1>2 DEF Lifecycle!LifecycleNext

LEMMA OpenWhileDispatching ==
  ASSUME TypeOK, sch.pc \in {"provision", "configure", "remote"}
  PROVE  sch.task \in Task /\ Open = {sch.task}
  BY DispatchCursor DEF Open, Dispatching

LEMMA OpenIsEmpty ==
  ASSUME sch.pc \in {"idle", "select"}
  PROVE  Open = {}
  BY DEF Open, Dispatching

LEMMA OpenWillBeEmpty ==
  ASSUME sch' = SelectingScheduler \/ sch' = IdleScheduler
  PROVE  Open' = {}
  BY DEF Open, Dispatching, SelectingScheduler, IdleScheduler

LEMMA OpenUnchanged ==
  ASSUME sch' = sch
  PROVE  Open' = Open
  BY DEF Open, Dispatching

LEMMA TickStep ==
  ASSUME TypeOK, HumanWaits, SchedulerTick
  PROVE  Lifecycle!LifecycleNext
<1>1. Open = {} /\ Open' = {}
  BY OpenIsEmpty, OpenWillBeEmpty DEF SchedulerTick
<1>2. ASSUME NEW t \in Task PROVE Lifecycle!Stays(t) \/ Lifecycle!Moves(t)
  <2>1. status'[t] = AfterTick(t)
    BY DEF SchedulerTick
  <2>2. status[t] \in Status
    BY DEF TypeOK
  <2>3. CASE status[t] \notin Suspended
    BY <1>1, <2>1, <2>3, SuccessorsAre
       DEF AfterTick, Woken, Doomed, Resumable, Lifecycle!Stays, Lifecycle!Moves
  <2>4. CASE status[t] = "BLOCKED"
    BY <1>1, <2>1, <2>4, SuccessorsAre
       DEF AfterTick, Woken, Lifecycle!Stays, Lifecycle!Moves
  <2>5. CASE status[t] = "NEEDS_ACTION"
    BY <1>1, <2>1, <2>5
       DEF HumanWaits, AfterTick, Woken, Doomed, Resumable, Lifecycle!Stays
  <2>6. QED
    BY <2>3, <2>4, <2>5 DEF Suspended
<1>3. QED
  BY <1>1, <1>2 DEF Lifecycle!LifecycleNext

LEMMA FailDispatchStatus ==
  ASSUME NEW t, NEW transient, FailDispatch(t, transient)
  PROVE  /\ \E to \in {"PENDING", "FAILED"} : status' = [status EXCEPT ![t] = to]
         /\ sch' = SelectingScheduler
  BY DEF FailDispatch

LEMMA SchedulerStep ==
  ASSUME TypeOK, HumanWaits, SchedulerNext
  PROVE  Lifecycle!LifecycleNext
<1>1. CASE SchedulerTick
  BY <1>1, TickStep
<1>2. CASE SchedulerSleep
  BY <1>2, OpenIsEmpty, OpenWillBeEmpty, IdleStep DEF SchedulerSleep, taskVars
<1>3. ASSUME NEW t \in Task, BeginDispatch(t) PROVE Lifecycle!LifecycleNext
  <2>1. Open = {} /\ Open' = {t}
    BY <1>3, OpenIsEmpty DEF BeginDispatch, Open, Dispatching
  <2>2. Lifecycle!Launches(t)
    BY <1>3, <2>1 DEF BeginDispatch, Selected, Ready, TypeOK, Lifecycle!Launches
  <2>3. \A u \in Task \ {t} : Lifecycle!Stays(u)
    BY <1>3, <2>1 DEF BeginDispatch, TypeOK, Lifecycle!Stays
  <2>4. QED
    BY <2>1, <2>2, <2>3 DEF Lifecycle!LifecycleNext
<1>4. ASSUME NEW t \in Task, DispatchWithoutAgent(t) PROVE Lifecycle!LifecycleNext
  <2>1. status[t] = "PENDING" /\ status' = [status EXCEPT ![t] = "FAILED"] /\ Open' = Open
    BY <1>4, OpenUnchanged DEF DispatchWithoutAgent, Selected, Ready
  <2>2. QED
    BY <2>1, SuccessorsAre, MoveStep
<1>5. ASSUME NEW t \in Task, DispatchRefused(t) PROVE Lifecycle!LifecycleNext
  <2>1. Open = {} /\ Open' = {}
    BY <1>5, OpenIsEmpty, OpenWillBeEmpty, FailDispatchStatus DEF DispatchRefused
  <2>2. status[t] = "PENDING"
    BY <1>5 DEF DispatchRefused, Selected, Ready
  <2>3. PICK to \in {"PENDING", "FAILED"} : status' = [status EXCEPT ![t] = to]
    BY <1>5, FailDispatchStatus DEF DispatchRefused
  <2>4. CASE to = "FAILED"
    BY <2>1, <2>2, <2>3, <2>4, SuccessorsAre, MoveStep
  <2>5. CASE to = "PENDING"
    <3>1. status' = status
      BY <2>2, <2>3, <2>5 DEF TypeOK
    <3>2. QED
      BY <2>1, <3>1, IdleStep
  <2>6. QED
    BY <2>4, <2>5
<1>6. CASE DispatchProvisioned
  <2>1. Open' = Open
    BY <1>6 DEF DispatchProvisioned, Open, Dispatching
  <2>2. QED
    BY <1>6, <2>1, IdleStep DEF DispatchProvisioned, taskVars
<1>7. CASE DispatchStarted \/ RemoteStarted
  BY <1>7, OpenWhileDispatching, OpenWillBeEmpty, LandStep
     DEF DispatchStarted, RemoteStarted, taskVars
<1>8. CASE DispatchRaised \/ RemoteRaised
  <2>1. sch.task \in Task /\ Open = {sch.task}
    BY <1>8, OpenWhileDispatching DEF DispatchRaised, RemoteRaised
  <2>2. PICK transient \in BOOLEAN : FailDispatch(sch.task, transient)
    BY <1>8 DEF DispatchRaised, RemoteRaised
  <2>3. QED
    BY <2>1, <2>2, FailDispatchStatus, OpenWillBeEmpty, LandStep
<1>9. QED
  BY <1>1, <1>2, <1>3, <1>4, <1>5, <1>6, <1>7, <1>8 DEF SchedulerNext

LEMMA CheckStep ==
  ASSUME TypeOK, CheckNext
  PROVE  Lifecycle!LifecycleNext
<1>1. Open' = Open
  BY OpenUnchanged
     DEF CheckNext, CheckFails, CheckCancels, CheckEnds, EndTask, CheckRestarts,
         RestartProvisioned, RestartDone, RestartRaised, CheckPassEnds
<1>2. ASSUME NEW t \in Task, NEW to \in {"FAILED", "CANCELLED"}, CheckEnds(t, to)
      PROVE  Lifecycle!LifecycleNext
  <2>1. status[t] = "RUNNING" /\ status' = [status EXCEPT ![t] = to]
    BY <1>2 DEF CheckEnds, EndTask
  <2>2. QED
    BY <1>1, <2>1, SuccessorsAre, MoveStep
<1>3. CASE RestartRaised
  <2>1. CASE status' = status
    BY <1>1, <2>1, IdleStep
  <2>2. CASE status[chk.task] \in FailableFrom /\ status' = [status EXCEPT ![chk.task] = "FAILED"]
    <3>1. chk.task \in Task
      BY <1>3, CheckCursor DEF RestartRaised
    <3>2. "FAILED" \in Lifecycle!Successors[status[chk.task]]
      BY <2>2, SuccessorsAre DEF FailableFrom
    <3>3. QED
      BY <1>1, <2>2, <3>1, <3>2, MoveStep
  <2>3. QED
    BY <1>3, <2>1, <2>2 DEF RestartRaised
<1>4. CASE status' = status
  BY <1>1, <1>4, IdleStep
<1>5. QED
  BY <1>2, <1>3, <1>4
     DEF CheckNext, CheckFails, CheckCancels, CheckRestarts, RestartProvisioned, RestartDone,
         CheckPassEnds, taskVars

LEMMA ClientStep ==
  ASSUME TypeOK, ClientNext
  PROVE  Lifecycle!LifecycleNext
<1>1. Open' = Open
  BY OpenUnchanged
     DEF ClientNext, SubmitTask, StartLoopParent, EndLoopParent, CompleteTask, FailTask, CancelTask, EndTask,
         StopSession, SuspendTask, ResumeTask
<1>2. ASSUME NEW t \in Task, SubmitTask(t) \/ StartLoopParent(t) PROVE Lifecycle!LifecycleNext
  <2>1. /\ status[t] = "absent"
        /\ \E to \in {"PENDING", "RUNNING"} : status' = [status EXCEPT ![t] = to]
    BY <1>2 DEF SubmitTask, StartLoopParent, NextId
  <2>2. QED
    BY <1>1, <2>1, SuccessorsAre, MoveStep
<1>3. ASSUME NEW t \in Task, CompleteTask(t) PROVE Lifecycle!LifecycleNext
  BY <1>1, <1>3, SuccessorsAre, MoveStep DEF CompleteTask, EndTask, CompletableFrom
<1>4. ASSUME NEW t \in Task, FailTask(t) PROVE Lifecycle!LifecycleNext
  BY <1>1, <1>4, SuccessorsAre, MoveStep DEF FailTask, EndTask, FailableFrom
<1>5. ASSUME NEW t \in Task, CancelTask(t) PROVE Lifecycle!LifecycleNext
  BY <1>1, <1>5, SuccessorsAre, MoveStep DEF CancelTask, EndTask, CancellableFrom
<1>6. ASSUME NEW t \in Task, StopSession(t) PROVE Lifecycle!LifecycleNext
  BY <1>1, <1>6, IdleStep DEF StopSession, taskVars
<1>7. ASSUME NEW t \in Task, NEW kind \in SuspendKinds, NEW kids \in SUBSET Task,
             SuspendTask(t, kind, kids)
      PROVE  Lifecycle!LifecycleNext
  <2>1. /\ status[t] \in {"PENDING", "RUNNING"}
        /\ \E to \in {"NEEDS_ACTION", "BLOCKED"} : status' = [status EXCEPT ![t] = to]
    BY <1>7 DEF SuspendTask
  <2>2. QED
    BY <1>1, <2>1, SuccessorsAre, MoveStep
<1>8. ASSUME NEW t \in Task, ResumeTask(t) PROVE Lifecycle!LifecycleNext
  BY <1>1, <1>8, SuccessorsAre, MoveStep DEF ResumeTask
<1>9. ASSUME NEW t \in Task, EndLoopParent(t) PROVE Lifecycle!LifecycleNext
  <2>1. Lifecycle!Settles(t)
    BY <1>1, <1>9 DEF EndLoopParent, Terminal, TypeOK, Lifecycle!Settles
  <2>2. \A u \in Task \ {t} : Lifecycle!Stays(u)
    BY <1>1, <1>9 DEF EndLoopParent, TypeOK, Lifecycle!Stays
  <2>3. QED
    BY <2>1, <2>2, OneOpenNext DEF Lifecycle!LifecycleNext
<1>10. QED
  BY <1>2, <1>3, <1>4, <1>5, <1>6, <1>7, <1>8, <1>9 DEF ClientNext

LEMMA OtherStep ==
  ASSUME (\E f \in fin : RecycleNext(f)) \/ WorldNext \/ UNCHANGED vars
  PROVE  /\ status' = status /\ attempts' = attempts /\ Open' = Open
         /\ Lifecycle!LifecycleNext
<1>1. status' = status /\ attempts' = attempts /\ sch' = sch
  BY DEF RecycleNext, RecycleBackend, RecyclePop, RecycleDone, WorldNext, LateResult,
         BackoffElapses, ResumeTimeComes, DeadlinePasses, ContainerDies, vars, taskVars
<1>2. QED
  BY <1>1, OpenUnchanged, IdleStep

LEMMA LifecycleStep ==
  ASSUME TypeOK, HumanWaits, [Next]_vars
  PROVE  Lifecycle!LifecycleNext
  BY SchedulerStep, CheckStep, ClientStep, OtherStep DEF Next

\* A status set by anything but a tick of the scheduler, suspend_task and
\* resume_task is never a suspended one, and only time touches the wait.
Overwrites == \E t \in Task, to \in Status \ Suspended : status' = [status EXCEPT ![t] = to]
Suspends == \E t \in Task, kind \in SuspendKinds, kids \in SUBSET Task : SuspendTask(t, kind, kids)
Resumes == \E t \in Task : ResumeTask(t)

LEMMA StatusStep ==
  ASSUME TypeOK, [Next]_vars, ~SchedulerTick, ~Suspends, ~Resumes
  PROVE  \/ wait' = wait /\ (status' = status \/ Overwrites)
         \/ status' = status /\ \E t \in Task : ResumeTimeComes(t)
<1>1. CASE SchedulerNext
  <2>1. ASSUME NEW t \in Task, NEW transient, FailDispatch(t, transient) PROVE Overwrites
    BY <2>1, FailDispatchStatus DEF Overwrites, Status, Suspended
  <2>2. sch.pc \in {"provision", "configure", "remote"} => sch.task \in Task
    BY DispatchCursor
  <2>3. CASE DispatchRaised \/ RemoteRaised
    BY <2>1, <2>2, <2>3 DEF DispatchRaised, RemoteRaised
  <2>4. ASSUME NEW t \in Task, DispatchRefused(t) \/ BeginDispatch(t) \/ DispatchWithoutAgent(t)
        PROVE  wait' = wait /\ Overwrites
    BY <2>1, <2>4 DEF DispatchRefused, BeginDispatch, DispatchWithoutAgent, Overwrites,
                      Status, Suspended
  <2>5. CASE SchedulerSleep \/ DispatchProvisioned \/ DispatchStarted \/ RemoteStarted
    BY <2>5 DEF SchedulerSleep, DispatchProvisioned, DispatchStarted, RemoteStarted, taskVars
  <2>6. QED
    BY <1>1, <2>3, <2>4, <2>5 DEF SchedulerNext
<1>2. CASE CheckNext
  <2>1. CASE RestartRaised
    BY <2>1, CheckCursor DEF RestartRaised, Overwrites, Status, Suspended
  <2>2. ASSUME NEW t \in Task, CheckFails(t) \/ CheckCancels(t)
        PROVE  wait' = wait /\ Overwrites
    BY <2>2 DEF CheckFails, CheckCancels, CheckEnds, EndTask, Overwrites, Status, Suspended
  <2>3. QED
    BY <1>2, <2>1, <2>2
       DEF CheckNext, CheckRestarts, RestartProvisioned, RestartDone, CheckPassEnds, taskVars
<1>3. CASE ClientNext
  BY <1>3 DEF ClientNext, SubmitTask, StartLoopParent, EndLoopParent, CompleteTask, FailTask,
              CancelTask, EndTask, StopSession, taskVars, Overwrites, Suspends, Resumes,
              Status, Suspended, Terminal
<1>4. CASE (\E f \in fin : RecycleNext(f)) \/ WorldNext \/ UNCHANGED vars
  BY <1>4 DEF RecycleNext, RecycleBackend, RecyclePop, RecycleDone, WorldNext, LateResult,
              BackoffElapses, ResumeTimeComes, DeadlinePasses, ContainerDies, vars, taskVars
<1>5. QED
  BY <1>1, <1>2, <1>3, <1>4 DEF Next

LEMMA HumanWaitsStep ==
  ASSUME TypeOK, HumanWaits, [Next]_vars
  PROVE  HumanWaits'
<1>1. CASE Suspends
  BY <1>1 DEF Suspends, SuspendTask, TypeOK, HumanWaits
<1>2. CASE Resumes
  BY <1>2 DEF Resumes, ResumeTask, TypeOK, HumanWaits
<1>3. CASE SchedulerTick
  BY <1>3 DEF SchedulerTick, AfterTick, Woken, Doomed, Resumable, TypeOK, HumanWaits
<1>4. CASE status' = status /\ \E t \in Task : ResumeTimeComes(t)
  BY <1>4 DEF ResumeTimeComes, TypeOK, Wait, HumanWaits
<1>5. CASE wait' = wait /\ (status' = status \/ Overwrites)
  BY <1>5 DEF TypeOK, HumanWaits, Overwrites, Suspended
<1>6. QED
  BY <1>1, <1>2, <1>3, <1>4, <1>5, StatusStep

\* what all the theorems about statuses rest on
LifecycleInv == TypeOK /\ HumanWaits

LEMMA LifecycleInvariant == Spec => []LifecycleInv
<1>1. Init => LifecycleInv
  BY InitTypeOK DEF Init, LifecycleInv, HumanWaits
<1>2. LifecycleInv /\ [Next]_vars => LifecycleInv'
  BY NextTypeOK, HumanWaitsStep DEF LifecycleInv
<1>3. QED
  BY <1>1, <1>2, PTL DEF Spec

(* For any number of tasks, callers, runners and retries the hub implements  *)
(* the lifecycle of TaskLifecycle: every status change is one of its edges,  *)
(* one dispatch at most is open, and only its end overwrites a status.       *)
THEOREM HubImplementsLifecycle == Spec => ImplementsLifecycle
<1>1. Init => Lifecycle!LifecycleInit
  BY DEF Init, IdleScheduler, Open, Dispatching, Lifecycle!LifecycleInit
<1>2. LifecycleInv /\ [Next]_vars => [Lifecycle!LifecycleNext]_(Lifecycle!lifecycleVars)
  BY LifecycleStep DEF LifecycleInv
<1>3. QED
  BY <1>1, <1>2, LifecycleInvariant, PTL
     DEF Spec, ImplementsLifecycle, Lifecycle!LifecycleSpec

LEMMA TerminalStays ==
  ASSUME TypeOK, Lifecycle!LifecycleNext, NEW t \in Task,
         status[t] \in Terminal, ~Dispatching(t)
  PROVE  /\ status'[t] \in Terminal
         /\ t \notin LoopParents => status'[t] = status[t]
<1>1. t \notin Open
  BY DEF Open
<1>2. \/ Lifecycle!Stays(t) \/ Lifecycle!Moves(t) \/ Lifecycle!Launches(t)
      \/ Lifecycle!Lands(t) \/ Lifecycle!Settles(t)
  BY DEF Lifecycle!LifecycleNext
<1>3. ~Lifecycle!Moves(t) /\ ~Lifecycle!Launches(t) /\ ~Lifecycle!Lands(t)
  BY <1>1, SuccessorsAre DEF Terminal, Lifecycle!Moves, Lifecycle!Launches, Lifecycle!Lands
<1>4. QED
  BY <1>2, <1>3 DEF Terminal, Lifecycle!Stays, Lifecycle!Settles

(* No caller, health check or timer revives a finished task: its status      *)
(* changes only when the dispatch that was open on it comes to its end (or,  *)
(* for the parent task of a loop, when the loop ends).                       *)
THEOREM TerminalIsFinal == Spec => TerminalIsFinalOnceSettled
<1>1. LifecycleInv /\ [Next]_vars
        => [\A t \in Task \ LoopParents :
              status[t] \in Terminal /\ ~Dispatching(t) => status'[t] = status[t]]_vars
  BY LifecycleStep, TerminalStays DEF LifecycleInv
<1>2. QED
  BY <1>1, LifecycleInvariant, PTL DEF Spec, TerminalIsFinalOnceSettled

-----------------------------------------------------------------------------
(* The retry budget *)

\* RetryBudget is not inductive: a task that may be dispatched again, and one
\* whose dispatch is open, must have a failure left
MayFailAgain(t) == status[t] \notin Terminal \/ Dispatching(t)
RetryInv ==
  \A t \in Task :
    /\ attempts[t] <= 1 \/ attempts[t] <= MaxAttempts
    /\ MayFailAgain(t) => attempts[t] = 0 \/ attempts[t] < MaxAttempts

LEMMA AttemptsStep ==
  ASSUME TypeOK, [Next]_vars
  PROVE  \/ attempts' = attempts
         \/ \E t \in Task, transient \in BOOLEAN : MayFailAgain(t) /\ FailDispatch(t, transient)
<1>1. CASE SchedulerNext
  <2>1. CASE \E t \in Task : DispatchRefused(t)
    BY <2>1 DEF DispatchRefused, Selected, Ready, MayFailAgain, Terminal
  <2>2. CASE DispatchRaised \/ RemoteRaised
    <3>1. sch.task \in Task /\ MayFailAgain(sch.task)
      BY <2>2, DispatchCursor DEF DispatchRaised, RemoteRaised, MayFailAgain, Dispatching
    <3>2. QED
      BY <2>2, <3>1 DEF DispatchRaised, RemoteRaised
  <2>3. QED
    BY <1>1, <2>1, <2>2
       DEF SchedulerNext, SchedulerTick, SchedulerSleep, BeginDispatch, DispatchWithoutAgent,
           DispatchProvisioned, DispatchStarted, RemoteStarted, taskVars
<1>2. CASE CheckNext
  BY <1>2 DEF CheckNext, CheckFails, CheckCancels, CheckEnds, EndTask, CheckRestarts,
              RestartProvisioned, RestartDone, RestartRaised, CheckPassEnds, taskVars
<1>3. CASE ClientNext
  BY <1>3 DEF ClientNext, SubmitTask, StartLoopParent, EndLoopParent, CompleteTask, FailTask,
              CancelTask, EndTask, StopSession, SuspendTask, ResumeTask, taskVars
<1>4. QED
  BY <1>1, <1>2, <1>3, OtherStep DEF Next

LEMMA MayFailAgainStep ==
  ASSUME TypeOK, Lifecycle!LifecycleNext, NEW t \in Task, MayFailAgain(t)'
  PROVE  MayFailAgain(t)
<1>1. SUFFICES ASSUME status[t] \in Terminal, ~Dispatching(t) PROVE FALSE
  BY DEF MayFailAgain
<1>2. status'[t] \in Terminal
  BY <1>1, TerminalStays
<1>3. t \in Open'
  BY <1>1, <1>2 DEF MayFailAgain, Open
<1>4. t \notin Open
  BY <1>1 DEF Open
<1>5. Lifecycle!Launches(t)
  BY <1>3, <1>4 DEF Lifecycle!LifecycleNext, Lifecycle!Stays, Lifecycle!Moves, Lifecycle!Lands,
                      Lifecycle!Settles
<1>6. QED
  BY <1>1, <1>5 DEF Lifecycle!Launches, Terminal

LEMMA RetryStep ==
  ASSUME TypeOK, Lifecycle!LifecycleNext, [Next]_vars, RetryInv
  PROVE  RetryInv'
<1> USE HubAssumption
<1>1. CASE attempts' = attempts
  BY <1>1, MayFailAgainStep DEF RetryInv
<1>2. ASSUME NEW t \in Task, NEW transient \in BOOLEAN,
             MayFailAgain(t), FailDispatch(t, transient)
      PROVE  RetryInv'
  <2>1. /\ attempts[t] \in Nat /\ attempts'[t] = attempts[t] + 1
        /\ \A u \in Task \ {t} : attempts'[u] = attempts[u]
    BY <1>2 DEF FailDispatch, TypeOK
  <2>2. attempts[t] = 0 \/ attempts[t] < MaxAttempts
    BY <1>2 DEF RetryInv
  <2>3. MayFailAgain(t)' => attempts[t] + 1 < MaxAttempts
    <3>1. ~Dispatching(t)'
      BY <1>2, FailDispatchStatus DEF SelectingScheduler, Dispatching
    <3>2. status'[t] # "FAILED" => attempts[t] + 1 < MaxAttempts
      BY <1>2 DEF FailDispatch, Retryable, TypeOK
    <3>3. QED
      BY <3>1, <3>2 DEF MayFailAgain, Terminal
  <2>4. ASSUME NEW u \in Task \ {t}
        PROVE  /\ attempts'[u] <= 1 \/ attempts'[u] <= MaxAttempts
               /\ MayFailAgain(u)' => attempts'[u] = 0 \/ attempts'[u] < MaxAttempts
    BY <2>1, MayFailAgainStep DEF RetryInv
  <2>5. /\ attempts'[t] <= 1 \/ attempts'[t] <= MaxAttempts
        /\ MayFailAgain(t)' => attempts'[t] = 0 \/ attempts'[t] < MaxAttempts
    BY <2>1, <2>2, <2>3
  <2>6. QED
    BY <2>4, <2>5 DEF RetryInv
<1>3. QED
  BY <1>1, <1>2, AttemptsStep

(* Whatever cancels, fails or revives a task while its dispatch is open, it  *)
(* never costs more failed dispatches than max_attempts allows.              *)
THEOREM RetryBudgetHolds == Spec => []RetryBudget
<1>1. Init => RetryInv
  BY HubAssumption DEF Init, RetryInv
<1>2. LifecycleInv /\ RetryInv /\ [Next]_vars => RetryInv'
  BY LifecycleStep, RetryStep DEF LifecycleInv
<1>3. RetryInv => RetryBudget
  BY DEF RetryInv, RetryBudget
<1>4. QED
  BY <1>1, <1>2, <1>3, LifecycleInvariant, PTL DEF Spec

-----------------------------------------------------------------------------
(* Credentials.  As the program is deployed nothing calls suspend_task.      *)

\* NoIdleCredential and OneCredential, strengthened: a task waiting for a
\* dispatch and the parent of a loop have no valid token, and an open dispatch
\* holds the recorded one
Credential(t) ==
  /\ valid[t] \subseteq {token[t]}
  /\ t \notin named \/ t \in LoopParents => valid[t] = {}
  /\ Dispatching(t) => token[t] = sch.tok
  /\ status[t] \in {"absent", "PENDING"} => valid[t] = {}
  /\ status[t] \in Terminal /\ valid[t] # {} => Finalizing(t)
NoneSuspended == \A t \in Task : status[t] \notin Suspended
RestartsPersistent == chk.pc \in {"provision", "configure"} => chk.task \in Persistent
CredentialInv ==
  /\ NoneSuspended
  /\ RestartsPersistent
  /\ \A t \in Task \ Persistent : Credential(t)

LEMMA NoneSuspendedStep ==
  ASSUME SuspendKinds = {}, TypeOK, NoneSuspended, [Next]_vars
  PROVE  NoneSuspended' /\ ~Suspends /\ ~Resumes
<1>1. ~Suspends /\ ~Resumes
  BY DEF Suspends, Resumes, ResumeTask, NoneSuspended, Suspended
<1>2. CASE SchedulerTick
  BY <1>1, <1>2 DEF SchedulerTick, AfterTick, Woken, Doomed, Resumable, NoneSuspended, Suspended
<1>3. CASE status' = status \/ Overwrites
  BY <1>1, <1>3 DEF NoneSuspended, TypeOK, Overwrites
<1>4. QED
  BY <1>1, <1>2, <1>3, StatusStep

LEMMA RestartsPersistentStep ==
  ASSUME TypeOK, RestartsPersistent, [Next]_vars
  PROVE  RestartsPersistent'
<1>1. CASE chk' = chk
  BY <1>1 DEF RestartsPersistent
<1>2. CASE CheckNext
  <2>1. CASE RestartProvisioned
    BY <2>1 DEF RestartProvisioned, RestartsPersistent, TypeOK, Checker
  <2>2. CASE RestartRaised
    <3>1. chk'.pc \in {"finalize", "dead"}
      <4>1. CASE chk' = [chk EXCEPT !.pc = "finalize", !.tok = 0, !.old = 0]
        BY <2>2, <4>1 DEF RestartRaised, TypeOK, Checker
      <4>2. CASE chk' = [IdleChecker EXCEPT !.pc = "dead"]
        BY <4>2 DEF IdleChecker
      <4>3. QED
        BY <2>2, <4>1, <4>2 DEF RestartRaised
    <3>2. QED
      BY <3>1 DEF RestartsPersistent
  <2>3. CASE \E t \in Task : CheckRestarts(t)
    BY <2>3 DEF CheckRestarts, RestartsPersistent
  <2>4. CASE (\E t \in Task : CheckFails(t) \/ CheckCancels(t)) \/ RestartDone \/ CheckPassEnds
    <3>1. chk'.pc \in {"finalize", "scan", "idle"}
      <4>1. ASSUME NEW t, NEW to, CheckEnds(t, to) PROVE chk'.pc \in {"finalize", "scan"}
        BY <4>1 DEF CheckEnds, IdleChecker
      <4>2. ASSUME RestartDone PROVE chk'.pc = "scan"
        <5>1. chk' = [IdleChecker EXCEPT !.pc = "scan", !.todo = chk.todo]
          BY <4>2 DEF RestartDone
        <5>2. QED
          BY <5>1 DEF IdleChecker
      <4>3. ASSUME CheckPassEnds PROVE chk'.pc = "idle"
        BY <4>3 DEF CheckPassEnds, IdleChecker
      <4>4. QED
        BY <2>4, <4>1, <4>2, <4>3 DEF CheckFails, CheckCancels
    <3>2. QED
      BY <3>1 DEF RestartsPersistent
  <2>5. QED
    BY <1>2, <2>1, <2>2, <2>3, <2>4 DEF CheckNext
<1>3. ASSUME NEW f \in fin, RecycleDone(f) PROVE RestartsPersistent'
  BY <1>3 DEF RecycleDone, IdleChecker, RestartsPersistent
<1>4. QED
  BY <1>1, <1>2, <1>3
     DEF Next, SchedulerNext, SchedulerTick, SchedulerSleep, BeginDispatch, DispatchWithoutAgent,
         DispatchRefused, DispatchProvisioned, DispatchStarted, DispatchRaised, RemoteStarted,
         RemoteRaised, RecycleNext, RecycleBackend, RecyclePop, ClientNext, SubmitTask,
         StartLoopParent, EndLoopParent, CompleteTask, FailTask, CancelTask, StopSession,
         SuspendTask, ResumeTask,
         WorldNext, LateResult, BackoffElapses, ResumeTimeComes, DeadlinePasses, ContainerDies, vars

\* a step that leaves the tokens of t alone
LEMMA KeepsCredential ==
  ASSUME NEW t \in Task, Credential(t),
         valid'[t] = valid[t], token'[t] = token[t], named \subseteq named',
         Dispatching(t)' => Dispatching(t) /\ sch'.tok = sch.tok,
         status'[t] \in {"absent", "PENDING"} => status[t] \in {"absent", "PENDING"},
         status'[t] \in Terminal /\ valid[t] # {} => Finalizing(t)'
  PROVE  Credential(t)'
  BY DEF Credential

\* a step after which no token of t is valid
LEMMA NoCredential ==
  ASSUME NEW t \in Task, valid'[t] = {}, Dispatching(t)' => token'[t] = sch'.tok
  PROVE  Credential(t)'
  BY DEF Credential

LEMMA FinalizingGrows ==
  ASSUME NEW t \in Task, fin \subseteq fin', Finalizing(t)
  PROVE  Finalizing(t)'
  BY DEF Finalizing

LEMMA FailDispatchCredential ==
  ASSUME NEW t \in Task, NEW u \in Task, NEW transient, FailDispatch(u, transient),
         TypeOK, Credential(t), fin' = fin, named \subseteq named',
         t # u => valid'[t] = valid[t] /\ token'[t] = token[t],
         t = u => valid'[t] = {}
  PROVE  Credential(t)'
<1>1. ~Dispatching(t)'
  BY FailDispatchStatus DEF SelectingScheduler, Dispatching
<1>2. CASE t = u
  BY <1>1, <1>2, NoCredential
<1>3. CASE t # u
  <2>1. status'[t] = status[t]
    BY <1>3 DEF FailDispatch, TypeOK
  <2>2. QED
    BY <1>1, <1>3, <2>1, KeepsCredential, FinalizingGrows DEF Credential
<1>4. QED
  BY <1>2, <1>3

LEMMA SchedulerCredential ==
  ASSUME TypeOK, NoneSuspended, NEW t \in Task, Credential(t), SchedulerNext
  PROVE  Credential(t)'
<1>1. CASE SchedulerTick
  <2>1. status'[t] = status[t] \/ (status[t] = "PENDING" /\ status'[t] = "FAILED")
    BY <1>1 DEF SchedulerTick, AfterTick, Woken, Doomed, Resumable, NoneSuspended
  <2>2. ~Dispatching(t)' /\ fin' = fin /\ UNCHANGED <<valid, token, named>>
    BY <1>1 DEF SchedulerTick, SelectingScheduler, Dispatching, tokenVars
  <2>3. QED
    BY <2>1, <2>2, KeepsCredential, FinalizingGrows DEF Credential
<1>2. CASE SchedulerSleep
  BY <1>2, KeepsCredential, FinalizingGrows
     DEF SchedulerSleep, IdleScheduler, Dispatching, Credential, taskVars, tokenVars
<1>3. ASSUME NEW u \in Task, BeginDispatch(u) PROVE Credential(t)'
  <2>1. CASE t = u
    <3>1. valid[t] = {}
      BY <1>3, <2>1 DEF BeginDispatch, Selected, Ready, Credential
    <3>2. /\ valid'[t] = {issued[t] + 1} /\ token'[t] = issued[t] + 1 /\ sch'.tok = issued[t] + 1
          /\ t \in named' /\ t \notin LoopParents /\ status'[t] = "RUNNING"
      BY <1>3, <2>1, <3>1 DEF BeginDispatch, IssueToken, TypeOK
    <3>3. QED
      BY <3>2 DEF Credential, Terminal
  <2>2. CASE t # u
    <3>1. /\ valid'[t] = valid[t] /\ token'[t] = token[t] /\ status'[t] = status[t]
          /\ named \subseteq named' /\ fin' = fin /\ ~Dispatching(t)'
      BY <1>3, <2>2 DEF BeginDispatch, IssueToken, TypeOK, Dispatching
    <3>2. QED
      BY <3>1, KeepsCredential, FinalizingGrows DEF Credential
  <2>3. QED
    BY <2>1, <2>2
<1>4. ASSUME NEW u \in Task, DispatchWithoutAgent(u) PROVE Credential(t)'
  <2>1. status'[t] = status[t] \/ (status[t] = "PENDING" /\ status'[t] = "FAILED")
    BY <1>4 DEF DispatchWithoutAgent, Selected, Ready, TypeOK
  <2>2. QED
    BY <1>4, <2>1, KeepsCredential, FinalizingGrows
       DEF DispatchWithoutAgent, Credential, Dispatching, tokenVars
<1>5. ASSUME NEW u \in Task, DispatchRefused(u) PROVE Credential(t)'
  <2>1. PICK transient \in BOOLEAN : FailDispatch(u, transient)
    BY <1>5 DEF DispatchRefused
  <2>2. /\ t # u => valid'[t] = valid[t] /\ token'[t] = token[t]
        /\ t = u => valid'[t] = {}
    BY <1>5 DEF DispatchRefused, Selected, Ready, TypeOK, Credential
  <2>3. QED
    BY <1>5, <2>1, <2>2, FailDispatchCredential DEF DispatchRefused
<1>6. CASE DispatchProvisioned
  BY <1>6, KeepsCredential, FinalizingGrows
     DEF DispatchProvisioned, Dispatching, Credential, taskVars, tokenVars
<1>7. CASE DispatchStarted \/ RemoteStarted
  BY <1>7, KeepsCredential, FinalizingGrows
     DEF DispatchStarted, RemoteStarted, SelectingScheduler, Dispatching, Credential, taskVars, tokenVars
<1>8. CASE DispatchRaised \/ RemoteRaised
  <2>1. sch.task \in Task
    BY <1>8, DispatchCursor DEF DispatchRaised, RemoteRaised
  <2>2. PICK transient \in BOOLEAN : FailDispatch(sch.task, transient)
    BY <1>8 DEF DispatchRaised, RemoteRaised
  <2>3. RevokeAndSet(sch.task, sch.tok, 0) /\ fin' = fin /\ named' = named
    BY <1>8 DEF DispatchRaised, RemoteRaised
  <2>4. t # sch.task => valid'[t] = valid[t] /\ token'[t] = token[t]
    BY <2>3 DEF RevokeAndSet, TypeOK
  <2>5. t = sch.task => valid'[t] = {}
    <3>1. SUFFICES ASSUME t = sch.task PROVE valid'[t] = {}
      OBVIOUS
    <3>2. Dispatching(t)
      BY <1>8, <3>1 DEF DispatchRaised, RemoteRaised, Dispatching
    <3>3. valid'[t] = valid[t] \ {sch.tok}
      BY <2>3, <3>1 DEF RevokeAndSet, TypeOK
    <3>4. QED
      BY <3>2, <3>3 DEF Credential
  <2>6. QED
    BY <2>1, <2>2, <2>3, <2>4, <2>5, FailDispatchCredential
<1>9. QED
  BY <1>1, <1>2, <1>3, <1>4, <1>5, <1>6, <1>7, <1>8 DEF SchedulerNext

LEMMA EndTaskCredential ==
  ASSUME TypeOK, NEW t \in Task, Credential(t), NEW u \in Task,
         NEW from, NEW to \in Terminal, NEW who \in {"api", "check"}, EndTask(u, from, to, who)
  PROVE  Credential(t)'
<1>1. /\ fin \subseteq fin' /\ sch' = sch /\ named' = named
      /\ t # u => valid'[t] = valid[t] /\ token'[t] = token[t] /\ status'[t] = status[t]
      /\ t = u => status'[t] = to
  BY DEF EndTask, BeginFinalize, BeginRecycle, RevokeAndSet, TypeOK, tokenVars
<1>2. CASE t # u
  BY <1>1, <1>2, KeepsCredential, FinalizingGrows DEF Credential, Dispatching
<1>3. CASE t = u /\ t \in named
  <2>1. /\ valid' = valid /\ token' = token
        /\ \E f \in fin' : f.task = t /\ f.by = who
    BY <1>3 DEF EndTask, BeginFinalize, BeginRecycle, tokenVars
  <2>2. Finalizing(t)'
    BY <2>1 DEF Finalizing
  <2>3. QED
    BY <1>1, <1>3, <2>1, <2>2, KeepsCredential DEF Dispatching, Terminal
<1>4. CASE t = u /\ t \notin named
  <2>1. valid'[t] = {} /\ token'[t] = token[t]
    BY <1>4 DEF EndTask, BeginFinalize, RevokeAndSet, TypeOK, Credential
  <2>2. QED
    BY <1>1, <2>1, NoCredential DEF Credential, Dispatching
<1>5. QED
  BY <1>2, <1>3, <1>4

LEMMA CheckCredential ==
  ASSUME TypeOK, RestartsPersistent, NEW t \in Task \ Persistent, Credential(t), CheckNext
  PROVE  Credential(t)'
<1>1. ASSUME NEW u \in Task, CheckFails(u) \/ CheckCancels(u) PROVE Credential(t)'
  BY <1>1, EndTaskCredential DEF CheckFails, CheckCancels, CheckEnds, Terminal
<1>2. CASE (\E u \in Task : CheckRestarts(u)) \/ RestartProvisioned \/ RestartDone
            \/ RestartRaised \/ CheckPassEnds
  <2>1. /\ valid'[t] = valid[t] /\ token'[t] = token[t] /\ status'[t] = status[t]
        /\ named' = named /\ sch' = sch /\ fin \subseteq fin'
    BY <1>2 DEF CheckRestarts, IssueToken, RestartProvisioned, RestartDone, RestartRaised,
                RevokeAndSet, BeginRecycle, CheckPassEnds, RestartsPersistent, TypeOK,
                taskVars, tokenVars
  <2>2. QED
    BY <2>1, KeepsCredential, FinalizingGrows DEF Credential, Dispatching
<1>3. QED
  BY <1>1, <1>2 DEF CheckNext

LEMMA RecycleCredential ==
  ASSUME TypeOK, NEW t \in Task, Credential(t), NEW f \in fin, RecycleNext(f)
  PROVE  Credential(t)'
<1>1. status' = status /\ named' = named /\ sch' = sch
  BY DEF RecycleNext, RecycleBackend, RecyclePop, RecycleDone, taskVars
<1>2. f \in [task : Task, by : {"api", "check", "operator"}, at : {"stop", "pop", "revoke"}]
  BY DEF TypeOK, Finalizer
<1>3. CASE RecycleBackend(f) \/ RecyclePop(f)
  <2>1. valid' = valid /\ token' = token
    BY <1>3 DEF RecycleBackend, RecyclePop, tokenVars
  <2>2. Finalizing(t) => Finalizing(t)'
    <3>1. PICK g : fin' = (fin \ {f}) \cup {g} /\ g.task = f.task /\ g.by = f.by
      <4>1. \A at : LET g == [f EXCEPT !.at = at] IN g.task = f.task /\ g.by = f.by
        BY <1>2
      <4>2. QED
        BY <1>3, <4>1 DEF RecycleBackend, RecyclePop
    <3>2. QED
      BY <3>1 DEF Finalizing
  <2>3. QED
    BY <1>1, <2>1, <2>2, KeepsCredential DEF Credential, Dispatching
<1>4. CASE RecycleDone(f) /\ f.task = t /\ f.by # "operator"
  <2>1. valid'[t] = {} /\ token'[t] = token[t]
    BY <1>4 DEF RecycleDone, RevokeAndSet, TypeOK, Credential
  <2>2. QED
    BY <1>1, <2>1, NoCredential DEF Credential, Dispatching
<1>5. CASE RecycleDone(f) /\ (f.task # t \/ f.by = "operator")
  <2>1. valid'[t] = valid[t] /\ token'[t] = token[t]
    BY <1>2, <1>5 DEF RecycleDone, RevokeAndSet, TypeOK, tokenVars
  <2>2. Finalizing(t) => Finalizing(t)'
    BY <1>5 DEF RecycleDone, Finalizing
  <2>3. QED
    BY <1>1, <2>1, <2>2, KeepsCredential DEF Credential, Dispatching
<1>6. QED
  BY <1>3, <1>4, <1>5 DEF RecycleNext

LEMMA ClientCredential ==
  ASSUME TypeOK, ~Suspends, ~Resumes, NEW t \in Task, Credential(t), ClientNext
  PROVE  Credential(t)'
<1>1. ASSUME NEW u \in Task, SubmitTask(u) \/ StartLoopParent(u) PROVE Credential(t)'
  <2>1. status'[t] = status[t] \/ (status[t] = "absent" /\ status'[t] \in {"PENDING", "RUNNING"})
    BY <1>1 DEF SubmitTask, StartLoopParent, NextId, TypeOK
  <2>2. QED
    BY <1>1, <2>1, KeepsCredential, FinalizingGrows
       DEF SubmitTask, StartLoopParent, Credential, Dispatching, Terminal, tokenVars
<1>2. ASSUME NEW u \in Task, CompleteTask(u) \/ FailTask(u) \/ CancelTask(u) PROVE Credential(t)'
  BY <1>2, EndTaskCredential DEF CompleteTask, FailTask, CancelTask, Terminal
<1>3. ASSUME NEW u \in Task, StopSession(u) PROVE Credential(t)'
  BY <1>3, KeepsCredential, FinalizingGrows
     DEF StopSession, BeginRecycle, Credential, Dispatching, taskVars, tokenVars
<1>4. ASSUME NEW u \in Task, EndLoopParent(u) PROVE Credential(t)'
  <2>1. UNCHANGED <<valid, token, named, fin, sch>>
    BY <1>4 DEF EndLoopParent, tokenVars
  <2>2. CASE t = u
    BY <1>4, <2>1, <2>2, NoCredential DEF EndLoopParent, Credential, Dispatching
  <2>3. CASE t # u
    <3>1. status'[t] = status[t]
      BY <1>4, <2>3 DEF EndLoopParent, TypeOK
    <3>2. QED
      BY <2>1, <3>1, KeepsCredential, FinalizingGrows DEF Credential, Dispatching
  <2>4. QED
    BY <2>2, <2>3
<1>5. QED
  BY <1>1, <1>2, <1>3, <1>4 DEF ClientNext, Suspends, Resumes

LEMMA WorldCredential ==
  ASSUME NEW t \in Task, Credential(t), WorldNext \/ UNCHANGED vars
  PROVE  Credential(t)'
<1>1. UNCHANGED <<status, named, valid, token, sch, fin>>
  BY DEF WorldNext, LateResult, BackoffElapses, ResumeTimeComes, DeadlinePasses, ContainerDies,
         vars, taskVars, tokenVars
<1>2. QED
  BY <1>1, KeepsCredential, FinalizingGrows DEF Credential, Dispatching

LEMMA CredentialStep ==
  ASSUME SuspendKinds = {}, TypeOK, CredentialInv, [Next]_vars
  PROVE  CredentialInv'
<1>1. NoneSuspended' /\ ~Suspends /\ ~Resumes
  BY NoneSuspendedStep DEF CredentialInv
<1>2. RestartsPersistent'
  BY RestartsPersistentStep DEF CredentialInv
<1>3. ASSUME NEW t \in Task \ Persistent PROVE Credential(t)'
  BY <1>1, SchedulerCredential, CheckCredential, RecycleCredential, ClientCredential,
     WorldCredential DEF CredentialInv, Next
<1>4. QED
  BY <1>1, <1>2, <1>3 DEF CredentialInv

(* For a transient agent there is never a token that outlives its use, nor a *)
(* second valid one: however retries, cancellations in the middle of a       *)
(* dispatch and slow finalisers of an earlier attempt interleave.            *)
THEOREM CredentialsEnd ==
  ASSUME SuspendKinds = {}
  PROVE  Spec => []NoIdleCredential /\ []OneCredential
<1>1. Init => CredentialInv
  BY DEF Init, CredentialInv, NoneSuspended, Suspended, RestartsPersistent, IdleChecker,
         IdleScheduler, Credential, Dispatching, Terminal
<1>2. TypeOK /\ CredentialInv /\ [Next]_vars => CredentialInv'
  BY CredentialStep
<1>3. TypeOK /\ CredentialInv => NoIdleCredential /\ OneCredential
  BY DEF TypeOK, CredentialInv, NoneSuspended, Credential, NoIdleCredential, OneCredential,
         Status, Suspended, Terminal
<1>4. QED
  BY <1>1, <1>2, <1>3, TypeCorrect, PTL DEF Spec
=============================================================================
