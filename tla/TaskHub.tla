------------------------------ MODULE TaskHub ------------------------------
(***************************************************************************)
(* The task hub of brainbox: router.py, scheduler.py, the token part of    *)
(* registry.py and the pipeline/recycle part of lifecycle.py.              *)
(*                                                                         *)
(* All of it runs on one asyncio event loop.  A coroutine keeps the loop   *)
(* until its next await, so an action below is the code between two awaits *)
(* that really suspend; interleavings happen at those awaits only.  The    *)
(* actors are the scheduler loop (one dispatch at a time), the periodic    *)
(* health check, any number of API calls that end a task or stop a         *)
(* session, the agents and runners behind them, and time.                  *)
(***************************************************************************)
EXTENDS Naturals, FiniteSets

CONSTANTS
  NumTasks,      \* tasks are 1..NumTasks, in the order submit_task creates them
  MaxAttempts,   \* task.max_attempts
  MaxTokens,     \* BOUND: tokens issued per task
  MaxCalls,      \* BOUND: recycle calls in flight at once
  Persistent,    \* tasks whose agent definition is persistent
  Remotable,     \* tasks whose backend some registered runner advertises
  Utm,           \* tasks on the utm backend: its ssh commands raise TimeoutError
  Deadlined,     \* tasks submitted with deadline_ms
  LoopParents,   \* tasks created by loop_runner.start_loop instead of submit_task
  SuspendKinds,  \* suspension kinds some caller of suspend_task uses
  Priority       \* task.priority

Task == 1..NumTasks
Token == 1..MaxTokens

ASSUME HubAssumption ==
  /\ NumTasks \in Nat /\ MaxAttempts \in Nat /\ MaxTokens \in Nat /\ MaxCalls \in Nat
  /\ Persistent \subseteq Task /\ Remotable \subseteq Task
  /\ Utm \subseteq Task /\ Deadlined \subseteq Task /\ LoopParents \subseteq Task
  /\ LoopParents \cap (Persistent \cup Deadlined) = {}
  /\ SuspendKinds \subseteq {"human", "schedule", "join"}
  /\ Priority \in [Task -> Nat]

VARIABLES
  status,    \* router._tasks[t].status; "absent" before submit_task
  token,     \* task.token_id; 0 is None
  valid,     \* registry._tokens: the tokens of t that validate_token accepts
  issued,    \* how many tokens issue_token has minted for t
  attempts,  \* task.attempts
  named,     \* tasks whose session_name is set
  remote,    \* tasks whose runner_name is set
  cooling,   \* tasks whose next_attempt_at is in the future
  late,      \* tasks whose deadline_ms has passed
  wait,      \* the suspension fields of a BLOCKED or NEEDS_ACTION task
  session,   \* lifecycle._sessions[session_name of t], and its state
  box,       \* where a container (or VM) of t's session exists
  owed,      \* tasks whose work item a runner still executes after the hub gave up
  sch,       \* the scheduler coroutine
  chk,       \* the _periodic_check coroutine
  fin        \* calls of _finalize_task / recycle in flight

taskVars == <<status, attempts, remote, named, wait>>
tokenVars == <<token, valid, issued>>
timeVars == <<cooling, late>>
worldVars == <<session, box, owed>>
vars == <<taskVars, tokenVars, timeVars, worldVars, sch, chk, fin>>

-----------------------------------------------------------------------------
Status == {"absent", "PENDING", "RUNNING", "BLOCKED", "NEEDS_ACTION",
           "COMPLETED", "FAILED", "CANCELLED"}
Terminal == {"COMPLETED", "FAILED", "CANCELLED"}
Suspended == {"BLOCKED", "NEEDS_ACTION"}

Wait == [kind : {"none", "human", "schedule", "join"}, kids : SUBSET Task, asleep : BOOLEAN]
NoWait == [kind |-> "none", kids |-> {}, asleep |-> FALSE]

\* A finalizer: an await inside recycle().  "stop" awaits the backend's
\* stop/remove, "pop" the rest of remove, "revoke" the database bookkeeping.
Finalizer == [task : Task, by : {"api", "check", "operator"}, at : {"stop", "pop", "revoke"}]

Scheduler ==
  [pc : {"idle", "select"}, task : {0}, tok : {0}] \cup
  [pc : {"provision", "configure", "remote"}, task : Task, tok : Token]
Checker ==
  [pc : {"idle", "scan", "dead"}, task : {0}, todo : SUBSET Task, tok : {0}, old : {0}] \cup
  [pc : {"finalize"}, task : Task, todo : SUBSET Task, tok : {0}, old : {0}] \cup
  [pc : {"provision", "configure"}, task : Task, todo : SUBSET Task,
   tok : Token, old : 0..MaxTokens]

IdleScheduler == [pc |-> "idle", task |-> 0, tok |-> 0]
SelectingScheduler == [pc |-> "select", task |-> 0, tok |-> 0]
IdleChecker == [pc |-> "idle", task |-> 0, todo |-> {}, tok |-> 0, old |-> 0]

Submitted == {t \in Task : status[t] # "absent"}
Dispatching(t) == sch.pc \in {"provision", "configure", "remote"} /\ sch.task = t
Open == {t \in Task : Dispatching(t)}
Finalizing(t) == \E f \in fin : f.task = t /\ f.by # "operator"

TypeOK ==
  /\ status \in [Task -> Status]
  /\ token \in [Task -> 0..MaxTokens]
  /\ valid \in [Task -> SUBSET Token]
  /\ issued \in [Task -> 0..MaxTokens]
  /\ attempts \in [Task -> Nat]
  /\ named \subseteq Task
  /\ remote \subseteq Task
  /\ cooling \subseteq Task
  /\ late \subseteq Task
  /\ wait \in [Task -> Wait]
  /\ session \in [Task -> {"none", "live", "recycling"}]
  /\ box \in [Task -> SUBSET {"local", "runner"}]
  /\ owed \subseteq Task
  /\ sch \in Scheduler
  /\ chk \in Checker
  /\ fin \subseteq Finalizer

Init ==
  /\ status = [t \in Task |-> "absent"]
  /\ token = [t \in Task |-> 0]
  /\ valid = [t \in Task |-> {}]
  /\ issued = [t \in Task |-> 0]
  /\ attempts = [t \in Task |-> 0]
  /\ named = {} /\ remote = {} /\ cooling = {} /\ late = {} /\ owed = {}
  /\ wait = [t \in Task |-> NoWait]
  /\ session = [t \in Task |-> "none"]
  /\ box = [t \in Task |-> {}]
  /\ sch = IdleScheduler
  /\ chk = IdleChecker
  /\ fin = {}

-----------------------------------------------------------------------------
(* Submission.  Ids are handed out in order, so created_at order is id order. *)

NextId(t) == status[t] = "absent" /\ \A u \in Task : u < t => status[u] # "absent"

\* submit_task: PENDING, with an explicit runner or without one
SubmitTask(t) ==
  /\ t \notin LoopParents /\ NextId(t)
  /\ status' = [status EXCEPT ![t] = "PENDING"]
  /\ remote' \in {remote} \cup {remote \cup {u} : u \in {t} \cap Remotable}
  /\ UNCHANGED <<attempts, named, wait, tokenVars, timeVars, worldVars, sch, chk, fin>>

\* loop_runner.start_loop writes its parent task into router._tasks as RUNNING:
\* no dispatch, no token, no session, no runner
StartLoopParent(t) ==
  /\ t \in LoopParents /\ NextId(t)
  /\ status' = [status EXCEPT ![t] = "RUNNING"]
  /\ UNCHANGED <<attempts, named, remote, wait, tokenVars, timeVars, worldVars, sch, chk, fin>>

\* loop_runner._terminate writes the status its loop ended with over whatever
\* the parent's has become by then (LoopRunner says when)
EndLoopParent(t) ==
  /\ t \in LoopParents /\ status[t] # "absent"
  /\ \E to \in Terminal : status' = [status EXCEPT ![t] = to]
  /\ UNCHANGED <<attempts, named, remote, wait, tokenVars, timeVars, worldVars, sch, chk, fin>>

-----------------------------------------------------------------------------
(* Tokens *)

\* issue_token for t, stored in task.token_id
IssueToken(t) ==
  /\ issued[t] < MaxTokens    \* a bound, not code
  /\ issued' = [issued EXCEPT ![t] = @ + 1]
  /\ token' = [token EXCEPT ![t] = issued[t] + 1]
  /\ valid' = [valid EXCEPT ![t] = @ \cup {issued[t] + 1}]

RevokeAndSet_ClearedFirst(t, n, m) ==    \* mutant: revokes what the field says after the reset
  /\ valid' = [valid EXCEPT ![t] = @ \ {m}]
  /\ token' = [token EXCEPT ![t] = m]
  /\ UNCHANGED issued

\* revoke_token(n) and task.token_id := m
RevokeAndSet(t, n, m) ==
  /\ valid' = [valid EXCEPT ![t] = @ \ {n}]
  /\ token' = [token EXCEPT ![t] = m]
  /\ UNCHANGED issued

-----------------------------------------------------------------------------
(* Ending a task: complete_task, fail_task, cancel_task, then _finalize_task *)

\* lifecycle.recycle up to its first await.  With a _sessions entry it marks the
\* context RECYCLING and awaits the backend; without one it skips the backend
\* and awaits the database.
BeginRecycle(t, who) ==
  LET f == [task |-> t, by |-> who, at |-> IF session[t] = "none" THEN "revoke" ELSE "stop"]
  IN  /\ f \notin fin /\ Cardinality(fin) < MaxCalls    \* bounds, not code
      /\ fin' = fin \cup {f}
      /\ session' = [session EXCEPT ![t] = IF @ = "none" THEN "none" ELSE "recycling"]

\* _finalize_task up to its first await; a task that was never dispatched has no
\* session to recycle and its token, if any, is revoked at once
BeginFinalize(t, who) ==
  \/ t \in named /\ BeginRecycle(t, who) /\ UNCHANGED tokenVars
  \/ t \notin named /\ RevokeAndSet(t, token[t], token[t]) /\ UNCHANGED <<fin, session>>

CompletableFrom == {"RUNNING"}
FailableFrom_Unguarded == Status \ {"absent"}     \* mutant: no status check
FailableFrom == {"RUNNING", "PENDING"}
CancellableFrom_Unguarded == Status \ {"absent"}  \* mutant: no status check
CancellableFrom == {"RUNNING", "PENDING", "BLOCKED", "NEEDS_ACTION"}

EndTask(t, from, to, who) ==
  /\ status[t] \in from
  /\ status' = [status EXCEPT ![t] = to]
  /\ BeginFinalize(t, who)
  /\ UNCHANGED <<attempts, named, remote, wait, timeVars, box, owed, sch>>

CompleteTask(t) == EndTask(t, CompletableFrom, "COMPLETED", "api") /\ UNCHANGED chk
FailTask(t) == EndTask(t, FailableFrom, "FAILED", "api") /\ UNCHANGED chk
CancelTask(t) == EndTask(t, CancellableFrom, "CANCELLED", "api") /\ UNCHANGED chk

\* POST /api/stop, /api/delete: recycle the session, leave the task alone
StopSession(t) ==
  /\ session[t] # "none"
  /\ BeginRecycle(t, "operator")
  /\ UNCHANGED <<taskVars, tokenVars, timeVars, box, owed, sch, chk>>

\* backend.stop and backend.remove return.  recycle only talks to the hub's own
\* docker/utm; the operator's stop asks the runner of a remote session first and
\* falls back to that.
RecycleBackend(f) ==
  /\ f \in fin /\ f.at = "stop"
  /\ LET t == f.task
         gone == {{"local"}} \cup IF f.by = "operator" /\ t \in remote
                                  THEN {{"runner"}} ELSE {}
     IN \E g \in gone : box' = [box EXCEPT ![t] = @ \ g]
  /\ fin' = (fin \ {f}) \cup {[f EXCEPT !.at = "pop"]}
  /\ UNCHANGED <<taskVars, tokenVars, timeVars, session, owed, sch, chk>>

\* _sessions.pop(name): by name, whatever context is there by now
RecyclePop(f) ==
  /\ f \in fin /\ f.at = "pop"
  /\ session' = [session EXCEPT ![f.task] = "none"]
  /\ fin' = (fin \ {f}) \cup {[f EXCEPT !.at = "revoke"]}
  /\ UNCHANGED <<taskVars, tokenVars, timeVars, box, owed, sch, chk>>

\* the awaits of recycle are over: _finalize_task revokes the token the task
\* names now, and a health check that was waiting goes on with its pass
RecycleDone(f) ==
  /\ f \in fin /\ f.at = "revoke"
  /\ IF f.by = "operator" THEN UNCHANGED tokenVars
                          ELSE RevokeAndSet(f.task, token[f.task], token[f.task])
  /\ fin' = fin \ {f}
  /\ chk' = IF f.by = "check" THEN [IdleChecker EXCEPT !.pc = "scan", !.todo = chk.todo]
                              ELSE chk
  /\ UNCHANGED <<taskVars, timeVars, worldVars, sch>>

-----------------------------------------------------------------------------
(* Suspension: suspend_task and resume_task *)

\* the kids of a join are tasks the suspended one spawned, so later ids; a name
\* that is not in router._tasks is one still "absent"
SuspendTask(t, kind, kids) ==
  /\ kind \in SuspendKinds /\ status[t] \in {"PENDING", "RUNNING"}
  /\ kids \subseteq {c \in Task : c > t} /\ (kind = "join") = (kids # {})
  /\ status' = [status EXCEPT ![t] = IF kind = "human" THEN "NEEDS_ACTION" ELSE "BLOCKED"]
  /\ wait' = [wait EXCEPT ![t] = [kind |-> kind, kids |-> kids, asleep |-> kind = "schedule"]]
  /\ UNCHANGED <<attempts, named, remote, tokenVars, timeVars, worldVars, sch, chk, fin>>

\* a2a message/send with the taskId of a task that awaits input
ResumeTask(t) ==
  /\ status[t] = "NEEDS_ACTION"
  /\ status' = [status EXCEPT ![t] = "PENDING"]
  /\ wait' = [wait EXCEPT ![t] = NoWait]
  /\ UNCHANGED <<attempts, named, remote, tokenVars, timeVars, worldVars, sch, chk, fin>>

-----------------------------------------------------------------------------
(* The scheduler loop *)

\* _wake_resumable on one task: which waits are over, and how.  Kids come later
\* in the walk than t, so it reads the statuses from before the walk.
KidStatus(t) == {status[c] : c \in wait[t].kids}
Doomed_IgnoresFailure(t) ==    \* mutant: a failed kid does not end the wait
  status[t] \in Suspended /\ wait[t].kind = "join" /\ "absent" \in KidStatus(t)
Doomed(t) ==
  status[t] \in Suspended /\ wait[t].kind = "join" /\ KidStatus(t) \cap {"absent", "FAILED"} # {}
Resumable(t) ==
  /\ status[t] \in Suspended
  /\ \/ wait[t].kind = "schedule" /\ ~wait[t].asleep
     \/ wait[t].kind = "join" /\ KidStatus(t) \subseteq {"COMPLETED"}
Woken(t) == IF Doomed(t) THEN "FAILED" ELSE IF Resumable(t) THEN "PENDING" ELSE status[t]

\* then the deadline walk over PENDING tasks
AfterTick(t) == IF Woken(t) = "PENDING" /\ t \in late THEN "FAILED" ELSE Woken(t)

Ready_FirstAttempt(t) ==    \* mutant: next_attempt_at is never compared with the clock
  status[t] = "PENDING" /\ attempts[t] = 0 /\ t \notin late /\ issued[t] < MaxTokens

\* _select_next: what may be dispatched, and what goes before what
Ready(t) ==
  /\ status[t] = "PENDING" /\ t \notin cooling /\ t \notin late
  /\ issued[t] < MaxTokens    \* a bound, not code
Before(u, t) ==
  \/ Priority[u] > Priority[t]
  \/ /\ Priority[u] = Priority[t]
     /\ \/ attempts[u] = 0 /\ attempts[t] # 0       \* next_attempt_at or 0
        \/ attempts[u] = 0 /\ attempts[t] = 0 /\ u < t
Selected(t) == Ready(t) /\ \A u \in Task : Ready(u) => ~Before(u, t)

\* a turn of the loop up to the dispatch while: a turn that finds nothing to do
\* changes nothing, and is left out
SchedulerTick ==
  /\ sch.pc = "idle"
  /\ \E t \in Task : Ready(t) \/ AfterTick(t) # status[t]
  /\ status' = [t \in Task |-> AfterTick(t)]
  /\ wait' = [t \in Task |-> IF Resumable(t) THEN NoWait ELSE wait[t]]
  /\ sch' = SelectingScheduler
  /\ UNCHANGED <<attempts, named, remote, tokenVars, timeVars, worldVars, chk, fin>>

SchedulerSleep ==
  /\ sch.pc = "select" /\ \A t \in Task : ~Ready(t)
  /\ sch' = IdleScheduler
  /\ UNCHANGED <<taskVars, tokenVars, timeVars, worldVars, chk, fin>>

\* runner_name decides where the task runs; without one select_runner may find
\* a runner, and its choice sticks
Placements(t) == IF t \in remote THEN {TRUE} ELSE IF t \in Remotable THEN BOOLEAN ELSE {FALSE}
PlaceRemote(t, r) == remote' = IF r THEN remote \cup {t} ELSE remote

\* _dispatch_pending up to the first await of run_pipeline
BeginDispatch(t) ==
  /\ sch.pc = "select" /\ Selected(t)
  /\ t \notin LoopParents    \* "loop:<name>" is no agent definition
  /\ IssueToken(t)
  /\ named' = named \cup {t}
  /\ status' = [status EXCEPT ![t] = "RUNNING"]
  /\ \E r \in Placements(t) :
       /\ PlaceRemote(t, r)
       /\ sch' = [pc |-> IF r THEN "remote" ELSE "provision", task |-> t, tok |-> issued[t] + 1]
  /\ UNCHANGED <<attempts, wait, timeVars, worldVars, chk, fin>>

\* the agent was deleted between submission and dispatch
DispatchWithoutAgent(t) ==
  /\ sch.pc = "select" /\ Selected(t)
  /\ status' = [status EXCEPT ![t] = "FAILED"]
  /\ UNCHANGED <<attempts, named, remote, wait, tokenVars, timeVars, worldVars, sch, chk, fin>>

Retryable(t, transient) == transient /\ attempts[t] + 1 < MaxAttempts

\* the except branch of _dispatch_pending: it does not look at task.status
FailDispatch(t, transient) ==
  /\ attempts' = [attempts EXCEPT ![t] = @ + 1]
  /\ status' = [status EXCEPT ![t] = IF Retryable(t, transient) THEN "PENDING" ELSE "FAILED"]
  /\ cooling' = IF Retryable(t, transient) THEN cooling \cup {t} ELSE cooling
  /\ sch' = SelectingScheduler

\* _provision_via_runner refuses before it awaits anything: the runner is
\* saturated (transient), unknown or lacks the capability
DispatchRefused(t) ==
  /\ sch.pc = "select" /\ Selected(t) /\ t \notin LoopParents
  /\ TRUE \in Placements(t)
  /\ issued' = [issued EXCEPT ![t] = @ + 1]
  /\ token' = [token EXCEPT ![t] = 0]
  /\ named' = named \cup {t} /\ PlaceRemote(t, TRUE)
  /\ \E transient \in BOOLEAN : FailDispatch(t, transient)
  /\ UNCHANGED <<valid, wait, late, worldVars, chk, fin>>

-----------------------------------------------------------------------------
(* run_pipeline in the hub's own process, awaited by the scheduler or by the *)
(* restart of a persistent agent                                             *)

\* backend.provision replaces the container of that name; then _sessions[name] = ctx
Provisioned(t) ==
  /\ box' = [box EXCEPT ![t] = @ \cup {"local"}]
  /\ session' = [session EXCEPT ![t] = "live"]
  /\ UNCHANGED owed

\* provision may already have removed the old container when it raises; an
\* error of configure or start leaves container and session where they are
PipelineRaised(t, pc) ==
  /\ box' \in {box} \cup IF pc = "provision" THEN {[box EXCEPT ![t] = @ \ {"local"}]} ELSE {}
  /\ UNCHANGED <<session, owed>>

DispatchProvisioned ==
  /\ sch.pc = "provision"
  /\ Provisioned(sch.task)
  /\ sch' = [pc |-> "configure", task |-> sch.task, tok |-> sch.tok]
  /\ UNCHANGED <<taskVars, tokenVars, timeVars, chk, fin>>

\* configure and start need the container
DispatchStarted ==
  /\ sch.pc = "configure" /\ "local" \in box[sch.task]
  /\ sch' = SelectingScheduler
  /\ UNCHANGED <<taskVars, tokenVars, timeVars, worldVars, chk, fin>>

DispatchRaised ==
  /\ sch.pc \in {"provision", "configure"}
  /\ \E transient \in BOOLEAN :
       (transient => sch.task \in Utm) /\ FailDispatch(sch.task, transient)
  /\ RevokeAndSet(sch.task, sch.tok, 0)
  /\ PipelineRaised(sch.task, sch.pc)
  /\ UNCHANGED <<named, remote, wait, late, chk, fin>>

\* the runner built the session
RemoteStarted ==
  /\ sch.pc = "remote"
  /\ box' = [box EXCEPT ![sch.task] = @ \cup {"runner"}]
  /\ session' = [session EXCEPT ![sch.task] = "live"]
  /\ sch' = SelectingScheduler
  /\ UNCHANGED <<taskVars, tokenVars, timeVars, owed, chk, fin>>

\* the runner reported an error, or 300 s passed while it still works on the
\* item; both surface as RuntimeError, which is not retried
RemoteRaised ==
  /\ sch.pc = "remote"
  /\ FailDispatch(sch.task, FALSE)
  /\ RevokeAndSet(sch.task, sch.tok, 0)
  /\ owed' \in {owed, owed \cup {sch.task}}
  /\ UNCHANGED <<named, remote, wait, late, session, box, chk, fin>>

\* the runner delivers after the hub gave up: register_runner_session unless the
\* name is taken
LateResult(t) ==
  /\ t \in owed
  /\ owed' = owed \ {t}
  /\ box' = [box EXCEPT ![t] = @ \cup {"runner"}]
  /\ session' = [session EXCEPT ![t] = IF @ = "none" THEN "live" ELSE @]
  /\ UNCHANGED <<taskVars, tokenVars, timeVars, sch, chk, fin>>

-----------------------------------------------------------------------------
(* The periodic health check: check_running_tasks *)

\* what the walk acts on; a task on a runner is skipped, and get_session only
\* looks in _sessions.  (The RECYCLED branch is dead code: recycle pops the
\* session in the step that sets that state.)
Watched(t) == status[t] = "RUNNING" /\ t \notin remote
Unhealthy(t) == Watched(t) /\ (session[t] = "none" \/ t \in late)

\* the rest of the pass: a new one walks list(_tasks.values())
Scope == IF chk.pc = "idle" THEN Submitted ELSE chk.todo
Checked(t) ==
  /\ chk.pc \in {"idle", "scan"} /\ t \in Scope /\ Unhealthy(t)
  /\ \A u \in Scope : u < t => ~Unhealthy(u)
Rest(t) == {u \in Scope : u > t}

\* fail_task / cancel_task awaited by the pass; it goes on at once when
\* _finalize_task had nothing to await
CheckEnds(t, to) ==
  /\ EndTask(t, {"RUNNING"}, to, "check")
  /\ chk' = [IdleChecker EXCEPT !.pc = IF t \in named THEN "finalize" ELSE "scan",
                                !.task = IF t \in named THEN t ELSE 0, !.todo = Rest(t)]

CheckFails(t) == Checked(t) /\ session[t] = "none" /\ CheckEnds(t, "FAILED")
CheckCancels(t) == Checked(t) /\ session[t] # "none" /\ t \in late /\ CheckEnds(t, "CANCELLED")

\* _restart_persistent_task up to the first await of run_pipeline
CheckRestarts(t) ==
  /\ Checked(t) /\ session[t] = "none" /\ t \in Persistent
  /\ IssueToken(t)
  /\ chk' = [pc |-> "provision", task |-> t, todo |-> Rest(t),
             tok |-> issued[t] + 1, old |-> token[t]]
  /\ UNCHANGED <<taskVars, timeVars, worldVars, sch, fin>>

RestartProvisioned ==
  /\ chk.pc = "provision"
  /\ Provisioned(chk.task)
  /\ chk' = [chk EXCEPT !.pc = "configure"]
  /\ UNCHANGED <<taskVars, tokenVars, timeVars, sch, fin>>

RestartDone ==
  /\ chk.pc = "configure" /\ "local" \in box[chk.task]
  /\ valid' = [valid EXCEPT ![chk.task] = @ \ {chk.old}]
  /\ chk' = [IdleChecker EXCEPT !.pc = "scan", !.todo = chk.todo]
  /\ UNCHANGED <<taskVars, token, issued, timeVars, worldVars, sch, fin>>

\* run_pipeline raised: the new token is revoked, the old one is put back and
\* fail_task is called.  If the task was ended meanwhile, fail_task raises a
\* ValueError, nothing catches it, and _periodic_check is over for good.
RestartRaised ==
  /\ chk.pc \in {"provision", "configure"}
  /\ LET t == chk.task
     IN  /\ RevokeAndSet(t, chk.tok, chk.old)
         /\ PipelineRaised(t, chk.pc)
         /\ \/ /\ status[t] \in FailableFrom
               /\ status' = [status EXCEPT ![t] = "FAILED"]
               /\ BeginRecycle(t, "check")
               /\ chk' = [chk EXCEPT !.pc = "finalize", !.tok = 0, !.old = 0]
            \/ /\ status[t] \notin FailableFrom
               /\ chk' = [IdleChecker EXCEPT !.pc = "dead"]
               /\ UNCHANGED <<status, session, fin>>
  /\ UNCHANGED <<attempts, named, remote, wait, timeVars, owed, sch>>

\* the rest of the pass needs nothing
CheckPassEnds ==
  /\ chk.pc = "scan" /\ \A t \in chk.todo : ~Unhealthy(t)
  /\ chk' = IdleChecker
  /\ UNCHANGED <<taskVars, tokenVars, timeVars, worldVars, sch, fin>>

-----------------------------------------------------------------------------
(* Time and the world *)

BackoffElapses(t) ==
  /\ t \in cooling /\ cooling' = cooling \ {t}
  /\ UNCHANGED <<taskVars, tokenVars, late, worldVars, sch, chk, fin>>

ResumeTimeComes(t) ==
  /\ wait[t].asleep /\ wait' = [wait EXCEPT ![t].asleep = FALSE]
  /\ UNCHANGED <<status, attempts, named, remote, tokenVars, timeVars, worldVars, sch, chk, fin>>

DeadlinePasses(t) ==
  /\ t \in Deadlined \ late /\ status[t] # "absent"
  /\ late' = late \cup {t}
  /\ UNCHANGED <<taskVars, tokenVars, cooling, worldVars, sch, chk, fin>>

\* a container is removed behind the hub's back; only the monitor notices, and
\* it just counts health_failures and stops looking
ContainerDies(t) ==
  /\ "local" \in box[t] /\ box' = [box EXCEPT ![t] = @ \ {"local"}]
  /\ UNCHANGED <<taskVars, tokenVars, timeVars, session, owed, sch, chk, fin>>

-----------------------------------------------------------------------------
SchedulerNext ==
  \/ SchedulerTick \/ SchedulerSleep
  \/ \E t \in Task : BeginDispatch(t) \/ DispatchWithoutAgent(t) \/ DispatchRefused(t)
  \/ DispatchProvisioned \/ DispatchStarted \/ DispatchRaised
  \/ RemoteStarted \/ RemoteRaised

CheckNext ==
  \/ \E t \in Task : CheckFails(t) \/ CheckCancels(t) \/ CheckRestarts(t)
  \/ RestartProvisioned \/ RestartDone \/ RestartRaised \/ CheckPassEnds

RecycleNext(f) == RecycleBackend(f) \/ RecyclePop(f) \/ RecycleDone(f)

ClientNext ==
  \E t \in Task :
    \/ SubmitTask(t) \/ StartLoopParent(t) \/ EndLoopParent(t)
    \/ CompleteTask(t) \/ FailTask(t) \/ CancelTask(t) \/ StopSession(t)
    \/ \E kind \in SuspendKinds, kids \in SUBSET Task : SuspendTask(t, kind, kids)
    \/ ResumeTask(t)

WorldNext ==
  \E t \in Task :
    \/ LateResult(t) \/ BackoffElapses(t) \/ ResumeTimeComes(t)
    \/ DeadlinePasses(t) \/ ContainerDies(t)

Next == SchedulerNext \/ CheckNext \/ (\E f \in fin : RecycleNext(f)) \/ ClientNext \/ WorldNext

Spec == Init /\ [][Next]_vars

(* The two loops run on timers (5 s, health_check_interval), every await of *)
(* a pipeline or of recycle ends, and time passes.  Nothing obliges clients,*)
(* agents or runners to act.                                                *)
Fairness ==
  /\ WF_vars(SchedulerNext) /\ WF_vars(CheckNext)
  /\ \A f \in Finalizer : WF_vars(RecycleNext(f))
  /\ \A t \in Task : WF_vars(BackoffElapses(t)) /\ WF_vars(ResumeTimeComes(t))

FairSpec == Spec /\ Fairness

-----------------------------------------------------------------------------
(* Properties *)

(* A credential a task no longer needs is gone: a valid token belongs to a  *)
(* task that is RUNNING, or whose finalisation is still on its way to       *)
(* revoke_token.  Retries, cancellations in the middle of a dispatch and    *)
(* finalisers that overtake a retry must not leave one behind.  (Transient  *)
(* agents: the restart of a persistent one breaks it.)                      *)
NoIdleCredential ==
  \A t \in Task \ Persistent : valid[t] # {} => status[t] = "RUNNING" \/ Finalizing(t)

(* _finalize_task revokes the one token the record names; so no other token *)
(* of a transient task may be valid, whatever attempts and callers did.     *)
OneCredential ==
  \A t \in Task \ Persistent : valid[t] \subseteq {token[t]}

(* A task never costs more failed dispatches than max_attempts (or one),    *)
(* even when it is cancelled, failed and revived while a dispatch is open.  *)
RetryBudget == \A t \in Task : attempts[t] <= 1 \/ attempts[t] <= MaxAttempts

(* A terminal status is final unless the dispatch of that very task is      *)
(* still open: no client, health check or timer revives a finished task.    *)
(* (Loop parents are left out: _terminate asks nobody.)                     *)
TerminalIsFinalOnceSettled ==
  [][\A t \in Task \ LoopParents :
       status[t] \in Terminal /\ ~Dispatching(t) => status'[t] = status[t]]_vars

(* The hub implements the lifecycle it promises. *)
Lifecycle == INSTANCE TaskLifecycle WITH st <- status, open <- Open, Overruled <- LoopParents
ImplementsLifecycle == Lifecycle!LifecycleSpec

(* A queued task does not wait for ever, whatever is dispatched before it   *)
(* (a task that has used up the bound on tokens is left out).               *)
QueuedTaskMoves ==
  \A t \in Task :
    (status[t] = "PENDING" /\ issued[t] < MaxTokens) ~> status[t] # "PENDING"

(* "check_running_tasks() detects missing/recycled containers": an          *)
(* in-process RUNNING task whose session is gone is restarted or failed.    *)
LostSessionNoticed ==
  \A t \in Task : (Watched(t) /\ session[t] = "none") ~> ~(Watched(t) /\ session[t] = "none")

JoinWaits(t) == status[t] = "BLOCKED" /\ wait[t].kind = "join"
JoinDecided(t) ==
  \/ \A c \in wait[t].kids : status[c] = "COMPLETED"
  \/ \E c \in wait[t].kids : status[c] = "FAILED"

(* A join parent is resumed when the tasks it waits for have completed, and *)
(* failed when one of them has failed: the scheduler does not forget it.    *)
JoinAnswered ==
  \A t \in Task : (JoinWaits(t) /\ JoinDecided(t)) ~> ~(JoinWaits(t) /\ JoinDecided(t))
(* Nothing waits that could move: neither a queued task, nor a running one  *)
(* whose session is gone, nor a parent whose children are over.             *)
TasksMoveOn == QueuedTaskMoves /\ LostSessionNoticed /\ JoinAnswered
-----------------------------------------------------------------------------
(* Priorities for TLC: none, and the later task first.                      *)
EqualPriority == [t \in Task |-> 0]
MixedPriority == [t \in Task |-> t]
=============================================================================
