---------------------------- MODULE LoopRunner ----------------------------
(***************************************************************************)
(* One loop of loop_runner.py: a parent task that stands for the loop, an  *)
(* iteration child at a time, and a judge that decides after each whether  *)
(* to stop, to escalate or to go on.                                       *)
(*                                                                         *)
(* The router emits an event when a child has ended; the listener starts a *)
(* coroutine, a "bridge".  advance_loop awaits the judge twice (sessions   *)
(* of their own, up to minutes each) and the database once, and does not   *)
(* look at the instance's status again afterwards.  cancel_loop awaits the *)
(* cancellation of the child.  The router's side of a child is what        *)
(* TaskLifecycle allows one task (see TaskHub), plus the event.            *)
(*                                                                         *)
(* The template has prose for both judges; without it the two awaits do    *)
(* not suspend and there is less to interleave.                            *)
(***************************************************************************)
EXTENDS Naturals, FiniteSets

CONSTANT MaxIterations    \* loop.max_iterations

ASSUME LoopAssumption == MaxIterations \in Nat \ {0}

Child == 1..(MaxIterations + 1)    \* children by iteration, one more than allowed

VARIABLES
  loop,        \* inst.status
  iteration,   \* inst.iteration
  current,     \* inst.current_child_id; 0 is None
  listed,      \* the keys of _child_to_loop
  parent,      \* router._tasks[inst.parent_task_id].status
  child,       \* router._tasks[c].status
  open,        \* children whose dispatch the scheduler still awaits
  ending,      \* children in complete_task or fail_task, event still to come
  bridge,      \* _pending_bridges: coroutines the listener has started
  cancelling,  \* a cancel_loop call awaits cancel_task
  died         \* children whose bridge raised and was only logged

instVars == <<loop, iteration, current, listed, parent>>
childVars == <<child, open, ending>>
vars == <<instVars, childVars, bridge, cancelling, died>>

Ended == {"CONVERGED", "MAX_ITER", "STOPPED_BY_CONDITION", "FAILED", "CANCELLED"}
ChildStatus == {"absent", "PENDING", "RUNNING", "COMPLETED", "FAILED", "CANCELLED"}
Submitted == {c \in Child : child[c] # "absent"}
Active == {c \in Child : child[c] \in {"PENDING", "RUNNING"}}

Bridge ==
  [child : Child, does : {"fail"}, at : {"start"}, iter : {0}] \cup
  [child : Child, does : {"advance"}, at : {"start", "stop", "escalate", "record"},
   iter : 0..(MaxIterations + 1)]

TypeOK ==
  /\ loop \in {"none", "RUNNING"} \cup Ended
  /\ iteration \in 0..(MaxIterations + 1)
  /\ current \in {0} \cup Child
  /\ listed \subseteq Child
  /\ parent \in {"absent", "RUNNING", "COMPLETED", "FAILED", "CANCELLED"}
  /\ child \in [Child -> ChildStatus]
  /\ open \subseteq Child
  /\ ending \subseteq [child : Child, event : {"completed", "failed"}]
  /\ bridge \subseteq Bridge
  /\ cancelling \in BOOLEAN
  /\ died \subseteq Child

Init ==
  /\ loop = "none" /\ iteration = 0 /\ current = 0 /\ listed = {}
  /\ parent = "absent"
  /\ child = [c \in Child |-> "absent"]
  /\ open = {} /\ ending = {} /\ bridge = {} /\ cancelling = FALSE /\ died = {}

-----------------------------------------------------------------------------
(* Pieces of loop_runner.py *)

EnqueueIteration_Unlisted(n, others) ==    \* mutant: the child is not put into the map
  /\ child' = [child EXCEPT ![n] = "PENDING"]
  /\ listed' = others
  /\ iteration' = n
  /\ current' = n

\* _enqueue_iteration and what follows it: submit_task does not suspend.  The
\* children stay listed, old ones are popped by the caller.
EnqueueIteration(n, others) ==
  /\ child' = [child EXCEPT ![n] = "PENDING"]
  /\ listed' = others \cup {n}
  /\ iteration' = n
  /\ current' = n

\* the status _terminate writes into the parent task, whatever it is by then
ParentOf ==
  [CONVERGED |-> "COMPLETED", MAX_ITER |-> "FAILED", STOPPED_BY_CONDITION |-> "FAILED",
   FAILED |-> "FAILED", CANCELLED |-> "CANCELLED"]

ParentEnds_IfRunning(to) == IF parent = "RUNNING" THEN ParentOf[to] ELSE parent    \* mutant
ParentEnds(to) == ParentOf[to]

Terminate(to) ==
  /\ loop' = to
  /\ parent' = ParentEnds(to)
  /\ listed' = listed \ {current}
  /\ current' = 0
  /\ UNCHANGED iteration

NewBridge(c, does) == [child |-> c, does |-> does, at |-> "start", iter |-> 0]

\* _on_router_event for a child's event: only a listed child starts a bridge
Emit(c, does) == bridge' = bridge \cup {NewBridge(k, does) : k \in {c} \cap listed}

-----------------------------------------------------------------------------
(* Start and cancellation *)

StartLoop ==
  /\ loop = "none"
  /\ loop' = "RUNNING" /\ parent' = "RUNNING"
  /\ EnqueueIteration(1, {})
  /\ UNCHANGED <<open, ending, bridge, cancelling, died>>

Cancellable_Always == loop # "none"    \* mutant: no look at inst.status
Cancellable == loop = "RUNNING"

\* cancel_loop: a RUNNING child has a session whose recycling is awaited; any
\* other child is over, or cancelled without an await
CancelLoop ==
  /\ Cancellable
  /\ IF current \in Active
       THEN child' = [child EXCEPT ![current] = "CANCELLED"]
       ELSE UNCHANGED child
  /\ IF current # 0 /\ child[current] = "RUNNING"
       THEN cancelling' = TRUE /\ UNCHANGED instVars
       ELSE Terminate("CANCELLED") /\ UNCHANGED cancelling
  /\ UNCHANGED <<open, ending, bridge, died>>

CancelResumes ==
  /\ cancelling /\ cancelling' = FALSE
  /\ Terminate("CANCELLED")
  /\ UNCHANGED <<childVars, bridge, died>>

-----------------------------------------------------------------------------
(* The bridges *)

Becomes(b, at, n) == bridge' = (bridge \ {b}) \cup {[b EXCEPT !.at = at, !.iter = n]}
Ends(b) == bridge' = bridge \ {b}

\* advance_loop up to evaluate_stop's judge session; a loop that is over makes
\* it raise, which is only logged
AdvanceStarts(b) ==
  /\ b.does = "advance" /\ b.at = "start"
  /\ \/ loop = "RUNNING" /\ Becomes(b, "stop", iteration) /\ UNCHANGED died
     \/ loop # "RUNNING" /\ Ends(b) /\ died' = died \cup {b.child}
  /\ UNCHANGED <<instVars, childVars, cancelling>>

AtCap(n) == n >= MaxIterations

\* the stop judge answers, or fails (which is no verdict); the hard cap of
\* evaluate_escalation is checked without another await
StopJudged(b) ==
  /\ b.at = "stop"
  /\ \/ Terminate("CONVERGED") /\ Ends(b)
     \/ AtCap(b.iter) /\ Terminate("MAX_ITER") /\ Ends(b)
     \/ ~AtCap(b.iter) /\ Becomes(b, "escalate", b.iter) /\ UNCHANGED instVars
  /\ UNCHANGED <<childVars, cancelling, died>>

\* the escalation judge answers; the status depends on the wording of its reason
EscalationJudged(b) ==
  /\ b.at = "escalate"
  /\ \/ \E to \in {"STOPPED_BY_CONDITION", "MAX_ITER"} : Terminate(to) /\ Ends(b)
     \/ Becomes(b, "record", b.iter) /\ UNCHANGED instVars
  /\ UNCHANGED <<childVars, cancelling, died>>

\* after _persist_iteration: iteration N+1
NextIteration(b) ==
  /\ b.at = "record"
  /\ EnqueueIteration(b.iter + 1, listed \ {current})
  /\ Ends(b)
  /\ UNCHANGED <<loop, parent, open, ending, cancelling, died>>

\* an exception that is not a JudgeError, or an agent that was deleted: the
\* bridge's done callback logs a warning
AdvanceRaises(b) ==
  /\ b.at \in {"stop", "escalate", "record"}
  /\ Ends(b) /\ died' = died \cup {b.child}
  /\ listed' = IF b.at = "record" THEN listed \ {current} ELSE listed
  /\ UNCHANGED <<loop, iteration, current, parent, childVars, cancelling>>

\* on_iteration_failed does not await before it has terminated the loop
IterationFailed(b) ==
  /\ b.does = "fail"
  /\ Ends(b)
  /\ IF b.child \in listed /\ loop = "RUNNING" THEN Terminate("FAILED") ELSE UNCHANGED instVars
  /\ UNCHANGED <<childVars, cancelling, died>>

-----------------------------------------------------------------------------
(* The router's side: what becomes of a child, and of the parent task *)

ChildDispatched(c) ==
  /\ child[c] = "PENDING"
  /\ child' = [child EXCEPT ![c] = "RUNNING"] /\ open' = open \cup {c}
  /\ UNCHANGED <<instVars, ending, bridge, cancelling, died>>

\* refused before the dispatch, or failed while queued: the event comes at once
ChildRefused(c) ==
  /\ child[c] = "PENDING"
  /\ child' = [child EXCEPT ![c] = "FAILED"] /\ Emit(c, "fail")
  /\ UNCHANGED <<instVars, open, ending, cancelling, died>>

\* max_attempts is 1, so a dispatch that raises fails the task, whatever its status
DispatchEnds(c) ==
  /\ c \in open /\ open' = open \ {c}
  /\ \/ UNCHANGED <<child, bridge>>
     \/ child' = [child EXCEPT ![c] = "FAILED"] /\ Emit(c, "fail")
  /\ UNCHANGED <<instVars, ending, cancelling, died>>

\* complete_task, fail_task: the event comes when the session is recycled
ChildEnds(c, to, event) ==
  /\ child[c] = "RUNNING"
  /\ child' = [child EXCEPT ![c] = to]
  /\ ending' = ending \cup {[child |-> c, event |-> event]}
  /\ UNCHANGED <<instVars, open, bridge, cancelling, died>>

Bridged(event) == IF event = "completed" THEN "advance" ELSE "fail"

EventEmitted(e) ==
  /\ ending' = ending \ {e}
  /\ Emit(e.child, Bridged(e.event))
  /\ UNCHANGED <<instVars, child, open, cancelling, died>>

\* cancel_task of a child by someone else: its event starts no bridge
ChildCancelled(c) ==
  /\ c \in Active
  /\ child' = [child EXCEPT ![c] = "CANCELLED"]
  /\ UNCHANGED <<instVars, open, ending, bridge, cancelling, died>>

\* the health check or a client ends the parent task through the router
ParentEnded ==
  /\ parent = "RUNNING" /\ parent' \in {"COMPLETED", "FAILED", "CANCELLED"}
  /\ UNCHANGED <<loop, iteration, current, listed, childVars, bridge, cancelling, died>>

-----------------------------------------------------------------------------
BridgeNext(b) ==
  \/ AdvanceStarts(b) \/ StopJudged(b) \/ EscalationJudged(b) \/ NextIteration(b)
  \/ AdvanceRaises(b) \/ IterationFailed(b)

ChildNext(c) ==
  \/ ChildDispatched(c) \/ ChildRefused(c) \/ DispatchEnds(c)
  \/ ChildEnds(c, "COMPLETED", "completed") \/ ChildEnds(c, "FAILED", "failed")
  \/ ChildCancelled(c)

Next ==
  \/ StartLoop \/ CancelLoop \/ CancelResumes
  \/ \E b \in bridge : BridgeNext(b)
  \/ \E c \in Child : ChildNext(c)
  \/ \E e \in ending : EventEmitted(e)
  \/ ParentEnded

Spec == Init /\ [][Next]_vars

(* asyncio runs what it has started; a judge session ends, by its own timeout *)
(* at the latest, and so does the recycling of a session.                     *)
Fairness ==
  /\ \A b \in Bridge : WF_vars(b \in bridge /\ BridgeNext(b))
  /\ \A e \in [child : Child, event : {"completed", "failed"}] :
       WF_vars(e \in ending /\ EventEmitted(e))
  /\ WF_vars(CancelResumes)

FairSpec == Spec /\ Fairness

-----------------------------------------------------------------------------
(* Properties *)

(* max_iterations is a hard cap: no interleaving of judges, failures and    *)
(* cancellations starts one iteration more.                                 *)
IterationCap == Cardinality(Submitted) <= MaxIterations

(* At most one iteration is queued or running, also when a cancelled loop   *)
(* still starts its next one.                                               *)
OneActiveIteration == Cardinality(Active) <= 1

(* The Tasks panel shows the loop as what it is: once the loop is over, the *)
(* parent task has the status that goes with the loop's, however often it   *)
(* is ended, by whom, and whatever became of the parent before.             *)
ParentMatchesLoop == loop \in Ended => parent = ParentOf[loop]

(* A loop whose end nothing in flight can still overwrite stays as it is,   *)
(* and starts no further iteration.                                         *)
SettledLoopIsOver ==
  [][(loop \in Ended /\ bridge = {} /\ ~cancelling)
       => UNCHANGED <<loop, parent, Submitted>>]_vars

(* The end of an iteration is acted upon: a loop does not stay RUNNING with *)
(* a current child that has completed or failed, unless its bridge raised.  *)
IterationAnswered ==
  \A c \in Child :
    (loop = "RUNNING" /\ current = c /\ child[c] \in {"COMPLETED", "FAILED"})
    ~> (loop # "RUNNING" \/ current # c \/ c \in died)

(* Whoever waits for a loop that runs waits for something: its iteration is *)
(* under way or its end is being told, to a listener that knows the child;  *)
(* or a bridge has it; or a cancellation ends the loop. Two ends leave the  *)
(* loop RUNNING with nobody at it: a bridge that raised, and a child that   *)
(* was cancelled on its own.                                                *)
LoopIsAttended ==
  loop = "RUNNING" =>
    \/ current \in listed /\ (current \in Active \/ \E e \in ending : e.child = current)
    \/ \E b \in bridge : b.child = current
    \/ cancelling
    \/ current \in died \/ child[current] = "CANCELLED"

(* The loop is one thing to whoever looks at it: one iteration at a time,   *)
(* attended as long as it runs, under a parent that tells the loop's own    *)
(* end.                                                                     *)
LoopIsWhole == OneActiveIteration /\ LoopIsAttended /\ ParentMatchesLoop
=============================================================================
