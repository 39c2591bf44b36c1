---------------------------- MODULE ControlProofs ---------------------------
(***************************************************************************)
(* Theorems about the loops, the agent definitions, the addresses of       *)
(* docker sessions, the verdict on a loop, and the bearers of tokens and   *)
(* tickets: each holds for any values of its constants. Each part has its  *)
(* own inductive invariant; they share no state.                           *)
(***************************************************************************)
EXTENDS LoopRunner, AgentCatalog, SessionPorts, EventMatch, LoopVerdict, Bearers, FiniteSetTheorems, TLAPS

-----------------------------------------------------------------------------
(***************************************************************************)
(* Loops                                                                   *)
(***************************************************************************)

(* The inductive invariant *)

\* A bridge that has asked the escalation judge has seen an iteration below the
\* cap, so the child it may still enqueue is one of the first MaxIterations.
BelowCap ==
  /\ \A b \in bridge : b.at \in {"escalate", "record"} => b.iter < MaxIterations
  /\ Submitted \subseteq 1..MaxIterations

\* the children and what the router and the bridges hold
ChildrenTyped ==
  /\ child \in [Child -> ChildStatus]
  /\ open \subseteq Submitted
  /\ ending \subseteq [child : Child, event : {"completed", "failed"}]
  /\ bridge \subseteq Bridge
  /\ died \subseteq Child

\* the loop instance
InstanceTyped ==
  /\ loop \in {"none", "RUNNING"} \cup Ended
  /\ iteration \in 0..(MaxIterations + 1)
  /\ current \in {0} \cup Child
  /\ listed \subseteq Child
  /\ parent \in {"absent", "RUNNING", "COMPLETED", "FAILED", "CANCELLED"}

LoopInv ==
  /\ InstanceTyped /\ ChildrenTyped /\ cancelling \in BOOLEAN
  /\ BelowCap
  /\ ParentMatchesLoop

LEMMA InitLoopInv == Init => LoopInv
<1> SUFFICES ASSUME Init PROVE LoopInv
  OBVIOUS
<1>1. InstanceTyped
  BY LoopAssumption DEF Init, InstanceTyped
<1>2. Submitted = {}
  BY DEF Init, Submitted
<1>3. ChildrenTyped /\ BelowCap
  BY <1>2 DEF Init, ChildrenTyped, BelowCap, ChildStatus
<1>4. ParentMatchesLoop
  BY DEF Init, ParentMatchesLoop, Ended
<1>5. QED
  BY <1>1, <1>3, <1>4 DEF Init, LoopInv

LEMMA ParentOfType == \A to \in Ended : ParentOf[to] \in {"COMPLETED", "FAILED", "CANCELLED"}
  BY DEF ParentOf, Ended

LEMMA TerminateKeeps ==
  ASSUME InstanceTyped, NEW to \in Ended, Terminate(to)
  PROVE  InstanceTyped' /\ ParentMatchesLoop'
<1>1. InstanceTyped'
  BY ParentOfType DEF InstanceTyped, Terminate, ParentEnds, Ended
<1>2. ParentMatchesLoop'
  BY DEF ParentMatchesLoop, Terminate, ParentEnds
<1>3. QED
  BY <1>1, <1>2

LEMMA EnqueueKeeps ==
  ASSUME LoopInv, NEW n \in 1..MaxIterations, NEW others \in SUBSET Child,
         EnqueueIteration(n, others)
  PROVE  /\ iteration' \in 0..(MaxIterations + 1)
         /\ current' \in {0} \cup Child
         /\ listed' \subseteq Child
         /\ child' \in [Child -> ChildStatus]
         /\ Submitted' \subseteq 1..MaxIterations
         /\ Submitted \subseteq Submitted'
<1>1. n \in Child /\ n \in 0..(MaxIterations + 1)
  BY LoopAssumption DEF Child
<1>2. child' \in [Child -> ChildStatus]
  BY <1>1 DEF LoopInv, ChildrenTyped, EnqueueIteration, ChildStatus
<1>3. Submitted' \subseteq Submitted \cup {n} /\ Submitted \subseteq Submitted'
  BY DEF LoopInv, ChildrenTyped, EnqueueIteration, Submitted
<1>4. QED
  BY <1>1, <1>2, <1>3 DEF LoopInv, BelowCap, EnqueueIteration

\* a bridge that goes on to another await, or ends
LEMMA BecomesTyped ==
  ASSUME LoopInv, NEW b \in bridge, b.does = "advance",
         NEW at \in {"stop", "escalate", "record"}, NEW n \in 0..(MaxIterations + 1),
         at \in {"escalate", "record"} => n < MaxIterations, Becomes(b, at, n)
  PROVE  /\ bridge' \subseteq Bridge
         /\ \A k \in bridge' : k.at \in {"escalate", "record"} => k.iter < MaxIterations
<1>1. b \in Bridge
  BY DEF LoopInv, ChildrenTyped
<1>2. PICK k : k = [b EXCEPT !.at = at, !.iter = n]
  OBVIOUS
<1>3. k \in Bridge /\ k.at = at /\ k.iter = n
  BY <1>1, <1>2 DEF Bridge
<1>4. bridge' = (bridge \ {b}) \cup {k}
  BY <1>2 DEF Becomes
<1>5. QED
  BY <1>3, <1>4 DEF LoopInv, ChildrenTyped, BelowCap

LEMMA EmitTyped ==
  ASSUME LoopInv, NEW c \in Child, NEW does \in {"advance", "fail"}, Emit(c, does)
  PROVE  /\ bridge' \subseteq Bridge
         /\ \A k \in bridge' : k.at \in {"escalate", "record"} => k.iter < MaxIterations
<1>1. NewBridge(c, does) \in Bridge
  BY LoopAssumption DEF NewBridge, Bridge
<1>2. NewBridge(c, does).at = "start"
  BY DEF NewBridge
<1>3. bridge' \subseteq bridge \cup {NewBridge(c, does)}
  BY DEF Emit
<1>4. QED
  BY <1>1, <1>2, <1>3 DEF LoopInv, ChildrenTyped, BelowCap

-----------------------------------------------------------------------------
(* It is preserved *)

LEMMA OperatorKeeps ==
  ASSUME LoopInv, StartLoop \/ CancelLoop \/ CancelResumes \/ ParentEnded
  PROVE  LoopInv'
<1>1. CASE StartLoop
  <2>1. 1 \in 1..MaxIterations
    BY LoopAssumption
  <2>2. /\ iteration' \in 0..(MaxIterations + 1)
        /\ current' \in {0} \cup Child
        /\ listed' \subseteq Child
        /\ child' \in [Child -> ChildStatus]
        /\ Submitted' \subseteq 1..MaxIterations
        /\ Submitted \subseteq Submitted'
    BY <1>1, <2>1, EnqueueKeeps DEF StartLoop
  <2>3. QED
    BY <1>1, <2>2 DEF StartLoop, LoopInv, InstanceTyped, ChildrenTyped, BelowCap,
                      ParentMatchesLoop, Ended
<1>2. CASE CancelLoop
  <2>1. InstanceTyped' /\ ParentMatchesLoop'
    <3>1. CASE UNCHANGED instVars
      BY <3>1 DEF instVars, LoopInv, InstanceTyped, ParentMatchesLoop
    <3>2. CASE Terminate("CANCELLED")
      BY <3>2, TerminateKeeps DEF LoopInv, Ended
    <3>3. QED
      BY <1>2, <3>1, <3>2 DEF CancelLoop
  <2>2. child' \in [Child -> ChildStatus] /\ Submitted' = Submitted
    BY <1>2 DEF CancelLoop, Active, LoopInv, ChildrenTyped, ChildStatus, Submitted
  <2>3. QED
    BY <1>2, <2>1, <2>2 DEF CancelLoop, LoopInv, ChildrenTyped, BelowCap
<1>3. CASE CancelResumes
  <2>1. InstanceTyped' /\ ParentMatchesLoop'
    BY <1>3, TerminateKeeps DEF CancelResumes, LoopInv, Ended
  <2>2. QED
    BY <1>3, <2>1 DEF CancelResumes, childVars, LoopInv, ChildrenTyped, BelowCap, Submitted
<1>4. CASE ParentEnded
  <2>1. ParentMatchesLoop'
    BY <1>4, ParentOfType DEF ParentEnded, LoopInv, ParentMatchesLoop
  <2>2. QED
    BY <1>4, <2>1 DEF ParentEnded, childVars, LoopInv, InstanceTyped, ChildrenTyped, BelowCap,
                      Submitted
<1>5. QED
  BY <1>1, <1>2, <1>3, <1>4

LEMMA BridgeKeeps ==
  ASSUME LoopInv, NEW b \in bridge, BridgeNext(b)
  PROVE  LoopInv'
<1>1. b \in Bridge
  BY DEF LoopInv, ChildrenTyped
<1>2. b.child \in Child /\ b.iter \in 0..(MaxIterations + 1)
  BY <1>1, LoopAssumption DEF Bridge
<1>3. b.at # "start" => b.does = "advance"
  BY <1>1 DEF Bridge
<1>4. ASSUME Ends(b), UNCHANGED child, died' \subseteq died \cup {b.child},
             UNCHANGED <<open, ending, cancelling>>
      PROVE  ChildrenTyped' /\ BelowCap' /\ cancelling' \in BOOLEAN
  BY <1>2, <1>4 DEF Ends, LoopInv, ChildrenTyped, BelowCap, Submitted
<1>5. ASSUME UNCHANGED instVars
      PROVE  InstanceTyped' /\ ParentMatchesLoop'
  BY <1>5 DEF instVars, LoopInv, InstanceTyped, ParentMatchesLoop
<1>6. ASSUME NEW at \in {"stop", "escalate", "record"}, NEW n \in 0..(MaxIterations + 1),
             b.does = "advance", at \in {"escalate", "record"} => n < MaxIterations,
             Becomes(b, at, n), UNCHANGED <<childVars, cancelling, died>>
      PROVE  ChildrenTyped' /\ BelowCap' /\ cancelling' \in BOOLEAN
  BY <1>6, BecomesTyped DEF childVars, LoopInv, ChildrenTyped, BelowCap, Submitted
<1>7. CASE AdvanceStarts(b)
  <2>1. iteration \in 0..(MaxIterations + 1)
    BY DEF LoopInv, InstanceTyped
  <2>2. ChildrenTyped' /\ BelowCap' /\ cancelling' \in BOOLEAN
    BY <1>4, <1>6, <1>7, <2>1 DEF AdvanceStarts, childVars
  <2>3. QED
    BY <1>5, <1>7, <2>2 DEF AdvanceStarts, LoopInv
<1>8. CASE StopJudged(b)
  <2>1. CASE Ends(b)
    <3>1. InstanceTyped' /\ ParentMatchesLoop'
      BY <1>5, <1>8, TerminateKeeps DEF StopJudged, LoopInv, Ended
    <3>2. QED
      BY <1>4, <1>8, <2>1, <3>1 DEF StopJudged, childVars, LoopInv
  <2>2. CASE ~AtCap(b.iter) /\ Becomes(b, "escalate", b.iter) /\ UNCHANGED instVars
    <3>1. b.iter < MaxIterations
      BY <1>2, <2>2, LoopAssumption DEF AtCap
    <3>2. QED
      BY <1>2, <1>3, <1>5, <1>6, <1>8, <2>2, <3>1 DEF StopJudged, LoopInv
  <2>3. QED
    BY <1>8, <2>1, <2>2 DEF StopJudged
<1>9. CASE EscalationJudged(b)
  <2>1. CASE Ends(b) /\ \E to \in {"STOPPED_BY_CONDITION", "MAX_ITER"} : Terminate(to)
    <3>1. InstanceTyped' /\ ParentMatchesLoop'
      BY <2>1, TerminateKeeps DEF LoopInv, Ended
    <3>2. QED
      BY <1>4, <1>9, <2>1, <3>1 DEF EscalationJudged, childVars, LoopInv
  <2>2. CASE Becomes(b, "record", b.iter) /\ UNCHANGED instVars
    <3>1. b.iter < MaxIterations
      BY <1>9 DEF EscalationJudged, LoopInv, BelowCap
    <3>2. QED
      BY <1>2, <1>3, <1>5, <1>6, <1>9, <2>2, <3>1 DEF EscalationJudged, LoopInv
  <2>3. QED
    BY <1>9, <2>1, <2>2 DEF EscalationJudged
<1>10. CASE NextIteration(b)
  <2>1. b.iter + 1 \in 1..MaxIterations
    BY <1>2, <1>10, LoopAssumption DEF NextIteration, LoopInv, BelowCap
  <2>2. listed \ {current} \in SUBSET Child
    BY DEF LoopInv, InstanceTyped
  <2>3. /\ iteration' \in 0..(MaxIterations + 1)
        /\ current' \in {0} \cup Child
        /\ listed' \subseteq Child
        /\ child' \in [Child -> ChildStatus]
        /\ Submitted' \subseteq 1..MaxIterations
        /\ Submitted \subseteq Submitted'
    BY <1>10, <2>1, <2>2, EnqueueKeeps DEF NextIteration
  <2>4. QED
    BY <1>10, <2>3
       DEF NextIteration, Ends, LoopInv, InstanceTyped, ChildrenTyped, BelowCap, ParentMatchesLoop
<1>11. CASE AdvanceRaises(b)
  <2>1. InstanceTyped' /\ ParentMatchesLoop'
    BY <1>11 DEF AdvanceRaises, LoopInv, InstanceTyped, ParentMatchesLoop
  <2>2. QED
    BY <1>4, <1>11, <2>1 DEF AdvanceRaises, childVars, LoopInv
<1>12. CASE IterationFailed(b)
  <2>1. InstanceTyped' /\ ParentMatchesLoop'
    BY <1>5, <1>12, TerminateKeeps DEF IterationFailed, LoopInv, Ended
  <2>2. QED
    BY <1>4, <1>12, <2>1 DEF IterationFailed, childVars, LoopInv
<1>13. QED
  BY <1>7, <1>8, <1>9, <1>10, <1>11, <1>12 DEF BridgeNext

\* the router changes the status of a child that exists, and may start a bridge
RouterStep ==
  /\ UNCHANGED <<instVars, cancelling, died>>
  /\ \/ child' = child
     \/ \E c \in Submitted, to \in ChildStatus \ {"absent"} : child' = [child EXCEPT ![c] = to]
  /\ open' \subseteq Submitted
  /\ ending' \subseteq [child : Child, event : {"completed", "failed"}]
  /\ \/ bridge' = bridge
     \/ \E c \in Child, does \in {"advance", "fail"} : Emit(c, does)

LEMMA ChildSteps ==
  ASSUME LoopInv, NEW c \in Child, ChildNext(c)
  PROVE  RouterStep
<1> USE DEF LoopInv, ChildrenTyped, RouterStep, ChildStatus
<1>1. CASE ChildDispatched(c)
  BY <1>1 DEF ChildDispatched, Submitted
<1>2. CASE ChildRefused(c)
  BY <1>2 DEF ChildRefused, Submitted
<1>3. CASE DispatchEnds(c)
  BY <1>3 DEF DispatchEnds
<1>4. ASSUME NEW to \in {"COMPLETED", "FAILED"}, NEW event \in {"completed", "failed"},
             ChildEnds(c, to, event)
      PROVE  RouterStep
  <2>1. c \in Submitted /\ to \in ChildStatus \ {"absent"}
    BY <1>4 DEF ChildEnds, Submitted
  <2>2. ending' \subseteq [child : Child, event : {"completed", "failed"}]
    <3>1. [child |-> c, event |-> event] \in [child : Child, event : {"completed", "failed"}]
      OBVIOUS
    <3>2. QED
      BY <1>4, <3>1 DEF ChildEnds
  <2>3. QED
    BY <1>4, <2>1, <2>2 DEF ChildEnds
<1>5. CASE ChildCancelled(c)
  BY <1>5 DEF ChildCancelled, Active, Submitted
<1>6. QED
  BY <1>1, <1>2, <1>3, <1>4, <1>5 DEF ChildNext

LEMMA EventSteps ==
  ASSUME LoopInv, NEW e \in ending, EventEmitted(e)
  PROVE  RouterStep
<1>1. e \in [child : Child, event : {"completed", "failed"}]
  BY DEF LoopInv, ChildrenTyped
<1>2. e.child \in Child /\ Bridged(e.event) \in {"advance", "fail"}
  BY <1>1 DEF Bridged
<1>3. QED
  BY <1>2 DEF EventEmitted, LoopInv, ChildrenTyped, RouterStep

LEMMA RouterKeepsSubmitted ==
  ASSUME LoopInv, RouterStep
  PROVE  Submitted' = Submitted
  BY DEF LoopInv, ChildrenTyped, RouterStep, Submitted

LEMMA RouterKeeps ==
  ASSUME LoopInv, RouterStep
  PROVE  LoopInv'
<1>1. InstanceTyped' /\ ParentMatchesLoop' /\ cancelling' \in BOOLEAN
  BY DEF RouterStep, instVars, LoopInv, InstanceTyped, ParentMatchesLoop
<1>2. /\ bridge' \subseteq Bridge
      /\ \A k \in bridge' : k.at \in {"escalate", "record"} => k.iter < MaxIterations
  BY EmitTyped DEF RouterStep, LoopInv, ChildrenTyped, BelowCap
<1>3. child' \in [Child -> ChildStatus]
  BY DEF RouterStep, LoopInv, ChildrenTyped
<1>4. QED
  BY <1>1, <1>2, <1>3, RouterKeepsSubmitted
     DEF RouterStep, LoopInv, ChildrenTyped, BelowCap

LEMMA NextKeeps == LoopInv /\ [Next]_vars => LoopInv'
<1>1. ASSUME LoopInv, UNCHANGED vars PROVE LoopInv'
  BY <1>1 DEF vars, instVars, childVars, LoopInv, InstanceTyped, ChildrenTyped, BelowCap,
              ParentMatchesLoop, Submitted
<1>2. QED
  BY <1>1, OperatorKeeps, BridgeKeeps, ChildSteps, EventSteps, RouterKeeps DEF Next

LEMMA LoopInvariant == Spec => []LoopInv
<1>1. QED
  BY InitLoopInv, NextKeeps, PTL DEF Spec

-----------------------------------------------------------------------------
(* Theorems *)

(* Every variable keeps its type; in particular _terminate never writes a    *)
(* LoopStatus into the parent task.                                          *)
THEOREM LoopTypeCorrect == Spec => []TypeOK
<1>1. LoopInv => TypeOK
  BY DEF LoopInv, InstanceTyped, ChildrenTyped, TypeOK, Submitted
<1>2. QED
  BY <1>1, LoopInvariant, PTL

(* max_iterations is a hard cap for every value of it, although nothing      *)
(* looks at the instance again after the judges have answered: what a bridge *)
(* enqueues depends on the iteration it read before it asked them.           *)
THEOREM CapHolds == Spec => []IterationCap
<1>1. LoopInv => IterationCap
  <2>1. SUFFICES ASSUME Submitted \subseteq 1..MaxIterations
                 PROVE  Cardinality(Submitted) <= MaxIterations
    BY DEF LoopInv, BelowCap, IterationCap
  <2>2. IsFiniteSet(1..MaxIterations) /\ Cardinality(1..MaxIterations) = MaxIterations
    BY FS_Interval, LoopAssumption
  <2>3. QED
    BY <2>1, <2>2, FS_Subset
<1>2. QED
  BY <1>1, LoopInvariant, PTL

(* Once the loop is over its parent task says how, whoever else has ended    *)
(* the parent before, and however often the loop itself is ended.            *)
THEOREM ParentFollowsLoop == Spec => []ParentMatchesLoop
<1>1. LoopInv => ParentMatchesLoop
  BY DEF LoopInv
<1>2. QED
  BY <1>1, LoopInvariant, PTL

LEMMA SettledStep ==
  ASSUME LoopInv, [Next]_vars, loop \in Ended, bridge = {}, ~cancelling
  PROVE  UNCHANGED <<loop, parent, Submitted>>
<1>1. ~StartLoop /\ ~CancelLoop /\ ~CancelResumes /\ ~ParentEnded
  BY ParentOfType DEF LoopInv, ParentMatchesLoop, Ended, StartLoop, CancelLoop, Cancellable,
                      CancelResumes, ParentEnded
<1>2. CASE RouterStep
  BY <1>2, RouterKeepsSubmitted DEF RouterStep, instVars
<1>3. CASE UNCHANGED vars
  BY <1>3 DEF vars, instVars, childVars, Submitted
<1>4. QED
  BY <1>1, <1>2, <1>3, ChildSteps, EventSteps DEF Next

(* A loop that is over stays over and starts no iteration once its bridges   *)
(* and the cancel call have ended: nothing but those can still write to it.  *)
THEOREM SettledLoopStays == Spec => SettledLoopIsOver
<1>1. LoopInv /\ [Next]_vars
        => [(loop \in Ended /\ bridge = {} /\ ~cancelling)
              => UNCHANGED <<loop, parent, Submitted>>]_vars
  BY SettledStep
<1>2. QED
  BY <1>1, LoopInvariant, PTL DEF Spec, SettledLoopIsOver

-----------------------------------------------------------------------------
(* One iteration at a time *)

\* what may still lead to the next iteration: a completion the router has not
\* told of yet, and a bridge that advances the loop
Completions == {e \in ending : e.event = "completed"}
Advancing == {b \in bridge : b.does = "advance"}

\* Only the last iteration is under way, or it is over and at most one of those
\* two is left of it, which has read the iteration it belongs to.
InTurn ==
  /\ Submitted \subseteq 1..iteration
  /\ Active \subseteq {iteration}
  /\ \A e \in Completions : e.child = iteration /\ iteration \notin Active /\ Advancing = {}
  /\ \A b \in Advancing :
       /\ b.child = iteration /\ iteration \notin Active /\ Advancing = {b}
       /\ b.at # "start" => b.iter = iteration
  /\ loop = "none" => iteration = 0

TurnInv == LoopInv /\ InTurn

LEMMA InitInTurn == Init => InTurn
  BY DEF Init, InTurn, Submitted, Active, Completions, Advancing

\* no new iteration, no new completion, no bridge that was not there
LEMMA QuietKeeps ==
  ASSUME TurnInv, UNCHANGED iteration, loop' = "none" => loop = "none", Submitted' = Submitted,
         Active' \subseteq Active, ending' \subseteq ending,
         \A b \in bridge' : b.does = "advance" => b \in bridge
  PROVE  InTurn'
<1>1. Completions' \subseteq Completions /\ Advancing' \subseteq Advancing
  BY DEF Completions, Advancing
<1>2. QED
  BY <1>1 DEF TurnInv, InTurn

LEMMA EnqueueTurn ==
  ASSUME TurnInv, NEW others, EnqueueIteration(iteration + 1, others), loop' # "none",
         iteration + 1 \in Child, Active \subseteq {}, Completions' = {}, Advancing' = {}
  PROVE  InTurn'
<1>1. iteration \in Nat /\ iteration' = iteration + 1
  BY LoopAssumption DEF TurnInv, LoopInv, InstanceTyped, EnqueueIteration
<1>2. child' = [child EXCEPT ![iteration + 1] = "PENDING"] /\ child \in [Child -> ChildStatus]
  BY DEF EnqueueIteration, TurnInv, LoopInv, ChildrenTyped
<1>3. Submitted' \subseteq 1..iteration'
  BY <1>1, <1>2 DEF Submitted, TurnInv, InTurn
<1>4. Active' \subseteq {iteration'}
  BY <1>1, <1>2 DEF Active
<1>5. QED
  BY <1>3, <1>4 DEF InTurn

LEMMA OperatorTurn ==
  ASSUME TurnInv, StartLoop \/ CancelLoop \/ CancelResumes \/ ParentEnded
  PROVE  InTurn'
<1>1. CASE StartLoop
  <2>1. iteration = 0 /\ Submitted = {}
    BY <1>1 DEF StartLoop, TurnInv, InTurn
  <2>2. Active = {} /\ Completions = {} /\ Advancing = {}
    <3>1. Active = {}
      BY <2>1 DEF Active, Submitted
    <3>2. 0 \notin Child
      BY DEF Child
    <3>3. Completions = {}
      BY <2>1, <3>2 DEF Completions, TurnInv, InTurn, LoopInv, ChildrenTyped
    <3>4. Advancing = {}
      BY <2>1, <3>2 DEF Advancing, TurnInv, InTurn, LoopInv, ChildrenTyped, Bridge
    <3>5. QED
      BY <3>1, <3>3, <3>4
  <2>3. EnqueueIteration(iteration + 1, {}) /\ iteration + 1 \in Child
    BY <1>1, <2>1, LoopAssumption DEF StartLoop, Child
  <2>4. Completions' = {} /\ Advancing' = {}
    BY <1>1, <2>2 DEF StartLoop, Completions, Advancing
  <2>5. QED
    BY <1>1, <2>2, <2>3, <2>4, EnqueueTurn DEF StartLoop
<1>2. CASE CancelLoop
  <2>1. Submitted' = Submitted /\ Active' \subseteq Active
    BY <1>2 DEF CancelLoop, TurnInv, LoopInv, ChildrenTyped, ChildStatus, Submitted, Active
  <2>2. UNCHANGED iteration /\ loop' # "none"
    BY <1>2 DEF CancelLoop, Cancellable, instVars, Terminate
  <2>3. QED
    BY <1>2, <2>1, <2>2, QuietKeeps DEF CancelLoop
<1>3. CASE CancelResumes
  BY <1>3, QuietKeeps DEF CancelResumes, Terminate, childVars, Submitted, Active
<1>4. CASE ParentEnded
  BY <1>4 DEF ParentEnded, childVars, TurnInv, InTurn, Submitted, Active, Completions, Advancing
<1>5. QED
  BY <1>1, <1>2, <1>3, <1>4

\* a bridge that goes on keeps its place
LEMMA BecomesTurn ==
  ASSUME TurnInv, NEW b \in Advancing, NEW at, NEW n, Becomes(b, at, n), n = iteration,
         UNCHANGED <<instVars, childVars>>
  PROVE  InTurn'
<1>1. b \in Bridge
  BY DEF Advancing, TurnInv, LoopInv, ChildrenTyped
<1>2. PICK k : k = [b EXCEPT !.at = at, !.iter = n]
  OBVIOUS
<1>3. k.child = iteration /\ k.iter = iteration /\ k.does = "advance"
  BY <1>1, <1>2 DEF Advancing, Bridge, TurnInv, InTurn
<1>4. bridge' = (bridge \ {b}) \cup {k}
  BY <1>2 DEF Becomes
<1>5. Advancing' = {k}
  BY <1>3, <1>4 DEF Advancing, TurnInv, InTurn
<1>6. Completions = {} /\ iteration \notin Active
  BY DEF TurnInv, InTurn
<1>7. QED
  BY <1>3, <1>5, <1>6 DEF TurnInv, InTurn, instVars, childVars, Completions, Active, Submitted

LEMMA BridgeTurn ==
  ASSUME TurnInv, NEW b \in bridge, BridgeNext(b)
  PROVE  InTurn'
<1>1. b \in Bridge
  BY DEF TurnInv, LoopInv, ChildrenTyped
<1>2. b.does = "advance" => b \in Advancing
  BY DEF Advancing
<1>3. b.at # "start" => b.does = "advance" /\ b.iter = iteration
  BY <1>1, <1>2 DEF Bridge, TurnInv, InTurn
<1>4. ASSUME Ends(b), UNCHANGED <<iteration, childVars>>, loop' = "none" => loop = "none"
      PROVE  InTurn'
  BY <1>4, QuietKeeps DEF Ends, childVars, Submitted, Active
<1>5. ASSUME NEW to \in Ended, Ends(b), Terminate(to), UNCHANGED childVars
      PROVE  InTurn'
  BY <1>4, <1>5 DEF Terminate, Ended
<1>6. CASE AdvanceStarts(b)
  BY <1>2, <1>4, <1>6, BecomesTurn DEF AdvanceStarts, instVars
<1>7. CASE StopJudged(b)
  BY <1>2, <1>3, <1>5, <1>7, BecomesTurn DEF StopJudged, Ended
<1>8. CASE EscalationJudged(b)
  BY <1>2, <1>3, <1>5, <1>8, BecomesTurn DEF EscalationJudged, Ended
<1>9. CASE NextIteration(b)
  <2>1. b \in Advancing /\ b.iter = iteration /\ b.iter < MaxIterations
    BY <1>2, <1>3, <1>9 DEF NextIteration, TurnInv, LoopInv, BelowCap
  <2>2. iteration + 1 \in Child
    BY <2>1, LoopAssumption DEF Child, TurnInv, LoopInv, InstanceTyped
  <2>3. Active = {} /\ Completions = {} /\ Advancing = {b}
    BY <2>1 DEF TurnInv, InTurn
  <2>4. Completions' = {} /\ Advancing' = {}
    BY <1>9, <2>3 DEF NextIteration, Ends, Completions, Advancing
  <2>5. b.child \in Child /\ b.child = iteration
    BY <1>1, <2>1 DEF Bridge, TurnInv, InTurn
  <2>6. loop' # "none"
    BY <1>9, <2>5 DEF NextIteration, TurnInv, InTurn, Child
  <2>7. QED
    BY <1>9, <2>1, <2>2, <2>3, <2>4, <2>6, EnqueueTurn DEF NextIteration
<1>10. CASE AdvanceRaises(b)
  BY <1>4, <1>10 DEF AdvanceRaises
<1>11. CASE IterationFailed(b)
  BY <1>4, <1>5, <1>11 DEF IterationFailed, instVars, Ended
<1>12. QED
  BY <1>6, <1>7, <1>8, <1>9, <1>10, <1>11 DEF BridgeNext

LEMMA ChildTurn ==
  ASSUME TurnInv, NEW c \in Child, ChildNext(c)
  PROVE  InTurn'
<1>1. child \in [Child -> ChildStatus] /\ UNCHANGED instVars
  BY DEF TurnInv, LoopInv, ChildrenTyped, ChildNext, ChildDispatched, ChildRefused,
         DispatchEnds, ChildEnds, ChildCancelled
<1>2. Submitted' = Submitted
  BY ChildSteps, RouterKeepsSubmitted DEF TurnInv
<1>3. ASSUME Active' \subseteq Active, ending' \subseteq ending,
             bridge' = bridge \/ Emit(c, "fail")
      PROVE  InTurn'
  BY <1>1, <1>2, <1>3, QuietKeeps DEF instVars, Emit, NewBridge
<1>4. CASE ChildDispatched(c)
  BY <1>1, <1>3, <1>4 DEF ChildDispatched, Active
<1>5. CASE ChildRefused(c)
  BY <1>1, <1>3, <1>5 DEF ChildRefused, Active
<1>6. CASE DispatchEnds(c)
  BY <1>1, <1>3, <1>6 DEF DispatchEnds, Active
<1>7. CASE ChildEnds(c, "COMPLETED", "completed")
  <2>1. c = iteration /\ Completions = {} /\ Advancing = {}
    BY <1>7 DEF ChildEnds, Active, TurnInv, InTurn
  <2>2. Active' = {} /\ Advancing' = {}
    BY <1>1, <1>7, <2>1 DEF ChildEnds, Active, Advancing, TurnInv, InTurn
  <2>3. \A e \in Completions' : e.child = iteration
    BY <1>7, <2>1 DEF ChildEnds, Completions
  <2>4. QED
    BY <1>1, <1>2, <2>2, <2>3 DEF instVars, TurnInv, InTurn
<1>8. CASE ChildEnds(c, "FAILED", "failed")
  <2>1. Active' \subseteq Active /\ UNCHANGED bridge
    BY <1>1, <1>8 DEF ChildEnds, Active
  <2>2. Completions' = Completions /\ Advancing' = Advancing
    BY <1>8 DEF ChildEnds, Completions, Advancing
  <2>3. QED
    BY <1>1, <1>2, <2>1, <2>2 DEF instVars, TurnInv, InTurn
<1>9. CASE ChildCancelled(c)
  BY <1>1, <1>3, <1>9 DEF ChildCancelled, Active
<1>10. QED
  BY <1>4, <1>5, <1>6, <1>7, <1>8, <1>9 DEF ChildNext

LEMMA EventTurn ==
  ASSUME TurnInv, NEW e \in ending, EventEmitted(e)
  PROVE  InTurn'
<1>1. e \in [child : Child, event : {"completed", "failed"}]
  BY DEF TurnInv, LoopInv, ChildrenTyped
<1>2. CASE e.event = "failed"
  <2>1. Emit(e.child, "fail")
    BY <1>2 DEF EventEmitted, Bridged
  <2>2. \A b \in bridge' : b.does = "advance" => b \in bridge
    BY <2>1 DEF Emit, NewBridge
  <2>3. QED
    BY <2>2, QuietKeeps DEF EventEmitted, instVars, Submitted, Active
<1>3. CASE e.event = "completed"
  <2>1. e \in Completions /\ e.child = iteration /\ iteration \notin Active /\ Advancing = {}
    BY <1>3 DEF Completions, TurnInv, InTurn
  <2>2. \A f \in Completions : f = e
    <3>1. SUFFICES ASSUME NEW f \in Completions PROVE f = e
      OBVIOUS
    <3>2. f \in [child : Child, event : {"completed", "failed"}] /\ f.event = "completed"
      BY DEF Completions, TurnInv, LoopInv, ChildrenTyped
    <3>3. f.child = e.child
      BY <2>1 DEF TurnInv, InTurn
    <3>4. QED
      BY <1>1, <1>3, <3>2, <3>3
  <2>3. Completions' = {}
    BY <2>2 DEF EventEmitted, Completions
  <2>4. Advancing' \subseteq {NewBridge(iteration, "advance")}
    BY <1>3, <2>1 DEF EventEmitted, Emit, Bridged, Advancing
  <2>5. QED
    BY <2>1, <2>3, <2>4
       DEF EventEmitted, NewBridge, instVars, TurnInv, InTurn, Submitted, Active
<1>4. QED
  BY <1>1, <1>2, <1>3

LEMMA TurnInvariant == Spec => []TurnInv
<1>1. Init => TurnInv
  BY InitLoopInv, InitInTurn DEF TurnInv
<1>2. TurnInv /\ [Next]_vars => TurnInv'
  <2>1. ASSUME TurnInv, UNCHANGED vars PROVE InTurn'
    BY <2>1 DEF vars, instVars, childVars, TurnInv, InTurn, Submitted, Active, Completions,
                Advancing
  <2>2. TurnInv /\ [Next]_vars => InTurn'
    BY <2>1, OperatorTurn, BridgeTurn, ChildTurn, EventTurn DEF Next
  <2>3. QED
    BY <2>2, NextKeeps DEF TurnInv
<1>3. QED
  BY <1>1, <1>2, PTL DEF Spec

(* one iteration at a time *)
LEMMA OneInTurn == TurnInv => OneActiveIteration
<1>1. ASSUME TurnInv PROVE Cardinality(Active) <= 1
  <2>1. IsFiniteSet({iteration}) /\ Cardinality({iteration}) = 1
    BY FS_Singleton
  <2>2. QED
    BY <1>1, <2>1, FS_Subset DEF TurnInv, InTurn
<1>2. QED
  BY <1>1 DEF OneActiveIteration

-----------------------------------------------------------------------------
(* A loop that runs is attended *)

\* somebody has, or will have, the current iteration
InHand ==
  \/ current \in Active \/ \E e \in ending : e.child = current
  \/ \E b \in bridge : b.child = current
  \/ cancelling \/ current \in died \/ child[current] = "CANCELLED"

HeardInv == loop = "RUNNING" =>
  /\ current = iteration /\ current \in Child
  /\ current \in listed \cup died
  /\ InHand

LEMMA OperatorHears ==
  ASSUME TurnInv, HeardInv, StartLoop \/ CancelLoop \/ CancelResumes \/ ParentEnded
  PROVE  HeardInv'
<1>1. CASE StartLoop
  <2>1. 1 \in Child /\ child' = [child EXCEPT ![1] = "PENDING"] /\ listed' = {1} /\ current' = 1 /\ iteration' = 1
    BY <1>1, LoopAssumption DEF StartLoop, EnqueueIteration, Child
  <2>2. 1 \in Active'
    BY <2>1 DEF Active, TurnInv, LoopInv, ChildrenTyped
  <2>3. QED
    BY <2>1, <2>2 DEF HeardInv, InHand
<1>2. CASE CancelLoop
  <2>1. CASE Terminate("CANCELLED")
    BY <2>1 DEF Terminate, HeardInv
  <2>2. CASE cancelling' = TRUE /\ UNCHANGED instVars
    BY <1>2, <2>2 DEF CancelLoop, Cancellable, instVars, HeardInv, InHand
  <2>3. QED
    BY <1>2, <2>1, <2>2 DEF CancelLoop
<1>3. CASE CancelResumes
  BY <1>3 DEF CancelResumes, Terminate, HeardInv
<1>4. CASE ParentEnded
  BY <1>4 DEF ParentEnded, childVars, HeardInv, InHand, Active
<1>5. QED
  BY <1>1, <1>2, <1>3, <1>4

LEMMA BridgeHears ==
  ASSUME TurnInv, HeardInv, NEW b \in bridge, BridgeNext(b), loop' = "RUNNING"
  PROVE  HeardInv'
<1>1. b \in Bridge
  BY DEF TurnInv, LoopInv, ChildrenTyped
<1>2. b.at # "start" => b.does = "advance" /\ b.iter = iteration /\ b.child = iteration
  BY <1>1 DEF Bridge, Advancing, TurnInv, InTurn
<1>3. \A to \in Ended : ~Terminate(to)
  BY DEF Terminate, Ended
<1>4. ASSUME NEW at, NEW n, Becomes(b, at, n), UNCHANGED <<instVars, childVars, cancelling, died>>
      PROVE  HeardInv'
  <2>1. PICK k : k = [b EXCEPT !.at = at, !.iter = n]
    OBVIOUS
  <2>2. bridge' = (bridge \ {b}) \cup {k} /\ k.child = b.child
    BY <1>1, <1>4, <2>1 DEF Becomes, Bridge
  <2>3. (\E j \in bridge : j.child = current) => \E j \in bridge' : j.child = current
    BY <2>2
  <2>4. UNCHANGED <<loop, iteration, current, listed, child, ending, cancelling, died>>
    BY <1>4 DEF instVars, childVars
  <2>5. QED
    BY <2>3, <2>4 DEF HeardInv, InHand, Active
<1>5. CASE NextIteration(b)
  <2>1. b.iter = iteration /\ iteration < MaxIterations
    BY <1>2, <1>5 DEF NextIteration, TurnInv, LoopInv, BelowCap
  <2>2. iteration + 1 \in Child
    BY <2>1, LoopAssumption DEF Child, TurnInv, LoopInv, InstanceTyped
  <2>3. /\ child' = [child EXCEPT ![iteration + 1] = "PENDING"] /\ iteration + 1 \in listed'
        /\ current' = iteration + 1 /\ iteration' = iteration + 1
    BY <1>5, <2>1 DEF NextIteration, EnqueueIteration
  <2>4. current' \in Active'
    BY <2>2, <2>3 DEF Active, TurnInv, LoopInv, ChildrenTyped
  <2>5. QED
    BY <2>2, <2>3, <2>4 DEF HeardInv, InHand
<1>6. CASE AdvanceRaises(b)
  <2>1. b.child = iteration /\ iteration \in died' /\ UNCHANGED <<loop, iteration, current>>
    BY <1>2, <1>6 DEF AdvanceRaises
  <2>2. QED
    BY <2>1 DEF HeardInv, InHand
<1>7. CASE IterationFailed(b)
  <2>1. UNCHANGED <<instVars, childVars, cancelling, died>> /\ Ends(b) /\ b.child \notin listed
    BY <1>3, <1>7 DEF IterationFailed, Ended, instVars
  <2>2. loop = "RUNNING"
    BY <2>1 DEF instVars
  <2>3. CASE b.child = current
    <3>1. current \in died
      BY <2>1, <2>2, <2>3 DEF HeardInv
    <3>2. QED
      BY <2>1, <3>1 DEF HeardInv, InHand, instVars
  <2>4. CASE b.child # current
    <3>1. (\E j \in bridge : j.child = current) => \E j \in bridge' : j.child = current
      BY <2>1, <2>4 DEF Ends
    <3>2. QED
      BY <2>1, <3>1 DEF HeardInv, InHand, Active, instVars, childVars
  <2>5. QED
    BY <2>3, <2>4
<1>8. CASE AdvanceStarts(b)
  <2>1. UNCHANGED <<instVars, childVars, cancelling>> /\ loop = "RUNNING"
    BY <1>8 DEF AdvanceStarts, instVars
  <2>2. Becomes(b, "stop", iteration) /\ UNCHANGED died
    BY <1>8, <2>1 DEF AdvanceStarts
  <2>3. QED
    BY <1>4, <2>1, <2>2
<1>9. CASE StopJudged(b)
  BY <1>3, <1>4, <1>9 DEF StopJudged, Ended
<1>10. CASE EscalationJudged(b)
  BY <1>3, <1>4, <1>10 DEF EscalationJudged, Ended
<1>11. QED
  BY <1>5, <1>6, <1>7, <1>8, <1>9, <1>10 DEF BridgeNext

\* the listener hears of a child it has listed
LEMMA ListedIsHeard ==
  ASSUME NEW c \in listed, NEW does, Emit(c, does)
  PROVE  \E b \in bridge' : b.child = c
<1>1. NewBridge(c, does) \in bridge' /\ NewBridge(c, does).child = c
  BY DEF Emit, NewBridge
<1>2. QED
  BY <1>1

LEMMA RouterHears ==
  ASSUME TurnInv, HeardInv, loop = "RUNNING", UNCHANGED <<instVars, cancelling, died>>,
         bridge \subseteq bridge',
         current \in listed => InHand'
  PROVE  HeardInv'
<1>1. current \in listed \cup died /\ UNCHANGED <<loop, iteration, current, listed>>
  BY DEF HeardInv, instVars
<1>2. current \in died => InHand'
  BY <1>1 DEF InHand
<1>3. QED
  BY <1>1, <1>2 DEF HeardInv

LEMMA ChildHears ==
  ASSUME TurnInv, HeardInv, NEW c \in Child, ChildNext(c), loop = "RUNNING"
  PROVE  HeardInv'
<1>1. child \in [Child -> ChildStatus] /\ UNCHANGED <<instVars, cancelling, died>>
  BY DEF TurnInv, LoopInv, ChildrenTyped, ChildNext, ChildDispatched, ChildRefused,
         DispatchEnds, ChildEnds, ChildCancelled
<1>2. InHand /\ UNCHANGED current
  BY <1>1 DEF HeardInv, instVars
<1>3. bridge \subseteq bridge' /\ ending \subseteq ending' /\ \A d \in Child : d # c => child'[d] = child[d]
  BY <1>1 DEF ChildNext, ChildDispatched, ChildRefused, DispatchEnds, ChildEnds, ChildCancelled, Emit
<1>4. ASSUME c # current PROVE InHand'
  BY <1>1, <1>2, <1>3, <1>4 DEF InHand, Active, HeardInv
<1>5. ASSUME c = current, c \in listed PROVE InHand'
  <2>1. CASE ChildDispatched(c)
    BY <1>1, <1>2, <1>5, <2>1 DEF ChildDispatched, InHand, Active
  <2>2. CASE Emit(c, "fail")
    BY <1>2, <1>5, <2>2, ListedIsHeard DEF InHand
  <2>3. CASE DispatchEnds(c) /\ UNCHANGED <<child, bridge>>
    BY <1>1, <1>2, <1>3, <2>3 DEF InHand, Active
  <2>4. ASSUME NEW to, NEW event, ChildEnds(c, to, event) PROVE InHand'
    <3>1. [child |-> c, event |-> event] \in ending' /\ [child |-> c, event |-> event].child = c
      BY <2>4 DEF ChildEnds
    <3>2. QED
      BY <1>2, <1>5, <3>1 DEF InHand
  <2>5. CASE ChildCancelled(c)
    BY <1>1, <1>2, <1>5, <2>5 DEF ChildCancelled, InHand
  <2>6. QED
    BY <2>1, <2>2, <2>3, <2>4, <2>5 DEF ChildNext, ChildRefused, DispatchEnds
<1>6. QED
  BY <1>1, <1>3, <1>4, <1>5, RouterHears

LEMMA EventHears ==
  ASSUME TurnInv, HeardInv, NEW e \in ending, EventEmitted(e), loop = "RUNNING"
  PROVE  HeardInv'
<1>1. UNCHANGED <<instVars, child, cancelling, died>> /\ InHand /\ current \in Child
  BY DEF EventEmitted, HeardInv
<1>2. bridge \subseteq bridge'
  BY DEF EventEmitted, Emit
<1>3. UNCHANGED current
  BY <1>1 DEF instVars
<1>4. CASE e.child = current
  <2>1. current \in listed => \E b \in bridge' : b.child = current
    BY <1>4, ListedIsHeard DEF EventEmitted
  <2>2. QED
    BY <1>1, <1>2, <1>3, <2>1, RouterHears DEF InHand
<1>5. CASE e.child # current
  <2>1. InHand'
    BY <1>1, <1>2, <1>3, <1>5 DEF InHand, Active, EventEmitted
  <2>2. QED
    BY <1>1, <1>2, <2>1, RouterHears
<1>6. QED
  BY <1>4, <1>5

(* As long as a loop is RUNNING its iteration is in hand: whatever the       *)
(* router, the judges, cancellations and failed dispatches do in between,    *)
(* the end of the current child reaches a listener that still knows it, for  *)
(* every cap on the iterations. IterationAnswered rests on this.             *)
THEOREM LoopStaysAttended == Spec => []LoopIsAttended
<1>1. Init => HeardInv
  BY DEF Init, HeardInv
<1>2. TurnInv /\ HeardInv /\ [Next]_vars => HeardInv'
  <2> SUFFICES ASSUME TurnInv, HeardInv, [Next]_vars PROVE HeardInv'
    OBVIOUS
  <2>1. CASE UNCHANGED vars
    BY <2>1 DEF vars, instVars, childVars, HeardInv, InHand, Active
  <2>2. CASE loop' # "RUNNING"
    BY <2>2 DEF HeardInv
  <2>3. ASSUME loop' = "RUNNING", NEW b \in bridge, BridgeNext(b) PROVE HeardInv'
    BY <2>3, BridgeHears
  <2>4. ASSUME loop' = "RUNNING", NEW c \in Child, ChildNext(c) PROVE HeardInv'
    <3>1. loop = "RUNNING"
      BY <2>4 DEF ChildNext, ChildDispatched, ChildRefused, DispatchEnds, ChildEnds, ChildCancelled, instVars
    <3>2. QED
      BY <2>4, <3>1, ChildHears
  <2>5. ASSUME loop' = "RUNNING", NEW e \in ending, EventEmitted(e) PROVE HeardInv'
    BY <2>5, EventHears DEF EventEmitted, instVars
  <2>6. QED
    BY <2>1, <2>2, <2>3, <2>4, <2>5, OperatorHears DEF Next
<1>3. HeardInv => LoopIsAttended
  BY DEF HeardInv, InHand, LoopIsAttended
<1>4. QED
  BY <1>1, <1>2, <1>3, TurnInvariant, PTL DEF Spec

(* At most one iteration is under way, although neither a bridge nor a       *)
(* cancellation looks at the loop again after it has waited; somebody has it *)
(* as long as the loop runs; and the parent of a loop that is over tells its *)
(* end.                                                                      *)
THEOREM LoopStaysWhole == Spec => []LoopIsWhole
<1>1. TurnInv /\ LoopIsAttended => LoopIsWhole
  BY OneInTurn DEF LoopIsWhole, TurnInv, LoopInv
<1>2. QED
  BY <1>1, TurnInvariant, LoopStaysAttended, PTL

-----------------------------------------------------------------------------
(***************************************************************************)
(* Verdicts                                                                *)
(***************************************************************************)

JudgeTyped ==
  /\ asked.key \in {"done", "escalate"}
  /\ judge \in [at : {"asked", "waiting", "ready", "cleanup", "stopped", "over", "raised"},
                answer : Answer \cup {<<>>}, raises : BOOLEAN]

\* the checklist is met or a cap is reached
SettledAtOnce ==
  \/ asked.key = "done" /\ asked.objective # <<>>
       /\ {path \in DOMAIN asked.objective : ~EntryMet(asked.envelope[path], asked.objective[path])} = {}
  \/ asked.key = "escalate" /\ asked.cap

\* the session said so
ToldSo ==
  asked.prose /\ \E i \in DOMAIN judge.answer :
                   asked.key \in DOMAIN judge.answer[i] /\ judge.answer[i][asked.key]

\* A session there is was made for its prose; until it answered nothing fires.
Earned ==
  /\ judge.at = "asked" => session = "none"
  /\ judge.at \in {"waiting", "ready"} => asked.prose
  /\ judge.at \in {"asked", "waiting", "ready"} => verdict.fired = FALSE
  /\ judge.at \in {"cleanup", "stopped"} => asked.prose /\ (verdict.fired => ToldSo)

JudgeInv == JudgeTyped /\ Earned /\ VerdictIsEarned

LEMMA QuickIsSettled ==
  ASSUME JudgeTyped, Quick.fired
  PROVE  SettledAtOnce
<1>1. CASE asked.key = "done"
  <2>1. Objective(asked.envelope, asked.objective).fired
    BY <1>1 DEF Quick
  <2>2. DOMAIN asked.objective # {} /\ AllMet(asked.envelope, asked.objective)
    BY <2>1 DEF Objective, Verdict
  <2>3. asked.objective # <<>>
    BY <2>2
  <2>4. QED
    BY <1>1, <2>2, <2>3 DEF SettledAtOnce, AllMet
<1>2. CASE asked.key = "escalate"
  BY <1>2 DEF Quick, SettledAtOnce, Verdict
<1>3. QED
  BY <1>1, <1>2 DEF JudgeTyped

LEMMA InitJudgeInv == JudgeInit => JudgeInv
<1> SUFFICES ASSUME JudgeInit PROVE JudgeInv
  OBVIOUS
<1>1. JudgeTyped
  BY DEF JudgeInit, JudgeTyped
<1>2. Earned
  BY DEF JudgeInit, Earned, Undecided, Verdict
<1>3. VerdictIsEarned
  BY DEF JudgeInit, VerdictIsEarned
<1>4. QED
  BY <1>1, <1>2, <1>3 DEF JudgeInv

\* where a step may go
LEMMA JudgeGoes ==
  ASSUME JudgeTyped, UNCHANGED asked,
         NEW at \in {"asked", "waiting", "ready", "cleanup", "stopped", "over", "raised"},
         judge' = [judge EXCEPT !.at = at]
  PROVE  JudgeTyped' /\ judge'.at = at /\ judge'.answer = judge.answer
  BY DEF JudgeTyped

LEMMA QuicklyKeeps ==
  ASSUME JudgeInv, Decides \/ CannotCreate \/ CreatesSession
  PROVE  JudgeInv'
<1>1. judge.at = "asked" /\ UNCHANGED asked /\ session = "none"
  BY DEF JudgeInv, Earned, Decides, CannotCreate, CreatesSession
<1>2. CASE Decides
  <2>1. judge' = [judge EXCEPT !.at = "over"] /\ verdict' = Quick /\ UNCHANGED session
    BY <1>2 DEF Decides, Says
  <2>2. JudgeTyped' /\ judge'.at = "over"
    BY <1>1, <2>1, JudgeGoes DEF JudgeInv
  <2>3. verdict'.fired => SettledAtOnce
    BY <2>1, QuickIsSettled DEF JudgeInv
  <2>4. QED
    BY <1>1, <2>1, <2>2, <2>3 DEF JudgeInv, Earned, VerdictIsEarned, SettledAtOnce
<1>3. CASE CannotCreate
  <2>1. judge' = [judge EXCEPT !.at = "over"] /\ verdict'.fired = FALSE /\ UNCHANGED session
    BY <1>3 DEF CannotCreate, Says, Verdict
  <2>2. JudgeTyped' /\ judge'.at = "over"
    BY <1>1, <2>1, JudgeGoes DEF JudgeInv
  <2>3. QED
    BY <1>1, <2>1, <2>2 DEF JudgeInv, Earned, VerdictIsEarned
<1>4. CASE CreatesSession
  <2>1. judge' = [judge EXCEPT !.at = "waiting"] /\ asked.prose /\ UNCHANGED verdict
    BY <1>4 DEF CreatesSession
  <2>2. JudgeTyped' /\ judge'.at = "waiting"
    BY <1>1, <2>1, JudgeGoes DEF JudgeInv
  <2>3. QED
    BY <1>1, <2>1, <2>2 DEF JudgeInv, Earned, VerdictIsEarned
<1>5. QED
  BY <1>2, <1>3, <1>4

LEMMA SessionIsAsked ==
  ASSUME JudgeInv, NEW answer,
         BecomesReady \/ NotReady \/ (answer \in Answer /\ SessionAnswers(answer)) \/ QueryFails \/ QueryRaises
  PROVE  JudgeInv'
<1>1. judge.at \in {"waiting", "ready"} /\ asked.prose /\ verdict.fired = FALSE /\ UNCHANGED asked
  BY DEF JudgeInv, Earned, BecomesReady, NotReady, SessionAnswers, QueryFails, QueryRaises
<1>2. CASE BecomesReady
  <2>1. judge' = [judge EXCEPT !.at = "ready"] /\ UNCHANGED verdict
    BY <1>2 DEF BecomesReady
  <2>2. JudgeTyped' /\ judge'.at = "ready"
    BY <1>1, <2>1, JudgeGoes DEF JudgeInv
  <2>3. QED
    BY <1>1, <2>1, <2>2 DEF JudgeInv, Earned, VerdictIsEarned
<1>3. CASE NotReady \/ QueryFails
  <2>1. judge' = [judge EXCEPT !.at = "cleanup"] /\ verdict'.fired = FALSE
    BY <1>3 DEF NotReady, QueryFails, Verdict
  <2>2. JudgeTyped' /\ judge'.at = "cleanup"
    BY <1>1, <2>1, JudgeGoes DEF JudgeInv
  <2>3. QED
    BY <1>1, <2>1, <2>2 DEF JudgeInv, Earned, VerdictIsEarned
<1>4. CASE QueryRaises
  <2>1. judge' = [judge EXCEPT !.at = "cleanup", !.raises = TRUE] /\ UNCHANGED verdict
    BY <1>4 DEF QueryRaises
  <2>2. JudgeTyped' /\ judge'.at = "cleanup"
    BY <1>1, <2>1 DEF JudgeInv, JudgeTyped
  <2>3. QED
    BY <1>1, <2>1, <2>2 DEF JudgeInv, Earned, VerdictIsEarned
<1>5. CASE answer \in Answer /\ SessionAnswers(answer)
  <2>1. /\ judge' = [judge EXCEPT !.at = "cleanup", !.answer = answer]
        /\ verdict' = Verdict(Extracted(answer, asked.key), "judge")
    BY <1>5 DEF SessionAnswers
  <2>2. JudgeTyped' /\ judge'.at = "cleanup" /\ judge'.answer = answer
    BY <1>1, <1>5, <2>1 DEF JudgeInv, JudgeTyped
  <2>3. verdict'.fired => Extracted(answer, asked.key)
    BY <2>1 DEF Verdict
  <2>4. verdict'.fired => ToldSo'
    BY <1>1, <2>2, <2>3 DEF Extracted, ToldSo
  <2>5. QED
    BY <1>1, <2>2, <2>4 DEF JudgeInv, Earned, VerdictIsEarned
<1>6. QED
  BY <1>2, <1>3, <1>4, <1>5

LEMMA CleanupKeeps ==
  ASSUME JudgeInv, StopsSession \/ DeletesSession \/ CleanupFails
  PROVE  JudgeInv'
<1>1. judge.at \in {"cleanup", "stopped"} /\ UNCHANGED <<asked, verdict>>
  BY DEF StopsSession, DeletesSession, CleanupFails
<1>2. PICK at \in {"stopped", "over", "raised"} :
        /\ judge' = [judge EXCEPT !.at = at]
        /\ at # "stopped" => session' \in {"none", "kept"}
  BY DEF StopsSession, DeletesSession, CleanupFails, Over
<1>3. JudgeTyped' /\ judge'.at = at /\ judge'.answer = judge.answer
  BY <1>1, <1>2, JudgeGoes DEF JudgeInv
<1>4. asked'.prose /\ (verdict'.fired => ToldSo')
  BY <1>1, <1>3 DEF JudgeInv, Earned, ToldSo
<1>5. QED
  BY <1>2, <1>3, <1>4 DEF JudgeInv, Earned, VerdictIsEarned, ToldSo

\* A loop is stopped, or its human paged, only for a reason: its checklist was
\* met, it is at a cap, or the session that was asked said so; and no judge
\* session is left behind but by a cleanup that failed (evaluate_stop,
\* evaluate_escalation, _query_session).
THEOREM VerdictsAreEarned == JudgeSpec => []VerdictIsEarned
<1>1. JudgeInit => JudgeInv
  BY InitJudgeInv
<1>2. JudgeInv /\ [JudgeNext]_judgeVars => JudgeInv'
  <2> SUFFICES ASSUME JudgeInv, [JudgeNext]_judgeVars PROVE JudgeInv'
    OBVIOUS
  <2>1. CASE UNCHANGED judgeVars
    BY <2>1 DEF judgeVars, JudgeInv, JudgeTyped, Earned, ToldSo, VerdictIsEarned
  <2>2. CASE Decides \/ CannotCreate \/ CreatesSession
    BY <2>2, QuicklyKeeps
  <2>3. CASE BecomesReady \/ NotReady \/ QueryFails \/ QueryRaises
    BY <2>3, SessionIsAsked
  <2>4. ASSUME NEW answer \in Answer, SessionAnswers(answer) PROVE JudgeInv'
    BY <2>4, SessionIsAsked
  <2>5. CASE StopsSession \/ DeletesSession \/ CleanupFails
    BY <2>5, CleanupKeeps
  <2>6. QED
    BY <2>1, <2>2, <2>3, <2>4, <2>5 DEF JudgeNext
<1>3. QED
  BY <1>1, <1>2, PTL DEF JudgeSpec, JudgeInv

-----------------------------------------------------------------------------
(***************************************************************************)
(* Agent definitions. Every setting a caller gives can be loaded again:    *)
(* the code does not see to that.                                          *)
(***************************************************************************)

(* The inductive invariant *)

Calling == [does : {"create", "update", "delete"}, name : Agent, wanted : Definition,
            prompt : Prompt \cup {"none", ""}, at : {"prompt", "definition", "role", "memory"}]

Typed ==
  /\ definition \in [Agent -> {Unknown, Torn} \cup Definition]
  /\ role \in [Agent -> {"none", "cut"} \cup Prompt]
  /\ agents \in [Agent -> {Unknown} \cup Definition]
  /\ prompts \in [Agent -> {"none", "cut"} \cup Prompt]
  /\ acked \in [Agent -> ({Unknown} \cup Definition) \X ({"none", "cut"} \cup Prompt)]
  /\ call = Idle \/ call \in Calling

\* in memory, on disk and to whoever asked an agent is the same
Agreed(n) == acked[n] = <<agents[n], prompts[n]>> /\ acked[n] = Loaded(n)

\* What a call on n has done by the time it is there.
Created(n) ==
  /\ agents[n] = Unknown /\ (call.wanted.prompted <=> call.prompt # "none") /\ call.prompt # ""
  /\ call.at \in {"definition", "memory"} /\ call.prompt # "none" => role[n] = call.prompt
  /\ call.at = "memory" => definition[n] = call.wanted

Updated(n) ==
  /\ agents[n] # Unknown
  /\ call.prompt = "none" => call.wanted.prompted = agents[n].prompted
  /\ call.prompt # "none" => (call.wanted.prompted <=> call.prompt # "")
  /\ call.at # "prompt" =>
        /\ call.prompt \in Prompt => role[n] = call.prompt
        /\ call.prompt = "none" /\ n \notin doubt =>
              prompts[n] = IF agents[n].prompted THEN role[n] ELSE "none"
  /\ call.at = "memory" => definition[n] = call.wanted

Removed(n) ==
  /\ call.at # "prompt" => definition[n] = Unknown
  /\ call.at # "definition"

Underway ==
  call # Idle =>
    /\ call.does = "create" => Created(call.name)
    /\ call.does = "update" => Updated(call.name)
    /\ call.does = "delete" => Removed(call.name)

\* What no call is in the middle of, and none has failed on, agrees.
Settled ==
  \A n \in Agent \ doubt :
     call = Idle \/ call.name # n \/ call.at = "prompt" => Agreed(n)

NoOrphans == \A n \in Agent : agents[n] = Unknown => prompts[n] = "none"

CatalogInv == Typed /\ Underway /\ Settled /\ NoOrphans

-----------------------------------------------------------------------------
(* Loading *)

LEMMA UnknownIs ==
  /\ Unknown.setting = "none" /\ Unknown.prompted = FALSE /\ Torn.setting = "torn"
  /\ "none" \notin Loadable /\ "torn" \notin Loadable /\ Unknown \notin Definition
  /\ Idle \notin Calling
  BY CatalogAssumption DEF Unknown, Torn, NotOne, Definition, Idle, Calling

LEMMA LoadsType ==
  ASSUME Typed, NEW n \in Agent
  PROVE  /\ Loads(n) \in {Unknown} \cup Definition
         /\ LoadsPrompt(n) \in {"none", "cut"} \cup Prompt
         /\ Loads(n) = Unknown => LoadsPrompt(n) = "none"
         /\ definition[n] = Unknown => Loads(n) = Unknown
<1>1. definition[n] \in {Unknown, Torn} \cup Definition /\ role[n] \in {"none", "cut"} \cup Prompt
  BY DEF Typed
<1>2. Loads(n) \in {Unknown} \cup Definition /\ (definition[n] = Unknown => Loads(n) = Unknown)
  BY <1>1, UnknownIs DEF Loads
<1>3. QED
  BY <1>1, <1>2 DEF LoadsPrompt

\* where all settings can be loaded, what is written is what is loaded
LEMMA LoadsWritten ==
  ASSUME Typed, Setting \subseteq Loadable, NEW n \in Agent, definition[n] \in Definition
  PROVE  Loads(n) = definition[n] /\ LoadsPrompt(n) = IF definition[n].prompted THEN role[n] ELSE "none"
<1>1. definition[n].setting \in Loadable /\ definition[n] # Unknown
  BY UnknownIs DEF Definition
<1>2. QED
  BY <1>1 DEF Loads, LoadsPrompt

LEMMA SameFiles ==
  ASSUME NEW n \in Agent, definition'[n] = definition[n], role'[n] = role[n]
  PROVE  Loads(n)' = Loads(n) /\ LoadsPrompt(n)' = LoadsPrompt(n) /\ Loaded(n)' = Loaded(n)
  BY DEF Loads, LoadsPrompt, Loaded

LEMMA SameAgreed ==
  ASSUME NEW n \in Agent, definition'[n] = definition[n], role'[n] = role[n],
         agents'[n] = agents[n], prompts'[n] = prompts[n], acked'[n] = acked[n], Agreed(n)
  PROVE  Agreed(n)'
  BY SameFiles DEF Agreed

-----------------------------------------------------------------------------
(* It is preserved *)

LEMMA InitCatalogInv == CatalogInit => CatalogInv
<1> SUFFICES ASSUME CatalogInit PROVE CatalogInv
  OBVIOUS
<1>1. /\ definition \in [Agent -> {Unknown} \cup Definition] /\ role \in [Agent -> {"none"} \cup Prompt]
      /\ agents = [n \in Agent |-> Loads(n)] /\ prompts = [n \in Agent |-> LoadsPrompt(n)]
      /\ acked = [n \in Agent |-> Loaded(n)] /\ call = Idle
  BY CatalogAssumption DEF CatalogInit, Definition
<1>2. ASSUME NEW n \in Agent
      PROVE  /\ Loads(n) \in {Unknown} \cup Definition
             /\ LoadsPrompt(n) \in {"none", "cut"} \cup Prompt
             /\ Loads(n) = Unknown => LoadsPrompt(n) = "none"
  <2>1. definition[n] \in {Unknown} \cup Definition /\ role[n] \in {"none"} \cup Prompt
    BY <1>1
  <2>2. Loads(n) \in {Unknown} \cup Definition
    BY <2>1 DEF Loads
  <2>3. QED
    BY <2>1, <2>2 DEF LoadsPrompt
<1>3. Typed
  BY <1>1, <1>2 DEF Typed, Loaded
<1>4. QED
  BY <1>1, <1>2, <1>3 DEF CatalogInv, Underway, Settled, NoOrphans, Agreed, Loaded

LEMMA AsksKeeps ==
  ASSUME CatalogInv, NEW n \in Agent, NEW does \in {"create", "update", "delete"},
         NEW wanted \in Definition, NEW prompt \in Prompt \cup {"none", ""},
         Asks(n, does, wanted, prompt),
         does = "create" => agents[n] = Unknown /\ (wanted.prompted <=> prompt # "none") /\ prompt # "",
         does = "update" => /\ agents[n] # Unknown
                            /\ prompt = "none" => wanted.prompted = agents[n].prompted
                            /\ prompt # "none" => (wanted.prompted <=> prompt # "")
  PROVE  CatalogInv'
<1>1. PICK c : c = [does |-> does, name |-> n, wanted |-> wanted, prompt |-> prompt, at |-> "prompt"]
  OBVIOUS
<1>2. /\ call = Idle /\ call' = c
      /\ UNCHANGED <<definition, role, agents, prompts, acked, doubt>>
  BY <1>1 DEF Asks
<1>3. c \in Calling /\ c.does = does /\ c.name = n /\ c.wanted = wanted /\ c.prompt = prompt /\ c.at = "prompt"
  BY <1>1 DEF Calling
<1>4. Typed' /\ NoOrphans'
  BY <1>2, <1>3 DEF CatalogInv, Typed, NoOrphans
<1>5. Underway'
  BY <1>2, <1>3 DEF Underway, Created, Updated, Removed
<1>6. Settled'
  <2>1. \A m \in Agent \ doubt : Agreed(m)
    BY <1>2 DEF CatalogInv, Settled
  <2>2. \A m \in Agent \ doubt : Agreed(m)'
    BY <1>2, <2>1, SameAgreed
  <2>3. QED
    BY <1>2, <2>2 DEF Settled
<1>7. QED
  BY <1>4, <1>5, <1>6 DEF CatalogInv

LEMMA CallsKeep ==
  ASSUME CatalogInv, NEW n \in Agent,
         \/ \E s \in Setting, p \in Prompt \cup {"none"} : Creates(n, s, p)
         \/ \E s \in Setting, p \in Prompt \cup {"none", ""} : Updates(n, s, p)
         \/ Deletes(n)
  PROVE  CatalogInv'
<1>1. ASSUME NEW s \in Setting, NEW p \in Prompt \cup {"none"}, Creates(n, s, p) PROVE CatalogInv'
  <2>1. PICK wanted : wanted = [setting |-> s, prompted |-> p # "none"]
    OBVIOUS
  <2>2. wanted \in Definition /\ (wanted.prompted <=> p # "none")
    BY <2>1 DEF Definition
  <2>3. p # "" /\ agents[n] = Unknown /\ Asks(n, "create", wanted, p)
    BY <1>1, <2>1, CatalogAssumption DEF Creates
  <2>4. QED
    BY <2>2, <2>3, AsksKeeps
<1>2. ASSUME NEW s \in Setting, NEW p \in Prompt \cup {"none", ""}, Updates(n, s, p) PROVE CatalogInv'
  <2>1. PICK wanted : wanted = [setting |-> s, prompted |-> IF p = "none" THEN agents[n].prompted ELSE p # ""]
    OBVIOUS
  <2>2. agents[n] # Unknown /\ agents[n].prompted \in BOOLEAN /\ Asks(n, "update", wanted, p)
    BY <1>2, <2>1 DEF Updates, CatalogInv, Typed, Definition
  <2>3. wanted \in Definition
    BY <2>1, <2>2 DEF Definition
  <2>4. /\ p = "none" => wanted.prompted = agents[n].prompted
        /\ p # "none" => (wanted.prompted <=> p # "")
    BY <2>1
  <2>5. QED
    BY <2>2, <2>3, <2>4, AsksKeeps
<1>3. CASE Deletes(n)
  <2>1. agents[n] \in Definition /\ Asks(n, "delete", agents[n], "none")
    BY <1>3 DEF Deletes, CatalogInv, Typed
  <2>2. QED
    BY <2>1, AsksKeeps
<1>4. QED
  BY <1>1, <1>2, <1>3

LEMMA GoesTo ==
  ASSUME CatalogInv, call # Idle, NEW at \in {"prompt", "definition", "role", "memory"}, Goes(at)
  PROVE  /\ call \in Calling /\ call' \in Calling /\ call' # Idle /\ call'.at = at
         /\ call'.does = call.does /\ call'.name = call.name /\ call'.wanted = call.wanted
         /\ call'.prompt = call.prompt
<1>1. call \in Calling
  BY DEF CatalogInv, Typed
<1>2. call' = [call EXCEPT !.at = at]
  BY DEF Goes
<1>3. call' \in Calling
  BY <1>1, <1>2 DEF Calling
<1>4. QED
  BY <1>1, <1>2, <1>3, UnknownIs DEF Calling

\* a step of a call past its beginning leaves the other agents as they were
LEMMA OthersSettled ==
  ASSUME CatalogInv, call # Idle, call' # Idle, call'.name = call.name, call'.at # "prompt",
         UNCHANGED <<acked, doubt>>,
         \A m \in Agent : m # call.name => /\ definition'[m] = definition[m] /\ role'[m] = role[m]
                                           /\ agents'[m] = agents[m] /\ prompts'[m] = prompts[m]
  PROVE  Settled'
<1>1. ASSUME NEW m \in Agent \ doubt, m # call.name PROVE Agreed(m)'
  BY <1>1, SameAgreed DEF CatalogInv, Settled
<1>2. QED
  BY <1>1 DEF Settled

LEMMA WritesPromptKeeps ==
  ASSUME CatalogInv, Setting \subseteq Loadable, WritesPrompt
  PROVE  CatalogInv'
<1> DEFINE n == call.name
<1>1. /\ call # Idle /\ call.does \in {"create", "update"} /\ call.at = "prompt" /\ Goes("definition")
      /\ UNCHANGED <<definition, agents, acked, doubt>>
      /\ role' = [role EXCEPT ![n] = RoleWritten]
      /\ prompts' = IF call.does = "update" THEN [prompts EXCEPT ![n] = Remembered] ELSE prompts
  BY DEF WritesPrompt, At
<1>2. /\ call \in Calling /\ call' \in Calling /\ call' # Idle /\ call'.at = "definition"
      /\ call'.does = call.does /\ call'.name = n /\ call'.wanted = call.wanted /\ call'.prompt = call.prompt
  BY <1>1, GoesTo
<1>3. /\ n \in Agent /\ call.prompt \in Prompt \cup {"none", ""}
      /\ role[n] \in {"none", "cut"} \cup Prompt /\ prompts[n] \in {"none", "cut"} \cup Prompt
  BY <1>2 DEF Calling, CatalogInv, Typed
<1>4. /\ RoleWritten \in {"none", "cut"} \cup Prompt
      /\ call.prompt = "none" => RoleWritten = role[n]
      /\ call.prompt \in Prompt => RoleWritten = call.prompt
  BY <1>3, CatalogAssumption DEF RoleWritten
<1>5. /\ Remembered \in {"none", "cut"} \cup Prompt
      /\ call.prompt = "none" => Remembered = prompts[n]
  BY <1>3, CatalogAssumption DEF Remembered
<1>6. role'[n] = RoleWritten /\ (call.does = "update" => prompts'[n] = Remembered)
      /\ (call.does = "create" => prompts' = prompts)
      /\ \A m \in Agent : m # n => role'[m] = role[m] /\ prompts'[m] = prompts[m]
  BY <1>1, <1>3 DEF CatalogInv, Typed
<1>7. Typed'
  BY <1>1, <1>2, <1>4, <1>5 DEF CatalogInv, Typed
<1>8. NoOrphans'
  BY <1>1, <1>6 DEF CatalogInv, Underway, Updated, NoOrphans
<1>9. Settled'
  BY <1>1, <1>2, <1>6, OthersSettled
<1>10. ASSUME call.does = "update", call.prompt = "none", n \notin doubt
       PROVE  prompts'[n] = IF agents'[n].prompted THEN role'[n] ELSE "none"
  <2>1. Agreed(n) /\ agents[n] # Unknown
    BY <1>1, <1>3, <1>10 DEF CatalogInv, Settled, Underway, Updated
  <2>2. Loads(n) = agents[n] /\ LoadsPrompt(n) = prompts[n]
    BY <2>1 DEF Agreed, Loaded
  <2>3. prompts[n] = IF agents[n].prompted THEN role[n] ELSE "none"
    BY <2>1, <2>2 DEF LoadsPrompt
  <2>4. QED
    BY <1>1, <1>4, <1>5, <1>6, <1>10, <2>3
<1>11. Underway'
  <2>1. CASE call.does = "create"
    BY <1>1, <1>2, <1>3, <1>4, <1>6, <2>1, CatalogAssumption DEF CatalogInv, Underway, Created
  <2>2. CASE call.does = "update"
    <3>1. Updated(n)
      BY <1>1, <2>2 DEF CatalogInv, Underway
    <3>2. agents'[n] = agents[n] /\ doubt' = doubt
      BY <1>1
    <3>3. call.prompt \in Prompt => role'[n] = call.prompt
      BY <1>4, <1>6
    <3>4. /\ call'.at # "memory" /\ agents'[n] # Unknown
          /\ call.prompt = "none" => call.wanted.prompted = agents'[n].prompted
          /\ call.prompt # "none" => (call.wanted.prompted <=> call.prompt # "")
      BY <1>2, <3>1, <3>2 DEF Updated
    <3>5. call.prompt = "none" /\ n \notin doubt' =>
             prompts'[n] = IF agents'[n].prompted THEN role'[n] ELSE "none"
      BY <1>10, <2>2, <3>2
    <3>6. Updated(n)'
      BY <1>2, <3>3, <3>4, <3>5 DEF Updated
    <3>7. QED
      BY <1>2, <2>2, <3>6 DEF Underway
  <2>3. QED
    BY <1>1, <2>1, <2>2
<1>12. QED
  BY <1>7, <1>8, <1>9, <1>11 DEF CatalogInv

LEMMA WritesDefinitionKeeps ==
  ASSUME CatalogInv, WritesDefinition
  PROVE  CatalogInv'
<1> DEFINE n == call.name
<1>1. /\ call # Idle /\ call.does \in {"create", "update"} /\ call.at = "definition" /\ Goes("memory")
      /\ UNCHANGED <<role, prompts, agents, acked, doubt>>
      /\ definition' = [definition EXCEPT ![n] = call.wanted]
  BY DEF WritesDefinition, At
<1>2. /\ call \in Calling /\ call' \in Calling /\ call' # Idle /\ call'.at = "memory"
      /\ call'.does = call.does /\ call'.name = n /\ call'.wanted = call.wanted /\ call'.prompt = call.prompt
  BY <1>1, GoesTo
<1>3. n \in Agent /\ call.wanted \in Definition
  BY <1>2 DEF Calling
<1>4. definition'[n] = call.wanted /\ \A m \in Agent : m # n => definition'[m] = definition[m]
  BY <1>1, <1>3 DEF CatalogInv, Typed
<1>5. Typed' /\ NoOrphans'
  BY <1>1, <1>2, <1>3 DEF CatalogInv, Typed, NoOrphans
<1>6. Settled'
  BY <1>1, <1>2, <1>4, OthersSettled
<1>7. Underway'
  BY <1>1, <1>2, <1>4 DEF CatalogInv, Underway, Created, Updated
<1>8. QED
  BY <1>5, <1>6, <1>7 DEF CatalogInv

LEMMA UnlinksKeep ==
  ASSUME CatalogInv, UnlinksDefinition \/ UnlinksPrompt
  PROVE  CatalogInv'
<1> DEFINE n == call.name
<1>1. /\ call # Idle /\ call.does = "delete" /\ UNCHANGED <<prompts, agents, acked, doubt>>
      /\ \/ /\ call.at = "prompt" /\ Goes("role") /\ role' = role
            /\ definition' = [definition EXCEPT ![n] = Unknown]
         \/ /\ call.at = "role" /\ Goes("memory") /\ definition' = definition
            /\ role' = [role EXCEPT ![n] = "none"]
  BY DEF UnlinksDefinition, UnlinksPrompt, At
<1>2. /\ call \in Calling /\ call' \in Calling /\ call' # Idle /\ call'.at \in {"role", "memory"}
      /\ call'.does = "delete" /\ call'.name = n
  BY <1>1, GoesTo
<1>3. n \in Agent
  BY <1>2 DEF Calling
<1>4. /\ call.at = "prompt" => definition'[n] = Unknown
      /\ call.at = "role" => definition'[n] = definition[n]
      /\ \A m \in Agent : m # n => definition'[m] = definition[m] /\ role'[m] = role[m]
  BY <1>1, <1>3 DEF CatalogInv, Typed
<1>5. Typed' /\ NoOrphans'
  BY <1>1, <1>2, <1>3 DEF CatalogInv, Typed, NoOrphans
<1>6. Settled'
  BY <1>1, <1>2, <1>4, OthersSettled
<1>7. Underway'
  BY <1>1, <1>2, <1>4 DEF CatalogInv, Underway, Removed
<1>8. QED
  BY <1>5, <1>6, <1>7 DEF CatalogInv

LEMMA AnswersKeeps ==
  ASSUME CatalogInv, Setting \subseteq Loadable, Answers
  PROVE  CatalogInv'
<1>0. PICK n \in Agent : n = call.name
  BY UnknownIs DEF Answers, At, CatalogInv, Typed, Calling
<1> DEFINE kept == IF call.does = "delete" THEN Unknown ELSE call.wanted
           prompt == IF kept = Unknown THEN "none" ELSE Remembered
<1>1. /\ call # Idle /\ call.at = "memory" /\ call' = Idle /\ UNCHANGED <<definition, role>>
      /\ agents' = [agents EXCEPT ![n] = kept] /\ prompts' = [prompts EXCEPT ![n] = prompt]
      /\ acked' = [acked EXCEPT ![n] = <<kept, prompt>>]
      /\ doubt' = IF call.does # "update" \/ call.prompt # "none" THEN doubt \ {n} ELSE doubt
  BY <1>0 DEF Answers, At
<1>2. call \in Calling /\ n \in Agent /\ call.wanted \in Definition /\ Unknown \notin Definition
      /\ call.prompt \in Prompt \cup {"none", ""}
  BY <1>0, <1>1, UnknownIs DEF CatalogInv, Typed, Calling
<1>3. prompts[n] \in {"none", "cut"} \cup Prompt /\ role[n] \in {"none", "cut"} \cup Prompt
  BY <1>2 DEF CatalogInv, Typed
<1>4. Remembered \in {"none", "cut"} \cup Prompt
  BY <1>0, <1>2, <1>3, CatalogAssumption DEF Remembered
<1>5. /\ agents'[n] = kept /\ prompts'[n] = prompt /\ acked'[n] = <<kept, prompt>>
      /\ \A m \in Agent : m # n => agents'[m] = agents[m] /\ prompts'[m] = prompts[m] /\ acked'[m] = acked[m]
  BY <1>1, <1>2 DEF CatalogInv, Typed
<1>6. kept \in {Unknown} \cup Definition /\ prompt \in {"none", "cut"} \cup Prompt
  BY <1>2, <1>4
<1>7. Typed'
  <2>1. agents' \in [Agent -> {Unknown} \cup Definition] /\ prompts' \in [Agent -> {"none", "cut"} \cup Prompt]
    BY <1>1, <1>6 DEF CatalogInv, Typed
  <2>2. acked' \in [Agent -> ({Unknown} \cup Definition) \X ({"none", "cut"} \cup Prompt)]
    <3>1. <<kept, prompt>> \in ({Unknown} \cup Definition) \X ({"none", "cut"} \cup Prompt)
      BY <1>6
    <3>2. QED
      BY <1>1, <3>1 DEF CatalogInv, Typed
  <2>3. QED
    BY <1>1, <2>1, <2>2 DEF CatalogInv, Typed
<1>8. NoOrphans'
  BY <1>2, <1>5 DEF CatalogInv, NoOrphans
<1>9. Underway'
  BY <1>1 DEF Underway
<1>10. ASSUME n \notin doubt' PROVE Loads(n)' = kept /\ LoadsPrompt(n)' = prompt
  <2>1. Loads(n)' = Loads(n) /\ LoadsPrompt(n)' = LoadsPrompt(n)
    BY <1>1, <1>2, SameFiles
  <2>2. CASE call.does = "delete"
    <3>1. definition[n] = Unknown
      BY <1>0, <1>1, <2>2 DEF CatalogInv, Underway, Removed
    <3>2. Loads(n) = Unknown /\ LoadsPrompt(n) = "none"
      BY <1>2, <3>1, LoadsType DEF CatalogInv
    <3>3. QED
      BY <2>1, <2>2, <3>2
  <2>3. CASE call.does = "create"
    <3>1. /\ definition[n] = call.wanted /\ agents[n] = Unknown /\ call.prompt # ""
          /\ (call.wanted.prompted <=> call.prompt # "none")
          /\ call.prompt # "none" => role[n] = call.prompt
      BY <1>0, <1>1, <2>3 DEF CatalogInv, Underway, Created
    <3>2. Loads(n) = kept /\ kept # Unknown
          /\ LoadsPrompt(n) = IF call.wanted.prompted THEN role[n] ELSE "none"
      BY <1>2, <2>3, <3>1, LoadsWritten DEF CatalogInv
    <3>3. prompts[n] = "none"
      BY <1>2, <3>1 DEF CatalogInv, NoOrphans
    <3>4. Remembered = LoadsPrompt(n)
      BY <1>0, <3>1, <3>2, <3>3 DEF Remembered
    <3>5. QED
      BY <2>1, <3>2, <3>4
  <2>4. CASE call.does = "update"
    <3>1. /\ definition[n] = call.wanted
          /\ call.prompt = "none" => call.wanted.prompted = agents[n].prompted
          /\ call.prompt # "none" => (call.wanted.prompted <=> call.prompt # "")
          /\ call.prompt \in Prompt => role[n] = call.prompt
          /\ call.prompt = "none" /\ n \notin doubt =>
                prompts[n] = IF agents[n].prompted THEN role[n] ELSE "none"
      BY <1>0, <1>1, <2>4 DEF CatalogInv, Underway, Updated
    <3>2. Loads(n) = kept /\ kept # Unknown
          /\ LoadsPrompt(n) = IF call.wanted.prompted THEN role[n] ELSE "none"
      BY <1>2, <2>4, <3>1, LoadsWritten DEF CatalogInv
    <3>3. call.prompt = "none" => n \notin doubt
      BY <1>1, <1>10, <2>4
    <3>4. Remembered = LoadsPrompt(n)
      BY <1>0, <1>2, <3>1, <3>2, <3>3 DEF Remembered
    <3>5. QED
      BY <2>1, <3>2, <3>4
  <2>5. QED
    BY <1>2, <2>2, <2>3, <2>4 DEF Calling
<1>11. Settled'
  <2>1. ASSUME NEW m \in Agent \ doubt', m # n PROVE Agreed(m)'
    <3>1. m \notin doubt
      BY <1>1, <2>1
    <3>2. QED
      BY <1>0, <1>1, <1>5, <2>1, <3>1, SameAgreed DEF CatalogInv, Settled
  <2>2. ASSUME n \notin doubt' PROVE Agreed(n)'
    BY <1>5, <1>10, <2>2 DEF Agreed, Loaded
  <2>3. QED
    BY <2>1, <2>2 DEF Settled
<1>12. QED
  BY <1>7, <1>8, <1>9, <1>11 DEF CatalogInv

\* only the files of the agent that a call is on are torn
LEMMA TearsOnly ==
  ASSUME CatalogInv, Tears
  PROVE  /\ definition' \in [Agent -> {Unknown, Torn} \cup Definition]
         /\ role' \in [Agent -> {"none", "cut"} \cup Prompt]
         /\ \A m \in Agent : call = Idle \/ m # call.name => definition'[m] = definition[m] /\ role'[m] = role[m]
<1>1. role' = role \/ (call # Idle /\ role' = [role EXCEPT ![call.name] = "cut"])
  BY DEF Tears, At
<1>2. definition' = definition \/ (call # Idle /\ definition' = [definition EXCEPT ![call.name] = Torn])
  BY DEF Tears, At
<1>3. QED
  BY <1>1, <1>2 DEF CatalogInv, Typed

LEMMA FailsKeeps ==
  ASSUME CatalogInv, Fails
  PROVE  CatalogInv'
<1>1. /\ call # Idle /\ Tears /\ call' = Idle /\ doubt' = doubt \cup {call.name}
      /\ UNCHANGED <<agents, prompts, acked>>
  BY DEF Fails
<1>2. Typed' /\ NoOrphans' /\ Underway'
  BY <1>1, TearsOnly DEF CatalogInv, Typed, NoOrphans, Underway
<1>3. ASSUME NEW m \in Agent \ doubt' PROVE Agreed(m)'
  BY <1>1, <1>3, TearsOnly, SameAgreed DEF CatalogInv, Settled
<1>4. QED
  BY <1>2, <1>3 DEF CatalogInv, Settled

LEMMA RestartsKeeps ==
  ASSUME CatalogInv, Restarts
  PROVE  CatalogInv'
<1> DEFINE unsure == doubt \cup (IF call = Idle THEN {} ELSE {call.name})
<1>1. /\ Tears /\ call' = Idle /\ doubt' = {}
      /\ agents' = [n \in Agent |-> Loads(n)'] /\ prompts' = [n \in Agent |-> LoadsPrompt(n)']
      /\ acked' = [n \in Agent |-> IF n \in unsure THEN Loaded(n)' ELSE acked[n]]
  BY DEF Restarts
<1>2. ASSUME NEW n \in Agent
      PROVE  /\ Loads(n)' \in {Unknown} \cup Definition
             /\ LoadsPrompt(n)' \in {"none", "cut"} \cup Prompt
             /\ Loads(n)' = Unknown => LoadsPrompt(n)' = "none"
  <2>1. definition'[n] \in {Unknown, Torn} \cup Definition /\ role'[n] \in {"none", "cut"} \cup Prompt
    BY <1>1, TearsOnly
  <2>2. Loads(n)' \in {Unknown} \cup Definition
    BY <2>1, UnknownIs DEF Loads
  <2>3. QED
    BY <2>1, <2>2 DEF LoadsPrompt
<1>3. ASSUME NEW n \in Agent PROVE acked'[n] = Loaded(n)'
  <2>1. CASE n \in unsure
    BY <1>1, <2>1
  <2>2. CASE n \notin unsure
    <3>1. Agreed(n) /\ acked'[n] = acked[n]
      BY <1>1, <2>2 DEF CatalogInv, Settled
    <3>2. Loaded(n)' = Loaded(n)
      BY <1>1, <2>2, TearsOnly, SameFiles
    <3>3. QED
      BY <3>1, <3>2 DEF Agreed
  <2>3. QED
    BY <2>1, <2>2
<1>4. Typed'
  <2>1. ASSUME NEW n \in Agent
        PROVE acked'[n] \in ({Unknown} \cup Definition) \X ({"none", "cut"} \cup Prompt)
    BY <1>2, <1>3 DEF Loaded
  <2>2. acked' \in [Agent -> ({Unknown} \cup Definition) \X ({"none", "cut"} \cup Prompt)]
    BY <1>1, <2>1
  <2>3. QED
    BY <1>1, <1>2, <2>2, TearsOnly DEF Typed
<1>5. NoOrphans' /\ Underway'
  BY <1>1, <1>2 DEF NoOrphans, Underway
<1>6. Settled'
  BY <1>1, <1>3 DEF Settled, Agreed, Loaded
<1>7. QED
  BY <1>4, <1>5, <1>6 DEF CatalogInv

LEMMA NextKeepsCatalog == CatalogInv /\ Setting \subseteq Loadable /\ [CatalogNext]_catalogVars => CatalogInv'
<1> SUFFICES ASSUME CatalogInv, Setting \subseteq Loadable, [CatalogNext]_catalogVars PROVE CatalogInv'
  OBVIOUS
<1>1. CASE UNCHANGED catalogVars
  <2>1. /\ UNCHANGED <<definition, role, agents, prompts, call, acked, doubt>>
    BY <1>1 DEF catalogVars
  <2>2. \A n \in Agent : Agreed(n) => Agreed(n)'
    BY <2>1, SameAgreed
  <2>3. QED
    BY <2>1, <2>2 DEF CatalogInv, Typed, Underway, Created, Updated, Removed, Settled, NoOrphans
<1>2. ASSUME NEW n \in Agent, NEW s \in Setting, NEW p \in Prompt \cup {"none"}, Creates(n, s, p)
      PROVE CatalogInv'
  BY <1>2, CallsKeep
<1>3. ASSUME NEW n \in Agent, NEW s \in Setting, NEW p \in Prompt \cup {"none", ""}, Updates(n, s, p)
      PROVE CatalogInv'
  BY <1>3, CallsKeep
<1>4. ASSUME NEW n \in Agent, Deletes(n) PROVE CatalogInv'
  BY <1>4, CallsKeep
<1>5. CASE WritesPrompt \/ WritesDefinition \/ UnlinksDefinition \/ UnlinksPrompt \/ Answers
  BY <1>5, WritesPromptKeeps, WritesDefinitionKeeps, UnlinksKeep, AnswersKeeps
<1>6. CASE Fails \/ Restarts
  BY <1>6, FailsKeeps, RestartsKeeps
<1>7. QED
  BY <1>1, <1>2, <1>3, <1>4, <1>5, <1>6 DEF CatalogNext

\* Where every setting that is given can be loaded again, what was answered
\* lasts, for every agent that no later call has failed on: in memory, through
\* any restarts, and whatever happened to the files of the others.
THEOREM AnsweredLasts == Setting \subseteq Loadable => (CatalogSpec => []CatalogLasts)
<1> SUFFICES ASSUME Setting \subseteq Loadable PROVE CatalogSpec => []CatalogLasts
  OBVIOUS
<1>1. CatalogInit => CatalogInv
  BY InitCatalogInv
<1>2. CatalogInv /\ [CatalogNext]_catalogVars => CatalogInv'
  BY NextKeepsCatalog
<1>3. CatalogInv => CatalogLasts
  BY DEF CatalogInv, Settled, CatalogLasts, Agreed
<1>4. QED
  BY <1>1, <1>2, <1>3, PTL DEF CatalogSpec

-----------------------------------------------------------------------------
(***************************************************************************)
(* The addresses of docker sessions                                        *)
(***************************************************************************)

BoxOf(T) == [state : {"none", "made", "up"}, terminal : T, custom : T]
EntryOf(T) == [role : Role \cup {"none"}, port : T]
JobOf(T) == [does : {"create", "start", "delete"}, at : {"scan", "clear", "make", "run", "stop", "pop"},
             name : Name, role : Role \cup {"none"}, old : Role \cup {"none"}, port : T, custom : T]

\* T: the ports there are.  (Whether the scan finds one is another question.)
TypedIn(T) ==
  /\ 0 \in T /\ FirstPort \in T /\ Custom \subseteq T
  /\ box \in [Box -> BoxOf(T)] /\ entry \in [Name -> EntryOf(T)]
  /\ job \in [Job -> JobOf(T) \cup {NotAsked, Finished}]
PortsTyped == \E T : TypedIn(T)

\* The container an entry is about, running or not, has the entry's port.
EntryIsRight ==
  \A n \in Name :
    LET b == <<entry[n].role, n>> IN
    entry[n].role \in Role /\ box[b].state # "none" => entry[n].port = box[b].terminal

PortsInv == PortsTyped /\ EntryIsRight

LEMMA AddressFollows == PortsInv => AddressIsOwn
<1> SUFFICES ASSUME PortsInv, NEW n \in Name, <<entry[n].role, n>> \in Up
             PROVE  Endpoint(n) = box[<<entry[n].role, n>>].terminal
  BY DEF AddressIsOwn
<1>1. entry[n].role \in Role /\ box[<<entry[n].role, n>>].state = "up"
  BY DEF Up, Box
<1>2. QED
  BY <1>1 DEF PortsInv, EntryIsRight, Endpoint

LEMMA InitPortsInv == PortsInit => PortsInv
<1> SUFFICES ASSUME PortsInit PROVE PortsInv
  OBVIOUS
<1>1. PICK T : 0 \in T /\ FirstPort \in T /\ Custom \subseteq T
  <2>1. 0 \in Nat /\ FirstPort \in Nat /\ Custom \subseteq Nat
    BY PortsAssumption
  <2>2. QED
    BY <2>1
<1>2. NoBox \in BoxOf(T) /\ NoEntry \in EntryOf(T) /\ NoEntry.role \notin Role
  BY <1>1, PortsAssumption DEF NoBox, NoEntry, BoxOf, EntryOf
<1>3. TypedIn(T)
  BY <1>1, <1>2 DEF PortsInit, TypedIn
<1>4. EntryIsRight
  BY <1>2 DEF PortsInit, EntryIsRight
<1>5. QED
  BY <1>3, <1>4 DEF PortsInv, PortsTyped

\* a request goes on to the next of its steps, or ends
LEMMA JobMoves ==
  ASSUME NEW T, TypedIn(T), NEW j \in Job,
         NEW at \in {"scan", "clear", "make", "run", "stop", "pop"},
         JobEnds(j) \/ (job[j].does \in {"create", "start", "delete"} /\ JobGoes(j, at))
  PROVE  job' \in [Job -> JobOf(T) \cup {NotAsked, Finished}]
<1>1. job \in [Job -> JobOf(T) \cup {NotAsked, Finished}]
  BY DEF TypedIn
<1>2. CASE JobEnds(j)
  BY <1>1, <1>2 DEF JobEnds
<1>3. CASE job[j].does \in {"create", "start", "delete"} /\ JobGoes(j, at)
  <2>1. job[j] \in JobOf(T)
    BY <1>1, <1>3 DEF NotAsked, Finished
  <2>2. [job[j] EXCEPT !.at = at] \in JobOf(T)
    BY <2>1 DEF JobOf
  <2>3. job' = [job EXCEPT ![j] = [job[j] EXCEPT !.at = at]]
    BY <1>1, <1>3 DEF JobGoes
  <2>4. QED
    BY <1>1, <2>2, <2>3
<1>4. QED
  BY <1>2, <1>3

\* What is made, started, stopped or removed keeps its terminal's port.
BoxesKeep ==
  \A b \in Box : box'[b].state # "none" => box[b].state # "none" /\ box'[b].terminal = box[b].terminal

LEMMA BoxChanges ==
  ASSUME NEW T, TypedIn(T), EntryIsRight, box' \in [Box -> BoxOf(T)], BoxesKeep,
         job' \in [Job -> JobOf(T) \cup {NotAsked, Finished}], UNCHANGED entry
  PROVE  PortsInv'
<1>1. TypedIn(T)'
  BY DEF TypedIn
<1>2. ASSUME NEW n \in Name, entry[n].role \in Role, box'[<<entry[n].role, n>>].state # "none"
      PROVE  entry[n].port = box'[<<entry[n].role, n>>].terminal
  <2>1. <<entry[n].role, n>> \in Box
    BY <1>2 DEF Box
  <2>2. QED
    BY <1>2, <2>1 DEF BoxesKeep, EntryIsRight
<1>3. EntryIsRight'
  BY <1>2 DEF EntryIsRight
<1>4. QED
  BY <1>1, <1>3 DEF PortsInv, PortsTyped

LEMMA BoxSame ==
  ASSUME NEW T, TypedIn(T), UNCHANGED box
  PROVE  box' \in [Box -> BoxOf(T)] /\ BoxesKeep
  BY DEF TypedIn, BoxesKeep

LEMMA BoxGone ==
  ASSUME NEW T, TypedIn(T), NEW b, box' = [box EXCEPT ![b] = NoBox]
  PROVE  box' \in [Box -> BoxOf(T)] /\ BoxesKeep
<1>1. box \in [Box -> BoxOf(T)] /\ NoBox \in BoxOf(T) /\ NoBox.state = "none"
  BY DEF TypedIn, NoBox, BoxOf
<1>2. box' \in [Box -> BoxOf(T)]
  BY <1>1
<1>3. \A c \in Box : box'[c] = box[c] \/ box'[c] = NoBox
  BY <1>1
<1>4. QED
  BY <1>1, <1>2, <1>3 DEF BoxesKeep

LEMMA BoxState ==
  ASSUME NEW T, TypedIn(T), NEW b, NEW s \in {"made", "up"}, b \in Box => box[b].state # "none",
         box' = [box EXCEPT ![b].state = s]
  PROVE  box' \in [Box -> BoxOf(T)] /\ BoxesKeep
<1>1. box \in [Box -> BoxOf(T)]
  BY DEF TypedIn
<1>2. ASSUME NEW c \in Box
      PROVE  box'[c] \in BoxOf(T) /\ box'[c].terminal = box[c].terminal
             /\ (box'[c].state # "none" => box[c].state # "none")
  <2>1. box[c] \in BoxOf(T)
    BY <1>1
  <2>2. CASE c = b
    <3>1. box'[c] = [box[c] EXCEPT !.state = s]
      BY <1>1, <2>2
    <3>2. QED
      BY <2>1, <2>2, <3>1 DEF BoxOf
  <2>3. CASE c # b
    BY <1>1, <2>1, <2>3
  <2>4. QED
    BY <2>2, <2>3
<1>3. box' \in [Box -> BoxOf(T)]
  <2>1. box' = [c \in Box |-> box'[c]]
    BY <1>1
  <2>2. QED
    BY <1>2, <2>1
<1>4. QED
  BY <1>2, <1>3 DEF BoxesKeep

LEMMA FallsBackKeeps ==
  ASSUME NEW T, TypedIn(T), NEW j \in Job, FallsBack(j)
  PROVE  box' \in [Box -> BoxOf(T)] /\ BoxesKeep
<1>1. PICK b : b = <<job[j].old, job[j].name>>
  OBVIOUS
<1>2. UNCHANGED box \/ (box[b].state = "made" /\ box' = [box EXCEPT ![b].state = "up"])
  BY <1>1 DEF FallsBack, CanStart, Start
<1>3. QED
  BY <1>2, BoxSame, BoxState

LEMMA RequestsKeep ==
  ASSUME PortsInv, NEW j \in Job,
         Clears(j) \/ Runs(j) \/ Refused(j) \/ Raises(j) \/ Removes(j)
  PROVE  PortsInv'
<1>1. PICK T : TypedIn(T)
  BY DEF PortsInv, PortsTyped
<1>2. EntryIsRight /\ UNCHANGED entry
  BY DEF PortsInv, Clears, Runs, Refused, Raises, Removes
<1>3. JobEnds(j) \/ (job[j].does \in {"create", "start", "delete"} /\ (JobGoes(j, "make") \/ JobGoes(j, "pop")))
  BY DEF Clears, Runs, Refused, Raises, Removes, JobAt
<1>4. job' \in [Job -> JobOf(T) \cup {NotAsked, Finished}]
  BY <1>1, <1>3, JobMoves
<1>5. box' \in [Box -> BoxOf(T)] /\ BoxesKeep
  <2>1. CASE Clears(j)
    BY <1>1, <2>1, BoxGone DEF Clears
  <2>2. CASE Runs(j)
    BY <1>1, <2>2, BoxSame, BoxState DEF Runs, CanStart, Start
  <2>3. CASE Refused(j) \/ Raises(j)
    BY <1>1, <2>3, FallsBackKeeps DEF Refused, Raises
  <2>4. CASE Removes(j)
    <3>1. PICK b : b = Mine(j)
      OBVIOUS
    <3>2. \/ UNCHANGED box \/ box' = [box EXCEPT ![b] = NoBox]
          \/ box' = [box EXCEPT ![b].state = IF @ = "up" THEN "made" ELSE @]
      BY <2>4, <3>1 DEF Removes
    <3>3. CASE box' = [box EXCEPT ![b].state = IF @ = "up" THEN "made" ELSE @]
      <4>0. box \in [Box -> BoxOf(T)]
        BY <1>1 DEF TypedIn
      <4>1. CASE b \in Box /\ box[b].state = "up"
        <5>1. box' = [box EXCEPT ![b].state = "made"]
          BY <3>3, <4>0, <4>1
        <5>2. QED
          BY <1>1, <4>1, <5>1, BoxState
      <4>2. CASE b \in Box /\ box[b].state # "up"
        <5>1. box'[b] = box[b]
          BY <3>3, <4>0, <4>2 DEF BoxOf
        <5>2. UNCHANGED box
          BY <3>3, <4>0, <5>1
        <5>3. QED
          BY <1>1, <5>2, BoxSame
      <4>3. CASE b \notin Box
        <5>1. UNCHANGED box
          BY <3>3, <4>0, <4>3
        <5>2. QED
          BY <1>1, <5>1, BoxSame
      <4>4. QED
        BY <4>1, <4>2, <4>3
    <3>4. QED
      BY <1>1, <3>2, <3>3, BoxSame, BoxGone
  <2>5. QED
    BY <2>1, <2>2, <2>3, <2>4
<1>6. QED
  BY <1>1, <1>2, <1>4, <1>5, BoxChanges

LEMMA AsksKeep ==
  ASSUME PortsInv, NEW j \in Job, NEW n \in Name,
         Deleted(j, n) \/ Scans(j) \/ \E r \in Role, c \in Custom \cup {0} : Asked(j, n, r, c)
  PROVE  PortsInv'
<1>1. PICK T : TypedIn(T)
  BY DEF PortsInv, PortsTyped
<1>2. EntryIsRight /\ UNCHANGED <<entry, box>>
  BY DEF PortsInv, Deleted, Scans, Asked
<1>3. job \in [Job -> JobOf(T) \cup {NotAsked, Finished}] /\ 0 \in T /\ entry \in [Name -> EntryOf(T)]
      /\ Custom \subseteq T
  BY <1>1 DEF TypedIn
<1>4. CASE Deleted(j, n)
  <2>1. entry[n].role \in Role \cup {"none"}
    BY <1>3 DEF EntryOf
  <2>2. PICK at \in {"pop", "stop"} : at = IF entry[n] = NoEntry THEN "pop" ELSE "stop"
    OBVIOUS
  <2>3. PICK new \in JobOf(T) : new = [does |-> "delete", at |-> at, name |-> n, role |-> entry[n].role,
                                       old |-> entry[n].role, port |-> 0, custom |-> 0]
    BY <1>3, <2>1 DEF JobOf
  <2>4. job' = [job EXCEPT ![j] = new]
    BY <1>4, <2>2, <2>3 DEF Deleted
  <2>5. job' \in [Job -> JobOf(T) \cup {NotAsked, Finished}]
    BY <1>3, <2>3, <2>4
  <2>6. QED
    BY <1>1, <1>2, <2>5, BoxSame, BoxChanges
<1>5. CASE \E r \in Role, c \in Custom \cup {0} : Asked(j, n, r, c)
  <2>1. PICK r \in Role, c \in Custom \cup {0} : Asked(j, n, r, c)
    BY <1>5
  <2>2. PICK new \in JobOf(T) : new = [does |-> "create", at |-> "scan", name |-> n, role |-> r, old |-> r,
                                       port |-> 0, custom |-> c]
    BY <1>3 DEF JobOf
  <2>3. PICK started \in JobOf(T) : started = [does |-> "start", at |-> "scan", name |-> n,
                                               role |-> DefaultRole, old |-> r, port |-> 0, custom |-> 0]
    BY <1>3, PortsAssumption DEF JobOf
  <2>4. job' = [job EXCEPT ![j] = new] \/ job' = [job EXCEPT ![j] = started]
    BY <2>1, <2>2, <2>3 DEF Asked
  <2>5. job' \in [Job -> JobOf(T) \cup {NotAsked, Finished}]
    BY <1>3, <2>2, <2>3, <2>4
  <2>6. QED
    BY <1>1, <1>2, <2>5, BoxSame, BoxChanges
<1>6. CASE Scans(j)
  <2>1. PICK p : job' = [job EXCEPT ![j].at = "clear", ![j].port = p]
    BY <1>6 DEF Scans
  <2>2. job[j] \in JobOf(T)
    BY <1>3, <1>6 DEF Scans, JobAt, NotAsked, Finished
  <2>3. PICK U : U = T \cup {p}
    OBVIOUS
  <2>4. job[j] \in JobOf(U) /\ \A x \in JobOf(T) : x \in JobOf(U)
    BY <2>2, <2>3 DEF JobOf
  <2>5. \A x \in BoxOf(T) : x \in BoxOf(U)
    BY <2>3 DEF BoxOf
  <2>6. \A x \in EntryOf(T) : x \in EntryOf(U)
    BY <2>3 DEF EntryOf
  <2>7. TypedIn(U)
    BY <1>1, <2>3, <2>4, <2>5, <2>6 DEF TypedIn
  <2>8. PICK new \in JobOf(U) : new = [job[j] EXCEPT !.at = "clear", !.port = p]
    BY <2>3, <2>4 DEF JobOf
  <2>9. job' = [job EXCEPT ![j] = new]
    BY <1>3, <2>1, <2>8
  <2>10. job' \in [Job -> JobOf(U) \cup {NotAsked, Finished}]
    BY <2>7, <2>8, <2>9 DEF TypedIn
  <2>11. QED
    BY <1>2, <2>7, <2>10, BoxSame, BoxChanges
<1>7. QED
  BY <1>4, <1>5, <1>6

LEMMA MakesKeeps ==
  ASSUME PortsInv, NEW j \in Job, Makes(j)
  PROVE  PortsInv'
<1>1. PICK T : TypedIn(T)
  BY DEF PortsInv, PortsTyped
<1>2. box \in [Box -> BoxOf(T)] /\ entry \in [Name -> EntryOf(T)]
      /\ job \in [Job -> JobOf(T) \cup {NotAsked, Finished}]
  BY <1>1 DEF TypedIn
<1>3. job[j] \in JobOf(T) /\ job[j].does \in {"create", "start"}
  BY <1>2 DEF Makes, JobAt, NotAsked, Finished
<1>4. PICK r, n, p, c : r = job[j].role /\ n = job[j].name /\ p = job[j].port /\ c = job[j].custom
  OBVIOUS
<1>5. r \in Role \cup {"none"} /\ n \in Name /\ p \in T /\ c \in T
  BY <1>3, <1>4 DEF JobOf
<1>6. PICK made \in BoxOf(T) : made = [state |-> "made", terminal |-> p, custom |-> c]
  BY <1>5 DEF BoxOf
<1>7. PICK new \in EntryOf(T) : new = [role |-> r, port |-> p]
  BY <1>5 DEF EntryOf
<1>8. box' = [box EXCEPT ![<<r, n>>] = made] /\ entry' = [entry EXCEPT ![n] = new]
  BY <1>4, <1>6, <1>7 DEF Makes, Mine
<1>9. job' \in [Job -> JobOf(T) \cup {NotAsked, Finished}]
  BY <1>1, <1>3, JobMoves DEF Makes
<1>10. box' \in [Box -> BoxOf(T)] /\ entry' \in [Name -> EntryOf(T)]
  BY <1>2, <1>6, <1>7, <1>8
<1>11. TypedIn(T)'
  BY <1>1, <1>9, <1>10 DEF TypedIn
<1>12. ASSUME NEW m \in Name, entry'[m].role \in Role, box'[<<entry'[m].role, m>>].state # "none"
       PROVE  entry'[m].port = box'[<<entry'[m].role, m>>].terminal
  <2>1. CASE m = n
    <3>1. entry'[m] = new /\ entry'[m].role = r /\ entry'[m].port = p
      BY <1>2, <1>7, <1>8, <2>1
    <3>2. <<r, n>> \in Box
      BY <1>5, <1>12, <3>1 DEF Box
    <3>3. box'[<<r, n>>] = made
      BY <1>2, <1>8, <3>2
    <3>4. QED
      BY <1>6, <2>1, <3>1, <3>3
  <2>2. CASE m # n
    <3>1. entry'[m] = entry[m]
      BY <1>2, <1>8, <2>2
    <3>2. <<entry[m].role, m>> # <<r, n>> /\ <<entry[m].role, m>> \in Box
      BY <1>12, <2>2, <3>1 DEF Box
    <3>3. box'[<<entry[m].role, m>>] = box[<<entry[m].role, m>>]
      BY <1>2, <1>8, <3>2
    <3>4. QED
      BY <1>12, <3>1, <3>3 DEF PortsInv, EntryIsRight
  <2>3. QED
    BY <2>1, <2>2
<1>13. EntryIsRight'
  BY <1>12 DEF EntryIsRight
<1>14. QED
  BY <1>11, <1>13 DEF PortsInv, PortsTyped

\* An entry that is dropped, and those a restart finds; the first port of a
\* container is its terminal's unless a custom one is listed before it.
LEMMA EntriesKeep ==
  ASSUME PortsInv, ~CustomFirst, HubRestarts \/ \E j \in Job : PopsEntry(j)
  PROVE  PortsInv'
<1>1. PICK T : TypedIn(T)
  BY DEF PortsInv, PortsTyped
<1>2. box \in [Box -> BoxOf(T)] /\ entry \in [Name -> EntryOf(T)]
      /\ job \in [Job -> JobOf(T) \cup {NotAsked, Finished}] /\ UNCHANGED box
  BY <1>1 DEF TypedIn, HubRestarts, PopsEntry
<1>3. NoEntry \in EntryOf(T) /\ NoEntry.role \notin Role
  BY <1>1, PortsAssumption DEF NoEntry, EntryOf, TypedIn
<1>4. job' \in [Job -> JobOf(T) \cup {NotAsked, Finished}]
  <2>1. CASE HubRestarts
    BY <1>2, <2>1 DEF HubRestarts
  <2>2. ASSUME NEW j \in Job, PopsEntry(j) PROVE job' \in [Job -> JobOf(T) \cup {NotAsked, Finished}]
    BY <1>1, <2>2, JobMoves DEF PopsEntry
  <2>3. QED
    BY <2>1, <2>2
<1>5. ASSUME NEW n \in Name, NEW x \in Recovered(n)
      PROVE  x \in EntryOf(T) /\ (x.role \in Role => x.port = box[<<x.role, n>>].terminal)
  <2>1. CASE x = NoEntry
    BY <1>3, <2>1
  <2>2. CASE x # NoEntry
    <3>1. PICK r \in Role : x = [role |-> r, port |-> FirstListed(<<r, n>>)]
      BY <2>2 DEF Recovered
    <3>2. FirstListed(<<r, n>>) = box[<<r, n>>].terminal
      BY DEF FirstListed
    <3>3. box[<<r, n>>].terminal \in T
      BY <1>2 DEF Box, BoxOf
    <3>4. QED
      BY <3>1, <3>2, <3>3 DEF EntryOf
  <2>3. QED
    BY <2>1, <2>2
<1>6. /\ DOMAIN entry' = Name
      /\ \A n \in Name : entry'[n] \in {entry[n], NoEntry} \cup Recovered(n)
  <2>1. CASE HubRestarts
    <3>1. PICK e \in [Name -> UNION {Recovered(n) : n \in Name}] :
            (\A n \in Name : e[n] \in Recovered(n)) /\ entry' \in {e, [n \in Name |-> NoEntry]}
      BY <2>1 DEF HubRestarts
    <3>2. QED
      BY <3>1
  <2>2. CASE \E j \in Job : PopsEntry(j)
    BY <1>2, <2>2 DEF PopsEntry
  <2>3. QED
    BY <2>1, <2>2
<1>7. entry' \in [Name -> EntryOf(T)]
  <2>1. entry' = [n \in Name |-> entry'[n]]
    <3>1. CASE HubRestarts
      <4>1. PICK e \in [Name -> UNION {Recovered(n) : n \in Name}] :
              (\A n \in Name : e[n] \in Recovered(n)) /\ entry' \in {e, [n \in Name |-> NoEntry]}
        BY <3>1 DEF HubRestarts
      <4>2. QED
        BY <4>1
    <3>2. CASE \E j \in Job : PopsEntry(j)
      BY <1>2, <3>2 DEF PopsEntry
    <3>3. QED
      BY <3>1, <3>2
  <2>2. \A n \in Name : entry'[n] \in EntryOf(T)
    BY <1>2, <1>3, <1>5, <1>6
  <2>3. QED
    BY <2>1, <2>2
<1>8. ASSUME NEW n \in Name, entry'[n].role \in Role, box[<<entry'[n].role, n>>].state # "none"
      PROVE  entry'[n].port = box[<<entry'[n].role, n>>].terminal
  <2>1. CASE entry'[n] = entry[n]
    BY <1>8, <2>1 DEF PortsInv, EntryIsRight
  <2>2. CASE entry'[n] \in Recovered(n)
    BY <1>5, <1>8, <2>2
  <2>3. QED
    BY <1>3, <1>6, <1>8, <2>1, <2>2
<1>9. QED
  BY <1>1, <1>2, <1>4, <1>7, <1>8 DEF PortsInv, PortsTyped, TypedIn, EntryIsRight

\* While the container a session's entry is about runs, the terminal proxy is
\* sent to that container's own terminal, however creates of one name and role,
\* deletes that fail half-way and restarts interleave; provided docker lists no
\* custom port before the terminal's (_session_endpoint, provision, recycle,
\* recover_sessions_from_docker).
THEOREM AddressesAreOwn == ~CustomFirst => (PortsSpec => []AddressIsOwn)
<1> SUFFICES ASSUME ~CustomFirst PROVE PortsSpec => []AddressIsOwn
  OBVIOUS
<1>1. PortsInit => PortsInv
  BY InitPortsInv
<1>2. PortsInv /\ [PortsNext]_portVars => PortsInv'
  <2> SUFFICES ASSUME PortsInv, [PortsNext]_portVars PROVE PortsInv'
    OBVIOUS
  <2>1. CASE UNCHANGED portVars
    BY <2>1 DEF portVars, PortsInv, PortsTyped, TypedIn, EntryIsRight
  <2>2. ASSUME NEW j \in Job, NEW n \in Name, NEW r \in Role, NEW c \in Custom \cup {0}, Asked(j, n, r, c)
        PROVE  PortsInv'
    BY <2>2, AsksKeep
  <2>3. ASSUME NEW j \in Job, Scans(j) PROVE PortsInv'
    <3>1. job[j].name \in Name
      <4>1. PICK T : TypedIn(T)
        BY DEF PortsInv, PortsTyped
      <4>2. job[j] \in JobOf(T)
        BY <2>3, <4>1 DEF TypedIn, Scans, JobAt, NotAsked, Finished
      <4>3. QED
        BY <4>2 DEF JobOf
    <3>2. QED
      BY <2>3, <3>1, AsksKeep
  <2>4. ASSUME NEW j \in Job, NEW n \in Name, Deleted(j, n) PROVE PortsInv'
    BY <2>4, AsksKeep
  <2>5. ASSUME NEW j \in Job, Clears(j) \/ Runs(j) \/ Refused(j) \/ Raises(j) \/ Removes(j) PROVE PortsInv'
    BY <2>5, RequestsKeep
  <2>6. ASSUME NEW j \in Job, Makes(j) PROVE PortsInv'
    BY <2>6, MakesKeeps
  <2>7. ASSUME HubRestarts \/ \E j \in Job : PopsEntry(j) PROVE PortsInv'
    BY <2>7, EntriesKeep
  <2>8. QED
    BY <2>1, <2>2, <2>3, <2>4, <2>5, <2>6, <2>7 DEF PortsNext
<1>3. PortsInv => AddressIsOwn
  BY AddressFollows
<1>4. QED
  BY <1>1, <1>2, <1>3, PTL DEF PortsSpec

-----------------------------------------------------------------------------
(***************************************************************************)
(* Bearers of tokens and tickets                                           *)
(***************************************************************************)

(* The inductive invariant *)

Inquiry ==
  [at : {"strict", "widened", "scope", "acts", "served", "refused"},
   does : {"read", "write", "join"}, by : Bearer \cup {"key"},
   asks : Profile \cup {"none"}, room : Profile, scope : Profile \cup {"none"}, valid : BOOLEAN]

\* what an inquiry under a token has been found to be by the time it is there
Granted(i) == Grants[i.by] \cap {"messaging", IF i.does = "join" THEN "write" ELSE i.does} # {}
OwnScope(i) == BoundTo[i.by] \in {"none", i.scope}

UnderToken(i) ==
  /\ i.by \in minted
  /\ i.valid \/ i.by \notin rows \cup holders
  /\ i.at \in {"widened", "scope", "acts", "served"} => i.valid
  /\ i.at \in {"scope", "acts", "served"} => Granted(i)
  /\ i.at \in {"acts", "served"} => OwnScope(i)
  /\ i.at = "served" => i.room = i.scope

UnderKey(i) == i.does = "join" => i.at \in {"strict", "refused"}

Fits(i) == i = NoInquiry \/ (i \in Inquiry /\ IF i.by = "key" THEN UnderKey(i) ELSE UnderToken(i))

TokensKnown == minted \subseteq Bearer /\ rows \cup holders \subseteq minted
InquiriesFit == inquiry \in [Request -> {NoInquiry} \cup Inquiry] /\ \A q \in Request : Fits(inquiry[q])
RosterFits == \A entered \in roster : BoundTo[entered[2]] \in {"none", entered[1]}

\* a ticket that was claimed is gone, and is never started again
ClaimsFit ==
  /\ ticket \in [Ticket -> {"none", "open", "late", "gone"}]
  /\ \A one \in claims : one.of \in Ticket /\ one.at = "open" /\ ticket[one.of] = "gone"
  /\ \A one, other \in claims : other.of = one.of => other = one

BearersInv == TokensKnown /\ InquiriesFit /\ RosterFits /\ ClaimsFit

LEMMA InitBearersInv == BearersInit => BearersInv
  BY DEF BearersInit, BearersInv, TokensKnown, InquiriesFit, Fits, RosterFits, ClaimsFit

-----------------------------------------------------------------------------
(* It is preserved *)

\* Tokens come and go: one that is gone does not come back, so an inquiry that
\* came without a good one does not find it good later.
LEMMA TokensChange ==
  ASSUME BearersInv, TokensKnown', minted \subseteq minted',
         (rows' \cup holders') \cap minted \subseteq rows \cup holders,
         UNCHANGED inquiry
  PROVE  InquiriesFit'
<1>1. SUFFICES ASSUME NEW q \in Request PROVE Fits(inquiry[q])'
  BY DEF BearersInv, InquiriesFit
<1>2. Fits(inquiry[q])
  BY DEF BearersInv, InquiriesFit
<1>3. QED
  BY <1>2 DEF Fits, UnderToken, UnderKey, Granted, OwnScope

LEMMA TokenSteps ==
  ASSUME BearersInv, NEW t \in Bearer,
         MintsProfileToken(t) \/ RevokesProfileToken(t) \/ TaskIsGiven(t) \/ TaskTokenEnds(t)
  PROVE  BearersInv'
<1>1. /\ TokensKnown' /\ minted \subseteq minted'
      /\ (rows' \cup holders') \cap minted \subseteq rows \cup holders
  BY DEF BearersInv, TokensKnown, Bearer, MintsProfileToken, RevokesProfileToken, TaskIsGiven,
         TaskTokenEnds
<1>2. UNCHANGED <<inquiry, roster, ticket, claims>>
  BY DEF MintsProfileToken, RevokesProfileToken, TaskIsGiven, TaskTokenEnds
<1>3. InquiriesFit'
  BY <1>1, <1>2, TokensChange
<1>4. QED
  BY <1>1, <1>2, <1>3 DEF BearersInv, RosterFits, ClaimsFit

\* one inquiry becomes another that fits
LEMMA OneChanges ==
  ASSUME BearersInv, NEW q \in Request, NEW i \in Inquiry, Fits(i),
         inquiry' = [inquiry EXCEPT ![q] = i], UNCHANGED <<rows, holders, minted>>
  PROVE  TokensKnown' /\ InquiriesFit'
<1>1. inquiry' \in [Request -> {NoInquiry} \cup Inquiry]
  BY DEF BearersInv, InquiriesFit
<1>2. ASSUME NEW k \in Request PROVE Fits(inquiry[k])'
  <2>1. inquiry'[k] = IF k = q THEN i ELSE inquiry[k]
    BY DEF BearersInv, InquiriesFit
  <2>2. Fits(inquiry[k])
    BY DEF BearersInv, InquiriesFit
  <2>3. QED
    BY <2>1, <2>2 DEF Fits, UnderToken, UnderKey, Granted, OwnScope
<1>3. QED
  BY <1>1, <1>2 DEF BearersInv, TokensKnown, InquiriesFit

LEMMA BeginsFits ==
  ASSUME BearersInv, NEW q \in Request, NEW does \in {"read", "write", "join"},
         NEW by \in minted \cup {"key"}, NEW asks \in Profile \cup {"none"}, NEW room \in Profile,
         Begins(q, does, by, asks, room)
  PROVE  TokensKnown' /\ InquiriesFit'
<1>1. PICK i : i = [at |-> "strict", does |-> does, by |-> by, asks |-> asks, room |-> room,
                    scope |-> "none", valid |-> by \in rows \cup holders]
  OBVIOUS
<1>2. (by \in rows \cup holders) \in BOOLEAN
  OBVIOUS
<1>3. i \in Inquiry
  BY <1>1, <1>2 DEF Inquiry, BearersInv, TokensKnown
<1>4. Fits(i)
  BY <1>1, <1>3 DEF Fits, UnderToken, UnderKey
<1>5. QED
  BY <1>1, <1>3, <1>4, OneChanges DEF Begins

\* an inquiry that goes on, with what it must be found to be by then
LEMMA MovesFits ==
  ASSUME BearersInv, NEW q \in Request, inquiry[q].at \in {"strict", "widened", "acts"},
         NEW at \in {"widened", "scope", "served", "refused"}, Moves(q, at),
         UNCHANGED <<rows, holders, minted>>,
         inquiry[q].by = "key" => (inquiry[q].does = "join" => at = "refused"),
         inquiry[q].by # "key" =>
           /\ at # "refused" => inquiry[q].valid
           /\ at \in {"scope", "served"} => Granted(inquiry[q])
           /\ at = "served" => OwnScope(inquiry[q]) /\ inquiry[q].room = inquiry[q].scope
  PROVE  TokensKnown' /\ InquiriesFit'
<1>1. inquiry[q] \in Inquiry /\ Fits(inquiry[q])
  BY DEF BearersInv, InquiriesFit, NoInquiry, Fits
<1>2. PICK i : i = [inquiry[q] EXCEPT !.at = at]
  OBVIOUS
<1>3. /\ i \in Inquiry /\ i.at = at /\ i.by = inquiry[q].by /\ i.does = inquiry[q].does
      /\ i.valid = inquiry[q].valid /\ i.scope = inquiry[q].scope /\ i.room = inquiry[q].room
  BY <1>1, <1>2 DEF Inquiry
<1>4. inquiry[q] # NoInquiry
  BY <1>1 DEF Inquiry, NoInquiry
<1>5. Fits(i)
  BY <1>1, <1>3, <1>4 DEF Fits, UnderToken, UnderKey, Granted, OwnScope
<1>6. inquiry' = [inquiry EXCEPT ![q] = i]
  BY <1>2 DEF Moves
<1>7. QED
  BY <1>3, <1>5, <1>6, OneChanges

LEMMA Found ==
  ASSUME BearersInv, NEW q \in Request, inquiry[q].at # "none", inquiry[q].by # "key",
         TRUE \in Validated(inquiry[q].by)
  PROVE  inquiry[q].valid
<1>1. inquiry[q].by \in rows \cup holders
  BY DEF Validated
<1>2. Fits(inquiry[q]) /\ inquiry[q] # NoInquiry
  BY DEF BearersInv, InquiriesFit, NoInquiry
<1>3. QED
  BY <1>1, <1>2 DEF Fits, UnderToken

LEMMA ChecksFit ==
  ASSUME BearersInv, NEW q \in Request, Strict(q) \/ Widened(q)
  PROVE  TokensKnown' /\ InquiriesFit' /\ UNCHANGED <<roster, ticket, claims>>
<1>1. inquiry[q].at \in {"strict", "widened"} /\ UNCHANGED <<rows, holders, minted, roster, ticket, claims>>
  BY DEF Strict, Widened
<1>2. inquiry[q] \in Inquiry
  BY <1>1 DEF BearersInv, InquiriesFit, NoInquiry
<1>3. Refuses(q) => TokensKnown' /\ InquiriesFit'
  BY <1>1, MovesFits DEF Refuses, Moves
<1>4. CASE Strict(q)
  <2>1. CASE inquiry[q].by = "key"
    BY <1>1, <1>3, <1>4, <2>1, MovesFits DEF Strict
  <2>2. CASE inquiry[q].by # "key"
    <3>1. PICK found \in Validated(inquiry[q].by) :
            CASE ~found -> Refuses(q)
              [] found /\ inquiry[q].does = "join" ->
                   IF Grants[inquiry[q].by] \cap {"messaging", "write"} # {} THEN Moves(q, "scope")
                   ELSE Refuses(q)
              [] OTHER -> IF inquiry[q].does \in Grants[inquiry[q].by] THEN Moves(q, "scope")
                          ELSE Moves(q, "widened")
      BY <1>4, <2>2 DEF Strict
    <3>2. found \in BOOLEAN
      BY <3>1 DEF Validated
    <3>3. CASE ~found
      BY <1>1, <1>3, <3>1, <3>3
    <3>4. CASE found
      <4>1. inquiry[q].valid
        BY <1>1, <2>2, <3>1, <3>2, <3>4, Found
      <4>2. CASE inquiry[q].does = "join"
        BY <1>1, <1>3, <2>2, <3>1, <3>4, <4>1, <4>2, MovesFits DEF Granted
      <4>3. CASE inquiry[q].does # "join" /\ inquiry[q].does \in Grants[inquiry[q].by]
        BY <1>1, <2>2, <3>1, <3>4, <4>1, <4>3, MovesFits DEF Granted
      <4>4. CASE inquiry[q].does # "join" /\ inquiry[q].does \notin Grants[inquiry[q].by]
        BY <1>1, <2>2, <3>1, <3>4, <4>1, <4>4, MovesFits
      <4>5. QED
        BY <4>2, <4>3, <4>4
    <3>5. QED
      BY <3>2, <3>3, <3>4
  <2>3. QED
    BY <1>1, <2>1, <2>2
<1>5. CASE Widened(q)
  <2>1. PICK found \in Validated(inquiry[q].by) :
          IF found /\ "messaging" \in Grants[inquiry[q].by] THEN Moves(q, "scope") ELSE Refuses(q)
    BY <1>5 DEF Widened
  <2>2. found \in BOOLEAN
    BY <2>1 DEF Validated
  <2>3. inquiry[q].by = "key" => inquiry[q].does # "join"
    BY <1>2, <1>5 DEF Widened, BearersInv, InquiriesFit, Fits, UnderKey, NoInquiry
  <2>4. inquiry[q].by # "key" => inquiry[q].valid
    BY <1>2, <1>5 DEF Widened, BearersInv, InquiriesFit, Fits, UnderToken, NoInquiry
  <2>5. CASE found /\ "messaging" \in Grants[inquiry[q].by]
    BY <1>1, <2>1, <2>3, <2>4, <2>5, MovesFits DEF Granted
  <2>6. QED
    BY <1>1, <1>3, <2>1, <2>2, <2>5
<1>6. QED
  BY <1>1, <1>4, <1>5

LEMMA ScopesFit ==
  ASSUME BearersInv, NEW q \in Request, Scopes(q)
  PROVE  TokensKnown' /\ InquiriesFit' /\ UNCHANGED <<roster, ticket, claims>>
<1>1. inquiry[q].at = "scope" /\ UNCHANGED <<rows, holders, minted, roster, ticket, claims>>
  BY DEF Scopes
<1>2. inquiry[q] \in Inquiry /\ Fits(inquiry[q]) /\ inquiry[q] # NoInquiry
  BY <1>1 DEF BearersInv, InquiriesFit, NoInquiry
<1>3. PICK scope : scope = IF Confined(inquiry[q]) THEN BoundTo[inquiry[q].by] ELSE inquiry[q].asks
  OBVIOUS
<1>4. \/ Refuses(q)
      \/ scope # "none" /\ inquiry' = [inquiry EXCEPT ![q].at = "acts", ![q].scope = scope]
  BY <1>3 DEF Scopes
<1>5. scope \in Profile \cup {"none"}
  BY <1>2, <1>3, BearersAssumption DEF Inquiry, Confined
<1>6. ASSUME NEW at \in {"acts", "refused"}, NEW s \in Profile \cup {"none"},
             inquiry' = [inquiry EXCEPT ![q] = [inquiry[q] EXCEPT !.at = at, !.scope = s]],
             at = "acts" => s = scope
      PROVE  TokensKnown' /\ InquiriesFit'
  <2>1. PICK i : i = [inquiry[q] EXCEPT !.at = at, !.scope = s]
    OBVIOUS
  <2>2. /\ i \in Inquiry /\ i.at = at /\ i.by = inquiry[q].by /\ i.does = inquiry[q].does
        /\ i.valid = inquiry[q].valid /\ i.scope = s
    BY <1>2, <2>1 DEF Inquiry
  <2>3. i.by = "key" => UnderKey(i)
    BY <1>1, <1>2, <2>2 DEF Fits, UnderKey
  <2>4. i.by # "key" => UnderToken(i)
    BY <1>1, <1>2, <1>3, <1>6, <2>2 DEF Fits, UnderToken, Granted, OwnScope, Confined
  <2>5. QED
    BY <1>1, <1>6, <2>1, <2>2, <2>3, <2>4, OneChanges DEF Fits
<1>7. CASE Refuses(q)
  <2>1. [inquiry[q] EXCEPT !.at = "refused"] = [inquiry[q] EXCEPT !.at = "refused", !.scope = inquiry[q].scope]
    BY <1>2 DEF Inquiry
  <2>2. inquiry[q].scope \in Profile \cup {"none"}
    BY <1>2 DEF Inquiry
  <2>3. QED
    BY <1>1, <1>6, <1>7, <2>1, <2>2 DEF Refuses
<1>8. CASE scope # "none" /\ inquiry' = [inquiry EXCEPT ![q].at = "acts", ![q].scope = scope]
  <2>1. inquiry' = [inquiry EXCEPT ![q] = [inquiry[q] EXCEPT !.at = "acts", !.scope = scope]]
    BY <1>8 DEF BearersInv, InquiriesFit
  <2>2. QED
    BY <1>1, <1>5, <1>6, <2>1
<1>9. QED
  BY <1>4, <1>7, <1>8

LEMMA ActsFit ==
  ASSUME BearersInv, NEW q \in Request, Acts(q)
  PROVE  TokensKnown' /\ InquiriesFit' /\ RosterFits' /\ UNCHANGED <<ticket, claims>>
<1>1. inquiry[q].at = "acts" /\ UNCHANGED <<rows, holders, minted, ticket, claims>>
  BY DEF Acts
<1>2. inquiry[q] \in Inquiry /\ Fits(inquiry[q]) /\ inquiry[q] # NoInquiry
  BY <1>1 DEF BearersInv, InquiriesFit, NoInquiry
<1>3. CASE Refuses(q) /\ UNCHANGED roster
  BY <1>1, <1>3, MovesFits DEF Refuses, Moves, BearersInv, RosterFits
<1>4. CASE /\ inquiry[q].room = inquiry[q].scope /\ Moves(q, "served")
           /\ roster' = IF inquiry[q].does = "join"
                        THEN roster \cup {<<inquiry[q].room, inquiry[q].by>>} ELSE roster
  <2>1. TokensKnown' /\ InquiriesFit'
    BY <1>1, <1>2, <1>4, MovesFits DEF Fits, UnderToken, UnderKey
  <2>2. inquiry[q].does = "join" => BoundTo[inquiry[q].by] \in {"none", inquiry[q].room}
    BY <1>1, <1>2, <1>4 DEF Fits, UnderToken, UnderKey, OwnScope
  <2>3. RosterFits'
    BY <1>4, <2>2 DEF BearersInv, RosterFits
  <2>4. QED
    BY <1>1, <2>1, <2>3
<1>5. QED
  BY <1>3, <1>4 DEF Acts

LEMMA RequestSteps ==
  ASSUME BearersInv, NEW q \in Request,
         \/ \E does \in {"read", "write", "join"}, by \in minted \cup {"key"},
              asks \in Profile \cup {"none"}, room \in Profile : Begins(q, does, by, asks, room)
         \/ Strict(q) \/ Widened(q) \/ Scopes(q) \/ Acts(q)
  PROVE  BearersInv'
<1>1. TokensKnown' /\ InquiriesFit'
  BY BeginsFits, ChecksFit, ScopesFit, ActsFit
<1>2. UNCHANGED <<ticket, claims>>
  BY DEF Begins, Strict, Widened, Scopes, Acts
<1>3. RosterFits'
  BY ActsFit DEF Begins, Strict, Widened, Scopes, BearersInv, RosterFits
<1>4. QED
  BY <1>1, <1>2, <1>3 DEF BearersInv, ClaimsFit

LEMMA TicketSteps ==
  ASSUME BearersInv, NEW k \in Ticket,
         StartsPairing(k) \/ TtlPasses(k) \/ \E c \in Claimer : Claims(c, k)
  PROVE  BearersInv'
<1>1. UNCHANGED <<rows, holders, minted, inquiry, roster>>
  BY DEF StartsPairing, TtlPasses, Claims
<1>2. TokensKnown' /\ InquiriesFit' /\ RosterFits'
  <2>1. TokensKnown' /\ RosterFits'
    BY <1>1 DEF BearersInv, TokensKnown, RosterFits
  <2>2. QED
    BY <1>1, <2>1, TokensChange
<1>3. ticket \in [Ticket -> {"none", "open", "late", "gone"}]
  BY DEF BearersInv, ClaimsFit
<1>4. CASE StartsPairing(k) \/ TtlPasses(k)
  BY <1>2, <1>3, <1>4 DEF StartsPairing, TtlPasses, Swept, BearersInv, ClaimsFit
<1>5. CASE \E c \in Claimer : Claims(c, k)
  <2>1. PICK c \in Claimer : Claims(c, k)
    BY <1>5
  <2>2. /\ ticket' \in [Ticket -> {"none", "open", "late", "gone"}]
        /\ \A l \in Ticket : ticket[l] = "gone" => ticket'[l] = "gone"
        /\ Swept[k] = "open" => ticket[k] = "open" /\ ticket'[k] = "gone"
    BY <1>3, <2>1 DEF Claims, Swept
  <2>3. CASE UNCHANGED claims
    BY <1>2, <2>2, <2>3 DEF BearersInv, ClaimsFit
  <2>4. CASE Swept[k] = "open" /\ claims' = claims \cup {[by |-> c, of |-> k, at |-> ticket[k]]}
    <3>1. \A one \in claims : one.of # k
      BY <2>2, <2>4 DEF BearersInv, ClaimsFit
    <3>2. QED
      BY <1>2, <2>2, <2>4, <3>1 DEF BearersInv, ClaimsFit
  <2>5. QED
    BY <2>1, <2>3, <2>4 DEF Claims
<1>6. QED
  BY <1>4, <1>5

LEMMA RestartKeeps ==
  ASSUME BearersInv, HubRestarted
  PROVE  BearersInv'
<1>1. TokensKnown' /\ minted' = minted /\ rows' \cup holders' \subseteq rows \cup holders
  BY DEF HubRestarted, BearersInv, TokensKnown
<1>2. ASSUME NEW q \in Request PROVE inquiry'[q] \in {NoInquiry} \cup Inquiry /\ Fits(inquiry[q])'
  <2>1. Fits(inquiry[q]) /\ inquiry[q] \in {NoInquiry} \cup Inquiry
    BY DEF BearersInv, InquiriesFit
  <2>2. CASE inquiry'[q] = inquiry[q]
    BY <1>1, <2>1, <2>2 DEF Fits, UnderToken, UnderKey, Granted, OwnScope
  <2>3. CASE inquiry[q].at \notin {"none", "served", "refused"}
    <3>1. inquiry[q] \in Inquiry /\ inquiry[q] # NoInquiry
      BY <2>1, <2>3 DEF NoInquiry
    <3>2. inquiry'[q] = [inquiry[q] EXCEPT !.at = "refused"]
      BY <2>3 DEF HubRestarted
    <3>3. PICK i : i = inquiry'[q]
      OBVIOUS
    <3>4. /\ i \in Inquiry /\ i.at = "refused" /\ i.by = inquiry[q].by
          /\ i.valid = inquiry[q].valid
      BY <3>1, <3>2, <3>3 DEF Inquiry
    <3>5. QED
      BY <1>1, <2>1, <3>1, <3>3, <3>4 DEF Fits, UnderToken, UnderKey
  <2>4. QED
    BY <2>2, <2>3 DEF HubRestarted
<1>3. InquiriesFit'
  BY <1>2 DEF HubRestarted, InquiriesFit
<1>4. RosterFits' /\ ClaimsFit'
  BY DEF HubRestarted, BearersInv, RosterFits, ClaimsFit
<1>5. QED
  BY <1>1, <1>3, <1>4 DEF BearersInv

LEMMA BearersInvariant == BearersSpec => []BearersInv
<1>1. ASSUME BearersInv, UNCHANGED bearerVars PROVE BearersInv'
  BY <1>1 DEF bearerVars, BearersInv, TokensKnown, InquiriesFit, RosterFits, ClaimsFit, Fits,
              UnderToken, UnderKey, Granted, OwnScope
<1>2. BearersInv /\ [BearersNext]_bearerVars => BearersInv'
  BY <1>1, TokenSteps, RequestSteps, TicketSteps, RestartKeeps DEF BearersNext
<1>3. QED
  BY <1>2, InitBearersInv, PTL DEF BearersSpec

-----------------------------------------------------------------------------
(* Theorems *)

(* Whatever tokens are minted and revoked while a request is between its     *)
(* checks: it acts in the room of its token's profile, under a token that    *)
(* was good when it came; and a pairing ticket is answered once.             *)
THEOREM BearersAreKept == BearersSpec => []BearersKept
<1>1. ASSUME BearersInv PROVE RoomsAreOwn
  <2>1. ASSUME NEW q \in Request, inquiry[q].at = "served", inquiry[q].by # "key"
        PROVE  /\ inquiry[q].valid /\ BoundTo[inquiry[q].by] \in {"none", inquiry[q].room}
               /\ Granted(inquiry[q])
    <3>1. Fits(inquiry[q]) /\ inquiry[q] # NoInquiry
      BY <1>1, <2>1 DEF BearersInv, InquiriesFit, NoInquiry
    <3>2. QED
      BY <2>1, <3>1 DEF Fits, UnderToken, OwnScope
  <2>2. QED
    BY <1>1, <2>1 DEF RoomsAreOwn, Granted, BearersInv, RosterFits
<1>2. ASSUME BearersInv PROVE TicketsOnce
  BY <1>2 DEF BearersInv, ClaimsFit, TicketsOnce
<1>3. QED
  BY <1>1, <1>2, BearersInvariant, PTL DEF BearersKept

-----------------------------------------------------------------------------
(***************************************************************************)
(* Event patterns                                                          *)
(*                                                                         *)
(* A state of MatchSpec is one value and one element, and never changes;   *)
(* the laws unfold one level of a pattern, and take what a nested pattern  *)
(* matches as it is.                                                       *)
(***************************************************************************)

MatchInv == match.v \in Value /\ match.e \in Element

LEMMA ByKind ==
  /\ \A w, e : e.is = "literal" => (ElementMatches(w, e, matched) <=> w = e.v)
  /\ \A w, e : e.is = "operator" => (ElementMatches(w, e, matched) <=> OperatorMatches(w, e.op, e.arg))
  /\ \A w, e : e.is = "pattern" => (ElementMatches(w, e, matched) <=> ObjectMatches(w, matched[e.p]))
<1>1. \A w, e : SameLiteral(w, e.v) \in BOOLEAN /\ ObjectMatches(w, matched[e.p]) \in BOOLEAN
  BY DEF SameLiteral, ObjectMatches
<1>2. QED
  BY <1>1 DEF ElementMatches, SameLiteral

LEMMA MeetsUnfolds ==
  ASSUME NEW v, NEW e
  PROVE  Meets(v, e) <=> \/ ElementMatches(v, e, matched)
                         \/ /\ v.type = "array" /\ Elementwise(e)
                            /\ \E i \in DOMAIN v.array : ElementMatches(v.array[i], e, matched)
<1> DEFINE p == [key |-> <<e>>]
           event == [key |-> v]
<1>1. DOMAIN p = {"key"} /\ DOMAIN event = {"key"} /\ p["key"] = <<e>> /\ event["key"] = v
  OBVIOUS
<1>2. Meets(v, e) <=> FieldMatches(v, <<e>>, matched)
  BY <1>1 DEF Meets, Matches, MatchesGiven
<1>3. DOMAIN <<e>> = {1} /\ <<e>>[1] = e
  OBVIOUS
<1>4. QED
  BY <1>2, <1>3, Zenon DEF FieldMatches

LEMMA MeetsNothingUnfolds ==
  ASSUME NEW e
  PROVE  MeetsNothing(e) <=> e.is = "operator" /\ e.op = "exists" /\ e.arg = Boolean(FALSE)
<1>1. DOMAIN [key |-> <<e>>] = {"key"} /\ DOMAIN <<>> = {} /\ [key |-> <<e>>]["key"] = <<e>>
  OBVIOUS
<1>2. MeetsNothing(e) <=> MissingMatches(<<e>>)
  BY <1>1 DEF MeetsNothing, Matches, MatchesGiven
<1>3. DOMAIN <<e>> = {1} /\ <<e>>[1] = e
  OBVIOUS
<1>4. QED
  BY <1>2, <1>3, Zenon DEF MissingMatches

LEMMA ValidUnfolds ==
  ASSUME NEW e
  PROVE  Valid([key |-> <<e>>]) <=> ValidElement(e, validated)
<1>1. DOMAIN [key |-> <<e>>] = {"key"} /\ [key |-> <<e>>]["key"] = <<e>>
  OBVIOUS
<1>2. DOMAIN <<e>> = {1} /\ <<e>>[1] = e /\ <<e>> # <<>>
  OBVIOUS
<1>3. QED
  BY <1>1, <1>2 DEF Valid, ValidGiven

\* An array is not seen element by element by what an array's element is.
LEMMA OneElementMeets ==
  ASSUME MatchAssumption, NEW v \in Value, NEW e \in Element, v.type = "array", NEW i \in DOMAIN v.array
  PROVE  Meets(v.array[i], e) <=> ElementMatches(v.array[i], e, matched)
<1>1. v.array[i].type # "array"
  BY DEF MatchAssumption
<1>2. QED
  BY <1>1, MeetsUnfolds

LEMMA ArrayLaw ==
  ASSUME MatchAssumption, NEW v \in Value, NEW e \in Element,
         v.type = "array", ~WholeArray(e), e.is = "literal" => e.v.type # "array"
  PROVE  Meets(v, e) <=> \E i \in DOMAIN v.array : Meets(v.array[i], e)
<1> DEFINE anyOf == \E i \in DOMAIN v.array : ElementMatches(v.array[i], e, matched)
<1>1. (\E i \in DOMAIN v.array : Meets(v.array[i], e)) <=> anyOf
  BY OneElementMeets
<1>2. CASE e.is = "literal"
  <2>1. ~ElementMatches(v, e, matched)
    BY <1>2, ByKind
  <2>2. QED
    BY <1>1, <1>2, <2>1, MeetsUnfolds, Zenon DEF Elementwise
<1>3. CASE e.is = "pattern"
  <2> DEFINE within(w) == w.type = "object" /\ w \in matched[e.p]
  <2>1. \A w : ElementMatches(w, e, matched) <=>
          within(w) \/ (w.type = "array" /\ \E i \in DOMAIN w.array : within(w.array[i]))
    BY <1>3, ByKind DEF ObjectMatches
  <2>2. \A i \in DOMAIN v.array : v.array[i].type # "array"
    BY DEF MatchAssumption
  <2> HIDE DEF within
  <2>3. anyOf <=> \E i \in DOMAIN v.array : within(v.array[i])
    BY <2>1, <2>2
  <2>4. ~within(v)
    BY DEF within
  <2>5. Meets(v, e) <=> ElementMatches(v, e, matched)
    BY <1>3, MeetsUnfolds, Zenon DEF Elementwise
  <2>6. QED
    BY <1>1, <2>1, <2>3, <2>4, <2>5
<1>4. CASE e.is = "operator"
  <2>1. Elementwise(e) /\ e.op \in {"prefix", "suffix", "numeric"}
    BY <1>4 DEF Elementwise, WholeArray, AsAWhole, MatchAssumption, Operators
  <2>2. ~ElementMatches(v, e, matched)
    BY <1>4, <2>1, ByKind DEF OperatorMatches, InRange
  <2>3. QED
    BY <1>1, <2>1, <2>2, MeetsUnfolds, Zenon
<1>5. QED
  BY <1>2, <1>3, <1>4 DEF MatchAssumption

LEMMA ExistsUnfolds ==
  ASSUME NEW v, NEW b \in BOOLEAN
  PROVE  Meets(v, Operator("exists", Boolean(b))) <=> (b <=> v.type # "null")
<1> DEFINE e == Operator("exists", Boolean(b))
<1>1. e.is = "operator" /\ e.op = "exists" /\ e.arg = Boolean(b)
  BY DEF Operator
<1>2. Boolean(TRUE) # Boolean(FALSE)
  <2>1. Boolean(TRUE).boolean = TRUE /\ Boolean(FALSE).boolean = FALSE
    BY DEF Boolean
  <2>2. QED
    BY <2>1
<1>3. (b <=> v.type # "null") <=> IF v.type = "null" THEN Boolean(b) = Boolean(FALSE) ELSE Boolean(b) = Boolean(TRUE)
  BY <1>2
<1> HIDE DEF e
<1>4. ElementMatches(v, e, matched) <=> IF v.type = "null" THEN e.arg = Boolean(FALSE) ELSE e.arg = Boolean(TRUE)
  BY <1>1, ByKind DEF OperatorMatches
<1>5. ~Elementwise(e)
  BY <1>1 DEF Elementwise, AsAWhole
<1>6. Meets(v, e) <=> (b <=> v.type # "null")
  BY <1>1, <1>3, <1>4, <1>5, MeetsUnfolds
<1>7. QED
  BY <1>6 DEF e

LEMMA ExistsLaw == \A v : Meets(v, Operator("exists", Boolean(TRUE))) # Meets(v, Operator("exists", Boolean(FALSE)))
<1> SUFFICES ASSUME NEW v
             PROVE  Meets(v, Operator("exists", Boolean(TRUE))) # Meets(v, Operator("exists", Boolean(FALSE)))
  OBVIOUS
<1>1. Meets(v, Operator("exists", Boolean(TRUE))) <=> v.type # "null"
  BY ExistsUnfolds
<1>2. Meets(v, Operator("exists", Boolean(FALSE))) <=> v.type = "null"
  BY ExistsUnfolds
<1>3. \A q : Meets(v, q) \in BOOLEAN
  BY DEF Meets, Matches, MatchesGiven
<1>4. QED
  BY <1>1, <1>2, <1>3

LEMMA AbsentLaw ==
  ASSUME NEW e, MeetsNothing(e)
  PROVE  Valid([key |-> <<e>>]) /\ Meets(Null, e)
<1>1. e.is = "operator" /\ e.op = "exists" /\ e.arg = Boolean(FALSE)
  BY MeetsNothingUnfolds
<1>2. ValidElement(e, validated)
  BY <1>1 DEF ValidElement, ValidArgument, Boolean
<1>3. ElementMatches(Null, e, matched)
  BY <1>1, ByKind DEF OperatorMatches, Null
<1>4. QED
  BY <1>2, <1>3, ValidUnfolds, MeetsUnfolds

LEMMA AnythingButLaw ==
  ASSUME NEW v, NEW e, e.is = "operator", e.op = "anything-but", v.type \notin {"array", "null"}
  PROVE  Meets(v, e) <=> \A i \in DOMAIN e.arg.array : ~Meets(v, Literal(e.arg.array[i]))
<1>1. \A x : Meets(v, Literal(x)) <=> v = x
  <2> SUFFICES ASSUME NEW x PROVE Meets(v, Literal(x)) <=> v = x
    OBVIOUS
  <2>1. Literal(x).is = "literal" /\ Literal(x).v = x
    BY DEF Literal
  <2>2. ElementMatches(v, Literal(x), matched) <=> v = x
    BY <2>1, ByKind
  <2>3. QED
    BY <2>2, MeetsUnfolds, Zenon
<1>2. Meets(v, e) <=> \A i \in DOMAIN e.arg.array : v # e.arg.array[i]
  <2>1. ElementMatches(v, e, matched) <=> \A i \in DOMAIN e.arg.array : v # e.arg.array[i]
    <3> DEFINE excluded == \A i \in DOMAIN e.arg.array : ~SameLiteral(v, e.arg.array[i])
    <3>1. excluded \in BOOLEAN /\ (excluded <=> \A i \in DOMAIN e.arg.array : v # e.arg.array[i])
      BY DEF SameLiteral
    <3>2. OperatorMatches(v, e.op, e.arg) <=> v.type # "null" /\ excluded
      BY <3>1 DEF OperatorMatches
    <3>3. QED
      BY <3>1, <3>2, ByKind
  <2>2. QED
    BY <2>1, MeetsUnfolds, Zenon
<1>3. QED
  BY <1>1, <1>2, Zenon

\* What validate_pattern turns down, for another reason than the literals of an
\* "anything-but", does not match one value.
LEMMA MalformedMatchesNone ==
  ASSUME NEW w, NEW e, e.is = "operator", e.op \in Operators, e.op # "anything-but", ~ValidArgument(e.op, e.arg)
  PROVE  ~ElementMatches(w, e, matched)
<1>1. CASE e.op = "exists"
  <2>1. e.arg.type # "boolean"
    BY <1>1 DEF ValidArgument
  <2>2. e.arg # Boolean(TRUE) /\ e.arg # Boolean(FALSE)
    BY <2>1 DEF Boolean
  <2>3. QED
    BY <1>1, <2>2, ByKind DEF OperatorMatches
<1>2. CASE e.op \in {"prefix", "suffix"}
  BY <1>2, ByKind DEF ValidArgument, OperatorMatches
<1>3. CASE e.op = "numeric"
  <2>1. \/ e.arg.type # "array" \/ Len(e.arg.array) \notin {1, 2}
        \/ \E i \in DOMAIN e.arg.array : e.arg.array[i].op \notin Comparisons \/ e.arg.array[i].n.type # "number"
    BY <1>3 DEF ValidArgument
  <2>2. \A x, op, n : op \notin Comparisons => ~Compares(x, op, n)
    BY DEF Compares, Comparisons
  <2>3. ~(e.arg.type = "array" /\ InRange(w, e.arg.array))
    BY <2>1, <2>2 DEF InRange
  <2>4. QED
    BY <1>3, <2>3, ByKind DEF OperatorMatches
<1>4. QED
  BY <1>1, <1>2, <1>3 DEF Operators

(* What the API takes or turns down, and what an array, an absent key, a     *)
(* null and an exclusion mean, for every value and every element there is,   *)
(* however deep the patterns and the objects beneath them are: the laws of   *)
(* event_match.py that a rule's author counts on.                            *)
THEOREM PatternsMatchByLaw == MatchSpec => []MatchingLaws
<1>1. MatchInv => MatchingLaws
  <2> SUFFICES ASSUME MatchInv PROVE MatchingLaws
    OBVIOUS
  <2> DEFINE v == match.v
             e == match.e
  <2>1. v \in Value /\ e \in Element /\ MatchAssumption
    BY MatchAssumed DEF MatchInv
  <2> HIDE DEF v, e
  <2>2. v.type = "array" /\ ~WholeArray(e) /\ (e.is = "literal" => e.v.type # "array") =>
          (Meets(v, e) <=> \E i \in DOMAIN v.array : Meets(v.array[i], e))
    BY <2>1, ArrayLaw
  <2>3. e.is = "operator" /\ e.op # "anything-but" /\ ~Valid([key |-> <<e>>]) => ~Meets(v, e)
    <3> SUFFICES ASSUME e.is = "operator", e.op # "anything-but", ~Valid([key |-> <<e>>]) PROVE ~Meets(v, e)
      OBVIOUS
    <3>1. ~ValidArgument(e.op, e.arg)
      BY ValidUnfolds DEF ValidElement
    <3>2. e.op \in Operators
      BY <2>1 DEF MatchAssumption
    <3>3. \A w : ~ElementMatches(w, e, matched)
      BY <3>1, <3>2, MalformedMatchesNone
    <3>4. QED
      BY <3>3, MeetsUnfolds, Zenon
  <2>4. MeetsNothing(e) => Valid([key |-> <<e>>]) /\ Meets(Null, e)
    BY AbsentLaw
  <2>5. e.is = "operator" /\ e.op = "anything-but" /\ v.type \notin {"array", "null"} =>
          (Meets(v, e) <=> \A i \in DOMAIN e.arg.array : ~Meets(v, Literal(e.arg.array[i])))
    BY AnythingButLaw
  <2>6. QED
    BY <2>2, <2>3, <2>4, <2>5, ExistsLaw, Zenon DEF MatchingLaws, v, e
<1>2. MatchInit => MatchInv
  BY DEF MatchInit, MatchInv
<1>3. MatchInv /\ [UNCHANGED match]_match => MatchInv'
  BY DEF MatchInv
<1>4. QED
  BY <1>1, <1>2, <1>3, PTL DEF MatchSpec
=============================================================================
