--------------------------- MODULE TaskLifecycle ---------------------------
(***************************************************************************)
(* What the hub promises about the status of every task: the state diagram *)
(* of docs/brainbox/hub.md, with the three things the code adds to it.     *)
(* Suspension and retries add edges.  A dispatch in flight owns the status *)
(* of its task: when it ends it may put PENDING or FAILED over whatever    *)
(* the status has become, a terminal one included.  And the end of a loop  *)
(* is written over the status of its parent task.  Any other task's        *)
(* terminal status is final once no dispatch is open on it.                *)
(***************************************************************************)
EXTENDS Naturals

CONSTANTS
  Task,
  Overruled    \* tasks whose end someone writes without asking for their status

VARIABLES
  st,     \* the status of every task
  open    \* the tasks whose dispatch is in flight

lifecycleVars == <<st, open>>

LifecycleInit ==
  /\ st = [t \in Task |-> "absent"]
  /\ open = {}

\* the edges anyone may take: TaskStatus and the guards of router.py
Successors ==
  [absent       |-> {"PENDING", "RUNNING"},
   PENDING      |-> {"FAILED", "CANCELLED", "BLOCKED", "NEEDS_ACTION"},
   RUNNING      |-> {"COMPLETED", "FAILED", "CANCELLED", "BLOCKED", "NEEDS_ACTION"},
   BLOCKED      |-> {"PENDING", "FAILED", "CANCELLED"},
   NEEDS_ACTION |-> {"PENDING", "CANCELLED"},
   COMPLETED    |-> {},
   FAILED       |-> {},
   CANCELLED    |-> {}]

Stays(t) == st'[t] = st[t] /\ (t \in open' <=> t \in open)
Moves(t) == st'[t] \in Successors[st[t]] /\ (t \in open' <=> t \in open)
Launches(t) == st[t] = "PENDING" /\ st'[t] = "RUNNING" /\ t \notin open /\ t \in open'
Settles(t) ==
  /\ t \in Overruled /\ st'[t] \in {"COMPLETED", "FAILED", "CANCELLED"}
  /\ st[t] # "absent" /\ (t \in open' <=> t \in open)
Lands(t) == t \in open /\ t \notin open' /\ st'[t] \in {st[t], "PENDING", "FAILED"}

LifecycleNext ==
  /\ \A t \in Task : Stays(t) \/ Moves(t) \/ Launches(t) \/ Lands(t) \/ Settles(t)
  /\ \A t, u \in open' : t = u

LifecycleSpec == LifecycleInit /\ [][LifecycleNext]_lifecycleVars
=============================================================================
