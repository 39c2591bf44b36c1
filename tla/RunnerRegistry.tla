-------------------------- MODULE RunnerRegistry --------------------------
(***************************************************************************)
(* The runner registry: runners.py, the /api/runners routes of api.py, the *)
(* two callers in lifecycle.py, and the polling loop of a runner.          *)
(*                                                                         *)
(* A runner is a remote process.  It registers, long-polls for work, and   *)
(* posts one result per work item.  No critical section of the registry's  *)
(* lock awaits anything, so the lock is always free and an action is the   *)
(* code between two awaits that really suspend: the long-poll's ev.wait(), *)
(* the caller's wait for its future, and the database call in deregister.  *)
(***************************************************************************)
EXTENDS Naturals, Sequences, FiniteSets

CONSTANTS
  Runner,     \* names of runners
  LocalOnly,  \* runners whose host is "local-process": never auto-selected
  Item,       \* work items, one per call of enqueue
  Polls,      \* BOUND: long-polls the server may hold open for one runner
  Nobody

ASSUME RegistryAssumption ==
  LocalOnly \subseteq Runner /\ Nobody \notin Runner /\ Polls \in Nat

VARIABLES
  registered,  \* reg._runners
  pending,     \* reg._pending[r], empty for a runner that is not registered
  event,       \* reg._events[r]: the asyncio.Event the polls of r wait on
  known,       \* reg._by_work_id
  fut,         \* the future of each item, as its caller sees it
  holder,      \* the runner whose poll popped the item
  working,     \* items a runner is executing
  late,        \* items whose result came when nobody waited any more
  poll,        \* the server's long-poll handlers
  leaving,     \* deregister(r) between popping r's queue and rerouting it
  dropped      \* GHOST: items a deregister had popped when its database call failed

callVars == <<known, fut>>
runnerVars == <<holder, working, late>>
vars == <<registered, pending, event, callVars, runnerVars, poll, leaving, dropped>>

Slot == 1..Polls
NoPoll == [open |-> FALSE, stale |-> FALSE, woken |-> FALSE]
PollState == [open : BOOLEAN, stale : BOOLEAN, woken : BOOLEAN]

TypeOK ==
  /\ registered \subseteq Runner
  /\ pending \in [Runner -> Seq(Item)]
  /\ event \in [Runner -> {"clear", "set"}]
  /\ known \subseteq Item
  /\ fut \in [Item -> {"new", "waiting", "timeout", "refused", "ok", "failed"}]
  /\ holder \in [Item -> Runner \cup {Nobody}]
  /\ working \subseteq Item
  /\ late \subseteq Item
  /\ poll \in [Runner -> [Slot -> PollState]]
  /\ leaving \in [Runner -> Seq(Item)]
  /\ dropped \subseteq Item

Init ==
  /\ registered = {}
  /\ pending = [r \in Runner |-> <<>>]
  /\ event = [r \in Runner |-> "clear"]
  /\ known = {}
  /\ fut = [i \in Item |-> "new"]
  /\ holder = [i \in Item |-> Nobody]
  /\ working = {} /\ late = {}
  /\ poll = [r \in Runner |-> [k \in Slot |-> NoPoll]]
  /\ leaving = [r \in Runner |-> <<>>]
  /\ dropped = {}

-----------------------------------------------------------------------------
(* Runners come and go *)

\* a new _events entry is not set; registering again only refreshes the entry
Register(r) ==
  /\ r \notin registered
  /\ registered' = registered \cup {r}
  /\ UNCHANGED <<pending, event, callVars, runnerVars, poll, leaving, dropped>>

QueueAfterPop(r) == <<>>

\* deregister up to async_delete_runner.  The event goes with the entry: a poll
\* that waits on it is never woken again, and a new registration gets a new one.
Deregister(r) ==
  /\ r \in registered
  /\ leaving[r] = <<>>    \* a bound, not code
  /\ registered' = registered \ {r}
  /\ leaving' = [leaving EXCEPT ![r] = pending[r]]
  /\ pending' = [pending EXCEPT ![r] = QueueAfterPop(r)]
  /\ event' = [event EXCEPT ![r] = "clear"]
  /\ poll' = [poll EXCEPT ![r] = [k \in Slot |->
                [poll[r][k] EXCEPT !.stale = poll[r][k].stale \/ poll[r][k].open]]]
  /\ UNCHANGED <<callVars, runnerVars, dropped>>

\* ev.set() for the runners in rs: it wakes every poll that waits on the event
SetEvents(rs) ==
  /\ event' = [r \in Runner |-> IF r \in rs THEN "set" ELSE event[r]]
  /\ poll' = [r \in Runner |-> [k \in Slot |->
       IF r \in rs /\ poll[r][k].open /\ ~poll[r][k].stale
         THEN [poll[r][k] EXCEPT !.woken = TRUE]
         ELSE poll[r][k]]]

\* what select_runner may return: load, freshness and tags are the runners' own
\* reports, so any registered runner or nobody may be the best one
Eligible == (registered \ LocalOnly) \cup {Nobody}

Waits_TimedOutToo(i) == fut[i] \in {"waiting", "timeout"}    \* mutant: no fut.done()
Waits(i) == fut[i] = "waiting"

Items(queue) == {queue[j] : j \in DOMAIN queue}
OnceEach(queue) == \A j, k \in DOMAIN queue : queue[j] = queue[k] => j = k

\* the items of some out of a queue, in the order they have there
InOrder(some, queue) ==
  {s \in UNION {[1..n -> some] : n \in 0..Len(queue)} :
     /\ Items(s) = some /\ OnceEach(s)
     /\ \A j, k \in DOMAIN s : j < k =>
          \E x, y \in DOMAIN queue : x < y /\ queue[x] = s[j] /\ queue[y] = s[k]}

\* what deregister removes from _by_work_id: of all the items, the live ones have
\* callers that wait, and the refused ones no new runner
Forgets(all, live, refused) == (all \ live) \cup refused

\* the rest of deregister: each item that is still waited for goes to the end of
\* another runner's queue, or its caller is refused
Reroute(r) ==
  /\ leaving[r] # <<>>
  /\ LET moved == {i \in Items(leaving[r]) : Waits(i)}
     IN \E to \in [moved -> Eligible] :
          LET Refused == {i \in moved : to[i] = Nobody}
              For(a) == {i \in moved : to[i] = a}
          IN  /\ \E more \in [Runner -> UNION {InOrder(S, leaving[r]) : S \in SUBSET moved}] :
                   /\ \A a \in Runner : more[a] \in InOrder(For(a), leaving[r])
                   /\ pending' = [a \in Runner |-> pending[a] \o more[a]]
              /\ SetEvents({a \in Runner : For(a) # {}})
              /\ fut' = [i \in Item |-> IF i \in Refused THEN "refused" ELSE fut[i]]
              /\ known' = known \ Forgets(Items(leaving[r]), moved, Refused)
  /\ leaving' = [leaving EXCEPT ![r] = <<>>]
  /\ UNCHANGED <<registered, runnerVars, dropped>>

\* async_delete_runner raises and deregister with it: the queue is popped and the
\* items are neither rerouted nor refused, though every one is still in _by_work_id
DeregisterFails(r) ==
  /\ leaving[r] # <<>>
  /\ dropped' = dropped \cup Items(leaving[r])
  /\ leaving' = [leaving EXCEPT ![r] = <<>>]
  /\ UNCHANGED <<registered, pending, event, callVars, runnerVars, poll>>

-----------------------------------------------------------------------------
(* The callers: _provision_via_runner and _dispatch_runner_op *)

Enqueue(i, r) ==
  /\ fut[i] = "new" /\ r \in registered
  /\ fut' = [fut EXCEPT ![i] = "waiting"]
  /\ known' = known \cup {i}
  /\ pending' = [pending EXCEPT ![r] = Append(@, i)]
  /\ SetEvents({r})
  /\ UNCHANGED <<registered, runnerVars, leaving, dropped>>

\* wait_for cancels the future when its time is up ...
Timeout(i) ==
  /\ fut[i] = "waiting"
  /\ fut' = [fut EXCEPT ![i] = "timeout"]
  /\ UNCHANGED <<registered, pending, event, known, runnerVars, poll, leaving, dropped>>

\* ... and the caller, when it runs again, calls reg.cancel.  The item stays in
\* the queue it is in.
GiveUp(i) ==
  /\ fut[i] = "timeout" /\ i \in known
  /\ known' = known \ {i}
  /\ UNCHANGED <<registered, pending, event, fut, runnerVars, poll, leaving, dropped>>

-----------------------------------------------------------------------------
(* The long-poll: runners_pending and next_pending *)

BeginPoll(r, k) ==
  /\ ~poll[r][k].open /\ r \in registered
  /\ poll' = [poll EXCEPT ![r][k] = [open |-> TRUE, stale |-> FALSE, woken |-> event[r] = "set"]]
  /\ UNCHANGED <<registered, pending, event, callVars, runnerVars, leaving, dropped>>

ClearWhen_Always(rest) == TRUE    \* mutant: clears although work is left
ClearWhen(rest) == rest = <<>>

\* ev.clear() on the event the poll waited on, which may not be the current one
Clear(r, k, rest) ==
  event' = [event EXCEPT ![r] = IF ClearWhen(rest) /\ ~poll[r][k].stale THEN "clear" ELSE @]

\* a woken poll pops the first item of the queue its runner's name has by now;
\* the answer may not reach the runner
PollTakes(r, k) ==
  /\ poll[r][k].open /\ poll[r][k].woken /\ pending[r] # <<>>
  /\ LET i == Head(pending[r])
     IN  /\ holder' = [holder EXCEPT ![i] = r]
         /\ working' \in {working, working \cup {i}}
  /\ pending' = [pending EXCEPT ![r] = Tail(@)]
  /\ Clear(r, k, Tail(pending[r]))
  /\ poll' = [poll EXCEPT ![r][k] = NoPoll]
  /\ UNCHANGED <<registered, callVars, late, leaving, dropped>>

PollFindsNothing(r, k) ==
  /\ poll[r][k].open /\ poll[r][k].woken /\ pending[r] = <<>>
  /\ Clear(r, k, <<>>)
  /\ poll' = [poll EXCEPT ![r][k] = NoPoll]
  /\ UNCHANGED <<registered, pending, callVars, runnerVars, leaving, dropped>>

PollTimesOut(r, k) ==
  /\ poll[r][k].open /\ ~poll[r][k].woken
  /\ poll' = [poll EXCEPT ![r][k] = NoPoll]
  /\ UNCHANGED <<registered, pending, event, callVars, runnerVars, leaving, dropped>>

-----------------------------------------------------------------------------
(* The result: runners_result, fulfill, and the late delivery *)

\* the result of a runner that is no longer registered is answered 404
ResultDropped(i) ==
  /\ i \in working /\ holder[i] \notin registered
  /\ working' = working \ {i}
  /\ UNCHANGED <<registered, pending, event, callVars, holder, late, poll, leaving, dropped>>

Deliverable(i) == i \in known /\ fut[i] = "waiting"

ResultArrives(i) ==
  /\ i \in working /\ holder[i] \in registered
  /\ working' = working \ {i}
  /\ known' = known \ {i}
  /\ \/ /\ Deliverable(i)
        /\ \E a \in {"ok", "failed"} : fut' = [fut EXCEPT ![i] = a]
        /\ UNCHANGED late
     \/ /\ ~Deliverable(i)
        /\ late' = late \cup {i}
        /\ UNCHANGED fut
  /\ UNCHANGED <<registered, pending, event, holder, poll, leaving, dropped>>

\* the runner crashes, or posting the result fails: it is posted only once
WorkLost(i) ==
  /\ i \in working
  /\ working' = working \ {i}
  /\ UNCHANGED <<registered, pending, event, callVars, holder, late, poll, leaving, dropped>>

-----------------------------------------------------------------------------
PollNext(r, k) ==
  BeginPoll(r, k) \/ PollTakes(r, k) \/ PollFindsNothing(r, k) \/ PollTimesOut(r, k)

Next ==
  \/ \E r \in Runner : Register(r) \/ Deregister(r) \/ Reroute(r) \/ DeregisterFails(r)
  \/ \E i \in Item :
       \/ \E r \in Runner : Enqueue(i, r)
       \/ Timeout(i) \/ GiveUp(i)
       \/ ResultDropped(i) \/ ResultArrives(i) \/ WorkLost(i)
  \/ \E r \in Runner, k \in Slot : PollNext(r, k)

Spec == Init /\ [][Next]_vars

-----------------------------------------------------------------------------
(* Properties *)

Queued(i, queue) == i \in Items(queue)

(* No lost wakeup: while work is queued for a runner, the runner is        *)
(* registered, its event is set, and no poll that waits on it is asleep.   *)
(* Several polls, a stale event and a re-registration must not break it.   *)
NoLostWakeup ==
  \A r \in Runner : pending[r] # <<>> =>
    /\ r \in registered /\ event[r] = "set"
    /\ \A k \in Slot : poll[r][k].open /\ ~poll[r][k].stale => poll[r][k].woken

(* An item whose caller still waits is never forgotten: until a runner has *)
(* it, it is in some queue or in the hands of a deregister, and the result *)
(* of that runner will find the caller. The one exception is the code's:   *)
(* what a deregister had popped when its database call failed is in no     *)
(* queue, and only the caller's own timeout ends the wait.                 *)
NothingForgotten ==
  \A i \in Item : fut[i] = "waiting" =>
    /\ i \in known
    /\ \/ holder[i] # Nobody
       \/ \E r \in Runner : Queued(i, pending[r]) \/ Queued(i, leaving[r])
       \/ i \in dropped

(* Callers and runners see the hand-off they are promised.                 *)
Handoff == INSTANCE WorkHandoff WITH answer <- fut, holder <- holder
ImplementsHandoff == Handoff!HandoffSpec

\* An item that is handed out is seen by the poll that waits, and not dropped.
ItemsReachRunners == NoLostWakeup /\ NothingForgotten
=============================================================================
