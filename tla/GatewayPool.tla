----------------------------- MODULE GatewayPool -----------------------------
(***************************************************************************)
(* The gateway's pool of MCP connections of one profile.  A connection is  *)
(* owned by a task of its own that starts the server, serves requests off  *)
(* a queue and ends at a sentinel; callers connect under the pool's lock;  *)
(* an edit of the profile's credentials evicts the pool.                   *)
(***************************************************************************)
EXTENDS Integers, FiniteSets, Sequences

CONSTANTS
    Server,        \* catalog servers
    Caller,        \* concurrent list_tools / call_tool requests
    MaxConns,      \* bound: connections ever spawned
    MaxEdits,      \* bound: edits of the profile's credentials
    None

ASSUME PoolAssumption ==
    /\ MaxConns \in Nat /\ MaxEdits \in Nat
    /\ IsFiniteSet(Caller) /\ None \notin Caller /\ "cancelled" \notin Caller

Conn == 1..MaxConns
Editor == 1..MaxEdits
Stop == None       \* the shutdown sentinel in a queue of callers
Cancelled == "cancelled"   \* on the wire for a caller who went away

VARIABLES
    edits,         \* credentials: how many edits the store has seen
    cached,        \* _conns: server -> its connection, 0 if none
    failed,        \* _failed: servers with a fresh negative-cache entry
    lock,          \* the caller holding _lock, or None
    spawned,       \* connections spawned so far
    conn,          \* connection -> its owner task, environment, queue
    caller,        \* caller -> where its request is
    editor         \* edit -> the close() of the pool it started

poolVars == <<edits, cached, failed, lock, spawned, conn, caller, editor>>

NoConn == [pc |-> "none", server |-> None, env |-> 0, queue |-> <<>>, serving |-> None]
IdleCaller == [pc |-> "idle", server |-> None, conn |-> 0]
NoEdit == [pc |-> "none", todo |-> {}, waits |-> 0, racing |-> {}]

PoolTypeOK ==
    /\ edits \in 0..MaxEdits /\ spawned \in 0..MaxConns
    /\ cached \in [Server -> 0..MaxConns]
    /\ failed \subseteq Server
    /\ lock \in Caller \cup {None}
    /\ conn \in [Conn ->
         [pc : {"none", "starting", "serving", "gone"}, server : Server \cup {None},
          env : 0..MaxEdits, queue : Seq(Caller \cup {Stop}),
          serving : Caller \cup {None, Cancelled}]]
    /\ caller \in [Caller ->
         [pc : {"idle", "locking", "bundling", "starting", "waiting", "stranded"},
          server : Server \cup {None}, conn : 0..MaxConns]]
    /\ editor \in [Editor ->
         [pc : {"none", "closing", "done"}, todo : SUBSET Server, waits : 0..MaxConns,
          racing : SUBSET Conn]]

PoolInit ==
    /\ edits = 0 /\ spawned = 0 /\ failed = {} /\ lock = None
    /\ cached = [s \in Server |-> 0]
    /\ conn = [n \in Conn |-> NoConn]
    /\ caller = [c \in Caller |-> IdleCaller]
    /\ editor = [e \in Editor |-> NoEdit]
-----------------------------------------------------------------------------
(* Callers: _get, then request, with no suspension between the two.        *)

Answer(c) == caller' = [caller EXCEPT ![c] = IdleCaller]

Request(c, n) ==
    /\ conn' = [conn EXCEPT ![n].queue = Append(@, c)]
    /\ caller' = [caller EXCEPT ![c] = [pc |-> "waiting", server |-> conn[n].server, conn |-> n]]

\* The connection is in the cache: _error is raised, or the request is queued.
Use(c, n) ==
    IF conn[n].pc = "gone" THEN Answer(c) /\ UNCHANGED conn ELSE Request(c, n)

CallCached(c, s) ==
    /\ caller[c].pc = "idle" /\ cached[s] # 0
    /\ Use(c, cached[s])
    /\ UNCHANGED <<edits, cached, failed, lock, spawned, editor>>

Connecting == {c \in Caller : caller[c].pc \in {"locking", "bundling"}}

\* Not in the cache, and no recent failure: the caller goes for the lock.
CallConnects(c, s) ==
    /\ caller[c].pc = "idle" /\ cached[s] = 0 /\ s \notin failed
    /\ spawned + Cardinality(Connecting) < MaxConns
    /\ caller' = [caller EXCEPT ![c] = [pc |-> "locking", server |-> s, conn |-> 0]]
    /\ UNCHANGED <<edits, cached, failed, lock, spawned, conn, editor>>

\* With the lock it looks again, and materialises the bundle in a thread.
Acquire(c) ==
    /\ caller[c].pc = "locking" /\ lock = None
    /\ \/ /\ cached[caller[c].server] # 0
          /\ Use(c, cached[caller[c].server])
          /\ UNCHANGED lock
       \/ /\ cached[caller[c].server] = 0
          /\ lock' = c
          /\ caller' = [caller EXCEPT ![c].pc = "bundling"]
          /\ UNCHANGED conn
    /\ UNCHANGED <<edits, cached, failed, spawned, editor>>

\* The environment is read and the owner task started.
Spawn(c) ==
    /\ caller[c].pc = "bundling"
    /\ spawned' = spawned + 1
    /\ conn' = [conn EXCEPT ![spawned'] =
                  [NoConn EXCEPT !.pc = "starting", !.server = caller[c].server, !.env = edits]]
    /\ caller' = [caller EXCEPT ![c].pc = "starting", ![c].conn = spawned']
    /\ UNCHANGED <<edits, cached, failed, lock, editor>>

\* The server has initialised in time: the connection is cached and used.
Started(c) ==
    LET n == caller[c].conn IN
    /\ caller[c].pc = "starting" /\ conn[n].pc = "starting"
    /\ cached' = [cached EXCEPT ![caller[c].server] = n]
    /\ failed' = failed \ {caller[c].server}
    /\ lock' = None
    /\ conn' = [conn EXCEPT ![n].pc = "serving", ![n].queue = <<c>>]
    /\ caller' = [caller EXCEPT ![c].pc = "waiting"]
    /\ UNCHANGED <<edits, spawned, editor>>

\* It failed, or was cancelled because it took too long.
StartFails(c) ==
    /\ caller[c].pc = "starting"
    /\ conn' = [conn EXCEPT ![caller[c].conn].pc = "gone"]
    /\ failed' = failed \cup {caller[c].server}
    /\ lock' = None
    /\ Answer(c)
    /\ UNCHANGED <<edits, cached, spawned, editor>>

\* The owner passes over a request whose future is cancelled; a caller has one.
Unqueued(queue, c) ==
    IF c \notin {queue[i] : i \in 1..Len(queue)} THEN queue
    ELSE LET k == CHOOSE i \in 1..Len(queue) : queue[i] = c
         IN  [i \in 1..(Len(queue) - 1) |-> IF i < k THEN queue[i] ELSE queue[i + 1]]

CancelCall_StaysQueued(c) ==    \* mutant: the owner does not look whether the future is cancelled
    /\ caller[c].pc # "idle"
    /\ Answer(c)
    /\ lock' = IF lock = c THEN None ELSE lock
    /\ failed' = IF caller[c].pc = "starting" THEN failed \cup {caller[c].server} ELSE failed
    /\ UNCHANGED <<edits, cached, spawned, conn, editor>>
\* The client cancels its request.  While it connects, the owner task is left
\* to itself; one on the wire goes on for nobody.
CancelCall(c) ==
    /\ caller[c].pc # "idle"
    /\ Answer(c)
    /\ lock' = IF lock = c THEN None ELSE lock
    /\ failed' = IF caller[c].pc = "starting" THEN failed \cup {caller[c].server} ELSE failed
    /\ conn' = IF caller[c].pc = "waiting"
               THEN [conn EXCEPT ![caller[c].conn].queue = Unqueued(@, c),
                                 ![caller[c].conn].serving = IF @ = c THEN Cancelled ELSE @]
               ELSE conn
    /\ UNCHANGED <<edits, cached, spawned, editor>>

\* The entry of the negative cache outlives failure_ttl.
FailureExpires(s) ==
    /\ s \in failed /\ failed' = failed \ {s}
    /\ UNCHANGED <<edits, cached, lock, spawned, conn, caller, editor>>
-----------------------------------------------------------------------------
(* The owner task of a connection.                                         *)

Idling(n) == conn[n].pc = "serving" /\ conn[n].serving = None

\* A server whose caller went away while it started comes up all the same.
OrphanStarts(n) ==
    /\ conn[n].pc = "starting" /\ \A c \in Caller : caller[c].conn # n
    /\ conn' = [conn EXCEPT ![n].pc = "serving"]
    /\ UNCHANGED <<edits, cached, failed, lock, spawned, caller, editor>>

TakeRequest(n) ==
    /\ Idling(n) /\ conn[n].queue # <<>> /\ Head(conn[n].queue) # Stop
    /\ conn' = [conn EXCEPT ![n].serving = Head(conn[n].queue), ![n].queue = Tail(@)]
    /\ UNCHANGED <<edits, cached, failed, lock, spawned, caller, editor>>

\* The server's result or its error reaches the caller.
Reply(n) ==
    /\ conn[n].pc = "serving" /\ conn[n].serving # None
    /\ caller' = [c \in Caller |-> IF conn[n].serving = c THEN IdleCaller ELSE caller[c]]
    /\ conn' = [conn EXCEPT ![n].serving = None]
    /\ UNCHANGED <<edits, cached, failed, lock, spawned, editor>>

QueuedAt(n) == {conn[n].queue[i] : i \in 1..Len(conn[n].queue)} \ {Stop}

OwnerEnds_Abandons(n, answered) ==    \* mutant: the queue is not drained
    /\ conn' = [conn EXCEPT ![n].pc = "gone", ![n].queue = <<>>, ![n].serving = None]
    /\ UNCHANGED caller
\* _run ends and _drain_pending answers what is still queued with an error; a
\* request that is on the wire is nobody's any more.
OwnerEnds(n, answered) ==
    /\ conn' = [conn EXCEPT ![n].pc = "gone", ![n].queue = <<>>, ![n].serving = None]
    /\ caller' = [c \in Caller |-> IF c \in answered THEN IdleCaller
                                   ELSE IF c = conn[n].serving
                                   THEN [IdleCaller EXCEPT !.pc = "stranded"] ELSE caller[c]]

OwnerStops(n) ==
    /\ Idling(n) /\ conn[n].queue # <<>> /\ Head(conn[n].queue) = Stop
    /\ OwnerEnds(n, QueuedAt(n))
    /\ UNCHANGED <<edits, cached, failed, lock, spawned, editor>>

\* The transport's task group fails and cancels the owner.
TransportFails(n) ==
    /\ conn[n].pc = "serving"
    /\ OwnerEnds(n, QueuedAt(n))
    /\ UNCHANGED <<edits, cached, failed, lock, spawned, editor>>
-----------------------------------------------------------------------------
(* The operator edits the profile's credentials: close() evicts the servers *)
(* that are cached now, one by one, waiting for each owner to end.          *)

StoreEdit ==
    /\ edits < MaxEdits /\ edits' = edits + 1
    /\ editor' = [editor EXCEPT ![edits'] =
         [pc |-> "closing", todo |-> {s \in Server : cached[s] # 0}, waits |-> 0,
          racing |-> {n \in Conn : conn[n].pc = "starting"}]]
    /\ UNCHANGED <<cached, failed, lock, spawned, conn, caller>>

Resting(e) == editor[e].waits # 0 => conn[editor[e].waits].pc = "gone"

Evict_KeepsCached(e, s) ==    \* mutant: the connection leaves the cache when it has ended
    /\ editor[e].pc = "closing" /\ Resting(e) /\ s \in editor[e].todo
    /\ editor' = [editor EXCEPT ![e].todo = @ \ {s}, ![e].waits = cached[s]]
    /\ conn' = IF cached[s] = 0 THEN conn
               ELSE [conn EXCEPT ![cached[s]].queue = Append(@, Stop)]
    /\ UNCHANGED <<edits, cached, failed, lock, spawned, caller>>

Evict_IfIdle(e, s) ==    \* mutant: a connection that is serving is left to finish
    /\ editor[e].pc = "closing" /\ Resting(e) /\ s \in editor[e].todo
    /\ LET evicts == cached[s] # 0 /\ Idling(cached[s]) IN
        /\ editor' = [editor EXCEPT ![e].todo = @ \ {s}, ![e].waits = IF evicts THEN cached[s] ELSE 0]
        /\ cached' = IF evicts THEN [cached EXCEPT ![s] = 0] ELSE cached
        /\ conn' = IF evicts THEN [conn EXCEPT ![cached[s]].queue = Append(@, Stop)] ELSE conn
    /\ UNCHANGED <<edits, failed, lock, spawned, caller>>

Evict(e, s) ==
    /\ editor[e].pc = "closing" /\ Resting(e) /\ s \in editor[e].todo
    /\ editor' = [editor EXCEPT ![e].todo = @ \ {s}, ![e].waits = cached[s]]
    /\ cached' = [cached EXCEPT ![s] = 0]
    /\ conn' = IF cached[s] = 0 THEN conn
               ELSE [conn EXCEPT ![cached[s]].queue = Append(@, Stop)]
    /\ UNCHANGED <<edits, failed, lock, spawned, caller>>

\* The pool is done with: recent failures are forgotten too.
Evicted(e) ==
    /\ editor[e].pc = "closing" /\ Resting(e) /\ editor[e].todo = {}
    /\ editor' = [editor EXCEPT ![e].pc = "done", ![e].waits = 0]
    /\ failed' = {}
    /\ UNCHANGED <<edits, cached, lock, spawned, conn, caller>>
-----------------------------------------------------------------------------
CallerStep(c) == Acquire(c) \/ Spawn(c) \/ Started(c) \/ StartFails(c)
OwnerStep(n) == TakeRequest(n) \/ Reply(n) \/ OwnerStops(n)
EditorStep(e) == Evicted(e) \/ \E s \in Server : Evict(e, s)

PoolNext ==
    \/ \E c \in Caller : CallerStep(c) \/ CancelCall(c)
    \/ \E c \in Caller, s \in Server : CallCached(c, s) \/ CallConnects(c, s)
    \/ \E s \in Server : FailureExpires(s)
    \/ \E n \in Conn : OwnerStep(n) \/ OrphanStarts(n) \/ TransportFails(n)
    \/ StoreEdit \/ \E e \in Editor : EditorStep(e)

PoolSpec == PoolInit /\ [][PoolNext]_poolVars

\* Coroutines of a running loop; connecting has a timeout, the lock is fair,
\* and a server answers what it was asked.
PoolFairness ==
    /\ \A c \in Caller : SF_poolVars(Acquire(c)) /\ WF_poolVars(CallerStep(c))
    /\ \A n \in Conn : WF_poolVars(OwnerStep(n))
    /\ \A e \in Editor : WF_poolVars(EditorStep(e))
-----------------------------------------------------------------------------
\* A cached connection is not being shut down: no request is ever queued
\* behind the sentinel of an eviction, where only an error could answer it.
NothingBehindStop ==
    /\ \A n \in Conn : \A i \in 1..Len(conn[n].queue) :
          conn[n].queue[i] = Stop => i = Len(conn[n].queue)
    /\ \A s \in Server : cached[s] # 0 => Stop \notin
          {conn[cached[s]].queue[i] : i \in 1..Len(conn[cached[s]].queue)}

\* Nobody waits for nothing: the lock, while somebody waits for it, is free or
\* with a caller that is about to have a connection; who starts one has the
\* lock; and who waits for an answer is queued at, or on the wire of, a
\* connection whose owner is there to serve or to drain it.
WaitersAttended == \A c \in Caller :
    /\ caller[c].pc = "locking" => lock = None \/ caller[lock].pc \in {"bundling", "starting"}
    /\ caller[c].pc \in {"bundling", "starting"} => lock = c
    /\ caller[c].pc = "starting" => conn[caller[c].conn].pc = "starting"
    /\ caller[c].pc = "waiting" =>
          LET n == caller[c].conn
          IN  conn[n].pc = "serving" /\ c \in QueuedAt(n) \cup {conn[n].serving}

\* Whoever waits in the pool waits for something that can answer, not for an error.
CallsAttended == NothingBehindStop /\ WaitersAttended

\* Of a call the pool promises what GatewayCalls says.
Calls == INSTANCE GatewayCalls WITH
    open <- {c \in Caller : caller[c].pc # "idle"},
    lost <- {c \in Caller : caller[c].pc = "stranded"},
    running <- [n \in Conn |-> conn[n].serving]
ImplementsCalls == Calls!CallsSpec

\* A request is answered, unless its transport failed while it was on the wire.
CallAnswered == \A c \in Caller :
    caller[c].pc # "idle" ~> caller[c].pc \in {"idle", "stranded"}
=============================================================================
