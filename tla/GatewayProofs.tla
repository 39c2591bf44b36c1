---------------------------- MODULE GatewayProofs ---------------------------
(***************************************************************************)
(* Theorems about the MCP gateway: its pool of connections, the bundles    *)
(* servers are spawned from, the policy that decides where data may go,    *)
(* and the requests that are checked against it before the pool answers    *)
(* them.                                                                   *)
(***************************************************************************)
EXTENDS MCGateway, NumberLemmas, SequenceTheorems, FiniteSetTheorems, TLAPS

-----------------------------------------------------------------------------
(***************************************************************************)
(* The pool of connections                                                 *)
(***************************************************************************)

(* Queues *)

\* the sentinel is last, and is not there at all
StopIsLast(queue) == \A i \in 1..Len(queue) : queue[i] = Stop => i = Len(queue)
NotStopped(queue) == \A i \in 1..Len(queue) : queue[i] # Stop

Queue == Seq(Caller \cup {Stop})

LEMMA AppendRequest ==
  ASSUME NEW queue \in Queue, NotStopped(queue), NEW c \in Caller
  PROVE  Append(queue, c) \in Queue /\ NotStopped(Append(queue, c))
<1>1. /\ Append(queue, c) \in Queue /\ Len(Append(queue, c)) = Len(queue) + 1
      /\ \A i \in 1..Len(queue) : Append(queue, c)[i] = queue[i]
      /\ Append(queue, c)[Len(queue) + 1] = c
  BY AppendProperties DEF Queue
<1>2. Len(queue) \in Nat
  BY LenProperties DEF Queue
<1>3. ASSUME NEW i \in 1..(Len(queue) + 1) PROVE Append(queue, c)[i] # Stop
  BY <1>1, <1>2, <1>3, PoolAssumption DEF NotStopped, Stop
<1>4. QED
  BY <1>1, <1>3 DEF NotStopped

LEMMA AppendStop ==
  ASSUME NEW queue \in Queue, NotStopped(queue)
  PROVE  Append(queue, Stop) \in Queue /\ StopIsLast(Append(queue, Stop))
<1>1. /\ Append(queue, Stop) \in Queue /\ Len(Append(queue, Stop)) = Len(queue) + 1
      /\ \A i \in 1..Len(queue) : Append(queue, Stop)[i] = queue[i]
  BY AppendProperties DEF Queue
<1>2. Len(queue) \in Nat
  BY LenProperties DEF Queue
<1>3. ASSUME NEW i \in 1..(Len(queue) + 1), Append(queue, Stop)[i] = Stop PROVE i = Len(queue) + 1
  <2>1. i \in 1..Len(queue) \/ i = Len(queue) + 1
    BY <1>2
  <2>2. \A k \in 1..Len(queue) : Append(queue, Stop)[k] # Stop
    BY <1>1, Zenon DEF NotStopped
  <2>3. QED
    BY <1>3, <2>1, <2>2, Zenon
<1>4. QED
  BY <1>1, <1>3 DEF StopIsLast

LEMMA TakeFirst ==
  ASSUME NEW queue \in Queue, queue # <<>>
  PROVE  /\ Tail(queue) \in Queue
         /\ StopIsLast(queue) => StopIsLast(Tail(queue))
         /\ NotStopped(queue) => NotStopped(Tail(queue))
<1>1. /\ Tail(queue) \in Queue /\ Len(Tail(queue)) = Len(queue) - 1
      /\ \A i \in 1..Len(Tail(queue)) : Tail(queue)[i] = queue[i + 1]
  BY HeadTailProperties DEF Queue
<1>2. Len(queue) \in Nat
  BY LenProperties DEF Queue
<1>3. \A i \in 1..Len(Tail(queue)) : i + 1 \in 1..Len(queue)
  BY <1>1, <1>2
<1>4. ASSUME StopIsLast(queue), NEW i \in 1..Len(Tail(queue)), Tail(queue)[i] = Stop
      PROVE  i = Len(Tail(queue))
  <2>1. i + 1 = Len(queue)
    BY <1>1, <1>3, <1>4 DEF StopIsLast
  <2>2. PICK n : n = Len(Tail(queue))
    OBVIOUS
  <2>3. n = Len(queue) - 1
    BY <1>1, <2>2
  <2>4. n \in Int /\ i \in Int
    BY <1>2, <1>4, <2>2, <2>3
  <2>5. i = n
    BY <1>2, <2>1, <2>3, <2>4
  <2>6. QED
    BY <2>2, <2>5, Zenon
<1>5. ASSUME NotStopped(queue), NEW i \in 1..Len(Tail(queue)) PROVE Tail(queue)[i] # Stop
  BY <1>1, <1>3, <1>5 DEF NotStopped
<1>6. QED
  BY <1>1, <1>4, <1>5 DEF StopIsLast, NotStopped

LEMMA LeaveQueue ==
  ASSUME NEW queue \in Queue, NEW c \in Caller
  PROVE  /\ Unqueued(queue, c) \in Queue
         /\ StopIsLast(queue) => StopIsLast(Unqueued(queue, c))
         /\ NotStopped(queue) => NotStopped(Unqueued(queue, c))
<1>1. CASE c \notin {queue[i] : i \in 1..Len(queue)}
  BY <1>1 DEF Unqueued
<1>2. CASE c \in {queue[i] : i \in 1..Len(queue)}
  <2>1. PICK k : k = CHOOSE i \in 1..Len(queue) : queue[i] = c
    OBVIOUS
  <2>2. k \in 1..Len(queue) /\ queue[k] = c
    BY <1>2, <2>1
  <2>3. PICK left : left = [i \in 1..(Len(queue) - 1) |-> IF i < k THEN queue[i] ELSE queue[i + 1]]
    OBVIOUS
  <2>4. Unqueued(queue, c) = left
    BY <1>2, <2>1, <2>3 DEF Unqueued
  <2>5. Len(queue) \in Nat /\ Len(queue) - 1 \in Nat
    BY <2>2, LenProperties DEF Queue
  <2>6. \A i \in 1..Len(queue) : queue[i] \in Caller \cup {Stop}
    BY ElementOfSeq DEF Queue
  <2>7. left \in [1..(Len(queue) - 1) -> Caller \cup {Stop}]
    BY <2>2, <2>3, <2>5, <2>6
  <2>8. left \in Queue /\ Len(left) = Len(queue) - 1
    BY <2>5, <2>7, SeqDef, LenProperties DEF Queue
  <2>9. ASSUME StopIsLast(queue) PROVE StopIsLast(left)
    <3>1. ASSUME NEW i \in 1..(Len(queue) - 1), left[i] = Stop PROVE i = Len(queue) - 1
      <4>1. CASE i < k
        <5>1. i \in 1..Len(queue) /\ queue[i] = Stop /\ i # Len(queue)
          BY <2>2, <2>3, <2>5, <3>1, <4>1
        <5>2. QED
          BY <2>9, <5>1 DEF StopIsLast
      <4>2. CASE ~(i < k)
        <5>1. i + 1 \in 1..Len(queue) /\ queue[i + 1] = Stop
          BY <2>2, <2>3, <2>5, <3>1, <4>2
        <5>2. i + 1 = Len(queue)
          BY <2>9, <5>1 DEF StopIsLast
        <5>3. QED
          BY <2>5, <5>2
      <4>3. QED
        BY <4>1, <4>2
    <3>2. QED
      BY <2>8, <3>1 DEF StopIsLast
  <2>10. ASSUME NotStopped(queue) PROVE NotStopped(left)
    BY <2>2, <2>3, <2>5, <2>8, <2>10 DEF NotStopped
  <2>11. QED
    BY <2>4, <2>8, <2>9, <2>10
<1>3. QED
  BY <1>1, <1>2

-----------------------------------------------------------------------------
(* The inductive invariant *)

Connection ==
  [pc : {"none", "starting", "serving", "gone"}, server : Server \cup {None}, env : 0..MaxEdits,
   queue : Queue, serving : Caller \cup {None, Cancelled}]
CallerState ==
  [pc : {"idle", "locking", "bundling", "starting", "waiting", "stranded"},
   server : Server \cup {None}, conn : 0..MaxConns]

Typed ==
  /\ edits \in 0..MaxEdits /\ spawned \in 0..MaxConns
  /\ cached \in [Server -> 0..MaxConns]
  /\ conn \in [Conn -> Connection]
  /\ caller \in [Caller -> CallerState]

\* Connections are made one after the other, and never more than there may be:
\* whoever is about to make one has been counted.
Counted ==
  /\ spawned + Cardinality(Connecting) <= MaxConns
  /\ \A s \in Server : cached[s] <= spawned
  /\ \A c \in Caller : caller[c].conn <= spawned

\* Callers and the cache know the connections of their servers.
Matched ==
  /\ \A s \in Server : cached[s] # 0 => conn[cached[s]].server = s
  /\ \A c \in Caller : caller[c].pc \in {"locking", "bundling", "starting"} => caller[c].server \in Server
  /\ \A c \in Caller : caller[c].pc = "starting" =>
       caller[c].conn \in Conn /\ conn[caller[c].conn].server = caller[c].server
  /\ \A c \in Caller : caller[c].pc = "waiting" => caller[c].conn \in Conn

QueuesOrdered ==
  /\ \A n \in Conn : StopIsLast(conn[n].queue)
  /\ \A s \in Server : cached[s] # 0 => NotStopped(conn[cached[s]].queue)

PoolInv == Typed /\ Counted /\ Matched /\ QueuesOrdered

LEMMA ConnectingFinite ==
  IsFiniteSet(Connecting) /\ Cardinality(Connecting) \in Nat
<1>1. Connecting \in SUBSET Caller
  BY DEF Connecting
<1>2. QED
  BY <1>1, PoolAssumption, FS_Subset, FS_CardinalityType

\* fewer callers connect
LEMMA FewerConnect ==
  ASSUME Counted, Typed, spawned' = spawned, Connecting' \subseteq Connecting
  PROVE  spawned' + Cardinality(Connecting') <= MaxConns
<1>1. Connecting' \in SUBSET Connecting
  OBVIOUS
<1>2. IsFiniteSet(Connecting') /\ Cardinality(Connecting') <= Cardinality(Connecting)
  BY <1>1, ConnectingFinite, FS_Subset
<1>3. Cardinality(Connecting') \in Nat
  BY <1>2, FS_CardinalityType
<1>4. QED
  BY <1>2, <1>3, ConnectingFinite, PoolAssumption DEF Counted, Typed

LEMMA InitPoolInv == PoolInit => PoolInv
<1> SUFFICES ASSUME PoolInit PROVE PoolInv
  OBVIOUS
<1>1. <<>> \in Queue /\ StopIsLast(<<>>)
  BY EmptySeq DEF Queue, StopIsLast
<1>2. NoConn \in Connection /\ IdleCaller \in CallerState
  BY <1>1, PoolAssumption DEF NoConn, Connection, IdleCaller, CallerState
<1>3. Typed
  BY <1>2, PoolAssumption DEF PoolInit, Typed
<1>4. Connecting = {}
  BY DEF PoolInit, Connecting, IdleCaller
<1>5. Counted
  BY <1>4, FS_EmptySet, PoolAssumption DEF PoolInit, Counted, IdleCaller
<1>6. Matched
  BY DEF PoolInit, Matched, IdleCaller
<1>7. QueuesOrdered
  BY <1>1 DEF PoolInit, QueuesOrdered, NoConn
<1>8. QED
  BY <1>3, <1>5, <1>6, <1>7 DEF PoolInv

-----------------------------------------------------------------------------
(* It is preserved *)

SameServers == \A n \in Conn : conn'[n].server = conn[n].server

\* A connection changes and keeps its order; as it is cached, nothing is put
\* behind a sentinel.
LEMMA ConnChanges ==
  ASSUME PoolInv, NEW n \in Conn, NEW r \in Connection, conn' = [conn EXCEPT ![n] = r],
         r.server = conn[n].server, StopIsLast(r.queue),
         NotStopped(conn[n].queue) => NotStopped(r.queue),
         UNCHANGED cached
  PROVE  conn' \in [Conn -> Connection] /\ QueuesOrdered' /\ SameServers
<1>1. conn \in [Conn -> Connection] /\ cached \in [Server -> 0..MaxConns]
  BY DEF PoolInv, Typed
<1>2. \A k \in Conn : conn'[k] = IF k = n THEN r ELSE conn[k]
  BY <1>1
<1>3. \A k \in Conn : StopIsLast(conn'[k].queue)
  BY <1>2 DEF PoolInv, QueuesOrdered
<1>4. ASSUME NEW s \in Server, cached[s] # 0 PROVE NotStopped(conn'[cached[s]].queue)
  <2>1. cached[s] \in Conn
    BY <1>1, <1>4, PoolAssumption DEF Conn
  <2>2. QED
    BY <1>2, <1>4, <2>1 DEF PoolInv, QueuesOrdered
<1>5. QED
  BY <1>1, <1>2, <1>3, <1>4 DEF QueuesOrdered, SameServers

\* Callers come to wait or rest: none connects that did not.
LEMMA CallersSettle ==
  ASSUME PoolInv, caller' \in [Caller -> CallerState], SameServers, UNCHANGED <<cached, spawned>>,
         \A c \in Caller :
           \/ caller'[c] = caller[c]
           \/ /\ caller'[c].pc \in {"idle", "waiting", "stranded"} /\ caller'[c].conn <= spawned
              /\ caller'[c].pc = "waiting" => caller'[c].conn \in Conn
  PROVE  Counted' /\ Matched'
<1>1. Connecting' \subseteq Connecting
  BY DEF Connecting
<1>2. Counted'
  BY <1>1, FewerConnect DEF PoolInv, Counted
<1>3. ASSUME NEW s \in Server, cached[s] # 0 PROVE conn'[cached[s]].server = s
  <2>1. cached[s] \in Conn
    BY <1>3, PoolAssumption DEF PoolInv, Typed, Conn
  <2>2. QED
    BY <1>3, <2>1 DEF PoolInv, Matched, SameServers
<1>4. Matched'
  BY <1>3 DEF PoolInv, Matched, SameServers
<1>5. QED
  BY <1>2, <1>4

LEMMA UseKeeps ==
  ASSUME PoolInv, NEW c \in Caller, NEW s \in Server, cached[s] # 0, Use(c, cached[s]),
         UNCHANGED <<edits, cached, spawned>>
  PROVE  PoolInv'
<1>1. PICK n : n = cached[s]
  OBVIOUS
<1>2. n \in Conn /\ n <= spawned /\ n \in 0..MaxConns
  BY <1>1, PoolAssumption DEF PoolInv, Typed, Counted, Conn
<1>3. conn[n] \in Connection /\ conn[n].server = s
  BY <1>1, <1>2 DEF PoolInv, Typed, Matched
<1>4. CASE Answer(c) /\ UNCHANGED conn
  <2>1. IdleCaller \in CallerState
    BY PoolAssumption DEF IdleCaller, CallerState
  <2>2. Typed'
    BY <1>4, <2>1 DEF PoolInv, Typed, Answer
  <2>3. \A d \in Caller : caller'[d] = IF d = c THEN IdleCaller ELSE caller[d]
    BY <1>4 DEF PoolInv, Typed, Answer
  <2>4. Counted' /\ Matched'
    BY <1>4, <2>2, <2>3, CallersSettle DEF Typed, IdleCaller, SameServers, PoolInv
  <2>5. QED
    BY <1>4, <2>2, <2>4 DEF PoolInv, QueuesOrdered
<1>5. CASE Request(c, n)
  <2>1. PICK r : r = [conn[n] EXCEPT !.queue = Append(@, c)]
    OBVIOUS
  <2>2. conn[n].queue \in Queue /\ NotStopped(conn[n].queue)
    BY <1>1, <1>3 DEF Connection, PoolInv, QueuesOrdered
  <2>3. Append(conn[n].queue, c) \in Queue /\ NotStopped(Append(conn[n].queue, c))
    BY <2>2, AppendRequest
  <2>4. r \in Connection /\ r.server = conn[n].server /\ r.queue = Append(conn[n].queue, c)
    BY <1>3, <2>1, <2>3 DEF Connection
  <2>5. conn' = [conn EXCEPT ![n] = r]
    BY <1>5, <2>1 DEF Request
  <2>6. StopIsLast(r.queue)
    BY <2>3, <2>4 DEF NotStopped, StopIsLast
  <2>7. conn' \in [Conn -> Connection] /\ QueuesOrdered' /\ SameServers
    BY <1>2, <2>3, <2>4, <2>5, <2>6, ConnChanges
  <2>8. PICK w : w = [pc |-> "waiting", server |-> conn[n].server, conn |-> n]
    OBVIOUS
  <2>9. w \in CallerState /\ w.pc = "waiting" /\ w.conn = n
    BY <1>2, <1>3, <2>8 DEF CallerState
  <2>10. \A d \in Caller : caller'[d] = IF d = c THEN w ELSE caller[d]
    BY <1>5, <2>8 DEF Request, PoolInv, Typed
  <2>11. caller' \in [Caller -> CallerState]
    BY <1>5, <2>8, <2>9 DEF Request, PoolInv, Typed
  <2>12. Counted' /\ Matched'
    BY <1>2, <2>7, <2>9, <2>10, <2>11, CallersSettle
  <2>13. QED
    BY <2>7, <2>11, <2>12 DEF PoolInv, Typed
<1>6. QED
  BY <1>1, <1>4, <1>5 DEF Use

LEMMA ConnectsKeeps ==
  ASSUME PoolInv, NEW c \in Caller, NEW s \in Server, CallConnects(c, s)
  PROVE  PoolInv'
<1>1. PICK r : r = [pc |-> "locking", server |-> s, conn |-> 0]
  OBVIOUS
<1>2. r \in CallerState /\ r.pc = "locking" /\ r.server = s /\ r.conn = 0
  BY <1>1, PoolAssumption DEF CallerState
<1>3. caller' = [caller EXCEPT ![c] = r] /\ UNCHANGED <<edits, cached, spawned, conn>>
  BY <1>1 DEF CallConnects
<1>4. \A d \in Caller : caller'[d] = IF d = c THEN r ELSE caller[d]
  BY <1>3 DEF PoolInv, Typed
<1>5. Typed'
  BY <1>2, <1>3 DEF PoolInv, Typed
<1>6. Connecting' = Connecting \cup {c}
  BY <1>2, <1>4 DEF Connecting
<1>7. spawned + Cardinality(Connecting') <= MaxConns
  <2>1. Cardinality(Connecting') =
          IF c \in Connecting THEN Cardinality(Connecting) ELSE Cardinality(Connecting) + 1
    BY <1>6, ConnectingFinite, FS_AddElement
  <2>2. spawned + Cardinality(Connecting) < MaxConns /\ spawned \in Nat
    BY PoolAssumption DEF CallConnects, PoolInv, Typed
  <2>3. QED
    BY <2>1, <2>2, ConnectingFinite, PoolAssumption
<1>8. Counted'
  BY <1>2, <1>3, <1>4, <1>7 DEF PoolInv, Counted, Typed
<1>9. Matched'
  BY <1>2, <1>3, <1>4 DEF PoolInv, Matched
<1>10. QED
  BY <1>3, <1>5, <1>8, <1>9 DEF PoolInv, QueuesOrdered

LEMMA AcquireKeeps ==
  ASSUME PoolInv, NEW c \in Caller, Acquire(c)
  PROVE  PoolInv'
<1>1. caller[c].pc = "locking" /\ caller[c].server \in Server
  BY DEF Acquire, PoolInv, Matched
<1>2. CASE cached[caller[c].server] # 0 /\ Use(c, cached[caller[c].server])
  BY <1>1, <1>2, UseKeeps DEF Acquire
<1>3. CASE caller' = [caller EXCEPT ![c].pc = "bundling"] /\ UNCHANGED conn
  <2>1. PICK r : r = [caller[c] EXCEPT !.pc = "bundling"]
    OBVIOUS
  <2>2. /\ r \in CallerState /\ r.pc = "bundling"
        /\ r.server = caller[c].server /\ r.conn = caller[c].conn
    BY <2>1 DEF CallerState, PoolInv, Typed
  <2>3. caller' = [caller EXCEPT ![c] = r] /\ UNCHANGED <<edits, cached, spawned>>
    BY <1>3, <2>1 DEF Acquire
  <2>4. \A d \in Caller : caller'[d] = IF d = c THEN r ELSE caller[d]
    BY <2>3 DEF PoolInv, Typed
  <2>5. Typed'
    BY <1>3, <2>2, <2>3 DEF PoolInv, Typed
  <2>6. Connecting' = Connecting
    BY <1>1, <2>2, <2>4 DEF Connecting
  <2>7. Counted'
    BY <2>2, <2>3, <2>4, <2>6 DEF PoolInv, Counted
  <2>8. Matched'
    BY <1>1, <1>3, <2>2, <2>3, <2>4 DEF PoolInv, Matched
  <2>9. QED
    BY <1>3, <2>3, <2>5, <2>7, <2>8 DEF PoolInv, QueuesOrdered
<1>4. QED
  BY <1>2, <1>3 DEF Acquire

LEMMA SpawnKeeps ==
  ASSUME PoolInv, NEW c \in Caller, Spawn(c)
  PROVE  PoolInv'
<1>1. caller[c].pc = "bundling" /\ caller[c].server \in Server /\ c \in Connecting
  BY DEF Spawn, PoolInv, Matched, Connecting
<1>2. spawned' = spawned + 1 /\ spawned \in Nat /\ UNCHANGED <<edits, cached>>
  BY PoolAssumption DEF Spawn, PoolInv, Typed
<1>3. PICK n : n = spawned'
  OBVIOUS
<1>4. PICK r : r = [caller[c] EXCEPT !.pc = "starting", !.conn = n]
  OBVIOUS
<1>5. caller' = [caller EXCEPT ![c] = r]
  BY <1>3, <1>4 DEF Spawn, PoolInv, Typed
<1>6. \A d \in Caller : caller'[d] = IF d = c THEN r ELSE caller[d]
  BY <1>5 DEF PoolInv, Typed
<1>7. r.pc = "starting" /\ r.server = caller[c].server /\ r.conn = n
  BY <1>4 DEF PoolInv, Typed, CallerState
<1>8. Connecting' = Connecting \ {c}
  BY <1>6, <1>7 DEF Connecting
<1>9. Cardinality(Connecting') = Cardinality(Connecting) - 1 /\ Cardinality(Connecting') \in Nat
  <2>1. IsFiniteSet(Connecting') /\ Cardinality(Connecting') = Cardinality(Connecting) - 1
    BY <1>1, <1>8, ConnectingFinite, FS_RemoveElement
  <2>2. QED
    BY <2>1, FS_CardinalityType
<1>10. spawned' + Cardinality(Connecting') <= MaxConns
  BY <1>2, <1>9, ConnectingFinite, PoolAssumption DEF PoolInv, Counted
<1>11. n \in Conn /\ n \in 0..MaxConns /\ n > spawned
  BY <1>2, <1>3, <1>9, <1>10, PoolAssumption DEF Conn
<1>12. PICK k : k = [NoConn EXCEPT !.pc = "starting", !.server = caller[c].server, !.env = edits]
  OBVIOUS
<1>13. <<>> \in Queue /\ StopIsLast(<<>>)
  BY EmptySeq DEF Queue, StopIsLast
<1>14. k \in Connection /\ k.server = caller[c].server /\ k.queue = <<>>
  BY <1>1, <1>12, <1>13 DEF NoConn, Connection, PoolInv, Typed
<1>15. conn' = [conn EXCEPT ![n] = k]
  BY <1>3, <1>12 DEF Spawn
<1>16. \A j \in Conn : conn'[j] = IF j = n THEN k ELSE conn[j]
  BY <1>15 DEF PoolInv, Typed
<1>17. r \in CallerState
  BY <1>4, <1>11 DEF CallerState, PoolInv, Typed
<1>18. Typed'
  BY <1>2, <1>3, <1>5, <1>11, <1>14, <1>15, <1>17 DEF PoolInv, Typed
<1>19. Counted'
  <2>1. \A s \in Server : cached'[s] <= spawned'
    BY <1>2, PoolAssumption DEF PoolInv, Typed, Counted
  <2>2. \A d \in Caller : caller'[d].conn <= spawned'
    <3>1. SUFFICES ASSUME NEW d \in Caller, d # c PROVE caller[d].conn <= spawned'
      BY <1>2, <1>3, <1>6, <1>7
    <3>2. caller[d].conn \in 0..MaxConns /\ caller[d].conn <= spawned
      BY DEF PoolInv, Typed, Counted, CallerState
    <3>3. QED
      BY <1>2, <3>2, PoolAssumption
  <2>3. QED
    BY <1>10, <2>1, <2>2 DEF Counted
<1>20. \A s \in Server : cached[s] # 0 => cached[s] \in Conn /\ cached[s] # n
  BY <1>2, <1>11, PoolAssumption DEF PoolInv, Typed, Counted, Conn
<1>21. \A d \in Caller : caller[d].conn # n
  <2>1. SUFFICES ASSUME NEW d \in Caller PROVE caller[d].conn # n
    OBVIOUS
  <2>2. caller[d].conn \in 0..MaxConns /\ caller[d].conn <= spawned
    BY DEF PoolInv, Typed, Counted, CallerState
  <2>3. QED
    BY <1>2, <1>11, <2>2, PoolAssumption
<1>22. Matched'
  <2>1. \A s \in Server : cached'[s] # 0 => conn'[cached'[s]].server = s
    BY <1>2, <1>16, <1>20 DEF PoolInv, Matched
  <2>2. \A d \in Caller :
          caller'[d].pc \in {"locking", "bundling", "starting"} => caller'[d].server \in Server
    BY <1>1, <1>6, <1>7 DEF PoolInv, Matched
  <2>3. \A d \in Caller : caller'[d].pc = "starting" =>
          caller'[d].conn \in Conn /\ conn'[caller'[d].conn].server = caller'[d].server
    <3>1. SUFFICES ASSUME NEW d \in Caller, caller'[d].pc = "starting"
                   PROVE  caller'[d].conn \in Conn /\ conn'[caller'[d].conn].server = caller'[d].server
      OBVIOUS
    <3>2. CASE d = c
      BY <1>6, <1>7, <1>11, <1>14, <1>16, <3>2
    <3>3. CASE d # c
      <4>1. caller'[d] = caller[d] /\ caller[d].conn # n
        BY <1>6, <1>21, <3>3
      <4>2. caller[d].conn \in Conn /\ conn[caller[d].conn].server = caller[d].server
        <5>1. caller[d].pc = "starting" /\ Matched
          BY <3>1, <4>1 DEF PoolInv
        <5>2. QED
          BY <5>1 DEF Matched
      <4>3. QED
        BY <1>16, <4>1, <4>2
    <3>4. QED
      BY <3>2, <3>3
  <2>4. \A d \in Caller : caller'[d].pc = "waiting" => caller'[d].conn \in Conn
    BY <1>6, <1>7 DEF PoolInv, Matched
  <2>5. QED
    BY <2>1, <2>2, <2>3, <2>4 DEF Matched
<1>23. QueuesOrdered'
  BY <1>2, <1>13, <1>14, <1>16, <1>20 DEF PoolInv, QueuesOrdered
<1>24. QED
  BY <1>18, <1>19, <1>22, <1>23 DEF PoolInv

LEMMA StartedKeeps ==
  ASSUME PoolInv, NEW c \in Caller, Started(c)
  PROVE  PoolInv'
<1>1. PICK n : n = caller[c].conn
  OBVIOUS
<1>2. PICK s : s = caller[c].server
  OBVIOUS
<1>3. n \in Conn /\ n <= spawned /\ s \in Server /\ conn[n].server = s /\ conn[n] \in Connection
  BY <1>1, <1>2 DEF Started, PoolInv, Typed, Counted, Matched
<1>4. <<c>> \in Queue /\ NotStopped(<<c>>) /\ StopIsLast(<<c>>)
  <2>1. <<c>> \in Queue
    BY DEF Queue
  <2>2. QED
    BY <2>1, PoolAssumption DEF NotStopped, StopIsLast, Stop
<1>5. PICK k : k = [conn[n] EXCEPT !.pc = "serving", !.queue = <<c>>]
  OBVIOUS
<1>6. k \in Connection /\ k.server = s /\ k.queue = <<c>>
  BY <1>3, <1>4, <1>5 DEF Connection
<1>7. conn' = [conn EXCEPT ![n] = k]
  BY <1>1, <1>5 DEF Started, PoolInv, Typed
<1>8. \A j \in Conn : conn'[j] = IF j = n THEN k ELSE conn[j]
  BY <1>7 DEF PoolInv, Typed
<1>9. cached' = [cached EXCEPT ![s] = n] /\ UNCHANGED <<edits, spawned>>
  BY <1>1, <1>2 DEF Started
<1>10. PICK r : r = [caller[c] EXCEPT !.pc = "waiting"]
  OBVIOUS
<1>11. r \in CallerState /\ r.pc = "waiting" /\ r.conn = n
  BY <1>1, <1>10 DEF CallerState, PoolInv, Typed
<1>12. caller' = [caller EXCEPT ![c] = r]
  BY <1>10 DEF Started
<1>13. \A d \in Caller : caller'[d] = IF d = c THEN r ELSE caller[d]
  BY <1>12 DEF PoolInv, Typed
<1>14. n \in 0..MaxConns
  BY <1>3, PoolAssumption DEF Conn
<1>15. Typed'
  BY <1>6, <1>7, <1>9, <1>11, <1>12, <1>14 DEF PoolInv, Typed
<1>16. \A t \in Server : cached'[t] = IF t = s THEN n ELSE cached[t]
  BY <1>9 DEF PoolInv, Typed
<1>17. Connecting' \subseteq Connecting
  BY <1>11, <1>13 DEF Connecting
<1>18. Counted'
  <2>1. spawned' + Cardinality(Connecting') <= MaxConns
    BY <1>9, <1>17, FewerConnect DEF PoolInv
  <2>2. QED
    BY <1>3, <1>9, <1>11, <1>13, <1>16, <2>1 DEF PoolInv, Counted
<1>19. \A t \in Server : cached[t] # 0 => cached[t] \in Conn
  BY PoolAssumption DEF PoolInv, Typed, Conn
<1>20. Matched'
  BY <1>3, <1>6, <1>8, <1>11, <1>13, <1>16, <1>19 DEF PoolInv, Matched
<1>21. QueuesOrdered'
  <2>1. \A j \in Conn : StopIsLast(conn'[j].queue)
    BY <1>4, <1>6, <1>8 DEF PoolInv, QueuesOrdered
  <2>2. \A t \in Server : cached'[t] # 0 => NotStopped(conn'[cached'[t]].queue)
    BY <1>3, <1>4, <1>6, <1>8, <1>16, <1>19 DEF PoolInv, QueuesOrdered
  <2>3. QED
    BY <2>1, <2>2 DEF QueuesOrdered
<1>22. QED
  BY <1>15, <1>18, <1>20, <1>21 DEF PoolInv

\* a caller goes away, and with it perhaps its connection, or its place in the queue
LEMMA LeavesKeeps ==
  ASSUME PoolInv, NEW c \in Caller, StartFails(c) \/ CancelCall(c)
  PROVE  PoolInv'
<1>1. PICK n : n = caller[c].conn
  OBVIOUS
<1>2. UNCHANGED <<edits, cached, spawned>> /\ Answer(c)
  BY DEF StartFails, CancelCall
<1>3. conn' \in [Conn -> Connection] /\ QueuesOrdered' /\ SameServers
  <2>1. CASE UNCHANGED conn
    BY <1>2, <2>1 DEF PoolInv, Typed, QueuesOrdered, SameServers
  <2>2. CASE StartFails(c)
    <3>1. n \in Conn /\ conn[n] \in Connection
      BY <1>1, <2>2 DEF StartFails, PoolInv, Matched, Typed
    <3>2. PICK k : k = [conn[n] EXCEPT !.pc = "gone"]
      OBVIOUS
    <3>3. k \in Connection /\ k.server = conn[n].server /\ k.queue = conn[n].queue
      BY <3>1, <3>2 DEF Connection
    <3>4. conn' = [conn EXCEPT ![n] = k]
      BY <1>1, <2>2, <3>2 DEF StartFails
    <3>5. QED
      BY <1>2, <3>1, <3>3, <3>4, ConnChanges DEF PoolInv, QueuesOrdered
  <2>3. CASE CancelCall(c) /\ caller[c].pc = "waiting"
    <3>1. n \in Conn /\ conn[n] \in Connection /\ conn[n].queue \in Queue
      BY <1>1, <2>3 DEF PoolInv, Matched, Typed, Connection
    <3>2. PICK serving : serving = IF conn[n].serving = c THEN Cancelled ELSE conn[n].serving
      OBVIOUS
    <3>3. PICK k : k = [conn[n] EXCEPT !.queue = Unqueued(conn[n].queue, c), !.serving = serving]
      OBVIOUS
    <3>4. /\ Unqueued(conn[n].queue, c) \in Queue
          /\ StopIsLast(conn[n].queue) => StopIsLast(Unqueued(conn[n].queue, c))
          /\ NotStopped(conn[n].queue) => NotStopped(Unqueued(conn[n].queue, c))
      BY <3>1, LeaveQueue
    <3>5. serving \in Caller \cup {None, Cancelled}
      BY <3>1, <3>2 DEF Connection
    <3>6. k \in Connection /\ k.server = conn[n].server /\ k.queue = Unqueued(conn[n].queue, c)
      BY <3>1, <3>3, <3>4, <3>5 DEF Connection
    <3>7. conn' = [conn EXCEPT ![n] = k]
      BY <1>1, <2>3, <3>1, <3>2, <3>3 DEF CancelCall, PoolInv, Typed
    <3>8. QED
      BY <1>2, <3>1, <3>4, <3>6, <3>7, ConnChanges DEF PoolInv, QueuesOrdered
  <2>4. QED
    BY <2>1, <2>2, <2>3 DEF CancelCall
<1>4. IdleCaller \in CallerState /\ IdleCaller.pc = "idle" /\ IdleCaller.conn = 0
  BY PoolAssumption DEF IdleCaller, CallerState
<1>5. Typed'
  BY <1>2, <1>3, <1>4 DEF PoolInv, Typed, Answer
<1>6. \A d \in Caller : caller'[d] = IF d = c THEN IdleCaller ELSE caller[d]
  BY <1>2 DEF PoolInv, Typed, Answer
<1>7. Counted' /\ Matched'
  BY <1>2, <1>3, <1>4, <1>5, <1>6, CallersSettle DEF Typed, PoolInv
<1>8. QED
  BY <1>3, <1>5, <1>7 DEF PoolInv

\* The owner of a connection: what it serves changes, its queue shrinks, and
\* those it has answered, or left, are no longer at it.
LEMMA OwnerKeeps ==
  ASSUME PoolInv, NEW n \in Conn,
         OwnerStep(n) \/ OrphanStarts(n) \/ TransportFails(n)
  PROVE  PoolInv'
<1>1. conn[n] \in Connection /\ conn[n].queue \in Queue /\ StopIsLast(conn[n].queue)
  BY DEF PoolInv, Typed, Connection, QueuesOrdered
<1>2. UNCHANGED <<edits, cached, spawned>>
  BY DEF OwnerStep, OrphanStarts, TransportFails, TakeRequest, Reply, OwnerStops
<1>3. <<>> \in Queue /\ StopIsLast(<<>>) /\ NotStopped(<<>>)
  BY EmptySeq DEF Queue, StopIsLast, NotStopped
<1>4. conn' \in [Conn -> Connection] /\ QueuesOrdered' /\ SameServers
  <2>1. CASE OrphanStarts(n)
    <3>1. PICK k : k = [conn[n] EXCEPT !.pc = "serving"]
      OBVIOUS
    <3>2. k \in Connection /\ k.server = conn[n].server /\ k.queue = conn[n].queue
      BY <1>1, <3>1 DEF Connection
    <3>3. conn' = [conn EXCEPT ![n] = k]
      BY <2>1, <3>1 DEF OrphanStarts
    <3>4. QED
      BY <1>1, <1>2, <3>2, <3>3, ConnChanges
  <2>2. CASE Reply(n)
    <3>1. PICK k : k = [conn[n] EXCEPT !.serving = None]
      OBVIOUS
    <3>2. k \in Connection /\ k.server = conn[n].server /\ k.queue = conn[n].queue
      BY <1>1, <3>1 DEF Connection
    <3>3. conn' = [conn EXCEPT ![n] = k]
      BY <2>2, <3>1 DEF Reply
    <3>4. QED
      BY <1>1, <1>2, <3>2, <3>3, ConnChanges
  <2>3. CASE TakeRequest(n)
    <3>1. conn[n].queue # <<>> /\ Head(conn[n].queue) # Stop
      BY <2>3 DEF TakeRequest
    <3>2. Head(conn[n].queue) \in Caller
      BY <1>1, <3>1, HeadTailProperties DEF Queue
    <3>3. /\ Tail(conn[n].queue) \in Queue
          /\ StopIsLast(conn[n].queue) => StopIsLast(Tail(conn[n].queue))
          /\ NotStopped(conn[n].queue) => NotStopped(Tail(conn[n].queue))
      BY <1>1, <3>1, TakeFirst
    <3>4. PICK k : k = [conn[n] EXCEPT !.serving = Head(conn[n].queue), !.queue = Tail(conn[n].queue)]
      OBVIOUS
    <3>5. k \in Connection /\ k.server = conn[n].server /\ k.queue = Tail(conn[n].queue)
      BY <1>1, <3>2, <3>3, <3>4 DEF Connection
    <3>6. conn' = [conn EXCEPT ![n] = k]
      BY <2>3, <3>4 DEF TakeRequest, PoolInv, Typed
    <3>7. QED
      BY <1>1, <1>2, <3>3, <3>5, <3>6, ConnChanges
  <2>4. CASE OwnerStops(n) \/ TransportFails(n)
    <3>1. PICK k : k = [conn[n] EXCEPT !.pc = "gone", !.queue = <<>>, !.serving = None]
      OBVIOUS
    <3>2. k \in Connection /\ k.server = conn[n].server /\ k.queue = <<>>
      BY <1>1, <1>3, <3>1 DEF Connection
    <3>3. conn' = [conn EXCEPT ![n] = k]
      BY <2>4, <3>1 DEF OwnerStops, TransportFails, OwnerEnds, PoolInv, Typed
    <3>4. QED
      BY <1>2, <1>3, <3>2, <3>3, ConnChanges
  <2>5. QED
    BY <2>1, <2>2, <2>3, <2>4 DEF OwnerStep
<1>5. /\ IdleCaller \in CallerState /\ IdleCaller.pc = "idle" /\ IdleCaller.conn = 0
      /\ [IdleCaller EXCEPT !.pc = "stranded"] \in CallerState
      /\ [IdleCaller EXCEPT !.pc = "stranded"].pc = "stranded"
      /\ [IdleCaller EXCEPT !.pc = "stranded"].conn = 0
  BY PoolAssumption DEF IdleCaller, CallerState
<1>6. /\ caller' \in [Caller -> CallerState]
      /\ \A c \in Caller : \/ caller'[c] = caller[c]
                           \/ caller'[c] \in {IdleCaller, [IdleCaller EXCEPT !.pc = "stranded"]}
  <2>1. CASE UNCHANGED caller
    BY <2>1 DEF PoolInv, Typed
  <2>2. CASE Reply(n)
    BY <1>5, <2>2 DEF Reply, PoolInv, Typed
  <2>3. CASE OwnerStops(n) \/ TransportFails(n)
    <3>1. PICK answered : OwnerEnds(n, answered)
      BY <2>3 DEF OwnerStops, TransportFails
    <3>2. PICK idle, lost : idle = IdleCaller /\ lost = [IdleCaller EXCEPT !.pc = "stranded"]
      OBVIOUS
    <3>3. caller' = [c \in Caller |-> IF c \in answered THEN idle
                                    ELSE IF c = conn[n].serving THEN lost ELSE caller[c]]
      BY <3>1, <3>2 DEF OwnerEnds
    <3>4. caller \in [Caller -> CallerState] /\ idle \in CallerState /\ lost \in CallerState
      BY <1>5, <3>2 DEF PoolInv, Typed
    <3>5. QED
      BY <3>2, <3>3, <3>4
  <2>4. QED
    BY <2>1, <2>2, <2>3 DEF OwnerStep, OrphanStarts, TakeRequest
<1>7. 0 <= spawned
  BY PoolAssumption DEF PoolInv, Typed
<1>8. Counted' /\ Matched'
  BY <1>2, <1>4, <1>5, <1>6, <1>7, CallersSettle
<1>9. QED
  BY <1>2, <1>4, <1>6, <1>8 DEF PoolInv, Typed

\* The sentinel goes to a connection as it leaves the cache: no other server's
\* entry stands for the same connection.
LEMMA EvictKeeps ==
  ASSUME PoolInv, NEW e \in Editor, NEW s \in Server, Evict(e, s)
  PROVE  PoolInv'
<1>1. UNCHANGED <<edits, spawned, caller>> /\ cached' = [cached EXCEPT ![s] = 0]
  BY DEF Evict
<1>2. \A t \in Server : cached'[t] = IF t = s THEN 0 ELSE cached[t]
  BY <1>1 DEF PoolInv, Typed
<1>3. \A t \in Server : cached[t] # 0 => cached[t] \in Conn
  BY PoolAssumption DEF PoolInv, Typed, Conn
<1>4. CASE cached[s] = 0
  BY <1>1, <1>2, <1>4 DEF Evict, PoolInv, Typed, Counted, Matched, QueuesOrdered, Connecting
<1>5. CASE cached[s] # 0
  <2>1. PICK n : n = cached[s]
    OBVIOUS
  <2>2. /\ n \in Conn /\ conn[n] \in Connection /\ conn[n].server = s
        /\ conn[n].queue \in Queue /\ NotStopped(conn[n].queue)
    BY <1>3, <1>5, <2>1 DEF PoolInv, Typed, Connection, Matched, QueuesOrdered
  <2>3. Append(conn[n].queue, Stop) \in Queue /\ StopIsLast(Append(conn[n].queue, Stop))
    BY <2>2, AppendStop
  <2>4. PICK k : k = [conn[n] EXCEPT !.queue = Append(@, Stop)]
    OBVIOUS
  <2>5. k \in Connection /\ k.server = s /\ k.queue = Append(conn[n].queue, Stop)
    BY <2>2, <2>3, <2>4 DEF Connection
  <2>6. conn' = [conn EXCEPT ![n] = k]
    BY <1>5, <2>1, <2>4 DEF Evict
  <2>7. \A j \in Conn : conn'[j] = IF j = n THEN k ELSE conn[j]
    BY <2>6 DEF PoolInv, Typed
  <2>8. SameServers
    BY <2>2, <2>5, <2>7 DEF SameServers
  <2>9. \A t \in Server : cached'[t] # 0 => cached'[t] \in Conn /\ cached'[t] # n /\ cached'[t] = cached[t]
    BY <1>2, <1>3, <2>2 DEF PoolInv, Matched
  <2>10. Typed'
    <3>1. cached' \in [Server -> 0..MaxConns]
      BY <1>1, PoolAssumption DEF PoolInv, Typed
    <3>2. conn' \in [Conn -> Connection]
      BY <2>5, <2>6 DEF PoolInv, Typed
    <3>3. QED
      BY <1>1, <3>1, <3>2 DEF PoolInv, Typed
  <2>11. Counted'
    BY <1>1, <1>2, PoolAssumption DEF PoolInv, Typed, Counted, Connecting
  <2>12. Matched'
    BY <1>1, <2>8, <2>9 DEF PoolInv, Matched, SameServers
  <2>13. QueuesOrdered'
    BY <2>3, <2>5, <2>7, <2>9 DEF PoolInv, QueuesOrdered
  <2>14. QED
    BY <2>10, <2>11, <2>12, <2>13 DEF PoolInv
<1>6. QED
  BY <1>4, <1>5

\* steps that touch neither connections nor callers
LEMMA QuietKeeps ==
  ASSUME PoolInv, edits' \in 0..MaxEdits, UNCHANGED <<cached, spawned, conn, caller>>
  PROVE  PoolInv'
  BY DEF PoolInv, Typed, Counted, Matched, QueuesOrdered, Connecting

LEMMA NextKeeps == PoolInv /\ [PoolNext]_poolVars => PoolInv'
<1>1. ASSUME PoolInv, NEW c \in Caller, CallerStep(c) \/ CancelCall(c) PROVE PoolInv'
  BY <1>1, AcquireKeeps, SpawnKeeps, StartedKeeps, LeavesKeeps DEF CallerStep
<1>2. ASSUME PoolInv, NEW c \in Caller, NEW s \in Server, CallCached(c, s) \/ CallConnects(c, s)
      PROVE  PoolInv'
  BY <1>2, UseKeeps, ConnectsKeeps DEF CallCached
<1>3. ASSUME PoolInv, NEW s \in Server, FailureExpires(s) PROVE PoolInv'
  BY <1>3, QuietKeeps DEF FailureExpires, PoolInv, Typed
<1>4. ASSUME PoolInv, StoreEdit PROVE PoolInv'
  <2>1. edits' \in 0..MaxEdits
    BY <1>4, PoolAssumption DEF StoreEdit, PoolInv, Typed
  <2>2. QED
    BY <1>4, <2>1, QuietKeeps DEF StoreEdit
<1>5. ASSUME PoolInv, NEW e \in Editor, EditorStep(e) PROVE PoolInv'
  <2>1. CASE Evicted(e)
    BY <1>5, <2>1, QuietKeeps DEF Evicted, PoolInv, Typed
  <2>2. QED
    BY <1>5, <2>1, EvictKeeps DEF EditorStep
<1>6. ASSUME PoolInv, UNCHANGED poolVars PROVE PoolInv'
  BY <1>6, QuietKeeps DEF poolVars, PoolInv, Typed
<1>7. QED
  BY <1>1, <1>2, <1>3, <1>4, <1>5, <1>6, OwnerKeeps DEF PoolNext

LEMMA PoolInvariant == PoolSpec => []PoolInv
  BY InitPoolInv, NextKeeps, PTL DEF PoolSpec

-----------------------------------------------------------------------------
(* Theorems *)

(* An eviction takes a connection out of the cache and tells it to stop in   *)
(* one step, and a request is queued in the step that finds its connection   *)
(* in the cache: so no request stands behind a sentinel, however callers,    *)
(* owners, editors and cancellations interleave.                             *)
THEOREM NoneBehindStop == PoolSpec => []NothingBehindStop
<1>1. PoolInv => NothingBehindStop
  BY DEF PoolInv, QueuesOrdered, StopIsLast, NotStopped, NothingBehindStop
<1>2. QED
  BY <1>1, PoolInvariant, PTL

-----------------------------------------------------------------------------
(***************************************************************************)
(* The bundle cache                                                        *)
(***************************************************************************)

AtWork ==
    [pc : {"idle", "checking", "getting", "wiping", "extracting", "manifest", "marking", "mapping",
           "done", "failed"},
     etag : Version, blob : Version, todo : SUBSET File, env : [File -> Version]]

EditsBegun == {e \in Edit : edit[e] # "idle"}

BundleTyped ==
    /\ versions \in 0..Cardinality(EditsBegun) /\ object \in {0, versions}
    /\ edit \in [Edit -> {"idle", "cleaning", "done"}]
    /\ cache \in [files : [File -> Version], manifest : Version, marker : Version]
    /\ worker \in [Worker -> AtWork]
    /\ wiped \in [Worker -> BOOLEAN] /\ torn \in BOOLEAN

\* what a materialisation fetches is no older than what its HEAD saw
FetchedLater == \A w \in Worker :
    /\ Materialising(w) => worker[w].etag \in 1..versions
    /\ worker[w].pc = "wiping" \/ Writing(w) => worker[w].blob >= worker[w].etag

AllFiles(v) == \A f \in File : cache.files[f] = v

\* Who writes to a cache that is not torn wiped it himself and is alone since.
WriterAlone == \A w \in Worker : ~torn /\ Writing(w) =>
    /\ cache.marker = 0
    /\ \A v \in Worker : Writing(v) => v = w
    /\ \A f \in File : f \notin worker[w].todo => cache.files[f] = worker[w].blob
    /\ worker[w].pc # "extracting" => worker[w].todo = {}

\* A marker stands on a whole bundle that nobody writes to any more, and a
\* server is given what it marks.
MarkedWhole ==
    /\ ~torn /\ cache.marker # 0 =>
          /\ \A w \in Worker : ~Writing(w)
          /\ \E v \in Version : v >= cache.marker /\ AllFiles(v)
    /\ \A w \in Worker : worker[w].pc = "mapping" /\ ~wiped[w] /\ ~torn =>
          cache.marker = worker[w].etag

BundleInv == BundleTyped /\ FetchedLater /\ WriterAlone /\ MarkedWhole

LEMMA VersionIs ==
  ASSUME BundleTyped
  PROVE  /\ IsFiniteSet(EditsBegun) /\ Cardinality(EditsBegun) <= Cardinality(Edit)
         /\ Cardinality(EditsBegun) \in Nat /\ Cardinality(Edit) \in Nat
         /\ versions \in Version /\ 0 \in Version /\ Version \subseteq Nat /\ object \in Version
<1>1. IsFiniteSet(EditsBegun) /\ Cardinality(EditsBegun) <= Cardinality(Edit)
  BY BundleAssumption, FS_Subset DEF EditsBegun
<1>2. Cardinality(EditsBegun) \in Nat /\ Cardinality(Edit) \in Nat
  BY <1>1, BundleAssumption, FS_CardinalityType
<1>3. QED
  BY <1>1, <1>2 DEF BundleTyped, Version

LEMMA NothingCached ==
  ASSUME 0 \in Version
  PROVE  /\ NoCache \in [files : [File -> Version], manifest : Version, marker : Version]
         /\ NoCache.marker = 0 /\ Asleep \in AtWork /\ Asleep.pc = "idle"
<1>1. [f \in File |-> 0] \in [File -> Version]
  OBVIOUS
<1>2. QED
  BY <1>1 DEF NoCache, Asleep, AtWork

LEMMA InitBundleInv == BundleInit => BundleInv
<1> SUFFICES ASSUME BundleInit PROVE BundleInv
  OBVIOUS
<1>1. 0 \in Version
  BY BundleAssumption, FS_CardinalityType DEF Version
<1>2. EditsBegun = {}
  BY DEF BundleInit, EditsBegun
<1>3. Cardinality(EditsBegun) = 0
  BY <1>2, FS_EmptySet
<1>4. BundleTyped
  <2>1. wiped \in [Worker -> BOOLEAN] /\ torn \in BOOLEAN
    BY DEF BundleInit
  <2>2. worker \in [Worker -> AtWork] /\ edit \in [Edit -> {"idle", "cleaning", "done"}]
    BY <1>1, NothingCached DEF BundleInit
  <2>3. cache \in [files : [File -> Version], manifest : Version, marker : Version]
    BY <1>1, NothingCached DEF BundleInit
  <2>4. versions \in 0..Cardinality(EditsBegun) /\ object \in {0, versions}
    BY <1>3 DEF BundleInit
  <2>5. QED
    BY <2>1, <2>2, <2>3, <2>4 DEF BundleTyped
<1>5. \A w \in Worker : worker[w].pc = "idle"
  BY <1>1, NothingCached DEF BundleInit
<1>6. cache.marker = 0
  BY <1>1, NothingCached DEF BundleInit
<1>7. FetchedLater /\ WriterAlone /\ MarkedWhole
  BY <1>5, <1>6 DEF FetchedLater, WriterAlone, MarkedWhole, Materialising, Writing
<1>8. QED
  BY <1>4, <1>7 DEF BundleInv

-----------------------------------------------------------------------------
\* a worker goes on, and neither cache nor edits are touched
LEMMA WorkerMoves ==
  ASSUME BundleInv, NEW w \in Worker, NEW x \in AtWork, worker' = [worker EXCEPT ![w] = x],
         UNCHANGED <<versions, object, edit, cache, wiped, torn>>,
         Materialising(w)' => x.etag \in 1..versions,
         x.pc = "wiping" => x.blob >= x.etag, ~Writing(w)',
         x.pc = "mapping" => (~torn => cache.marker = x.etag)
  PROVE  BundleInv'
<1>1. worker' \in [Worker -> AtWork] /\ worker'[w] = x
      /\ \A v \in Worker : v # w => worker'[v] = worker[v]
  BY DEF BundleInv, BundleTyped
<1>2. BundleTyped'
  BY <1>1 DEF BundleInv, BundleTyped, EditsBegun
<1>3. FetchedLater'
  BY <1>1 DEF BundleInv, FetchedLater, Materialising, Writing
<1>4. WriterAlone'
  BY <1>1 DEF BundleInv, WriterAlone, Writing
<1>5. MarkedWhole'
  BY <1>1 DEF BundleInv, MarkedWhole, Writing, AllFiles
<1>6. QED
  BY <1>2, <1>3, <1>4, <1>5 DEF BundleInv

LEMMA WorkerStays == ASSUME BundleInv, NEW w \in Worker PROVE worker[w] \in AtWork
  BY DEF BundleInv, BundleTyped

\* the cache is wiped: whoever writes to it tears it
LEMMA CacheWiped ==
  ASSUME BundleInv, NEW ws \in SUBSET Worker, Wipe(NoCache, ws),
         versions' \in 0..Cardinality(EditsBegun)', versions' >= versions, object' \in {0, versions'},
         edit' \in [Edit -> {"idle", "cleaning", "done"}],
         worker' \in [Worker -> AtWork],
         \A v \in Worker : v \notin ws => worker'[v] = worker[v],
         \A v \in ws : ~Writing(v) /\ (Writing(v)' => ws = {v} /\ worker'[v].todo = File
                                                      /\ worker'[v].pc = "extracting"),
         \A v \in ws : Materialising(v)' => worker'[v].etag \in 1..versions,
         \A v \in ws : worker'[v].pc \notin {"wiping", "mapping"},
         \A v \in ws : Writing(v)' => worker'[v].blob >= worker'[v].etag
  PROVE  BundleInv'
<1>1. cache' = NoCache /\ 0 \in Version /\ cache'.marker = 0
      /\ cache' \in [files : [File -> Version], manifest : Version, marker : Version]
  BY VersionIs, NothingCached DEF Wipe, BundleInv
<1>2. /\ wiped' = [v \in Worker |-> wiped[v] \/ (v \notin ws /\ Materialising(v))]
      /\ torn' = (\E v \in Worker \ ws : Writing(v))
  BY DEF Wipe
<1>3. BundleTyped'
  <2>1. wiped' \in [Worker -> BOOLEAN] /\ torn' \in BOOLEAN
    BY <1>2
  <2>2. QED
    BY <1>1, <2>1 DEF BundleTyped
<1>4. FetchedLater'
  <2>1. ASSUME NEW v \in Worker, v \notin ws
        PROVE  /\ Materialising(v)' => worker'[v].etag \in 1..versions'
               /\ worker'[v].pc = "wiping" \/ Writing(v)' => worker'[v].blob >= worker'[v].etag
    <3>1. versions \in Nat /\ versions' \in Nat /\ versions <= versions' /\ worker'[v] = worker[v]
      BY <2>1, VersionIs DEF BundleInv, BundleTyped
    <3>2. 1..versions \subseteq 1..versions'
      BY <3>1
    <3>3. QED
      BY <3>1, <3>2 DEF BundleInv, FetchedLater, Materialising, Writing
  <2>2. ASSUME NEW v \in ws
        PROVE  /\ Materialising(v)' => worker'[v].etag \in 1..versions'
               /\ worker'[v].pc = "wiping" \/ Writing(v)' => worker'[v].blob >= worker'[v].etag
    <3>1. versions \in Nat /\ versions' \in Nat /\ versions <= versions'
      BY VersionIs DEF BundleInv, BundleTyped
    <3>2. 1..versions \subseteq 1..versions'
      BY <3>1
    <3>3. QED
      BY <3>2
  <2>3. QED
    BY <2>1, <2>2 DEF FetchedLater
<1>5. WriterAlone'
  <2>1. ASSUME NEW w \in Worker, ~torn', Writing(w)' PROVE w \in ws
    BY <1>2, <2>1 DEF Writing
  <2>2. QED
    BY <1>1, <2>1 DEF WriterAlone, Writing
<1>6. MarkedWhole'
  BY <1>1, <1>2 DEF MarkedWhole, Materialising
<1>7. QED
  BY <1>3, <1>4, <1>5, <1>6 DEF BundleInv

\* a worker writes to the cache
LEMMA WriterMoves ==
  ASSUME BundleInv, NEW w \in Worker, Writing(w), NEW x \in AtWork,
         worker' = [worker EXCEPT ![w] = x],
         UNCHANGED <<versions, object, edit, wiped, torn>>,
         x.etag = worker[w].etag, x.blob = worker[w].blob,
         cache' \in [files : [File -> Version], manifest : Version, marker : Version],
         x.pc \in {"extracting", "manifest", "marking"} => cache'.marker = cache.marker,
         \A f \in File : f \notin worker[w].todo \/ f \notin x.todo =>
            cache'.files[f] = IF f \notin worker[w].todo THEN cache.files[f] ELSE x.blob,
         x.pc \in {"manifest", "marking"} => x.todo = {},
         x.pc \in {"extracting", "manifest", "marking", "mapping", "failed"},
         x.pc = "mapping" => worker[w].todo = {} /\ cache'.marker = x.etag,
         x.pc = "failed" => UNCHANGED cache
  PROVE  BundleInv'
<1>1. worker' \in [Worker -> AtWork] /\ worker'[w] = x
      /\ \A v \in Worker : v # w => worker'[v] = worker[v]
  BY DEF BundleInv, BundleTyped
<1>2. BundleTyped'
  BY <1>1 DEF BundleInv, BundleTyped, EditsBegun
<1>3. x.etag \in 1..versions /\ x.blob >= x.etag
  BY DEF BundleInv, FetchedLater, Writing, Materialising
<1>4. FetchedLater'
  BY <1>1, <1>3 DEF BundleInv, FetchedLater, Materialising, Writing
<1>5. CASE torn
  BY <1>2, <1>4, <1>5 DEF BundleInv, WriterAlone, MarkedWhole
<1>6. CASE ~torn
  <2>1. /\ cache.marker = 0 /\ \A v \in Worker : Writing(v) => v = w
        /\ \A f \in File : f \notin worker[w].todo => cache.files[f] = x.blob
    BY <1>6 DEF BundleInv, WriterAlone
  <2>2. \A v \in Worker : Writing(v)' => v = w
    BY <1>1, <2>1 DEF Writing
  <2>3. WriterAlone'
    <3>1. ASSUME Writing(w)' PROVE cache'.marker = 0
      BY <1>1, <2>1, <3>1 DEF Writing
    <3>2. ASSUME Writing(w)', NEW f \in File, f \notin x.todo PROVE cache'.files[f] = x.blob
      BY <2>1, <3>2
    <3>3. Writing(w)' /\ x.pc # "extracting" => x.todo = {}
      BY <1>1 DEF Writing
    <3>4. QED
      BY <1>1, <2>2, <3>1, <3>2, <3>3 DEF WriterAlone
  <2>4. \A v \in Worker : v # w /\ worker[v].pc = "mapping" /\ ~wiped[v] => FALSE
    <3>1. ASSUME NEW v \in Worker, v # w, worker[v].pc = "mapping", ~wiped[v] PROVE FALSE
      <4>1. cache.marker = worker[v].etag /\ worker[v].etag \in 1..versions
        BY <1>6, <3>1 DEF BundleInv, MarkedWhole, FetchedLater, Materialising
      <4>2. QED
        BY <2>1, <4>1 DEF BundleInv, BundleTyped
    <3>2. QED
      BY <3>1
  <2>5. CASE x.pc = "mapping"
    <3>1. \A f \in File : cache'.files[f] = x.blob
      BY <2>1, <2>5
    <3>2. x.blob \in Version
      BY DEF AtWork
    <3>3. AllFiles(x.blob)'
      BY <3>1 DEF AllFiles
    <3>4. ~Writing(w)'
      BY <1>1, <2>5 DEF Writing
    <3>5. MarkedWhole'
      BY <1>1, <1>3, <2>2, <2>4, <2>5, <3>2, <3>3, <3>4 DEF MarkedWhole
    <3>6. QED
      BY <1>2, <1>4, <2>3, <3>5 DEF BundleInv
  <2>6. CASE x.pc # "mapping"
    <3>1. cache'.marker = 0
      BY <2>1, <2>6
    <3>2. MarkedWhole'
      BY <1>1, <2>4, <2>6, <3>1 DEF MarkedWhole
    <3>3. QED
      BY <1>2, <1>4, <2>3, <3>2 DEF BundleInv
  <2>7. QED
    BY <2>5, <2>6
<1>7. QED
  BY <1>5, <1>6
-----------------------------------------------------------------------------
\* the steps of materialize

LEMMA HeadKeeps ==
  ASSUME BundleInv, NEW w \in Worker, HeadObject(w)
  PROVE  BundleInv'
<1>1. worker[w] \in AtWork /\ worker[w].pc = "idle" /\ UNCHANGED <<versions, object, edit>>
  BY WorkerStays DEF HeadObject
<1>2. CASE object = 0
  <2>1. Wipe(NoCache, {w}) /\ worker' = [worker EXCEPT ![w].pc = "done"]
    BY <1>2 DEF HeadObject, WorkerGoes
  <2>2. PICK x \in AtWork : x = [worker[w] EXCEPT !.pc = "done"]
    BY <1>1 DEF AtWork
  <2>3. x.pc = "done" /\ worker' = [worker EXCEPT ![w] = x]
    BY <1>1, <2>1, <2>2 DEF AtWork
  <2>4. worker' \in [Worker -> AtWork] /\ worker'[w] = x
        /\ \A v \in Worker : v # w => worker'[v] = worker[v]
    BY <2>3 DEF BundleInv, BundleTyped
  <2>5. \A v \in {w} : /\ ~Writing(v) /\ ~Writing(v)' /\ ~Materialising(v)'
                      /\ worker'[v].pc \notin {"wiping", "mapping"}
    BY <1>1, <2>3, <2>4 DEF Writing, Materialising
  <2>6. /\ versions' \in 0..Cardinality(EditsBegun)' /\ versions' >= versions
        /\ object' \in {0, versions'} /\ edit' \in [Edit -> {"idle", "cleaning", "done"}]
    BY <1>1 DEF BundleInv, BundleTyped, EditsBegun
  <2>7. \A v \in Worker : v \notin {w} => worker'[v] = worker[v]
    BY <2>4
  <2>8. QED
    BY <2>1, <2>4, <2>5, <2>6, <2>7, CacheWiped
<1>3. CASE object # 0
  <2>1. PICK x \in AtWork : x = [worker[w] EXCEPT !.pc = "checking", !.etag = object]
    <3>1. object \in Version
      BY VersionIs DEF BundleInv
    <3>2. QED
      BY <1>1, <3>1 DEF AtWork
  <2>2. /\ worker' = [worker EXCEPT ![w] = x] /\ x.pc = "checking" /\ x.etag = object
        /\ UNCHANGED <<cache, wiped, torn>>
    BY <1>1, <1>3, <2>1 DEF HeadObject, AtWork, historyVars
  <2>3. object \in 1..versions
    BY <1>3, VersionIs DEF BundleInv, BundleTyped
  <2>4. ~Writing(w)'
    BY <2>2 DEF BundleInv, BundleTyped, Writing
  <2>5. QED
    BY <1>1, <2>2, <2>3, <2>4, WorkerMoves
<1>4. QED
  BY <1>2, <1>3

LEMMA CheckKeeps ==
  ASSUME BundleInv, NEW w \in Worker, CheckFresh(w)
  PROVE  BundleInv'
<1>1. /\ worker[w] \in AtWork /\ worker[w].pc = "checking"
      /\ UNCHANGED <<versions, object, edit, cache, wiped, torn>>
  BY WorkerStays DEF CheckFresh, historyVars
<1>2. PICK pc \in {"mapping", "getting"} : pc = IF IsFresh(w) THEN "mapping" ELSE "getting"
  OBVIOUS
<1>3. worker' = [worker EXCEPT ![w].pc = pc]
  BY <1>2 DEF CheckFresh, WorkerGoes
<1>4. PICK x \in AtWork : x = [worker[w] EXCEPT !.pc = pc]
  BY <1>1 DEF AtWork
<1>5. worker' = [worker EXCEPT ![w] = x] /\ x.pc = pc /\ x.etag = worker[w].etag
  BY <1>1, <1>3, <1>4 DEF AtWork
<1>6. x.etag \in 1..versions
  BY <1>1, <1>5 DEF BundleInv, FetchedLater, Materialising
<1>7. x.pc = "mapping" => cache.marker = x.etag
  BY <1>2, <1>5 DEF IsFresh
<1>8. ~Writing(w)'
  BY <1>5 DEF BundleInv, BundleTyped, Writing
<1>9. QED
  BY <1>1, <1>5, <1>6, <1>7, <1>8, WorkerMoves

LEMMA GetKeeps ==
  ASSUME BundleInv, NEW w \in Worker, GetObject(w)
  PROVE  BundleInv'
<1>1. /\ worker[w] \in AtWork /\ worker[w].pc = "getting"
      /\ UNCHANGED <<versions, object, edit, cache, wiped, torn>>
  BY WorkerStays DEF GetObject, historyVars
<1>2. worker[w].etag \in 1..versions
  BY <1>1 DEF BundleInv, FetchedLater, Materialising
<1>3. CASE WorkerEnds(w, "failed")
  <2>1. PICK x \in AtWork : x = [worker[w] EXCEPT !.pc = "failed"]
    BY <1>1 DEF AtWork
  <2>2. worker' = [worker EXCEPT ![w] = x] /\ x.pc = "failed"
    BY <1>1, <1>3, <2>1 DEF AtWork, WorkerEnds, WorkerGoes
  <2>3. ~Writing(w)' /\ ~Materialising(w)'
    BY <2>2 DEF BundleInv, BundleTyped, Writing, Materialising
  <2>4. QED
    BY <1>1, <2>2, <2>3, WorkerMoves
<1>4. CASE /\ object # 0
           /\ worker' = [worker EXCEPT ![w].pc = "wiping", ![w].blob = object]
  <2>1. object \in Version /\ object = versions /\ versions \in Nat
    BY <1>4, VersionIs DEF BundleInv, BundleTyped
  <2>2. PICK x \in AtWork : x = [worker[w] EXCEPT !.pc = "wiping", !.blob = object]
    BY <1>1, <2>1 DEF AtWork
  <2>3. /\ worker' = [worker EXCEPT ![w] = x] /\ x.pc = "wiping"
        /\ x.etag = worker[w].etag /\ x.blob = object
    BY <1>1, <1>4, <2>2 DEF AtWork
  <2>4. ~Writing(w)'
    BY <2>3 DEF BundleInv, BundleTyped, Writing
  <2>5. x.blob >= x.etag
    BY <1>2, <2>1, <2>3
  <2>6. QED
    BY <1>1, <1>2, <2>3, <2>4, <2>5, WorkerMoves
<1>5. QED
  BY <1>3, <1>4 DEF GetObject

LEMMA WipeKeeps ==
  ASSUME BundleInv, NEW w \in Worker, WipeCache(w)
  PROVE  BundleInv'
<1>1. worker[w] \in AtWork /\ worker[w].pc = "wiping" /\ UNCHANGED <<versions, object, edit>>
      /\ Wipe(NoCache, {w})
  BY WorkerStays DEF WipeCache, Wiped
<1>2. worker[w].etag \in 1..versions /\ worker[w].blob >= worker[w].etag
  BY <1>1 DEF BundleInv, FetchedLater, Materialising
<1>3. PICK x \in AtWork : x = [worker[w] EXCEPT !.pc = "extracting", !.todo = File]
  BY <1>1 DEF AtWork
<1>4. /\ worker' = [worker EXCEPT ![w] = x] /\ x.pc = "extracting" /\ x.todo = File
      /\ x.etag = worker[w].etag /\ x.blob = worker[w].blob
  BY <1>1, <1>3 DEF WipeCache, AtWork
<1>5. worker' \in [Worker -> AtWork] /\ worker'[w] = x
      /\ \A v \in Worker : v \notin {w} => worker'[v] = worker[v]
  BY <1>4 DEF BundleInv, BundleTyped
<1>6. ~Writing(w)
  BY <1>1 DEF Writing
<1>7. /\ versions' \in 0..Cardinality(EditsBegun)' /\ versions' >= versions
      /\ object' \in {0, versions'} /\ edit' \in [Edit -> {"idle", "cleaning", "done"}]
  BY <1>1 DEF BundleInv, BundleTyped, EditsBegun
<1>8. QED
  BY <1>1, <1>2, <1>4, <1>5, <1>6, <1>7, CacheWiped

LEMMA ExtractKeeps ==
  ASSUME BundleInv, NEW w \in Worker, ExtractFile(w)
  PROVE  BundleInv'
<1>1. worker[w] \in AtWork /\ worker[w].pc = "extracting" /\ Writing(w)
      /\ UNCHANGED <<versions, object, edit, wiped, torn>>
  BY WorkerStays DEF ExtractFile, Writing, historyVars
<1>2. PICK f \in worker[w].todo : 
        /\ cache' = [cache EXCEPT !.files[f] = worker[w].blob]
        /\ worker' = [worker EXCEPT ![w].todo = @ \ {f},
                         ![w].pc = IF @ = "extracting" /\ worker[w].todo = {f} THEN "manifest" ELSE @]
  BY DEF ExtractFile
<1>3. PICK pc \in {"extracting", "manifest"} :
        pc = IF worker[w].todo = {f} THEN "manifest" ELSE "extracting"
  OBVIOUS
<1>4. PICK rest \in SUBSET File : rest = worker[w].todo \ {f}
  BY <1>1 DEF AtWork
<1>5. PICK x \in AtWork : x = [worker[w] EXCEPT !.todo = rest, !.pc = pc]
  BY <1>1 DEF AtWork
<1>6. x.pc = pc /\ x.todo = rest /\ x.etag = worker[w].etag /\ x.blob = worker[w].blob
  BY <1>1, <1>5 DEF AtWork
<1>7. worker' = [worker EXCEPT ![w] = x]
  BY <1>1, <1>2, <1>3, <1>4, <1>5 DEF AtWork, BundleInv, BundleTyped
<1>8. f \in File /\ worker[w].blob \in Version
  BY <1>1 DEF AtWork
<1>9. /\ cache' \in [files : [File -> Version], manifest : Version, marker : Version]
      /\ cache'.marker = cache.marker
      /\ \A g \in File : cache'.files[g] = IF g = f THEN worker[w].blob ELSE cache.files[g]
  BY <1>2, <1>8 DEF BundleInv, BundleTyped
<1>10. x.pc = "manifest" => x.todo = {}
  BY <1>3, <1>4, <1>6
<1>11. \A g \in File : g \notin worker[w].todo \/ g \notin x.todo =>
          cache'.files[g] = IF g \notin worker[w].todo THEN cache.files[g] ELSE x.blob
  BY <1>2, <1>4, <1>6, <1>9
<1>12. /\ x.pc \in {"extracting", "manifest"} /\ x.pc # "mapping" /\ x.pc # "failed"
       /\ x.pc \in {"manifest", "marking"} => x.todo = {}
  BY <1>6, <1>10
<1>13. x.pc \in {"extracting", "manifest", "marking", "mapping", "failed"}
  BY <1>12
<1>14. QED
  BY <1>1, <1>6, <1>7, <1>9, <1>11, <1>12, <1>13, WriterMoves

LEMMA WriteKeeps ==
  ASSUME BundleInv, NEW w \in Worker, WriteManifest(w) \/ WriteMarker(w) \/ ExtractFails(w)
  PROVE  BundleInv'
<1>1. worker[w] \in AtWork /\ Writing(w) /\ UNCHANGED <<versions, object, edit, wiped, torn>>
  BY WorkerStays DEF WriteManifest, WriteMarker, ExtractFails, Writing, historyVars
<1>2. PICK pc \in {"marking", "mapping", "failed"} :
        /\ worker' = [worker EXCEPT ![w].pc = pc]
        /\ pc = "marking" => WriteManifest(w)
        /\ pc = "mapping" => WriteMarker(w)
        /\ pc = "failed" => ExtractFails(w)
  BY DEF WriteManifest, WriteMarker, ExtractFails, WorkerEnds, WorkerGoes
<1>3. PICK x \in AtWork : x = [worker[w] EXCEPT !.pc = pc]
  BY <1>1 DEF AtWork
<1>4. x.pc = pc /\ x.todo = worker[w].todo /\ x.etag = worker[w].etag /\ x.blob = worker[w].blob
  BY <1>1, <1>3 DEF AtWork
<1>5. worker' = [worker EXCEPT ![w] = x]
  BY <1>1, <1>2, <1>3 DEF AtWork, BundleInv, BundleTyped
<1>6. cache \in [files : [File -> Version], manifest : Version, marker : Version]
      /\ x.blob \in Version /\ x.etag \in Version
  BY DEF BundleInv, BundleTyped, AtWork
<1>7. \/ pc = "marking" /\ worker[w].pc = "manifest" /\ cache' = [cache EXCEPT !.manifest = worker[w].blob]
      \/ pc = "mapping" /\ worker[w].pc = "marking" /\ cache' = [cache EXCEPT !.marker = worker[w].etag]
      \/ pc = "failed" /\ UNCHANGED cache
  BY <1>2 DEF WriteManifest, WriteMarker, ExtractFails
<1>8. /\ cache' \in [files : [File -> Version], manifest : Version, marker : Version]
      /\ cache'.files = cache.files
      /\ pc = "marking" => cache'.marker = cache.marker
      /\ pc = "mapping" => cache'.marker = x.etag
  BY <1>4, <1>6, <1>7
<1>9. CASE torn
  <2>1. BundleTyped' /\ worker'[w] = x /\ \A v \in Worker : v # w => worker'[v] = worker[v]
    BY <1>1, <1>5, <1>8 DEF BundleInv, BundleTyped, EditsBegun
  <2>2. FetchedLater'
    BY <1>1, <1>4, <2>1 DEF BundleInv, FetchedLater, Materialising, Writing
  <2>3. QED
    BY <1>1, <1>9, <2>1, <2>2 DEF BundleInv, WriterAlone, MarkedWhole
<1>10. CASE ~torn
  <2>1. worker[w].pc # "extracting" => worker[w].todo = {}
    BY <1>1, <1>10 DEF BundleInv, WriterAlone
  <2>2. QED
    BY <1>1, <1>4, <1>5, <1>7, <1>8, <2>1, WriterMoves
<1>11. QED
  BY <1>9, <1>10

LEMMA EndsKeeps ==
  ASSUME BundleInv, NEW w \in Worker, ManifestEnv(w) \/ CallerLeaves(w) \/ NextCall(w)
  PROVE  BundleInv'
<1>1. worker[w] \in AtWork /\ UNCHANGED <<versions, object, edit, cache, torn>>
  BY WorkerStays DEF ManifestEnv, CallerLeaves, NextCall, historyVars
<1>2. CASE ManifestEnv(w)
  <2>1. PICK files \in [File -> Version] : files = cache.files
    BY DEF BundleInv, BundleTyped
  <2>2. PICK x \in AtWork : x = [worker[w] EXCEPT !.pc = "done", !.env = files]
    BY <1>1 DEF AtWork
  <2>3. worker' = [worker EXCEPT ![w] = x] /\ x.pc = "done" /\ UNCHANGED wiped
    BY <1>1, <1>2, <2>1, <2>2 DEF AtWork, ManifestEnv, historyVars
  <2>4. ~Writing(w)' /\ ~Materialising(w)'
    BY <2>3 DEF BundleInv, BundleTyped, Writing, Materialising
  <2>5. QED
    BY <1>1, <2>3, <2>4, WorkerMoves
<1>3. CASE CallerLeaves(w)
  <2>1. UNCHANGED <<worker, wiped>>
    BY <1>3 DEF CallerLeaves, historyVars
  <2>2. QED
    BY <1>1, <2>1 DEF BundleInv, BundleTyped, EditsBegun, FetchedLater, WriterAlone, MarkedWhole,
                      Materialising, Writing, AllFiles
<1>4. CASE NextCall(w)
  <2>1. worker' = [worker EXCEPT ![w] = Asleep] /\ wiped' = [wiped EXCEPT ![w] = FALSE]
    BY <1>4 DEF NextCall
  <2>2. Asleep \in AtWork /\ Asleep.pc = "idle"
    BY VersionIs, NothingCached DEF BundleInv
  <2>3. worker' \in [Worker -> AtWork] /\ worker'[w].pc = "idle"
        /\ \A v \in Worker : v # w => worker'[v] = worker[v]
    BY <2>1, <2>2 DEF BundleInv, BundleTyped
  <2>4. wiped' \in [Worker -> BOOLEAN] /\ \A v \in Worker : v # w => wiped'[v] = wiped[v]
    BY <2>1 DEF BundleInv, BundleTyped
  <2>5. BundleTyped'
    BY <1>1, <2>3, <2>4 DEF BundleInv, BundleTyped, EditsBegun
  <2>6. FetchedLater' /\ WriterAlone'
    BY <1>1, <2>3 DEF BundleInv, FetchedLater, WriterAlone, Materialising, Writing
  <2>7. MarkedWhole'
    BY <1>1, <2>3, <2>4 DEF BundleInv, MarkedWhole, Writing, AllFiles
  <2>8. QED
    BY <2>5, <2>6, <2>7 DEF BundleInv
<1>5. QED
  BY <1>2, <1>3, <1>4

\* one more edit has begun
LEMMA OneEditMore ==
  ASSUME BundleTyped, NEW e \in Edit, edit[e] = "idle", edit' = [edit EXCEPT ![e] = "cleaning"]
  PROVE  Cardinality(EditsBegun') = Cardinality(EditsBegun) + 1
         /\ Cardinality(EditsBegun) \in Nat
<1>1. EditsBegun' = EditsBegun \cup {e} /\ e \notin EditsBegun
  BY DEF BundleTyped, EditsBegun
<1>2. QED
  BY <1>1, VersionIs, FS_AddElement

LEMMA EditKeeps ==
  ASSUME BundleInv, NEW e \in Edit, PutBundle(e) \/ DeleteBundle(e) \/ Cleanup(e)
  PROVE  BundleInv'
<1>1. UNCHANGED worker /\ edit' \in [Edit -> {"idle", "cleaning", "done"}]
  BY DEF BundleInv, BundleTyped, PutBundle, DeleteBundle, Cleanup
<1>2. CASE PutBundle(e) \/ DeleteBundle(e)
  <2>1. /\ edit[e] = "idle" /\ edit' = [edit EXCEPT ![e] = "cleaning"]
        /\ UNCHANGED <<cache, wiped, torn>> /\ versions' \in {versions, versions + 1}
        /\ object' \in {0, versions'}
    BY <1>2 DEF PutBundle, DeleteBundle, historyVars
  <2>2. Cardinality(EditsBegun') = Cardinality(EditsBegun) + 1 /\ Cardinality(EditsBegun) \in Nat
    BY <2>1, OneEditMore DEF BundleInv
  <2>3. versions' \in 0..Cardinality(EditsBegun') /\ versions <= versions' /\ versions \in Nat
    BY <2>1, <2>2 DEF BundleInv, BundleTyped
  <2>4. BundleTyped'
    BY <1>1, <2>1, <2>3 DEF BundleInv, BundleTyped
  <2>5. 1..versions \subseteq 1..versions'
    BY <2>1, <2>3
  <2>6. FetchedLater'
    BY <1>1, <2>5 DEF BundleInv, FetchedLater, Materialising, Writing
  <2>7. WriterAlone' /\ MarkedWhole'
    BY <1>1, <2>1 DEF BundleInv, WriterAlone, MarkedWhole, Writing, AllFiles
  <2>8. QED
    BY <2>4, <2>6, <2>7 DEF BundleInv
<1>3. CASE Cleanup(e)
  <2>1. UNCHANGED <<versions, object>> /\ Wipe(NoCache, {}) /\ edit' = [edit EXCEPT ![e] = "done"]
        /\ edit[e] = "cleaning"
    BY <1>3 DEF Cleanup
  <2>2. EditsBegun' = EditsBegun
    BY <2>1 DEF EditsBegun, BundleInv, BundleTyped
  <2>3. /\ versions' \in 0..Cardinality(EditsBegun)' /\ versions' >= versions
        /\ object' \in {0, versions'} /\ worker' \in [Worker -> AtWork]
    BY <1>1, <2>1, <2>2 DEF BundleInv, BundleTyped
  <2>4. QED
    BY <1>1, <2>1, <2>3, CacheWiped
<1>4. QED
  BY <1>2, <1>3

LEMMA BundleKeeps == BundleInv /\ [BundleNext]_bundleVars => BundleInv'
<1> SUFFICES ASSUME BundleInv, [BundleNext]_bundleVars PROVE BundleInv'
  OBVIOUS
<1>1. CASE UNCHANGED bundleVars
  BY <1>1 DEF bundleVars, historyVars, BundleInv, BundleTyped, EditsBegun, FetchedLater, WriterAlone,
              MarkedWhole, Materialising, Writing, AllFiles
<1>2. CASE BundleNext
  BY <1>2, HeadKeeps, CheckKeeps, GetKeeps, WipeKeeps, ExtractKeeps, WriteKeeps, EndsKeeps, EditKeeps
     DEF BundleNext
<1>3. QED
  BY <1>1, <1>2

\* However materialisations, threads whose callers are gone, uploads and
\* deletions interleave, a server is given all files of one bundle, no older
\* than the one its HEAD saw, unless its cache was wiped meanwhile or torn
\* (materialize, _extract, the marker written last).
THEOREM BundleIsWhole == BundleSpec => []WholeBundle
<1>1. BundleInit => BundleInv
  BY InitBundleInv
<1>2. BundleInv /\ [BundleNext]_bundleVars => BundleInv'
  BY BundleKeeps
<1>3. BundleInv => WholeBundle
  <2> SUFFICES ASSUME BundleInv, NEW w \in Worker, worker[w].pc = "mapping", ~wiped[w], ~torn
               PROVE  \E v \in Version : v >= worker[w].etag /\ \A f \in File : cache.files[f] = v
    BY DEF WholeBundle
  <2>1. cache.marker = worker[w].etag /\ worker[w].etag \in 1..versions
    BY DEF BundleInv, MarkedWhole, FetchedLater, Materialising
  <2>2. cache.marker # 0
    BY <2>1
  <2>3. QED
    BY <2>1, <2>2 DEF BundleInv, MarkedWhole, AllFiles
<1>4. QED
  BY <1>1, <1>2, <1>3, PTL DEF BundleSpec

-----------------------------------------------------------------------------
(***************************************************************************)
(* The policy: rules, zones and plans                                      *)
(***************************************************************************)

Ruling == [pattern : Pattern, zone : Zone \cup {Unset}]
Best == [score : Int, zone : Zone]

\* the rule that counts among the first n of a map: the last of the most specific that match
Leads(map, h, n, j) ==
  /\ j \in 1..n /\ Matches(map[j], h)
  /\ \A k \in 1..n : Matches(map[k], h) =>
       \/ Specificity[map[k].pattern] < Specificity[map[j].pattern]
       \/ Specificity[map[k].pattern] = Specificity[map[j].pattern] /\ k <= j

\* what the loop over a map has found after n rules
Found(map, h, n, best) ==
  \/ best = [score |-> -1, zone |-> PUBLIC] /\ \A k \in 1..n : ~Matches(map[k], h)
  \/ \E j \in 1..n : /\ Leads(map, h, n, j)
                     /\ best = [score |-> Specificity[map[j].pattern], zone |-> map[j].zone]

LEMMA MapsAre ==
  ASSUME PolicyTypeOK
  PROVE  /\ MapForProfile \in Seq(Ruling)
         /\ Len(MapForProfile) = Len(BaseRules) + Len(Alphabetic)
         /\ \A i \in 1..Len(BaseRules) : MapForProfile[i] = BaseRules[i]
         /\ \A i \in 1..Len(Alphabetic) :
              MapForProfile[Len(BaseRules) + i] = [pattern |-> Alphabetic[i], zone |-> rules[Alphabetic[i]]]
<1>1. BaseRules \in Seq(Ruling)
  <2>1. BaseRules \in Seq([pattern : Pattern, zone : Zone])
    BY PolicyAssumption
  <2>2. [pattern : Pattern, zone : Zone] \subseteq Ruling
    BY DEF Ruling
  <2>3. Len(BaseRules) \in Nat /\ BaseRules \in [1..Len(BaseRules) -> [pattern : Pattern, zone : Zone]]
    BY <2>1, LenProperties
  <2>4. BaseRules \in [1..Len(BaseRules) -> Ruling]
    BY <2>2, <2>3
  <2>5. QED
    BY <2>3, <2>4, SeqDef
<1>2. Len(Alphabetic) \in Nat /\ \A i \in 1..Len(Alphabetic) : Alphabetic[i] \in Pattern
  BY PolicyAssumption
<1>3. PICK n \in Nat : n = Len(Alphabetic)
  BY <1>2
<1>4. ProfileRules \in [1..n -> Ruling]
  BY <1>2, <1>3 DEF ProfileRules, Ruling, PolicyTypeOK
<1>5. ProfileRules \in Seq(Ruling) /\ Len(ProfileRules) = n
  BY <1>3, <1>4, SeqDef, LenProperties
<1>6. \A i \in 1..n : ProfileRules[i] = [pattern |-> Alphabetic[i], zone |-> rules[Alphabetic[i]]]
  BY <1>3 DEF ProfileRules
<1>7. /\ BaseRules \o ProfileRules \in Seq(Ruling)
      /\ Len(BaseRules \o ProfileRules) = Len(BaseRules) + n
      /\ \A i \in 1..(Len(BaseRules) + n) :
           (BaseRules \o ProfileRules)[i] =
             IF i <= Len(BaseRules) THEN BaseRules[i] ELSE ProfileRules[i - Len(BaseRules)]
  BY <1>1, <1>5, ConcatProperties
<1>8. Len(BaseRules) \in Nat
  BY <1>1, LenProperties
<1>9. \A i \in 1..Len(BaseRules) : MapForProfile[i] = BaseRules[i]
  BY <1>3, <1>7, <1>8 DEF MapForProfile
<1>10. ASSUME NEW i \in 1..n PROVE MapForProfile[Len(BaseRules) + i] = ProfileRules[i]
  <2>1. /\ Len(BaseRules) + i \in 1..(Len(BaseRules) + n) /\ ~(Len(BaseRules) + i <= Len(BaseRules))
        /\ (Len(BaseRules) + i) - Len(BaseRules) = i
    BY <1>8
  <2>2. QED
    BY <1>7, <2>1 DEF MapForProfile
<1>11. QED
  BY <1>3, <1>6, <1>7, <1>9, <1>10 DEF MapForProfile

LEMMA RuleAdds ==
  ASSUME NEW map \in Seq(Ruling), NEW h \in Host, NEW n \in Nat, n + 1 \in 1..Len(map),
         NEW best \in Best, Found(map, h, n, best)
  PROVE  BetterOf(h, best, map[n + 1]) \in Best /\ Found(map, h, n + 1, BetterOf(h, best, map[n + 1]))
<1>1. PICK r \in Ruling : r = map[n + 1]
  BY ElementOfSeq
<1>2. Specificity[r.pattern] \in Nat /\ (Matches(r, h) => r.zone \in Zone)
  BY <1>1, PolicyAssumption DEF Ruling, Matches
<1>3. \A k \in 1..n : k \in 1..Len(map) /\ map[k] \in Ruling
  BY ElementOfSeq, LenProperties
<1>4. \A k \in 1..n : Specificity[map[k].pattern] \in Nat
  BY <1>3, PolicyAssumption DEF Ruling
<1>5. best.score \in Int /\ \A k \in 1..n : Matches(map[k], h) => Specificity[map[k].pattern] <= best.score
  BY <1>4 DEF Found, Leads, Best
<1>6. CASE Matches(r, h) /\ Specificity[r.pattern] >= best.score
  <2>1. BetterOf(h, best, r) = [score |-> Specificity[r.pattern], zone |-> r.zone]
    BY <1>6 DEF BetterOf
  <2>2. Leads(map, h, n + 1, n + 1)
    BY <1>1, <1>2, <1>4, <1>5, <1>6 DEF Leads
  <2>3. QED
    BY <1>1, <1>2, <1>6, <2>1, <2>2 DEF Found, Best
<1>7. CASE ~(Matches(r, h) /\ Specificity[r.pattern] >= best.score)
  <2>1. BetterOf(h, best, r) = best
    BY <1>7 DEF BetterOf
  <2>2. CASE best = [score |-> -1, zone |-> PUBLIC] /\ \A k \in 1..n : ~Matches(map[k], h)
    <3>1. ~Matches(r, h)
      BY <1>2, <1>7, <2>2
    <3>2. \A k \in 1..(n + 1) : ~Matches(map[k], h)
      BY <1>1, <2>2, <3>1
    <3>3. QED
      BY <1>1, <2>1, <2>2, <3>2 DEF Found
  <2>3. ASSUME NEW j \in 1..n, Leads(map, h, n, j),
               best = [score |-> Specificity[map[j].pattern], zone |-> map[j].zone]
        PROVE  Found(map, h, n + 1, best)
    <3>1. Matches(r, h) => Specificity[r.pattern] < Specificity[map[j].pattern]
      BY <1>2, <1>4, <1>7, <2>3
    <3>2. Leads(map, h, n + 1, j)
      BY <1>1, <2>3, <3>1 DEF Leads
    <3>3. QED
      BY <2>3, <3>2 DEF Found
  <2>4. QED
    BY <1>1, <2>1, <2>2, <2>3 DEF Found
<1>8. QED
  BY <1>1, <1>6, <1>7

\* the loop has a result: its partial results up to any rule of the map
LEMMA LoopRuns ==
  ASSUME NEW map \in Seq(Ruling), NEW h \in Host
  PROVE  \E best \in [0..Len(map) -> Best] :
           best = [i \in 0..Len(map) |-> IF i = 0 THEN [score |-> -1, zone |-> PUBLIC]
                                         ELSE BetterOf(h, best[i - 1], map[i])]
<1> DEFINE none == [score |-> -1, zone |-> PUBLIC]
<1> DEFINE Runs(n, f) == /\ f \in [0..n -> Best] /\ \A i \in 0..n : Found(map, h, i, f[i])
                         /\ f[0] = none /\ \A i \in 1..n : f[i] = BetterOf(h, f[i - 1], map[i])
<1> DEFINE left == {n \in 0..Len(map) : ~\E f : Runs(n, f)}
<1>1. Len(map) \in Nat
  BY LenProperties
<1>2. none \in Best /\ Found(map, h, 0, none)
  BY DEF Best, Zone, PUBLIC, Found
<1>3. left = {}
  <2> SUFFICES ASSUME left # {} PROVE FALSE
    OBVIOUS
  <2>1. left \in SUBSET Nat
    BY <1>1
  <2>2. PICK n \in left : \A j \in left : n <= j
    BY <2>1, LeastPicked
  <2>3. n \in 0..Len(map) /\ ~\E f : Runs(n, f)
    BY <2>2
  <2>4. CASE n = 0
    <3>1. PICK f : f = [i \in 0..0 |-> none]
      OBVIOUS
    <3>2. f \in [0..0 -> Best] /\ f[0] = none /\ \A i \in 0..0 : i = 0
      BY <1>2, <3>1
    <3>3. Runs(0, f)
      BY <1>2, <3>2
    <3>4. QED
      BY <2>3, <2>4, <3>3
  <2>5. CASE n # 0
    <3>1. PICK m \in Nat : n = m + 1
      BY <1>1, <2>3, <2>5
    <3>2. m \in 0..Len(map) /\ ~(n <= m)
      BY <1>1, <2>3, <3>1
    <3>15. m \notin left
      BY <2>2, <3>2
    <3>3. PICK f : Runs(m, f)
      BY <3>2, <3>15
    <3>4. f[m] \in Best /\ Found(map, h, m, f[m])
      BY <3>1, <3>3
    <3>5. PICK b \in Best : b = BetterOf(h, f[m], map[m + 1]) /\ Found(map, h, m + 1, b)
      <4>1. m + 1 \in 1..Len(map)
        BY <1>1, <2>3, <3>1
      <4>2. QED
        BY <3>4, <4>1, RuleAdds
    <3>6. PICK g : g = [i \in 0..n |-> IF i = n THEN b ELSE f[i]]
      OBVIOUS
    <3>7. g[n] = b /\ \A i \in 0..m : i \in 0..n /\ i # n /\ g[i] = f[i]
      BY <3>1, <3>6
    <3>8. \A i \in 0..n : i = n \/ i \in 0..m
      BY <3>1
    <3>9. g \in [0..n -> Best]
      BY <3>3, <3>5, <3>6, <3>8
    <3>10. \A i \in 0..n : Found(map, h, i, g[i])
      BY <3>1, <3>3, <3>5, <3>7, <3>8
    <3>11. g[0] = none
      BY <3>1, <3>3, <3>7
    <3>12. ASSUME NEW i \in 1..n PROVE g[i] = BetterOf(h, g[i - 1], map[i])
      <4>1. CASE i = n
        <5>1. g[i - 1] = f[m]
          BY <3>1, <3>7, <4>1
        <5>2. QED
          BY <3>1, <3>5, <3>7, <4>1, <5>1
      <4>2. CASE i # n
        <5>1. i \in 1..m /\ i \in 0..m /\ i - 1 \in 0..m
          BY <3>1, <4>2
        <5>2. f[i] = BetterOf(h, f[i - 1], map[i])
          BY <3>3, <5>1
        <5>3. g[i] = f[i] /\ g[i - 1] = f[i - 1]
          BY <3>7, <5>1
        <5>4. QED
          BY <5>2, <5>3
      <4>3. QED
        BY <4>1, <4>2
    <3>13. Runs(n, g)
      BY <3>9, <3>10, <3>11, <3>12
    <3>14. QED
      BY <2>3, <3>13
  <2>6. QED
    BY <2>4, <2>5
<1>4. PICK f : Runs(Len(map), f)
  <2>1. Len(map) \in 0..Len(map)
    BY <1>1
  <2> HIDE DEF Runs
  <2>2. QED
    BY <1>3, <2>1
<1>5. PICK g : g = [i \in 0..Len(map) |-> IF i = 0 THEN none ELSE BetterOf(h, f[i - 1], map[i])]
  OBVIOUS
<1>6. \A i \in 0..Len(map) : f[i] = g[i]
  BY <1>1, <1>4, <1>5
<1>7. f = g
  BY <1>4, <1>5, <1>6
<1>8. QED
  BY <1>4, <1>5, <1>7

\* every host has a zone: that of the rule that counts, or PUBLIC
LEMMA ZonesAre ==
  ASSUME PolicyTypeOK, NEW h \in Host
  PROVE  /\ ZoneOf(h) \in Zone
         /\ \/ ZoneOf(h) = PUBLIC /\ \A k \in 1..Len(MapForProfile) : ~Matches(MapForProfile[k], h)
            \/ \E j \in 1..Len(MapForProfile) :
                 Leads(MapForProfile, h, Len(MapForProfile), j) /\ ZoneOf(h) = MapForProfile[j].zone
<1>1. PICK map \in Seq(Ruling) : map = MapForProfile
  BY MapsAre
<1>2. PICK n \in Nat : n = Len(map)
  BY LenProperties
<1> DEFINE none == [score |-> -1, zone |-> PUBLIC]
<1> DEFINE Is(f) == f = [i \in 0..n |-> IF i = 0 THEN none ELSE BetterOf(h, f[i - 1], map[i])]
<1> DEFINE best == CHOOSE f : Is(f)
<1>3. ZoneOf(h) = best[n].zone
  BY <1>1, <1>2 DEF ZoneOf
<1>4. \E f : Is(f)
  BY <1>2, LoopRuns
<1>5. Is(best)
  BY <1>4
<1> HIDE DEF best
<1>6. best[0] = none /\ \A i \in 1..n : best[i] = BetterOf(h, best[i - 1], map[i])
  <2>1. best = [i \in 0..n |-> IF i = 0 THEN none ELSE BetterOf(h, best[i - 1], map[i])]
    BY <1>5
  <2>2. 0 \in 0..n /\ \A i \in 1..n : i \in 0..n /\ i # 0
    BY <1>2
  <2> HIDE DEF none
  <2>3. PICK f : f = [i \in 0..n |-> IF i = 0 THEN none ELSE BetterOf(h, best[i - 1], map[i])]
    OBVIOUS
  <2>4. f[0] = none /\ \A i \in 1..n : f[i] = BetterOf(h, best[i - 1], map[i])
    BY <2>2, <2>3
  <2>5. f = best
    BY <2>1, <2>3
  <2>6. QED
    BY <2>4, <2>5
<1> DEFINE wrong == {i \in 0..n : ~(best[i] \in Best /\ Found(map, h, i, best[i]))}
<1>7. wrong = {}
  <2> SUFFICES ASSUME wrong # {} PROVE FALSE
    OBVIOUS
  <2>1. wrong \in SUBSET Nat
    BY <1>2
  <2>2. PICK i \in wrong : \A j \in wrong : i <= j
    BY <2>1, LeastPicked
  <2>3. i # 0
    BY <1>6, <2>2 DEF Best, Zone, PUBLIC, Found
  <2>4. PICK m \in Nat : i = m + 1
    BY <2>2, <2>3
  <2>5. m \in 0..n /\ m \notin wrong /\ m + 1 \in 1..n
    BY <2>2, <2>4
  <2>6. best[m] \in Best /\ Found(map, h, m, best[m])
    BY <2>5
  <2>7. best[m + 1] = BetterOf(h, best[m], map[m + 1])
    BY <1>6, <2>5
  <2>8. best[i] \in Best /\ Found(map, h, i, best[i])
    BY <1>2, <2>4, <2>5, <2>6, <2>7, RuleAdds
  <2>9. QED
    BY <2>2, <2>8
<1>8. best[n] \in Best /\ Found(map, h, n, best[n])
  BY <1>2, <1>7
<1>9. ZoneOf(h) \in Zone
  BY <1>3, <1>8 DEF Best
<1>10. CASE best[n] = none /\ \A k \in 1..n : ~Matches(map[k], h)
  BY <1>1, <1>2, <1>3, <1>9, <1>10
<1>11. CASE \E j \in 1..n : /\ Leads(map, h, n, j)
                           /\ best[n] = [score |-> Specificity[map[j].pattern], zone |-> map[j].zone]
  <2>1. PICK j \in 1..n : Leads(map, h, n, j) /\ best[n].zone = map[j].zone
    BY <1>11
  <2>2. QED
    BY <1>1, <1>2, <1>3, <1>9, <2>1
<1>12. QED
  BY <1>8, <1>10, <1>11 DEF Found

LEMMA ServerZonesAre ==
  ASSUME PolicyTypeOK, NEW hosts \in SUBSET Host, hosts # {}, NEW s
  PROVE  ServerZone(s, hosts) \in Zone /\ \A h \in hosts : ZoneOf(h) <= ServerZone(s, hosts)
<1> DEFINE zones == {ZoneOf(h) : h \in hosts}
<1>1. zones \in SUBSET Nat /\ zones # {} /\ zones \subseteq Zone /\ \A z \in zones : z <= 3
  BY ZonesAre DEF Zone
<1>2. PICK g \in zones : \A z \in zones : z <= g
  BY <1>1, GreatestPicked
<1>3. \E z \in zones : \A h \in hosts : ZoneOf(h) <= z
  BY <1>2
<1>4. ServerZone(s, hosts) \in zones /\ \A h \in hosts : ZoneOf(h) <= ServerZone(s, hosts)
  BY <1>3 DEF ServerZone
<1>5. QED
  BY <1>1, <1>4

(* Classification *)

LEMMA MostSpecificDoesWin == PolicyTypeOK => MostSpecificWins
<1> SUFFICES ASSUME PolicyTypeOK, NEW h \in Host
             PROVE
    LET own  == {p \in Pattern : rules[p] # Unset /\ h \in Covers[p]}
        base == {r \in {BaseRules[i] : i \in 1..Len(BaseRules)} : h \in Covers[r.pattern]}
        tops == {p \in own : /\ \A q \in own : Specificity[q] <= Specificity[p]
                             /\ \A r \in base : Specificity[r.pattern] <= Specificity[p]}
        under == {r \in base : \A q \in base : Specificity[q.pattern] <= Specificity[r.pattern]}
    IN  IF tops # {} THEN ZoneOf(h) \in {rules[p] : p \in tops}
        ELSE ZoneOf(h) \in {r.zone : r \in under} \cup (IF base = {} THEN {PUBLIC} ELSE {})
  BY DEF MostSpecificWins
<1> DEFINE own == {p \in Pattern : rules[p] # Unset /\ h \in Covers[p]}
<1> DEFINE base == {r \in {BaseRules[i] : i \in 1..Len(BaseRules)} : h \in Covers[r.pattern]}
<1> DEFINE tops == {p \in own : /\ \A q \in own : Specificity[q] <= Specificity[p]
                                /\ \A r \in base : Specificity[r.pattern] <= Specificity[p]}
<1> DEFINE under == {r \in base : \A q \in base : Specificity[q.pattern] <= Specificity[r.pattern]}
<1>1. PICK map \in Seq(Ruling) : map = MapForProfile
  BY MapsAre
<1>2. PICK m \in Nat, n \in Nat : m = Len(BaseRules) /\ n = Len(Alphabetic) /\ Len(map) = m + n
  BY <1>1, MapsAre, PolicyAssumption, LenProperties
<1>3. /\ \A i \in 1..m : map[i] = BaseRules[i]
      /\ \A i \in 1..n : map[m + i] = [pattern |-> Alphabetic[i], zone |-> rules[Alphabetic[i]]]
  BY <1>1, <1>2, MapsAre
<1>4. \A i \in 1..(m + n) : map[i] \in Ruling /\ Specificity[map[i].pattern] \in Nat
  <2>1. \A i \in 1..(m + n) : map[i] \in Ruling
    BY <1>2, ElementOfSeq
  <2>2. \A r \in Ruling : Specificity[r.pattern] \in Nat
    BY PolicyAssumption DEF Ruling
  <2>3. QED
    BY <2>1, <2>2
<1>5. \A i \in 1..m : BaseRules[i].pattern \in Pattern /\ BaseRules[i].zone \in Zone
  <2>1. \A i \in 1..m : BaseRules[i] \in [pattern : Pattern, zone : Zone]
    BY <1>2, ElementOfSeq, PolicyAssumption
  <2>2. QED
    BY <2>1
<1>6. \A r \in base : \E k \in 1..(m + n) : k <= m /\ Matches(map[k], h) /\ map[k] = r
  <2>1. SUFFICES ASSUME NEW k \in 1..m, h \in Covers[BaseRules[k].pattern]
                 PROVE  k \in 1..(m + n) /\ Matches(map[k], h) /\ map[k] = BaseRules[k]
    BY <1>2
  <2>2. k \in 1..(m + n) /\ k <= m /\ map[k] = BaseRules[k]
    BY <1>3, <2>1
  <2>3. map[k].zone # Unset
    BY <1>5, <2>2, PolicyAssumption
  <2>4. QED
    BY <2>1, <2>2, <2>3 DEF Matches
<1>7. \A p \in own : \E k \in 1..(m + n) : k > m /\ Matches(map[k], h) /\ map[k] = [pattern |-> p, zone |-> rules[p]]
  <2>1. SUFFICES ASSUME NEW p \in own
                 PROVE  \E k \in 1..(m + n) : /\ k > m /\ Matches(map[k], h)
                                               /\ map[k] = [pattern |-> p, zone |-> rules[p]]
    OBVIOUS
  <2>2. PICK i \in 1..n : Alphabetic[i] = p
    BY <1>2, PolicyAssumption, LenProperties
  <2>3. m + i \in 1..(m + n) /\ m + i > m /\ map[m + i] = [pattern |-> p, zone |-> rules[p]]
    BY <1>2, <1>3, <2>2
  <2>4. QED
    BY <2>3 DEF Matches
<1>8. ASSUME NEW k \in 1..(m + n), Matches(map[k], h)
      PROVE  \/ k <= m /\ map[k] \in base
             \/ k > m /\ map[k].pattern \in own /\ map[k].zone = rules[map[k].pattern]
  <2>1. CASE k \in 1..m
    BY <1>2, <1>3, <1>8, <2>1 DEF Matches
  <2>2. CASE k \notin 1..m
    <3>1. PICK i \in 1..n : k = m + i
      <4>1. k - m \in 1..n /\ k = m + (k - m)
        BY <1>2, <2>2
      <4>2. QED
        BY <4>1
    <3>2. map[k] = [pattern |-> Alphabetic[i], zone |-> rules[Alphabetic[i]]]
      BY <1>3, <3>1
    <3>3. map[k].pattern = Alphabetic[i] /\ map[k].zone = rules[Alphabetic[i]]
      BY <3>2
    <3>4. map[k].pattern \in Pattern
      BY <1>4 DEF Ruling
    <3>5. QED
      BY <1>2, <1>8, <2>2, <3>3, <3>4 DEF Matches
  <2>3. QED
    BY <2>1, <2>2
<1>9. \/ ZoneOf(h) = PUBLIC /\ \A k \in 1..(m + n) : ~Matches(map[k], h)
      \/ \E j \in 1..(m + n) : Leads(map, h, m + n, j) /\ ZoneOf(h) = map[j].zone
  BY <1>1, <1>2, ZonesAre
<1>10. CASE ZoneOf(h) = PUBLIC /\ \A k \in 1..(m + n) : ~Matches(map[k], h)
  <2>1. base = {} /\ own = {}
    BY <1>6, <1>7, <1>10
  <2>2. QED
    BY <1>10, <2>1
<1>11. ASSUME NEW j \in 1..(m + n), Leads(map, h, m + n, j), ZoneOf(h) = map[j].zone
       PROVE  IF tops # {} THEN ZoneOf(h) \in {rules[p] : p \in tops}
              ELSE ZoneOf(h) \in {r.zone : r \in under} \cup (IF base = {} THEN {PUBLIC} ELSE {})
  <2>1. Matches(map[j], h)
    BY <1>11 DEF Leads
  <2>2. PICK top \in Nat : top = Specificity[map[j].pattern]
    BY <1>4
  <2>3. \A k \in 1..(m + n) : Matches(map[k], h) =>
          /\ Specificity[map[k].pattern] <= top
          /\ k > j => Specificity[map[k].pattern] < top
    BY <1>4, <1>11, <2>2 DEF Leads
  <2>4. \A r \in base : Specificity[r.pattern] <= top
    BY <1>6, <2>3
  <2>5. \A p \in own : Specificity[p] <= top /\ (j <= m => Specificity[p] < top)
    <3>1. SUFFICES ASSUME NEW p \in own PROVE Specificity[p] <= top /\ (j <= m => Specificity[p] < top)
      OBVIOUS
    <3>2. PICK k \in 1..(m + n) : k > m /\ Matches(map[k], h) /\ map[k] = [pattern |-> p, zone |-> rules[p]]
      BY <1>7
    <3>3. map[k].pattern = p /\ (j <= m => k > j)
      BY <3>2
    <3>4. QED
      BY <2>3, <3>2, <3>3
  <2>6. CASE j <= m
    <3>1. map[j] \in base
      BY <1>8, <2>1, <2>6
    <3>2. map[j] \in under
      BY <2>2, <2>4, <3>1
    <3>3. \A p \in own : Specificity[p] \in Nat
      BY PolicyAssumption
    <3>4. map[j] \in base /\ \A p \in own : Specificity[p] < Specificity[map[j].pattern]
      BY <2>2, <2>5, <2>6, <3>1
    <3>5. ASSUME NEW p \in own PROVE p \notin tops
      <4>1. PICK low, high : low = Specificity[p] /\ high = Specificity[map[j].pattern]
        OBVIOUS
      <4>2. low \in Nat /\ high \in Nat /\ low < high
        BY <1>4, <3>3, <3>4, <4>1
      <4>3. ~(high <= low)
        BY <4>2
      <4>4. QED
        BY <3>4, <4>1, <4>3
    <3>6. tops = {}
      BY <3>5
    <3>7. QED
      BY <1>11, <3>2, <3>6
  <2>7. CASE ~(j <= m)
    <3>1. map[j].pattern \in own /\ map[j].zone = rules[map[j].pattern]
      BY <1>8, <2>1, <2>7
    <3>2. map[j].pattern \in tops
      BY <2>2, <2>4, <2>5, <3>1
    <3>3. QED
      BY <1>11, <3>1, <3>2
  <2>8. QED
    BY <2>6, <2>7
<1>12. QED
  BY <1>9, <1>10, <1>11

(* Plans *)

LEMMA PlansDoComply == PolicyTypeOK => PlansComply
<1> SUFFICES ASSUME PolicyTypeOK, NEW residency \in Zone \cup {Unset},
                    NEW requires \in SUBSET Capability, NEW prefers \in SUBSET Capability
             PROVE
    LET candidates == ProviderResources
        ceiling == IF residency = Unset THEN CeilingForProfile ELSE residency
        complies == {i \in 1..Len(Provider) :
                       candidates[i].zone <= ceiling /\ \A c \in requires : c \in Provider[i].caps}
        chosen == CompileStep(candidates, residency, requires, prefers)
        met(i) == Cardinality(Provider[i].caps \cap prefers)
    IN  IF complies = {} THEN chosen = Blocked
        ELSE /\ chosen \in complies
             /\ \A i \in complies :
                  /\ met(i) <= met(chosen)
                  /\ met(i) = met(chosen) => candidates[chosen].zone <= candidates[i].zone
  BY DEF PlansComply
<1> DEFINE candidates == ProviderResources
<1> DEFINE ceiling == IF residency = Unset THEN CeilingForProfile ELSE residency
<1> DEFINE complies == {i \in 1..Len(Provider) :
                          candidates[i].zone <= ceiling /\ \A c \in requires : c \in Provider[i].caps}
<1> DEFINE chosen == CompileStep(candidates, residency, requires, prefers)
<1> DEFINE met(i) == Cardinality(Provider[i].caps \cap prefers)
<1> DEFINE req == [ceiling |-> ceiling, requires |-> requires, prefers |-> prefers]
<1>1. PICK n \in Nat : n = Len(Provider)
  BY PolicyAssumption, LenProperties
<1>2. \A i \in 1..n : Provider[i].host \in Host /\ Provider[i].caps \in SUBSET Capability
  <2>1. \A i \in 1..n : Provider[i] \in [host : Host, caps : SUBSET Capability]
    BY <1>1, ElementOfSeq, PolicyAssumption
  <2>2. QED
    BY <2>1
<1>3. candidates \in [1..n -> [zone : Zone, caps : SUBSET Capability]]
  BY <1>1, <1>2, ZonesAre DEF ProviderResources
<1>4. Len(candidates) = n
  BY <1>3, SeqDef, LenProperties
<1>5. \A i \in 1..n : candidates[i].zone \in Zone /\ candidates[i].caps = Provider[i].caps
  BY <1>1, <1>2, ZonesAre DEF ProviderResources
<1>6. \A i \in 1..n : met(i) \in Nat /\ met(i) <= Cardinality(Capability)
  <2>1. \A i \in 1..n : Provider[i].caps \cap prefers \in SUBSET Capability
    BY <1>2
  <2>2. QED
    BY <2>1, PolicyAssumption, FS_Subset, FS_CardinalityType
<1>7. \A i \in 1..n : RankKey(candidates[i], req) = <<-met(i), candidates[i].zone>>
  <2>1. SUFFICES ASSUME NEW i \in 1..n PROVE RankKey(candidates[i], req) = <<-met(i), candidates[i].zone>>
    OBVIOUS
  <2>2. prefers \cap candidates[i].caps = Provider[i].caps \cap prefers /\ req.prefers = prefers
    BY <1>5
  <2>3. QED
    BY <2>2 DEF RankKey
<1>8. complies = {i \in 1..n : IsEligible(candidates[i], req)}
  BY <1>1, <1>5 DEF IsEligible, Within
<1> DEFINE Before(i, j) == \/ RankKey(candidates[i], req)[1] < RankKey(candidates[j], req)[1]
                           \/ /\ RankKey(candidates[i], req)[1] = RankKey(candidates[j], req)[1]
                              /\ RankKey(candidates[i], req)[2] < RankKey(candidates[j], req)[2]
                           \/ RankKey(candidates[i], req) = RankKey(candidates[j], req) /\ i <= j
<1> DEFINE eligible == {i \in 1..Len(candidates) : IsEligible(candidates[i], req)}
<1>9. chosen = IF eligible = {} THEN Blocked
               ELSE CHOOSE i \in eligible : \A j \in eligible : Before(i, j)
  <2>1. chosen = Resolve(candidates, req)
    BY DEF CompileStep
  <2> HIDE DEF candidates, req, chosen
  <2>2. QED
    BY <2>1 DEF Resolve
<1>13. eligible = complies
  BY <1>4, <1>8
<1> HIDE DEF eligible
<1>10. CASE complies = {}
  BY <1>9, <1>10, <1>13
<1>11. CASE complies # {}
  <2>1. complies \subseteq 1..n
    BY <1>1
  <2>2. PICK best \in complies : \A j \in complies : met(j) <= met(best)
    <3> DEFINE mets == {met(j) : j \in complies}
    <3>1. mets \in SUBSET Nat /\ mets # {}
      BY <1>6, <1>11, <2>1
    <3>2. Cardinality(Capability) \in Nat /\ \A v \in mets : v <= Cardinality(Capability)
      BY <1>6, <2>1, PolicyAssumption, FS_CardinalityType
    <3>3. PICK g \in mets : \A v \in mets : v <= g
      BY <3>1, <3>2, GreatestPicked
    <3> HIDE DEF met, complies
    <3>4. PICK b \in complies : g = met(b)
      BY <3>3
    <3>5. \A j \in complies : met(j) \in mets
      OBVIOUS
    <3>6. QED
      BY <3>3, <3>4, <3>5
  <2> DEFINE finest == {j \in complies : met(j) = met(best)}
  <2>3. PICK z \in finest : \A j \in finest : candidates[z].zone <= candidates[j].zone
    <3> DEFINE zones == {candidates[j].zone : j \in finest}
    <3>1. zones \in SUBSET Nat /\ zones # {}
      <4> HIDE DEF met, complies, candidates
      <4>1. best \in finest
        BY <2>2
      <4>2. \A j \in finest : candidates[j].zone \in Nat
        BY <1>5, <2>1 DEF Zone
      <4>3. QED
        BY <4>1, <4>2
    <3>2. PICK g \in zones : \A v \in zones : g <= v
      BY <3>1, LeastPicked
    <3>3. QED
      BY <3>2
  <2> DEFINE firsts == {j \in finest : candidates[j].zone = candidates[z].zone}
  <2>4. PICK i \in firsts : \A j \in firsts : i <= j
    <3>1. firsts \in SUBSET Nat /\ firsts # {}
      <4> HIDE DEF met, complies, candidates
      <4>1. z \in firsts
        BY <2>3
      <4>2. \A j \in firsts : j \in 1..n
        BY <2>1
      <4> HIDE DEF firsts
      <4>3. QED
        BY <4>1, <4>2
    <3>2. QED
      BY <3>1, LeastPicked
  <2>5. ASSUME NEW j \in complies PROVE Before(i, j)
    <3>1. i \in 1..n /\ j \in 1..n /\ met(i) \in Nat /\ met(j) \in Nat
      BY <1>6, <2>1, <2>4
    <3>2. candidates[i].zone \in Zone /\ candidates[j].zone \in Zone
      BY <1>5, <3>1
    <3>3. met(j) <= met(i) /\ (met(j) = met(i) => j \in finest)
      BY <2>2, <2>4
    <3>4. j \in finest => candidates[i].zone <= candidates[j].zone
      BY <2>3, <2>4
    <3>5. j \in finest /\ candidates[j].zone = candidates[i].zone => i <= j
      BY <2>3, <2>4
    <3>6. /\ RankKey(candidates[i], req) = <<-met(i), candidates[i].zone>>
          /\ RankKey(candidates[j], req) = <<-met(j), candidates[j].zone>>
      BY <1>7, <3>1
    <3> HIDE DEF candidates, complies, met, req, finest
    <3>7. CASE met(j) < met(i)
      BY <3>1, <3>6, <3>7
    <3>8. CASE met(j) = met(i) /\ candidates[i].zone < candidates[j].zone
      BY <3>1, <3>6, <3>8
    <3>9. CASE met(j) = met(i) /\ candidates[i].zone = candidates[j].zone
      BY <3>3, <3>5, <3>6, <3>9
    <3>10. QED
      BY <3>1, <3>2, <3>3, <3>4, <3>7, <3>8, <3>9 DEF Zone
  <2>6. chosen \in complies /\ \A j \in complies : Before(chosen, j)
    <3>1. \E k \in eligible : \A j \in eligible : Before(k, j)
      BY <1>13, <2>4, <2>5
    <3>2. PICK c : c = CHOOSE k \in eligible : \A j \in eligible : Before(k, j)
      OBVIOUS
    <3> HIDE DEF complies, Before, chosen
    <3>3. c \in eligible /\ \A j \in eligible : Before(c, j)
      BY <3>1, <3>2
    <3>4. chosen = c
      BY <1>9, <1>11, <1>13, <3>2
    <3>5. QED
      BY <1>13, <3>3, <3>4
  <2> HIDE DEF chosen
  <2>7. ASSUME NEW j \in complies
        PROVE  /\ met(j) <= met(chosen)
               /\ met(j) = met(chosen) => candidates[chosen].zone <= candidates[j].zone
    <3>1. chosen \in 1..n /\ j \in 1..n /\ met(chosen) \in Nat /\ met(j) \in Nat
      BY <1>6, <2>1, <2>6
    <3>2. candidates[chosen].zone \in Zone /\ candidates[j].zone \in Zone
      BY <1>5, <3>1
    <3>3. /\ RankKey(candidates[chosen], req) = <<-met(chosen), candidates[chosen].zone>>
          /\ RankKey(candidates[j], req) = <<-met(j), candidates[j].zone>>
      BY <1>7, <3>1
    <3>4. Before(chosen, j)
      BY <2>6
    <3> HIDE DEF candidates, complies, met, req
    <3>5. CASE RankKey(candidates[chosen], req)[1] < RankKey(candidates[j], req)[1]
      BY <3>1, <3>3, <3>5
    <3>6. CASE /\ RankKey(candidates[chosen], req)[1] = RankKey(candidates[j], req)[1]
               /\ RankKey(candidates[chosen], req)[2] < RankKey(candidates[j], req)[2]
      BY <3>1, <3>2, <3>3, <3>6 DEF Zone
    <3>7. CASE RankKey(candidates[chosen], req) = RankKey(candidates[j], req)
      BY <3>1, <3>2, <3>3, <3>7 DEF Zone
    <3>8. QED
      BY <3>4, <3>5, <3>6, <3>7
  <2>8. QED
    BY <1>11, <2>6, <2>7 DEF chosen
<1>12. QED
  BY <1>10, <1>11

-----------------------------------------------------------------------------
(***************************************************************************)
(* Connections and the environments they have                              *)
(***************************************************************************)

(* What is in a queue *)

InQueue(queue) == {queue[i] : i \in 1..Len(queue)}
\* a caller stands in it once
CallersOnce(queue) ==
  \A i, j \in 1..Len(queue) : queue[i] = queue[j] /\ queue[i] \in Caller => i = j

LEMMA AppendJoins ==
  ASSUME NEW queue \in Queue, CallersOnce(queue), NEW x \in Caller \cup {Stop},
         x \in Caller => x \notin InQueue(queue)
  PROVE  /\ CallersOnce(Append(queue, x)) /\ InQueue(Append(queue, x)) = InQueue(queue) \cup {x}
<1>1. PICK n \in Nat : n = Len(queue)
  BY LenProperties DEF Queue
<1>2. PICK q : q = Append(queue, x)
  OBVIOUS
<1>3. Len(q) = n + 1 /\ q[n + 1] = x /\ \A i \in 1..n : q[i] = queue[i]
  BY <1>1, <1>2, AppendProperties DEF Queue
<1>4. \A i \in 1..(n + 1) : i = n + 1 \/ i \in 1..n
  BY <1>1
<1>5. \A i \in 1..n : i \in 1..(n + 1)
  BY <1>1
<1>6. InQueue(q) = InQueue(queue) \cup {x}
  BY <1>1, <1>3, <1>4, <1>5 DEF InQueue
<1>7. ASSUME NEW i \in 1..(n + 1), NEW j \in 1..(n + 1), q[i] = q[j], q[i] \in Caller
      PROVE  i = j
  BY <1>1, <1>3, <1>4, <1>7 DEF InQueue, CallersOnce
<1>8. QED
  BY <1>2, <1>3, <1>6, <1>7 DEF CallersOnce

LEMMA TailKeepsPlaces ==
  ASSUME NEW queue \in Queue, CallersOnce(queue), queue # <<>>
  PROVE  /\ CallersOnce(Tail(queue)) /\ InQueue(Tail(queue)) \subseteq InQueue(queue)
         /\ Head(queue) \in InQueue(queue)
         /\ Head(queue) \in Caller => Head(queue) \notin InQueue(Tail(queue))
<1>1. PICK n \in Nat : n = Len(queue)
  BY LenProperties DEF Queue
<1>2. n # 0 /\ 1 \in 1..n
  BY <1>1, EmptySeq DEF Queue
<1>3. PICK q : q = Tail(queue)
  OBVIOUS
<1>4. Len(q) = n - 1 /\ \A i \in 1..(n - 1) : q[i] = queue[i + 1]
  BY <1>1, <1>3, HeadTailProperties DEF Queue
<1>5. Head(queue) = queue[1]
  BY HeadTailProperties DEF Queue
<1>6. \A i \in 1..(n - 1) : i + 1 \in 1..n /\ i + 1 # 1
  BY <1>1
<1>7. InQueue(q) \subseteq InQueue(queue)
  BY <1>1, <1>4, <1>6 DEF InQueue
<1>8. ASSUME NEW i \in 1..(n - 1), NEW j \in 1..(n - 1), q[i] = q[j], q[i] \in Caller PROVE i = j
  <2>1. i + 1 = j + 1
    BY <1>1, <1>4, <1>6, <1>8 DEF CallersOnce
  <2>2. QED
    BY <1>1, <2>1
<1>9. ASSUME Head(queue) \in Caller PROVE Head(queue) \notin InQueue(q)
  <2>1. \A i \in 1..(n - 1) : q[i] # queue[1]
    BY <1>1, <1>2, <1>4, <1>5, <1>6, <1>9 DEF CallersOnce
  <2>2. QED
    BY <1>4, <1>5, <2>1 DEF InQueue
<1>10. QED
  BY <1>1, <1>2, <1>3, <1>4, <1>5, <1>7, <1>8, <1>9 DEF CallersOnce, InQueue

LEMMA LeaveFreesPlace ==
  ASSUME NEW queue \in Queue, CallersOnce(queue), NEW c \in Caller
  PROVE  /\ CallersOnce(Unqueued(queue, c))
         /\ InQueue(Unqueued(queue, c)) \subseteq InQueue(queue) \ {c}
<1>1. CASE c \notin {queue[i] : i \in 1..Len(queue)}
  BY <1>1 DEF Unqueued, InQueue
<1>2. CASE c \in {queue[i] : i \in 1..Len(queue)}
  <2>1. PICK k : k = CHOOSE i \in 1..Len(queue) : queue[i] = c
    OBVIOUS
  <2>2. k \in 1..Len(queue) /\ queue[k] = c
    BY <1>2, <2>1
  <2>3. PICK n \in Nat : n = Len(queue)
    BY LenProperties DEF Queue
  <2>4. PICK q : q = [i \in 1..(n - 1) |-> IF i < k THEN queue[i] ELSE queue[i + 1]]
    OBVIOUS
  <2>5. Unqueued(queue, c) = q
    BY <1>2, <2>1, <2>3, <2>4 DEF Unqueued
  <2>6. n - 1 \in Nat /\ Len(q) = n - 1
    <3>1. n - 1 \in Nat
      BY <2>2, <2>3
    <3>2. q \in [1..(n - 1) -> {q[i] : i \in 1..(n - 1)}]
      BY <2>4
    <3>3. QED
      BY <3>1, <3>2, SeqDef, LenProperties
  <2> DEFINE was(i) == IF i < k THEN i ELSE i + 1
  <2>7. \A i \in 1..(n - 1) : was(i) \in 1..n /\ was(i) # k /\ q[i] = queue[was(i)]
    BY <2>2, <2>3, <2>4
  <2>8. \A i, j \in 1..(n - 1) : was(i) = was(j) => i = j
    BY <2>2, <2>3
  <2> HIDE DEF was
  <2>9. \A i \in 1..(n - 1) : q[i] # c /\ q[i] \in InQueue(queue)
    BY <2>2, <2>3, <2>7 DEF CallersOnce, InQueue
  <2>10. ASSUME NEW i \in 1..(n - 1), NEW j \in 1..(n - 1), q[i] = q[j], q[i] \in Caller PROVE i = j
    BY <2>3, <2>7, <2>8, <2>10 DEF CallersOnce
  <2>11. QED
    BY <2>5, <2>6, <2>9, <2>10 DEF CallersOnce, InQueue
<1>3. QED
  BY <1>1, <1>2

-----------------------------------------------------------------------------
(* Which environment a connection has *)

\* a caller in a queue, or served, waits at that connection
WaitingInLine == \A n \in Conn :
  /\ CallersOnce(conn[n].queue)
  /\ conn[n].serving \in Caller => conn[n].serving \notin InQueue(conn[n].queue)
  /\ \A c \in Caller : c \in InQueue(conn[n].queue) \cup {conn[n].serving} =>
       caller[c].pc = "waiting" /\ caller[c].conn = n

\* the credentials are those stored last, or were replaced while it started
Fresh(n) == conn[n].env = edits \/ \E e \in Editor : n \in editor[e].racing

EditorState ==
  [pc : {"none", "closing", "done"}, todo : SUBSET Server, waits : 0..MaxConns, racing : SUBSET Conn]

\* what is in the cache is fresh, or an eviction has still to take it out
CacheFresh ==
  /\ editor \in [Editor -> EditorState]
  /\ \A n \in Conn : conn[n].pc = "starting" => Fresh(n)
  /\ \A s \in Server : cached[s] # 0 =>
       \/ Fresh(cached[s])
       \/ \E e \in Editor : editor[e].pc = "closing" /\ s \in editor[e].todo

LEMMA LineStarts == PoolInit => WaitingInLine /\ CacheFresh
<1> SUFFICES ASSUME PoolInit PROVE WaitingInLine /\ CacheFresh
  OBVIOUS
<1>1. NoEdit \in EditorState
  BY PoolAssumption DEF NoEdit, EditorState
<1>2. \A n \in Conn : conn[n].queue = <<>> /\ conn[n].serving = None /\ conn[n].pc = "none"
  BY DEF PoolInit, NoConn
<1>3. InQueue(<<>>) = {} /\ CallersOnce(<<>>)
  BY DEF InQueue, CallersOnce
<1>4. None \notin Caller
  BY PoolAssumption
<1>5. WaitingInLine
  BY <1>2, <1>3, <1>4 DEF WaitingInLine
<1>6. CacheFresh
  BY <1>1, <1>2 DEF PoolInit, CacheFresh
<1>7. QED
  BY <1>5, <1>6

\* a connection changes, and so do callers that wait at no other
LEMMA LineMoves ==
  ASSUME WaitingInLine, conn \in [Conn -> Connection], NEW n \in Conn, NEW r \in Connection,
         conn' = [conn EXCEPT ![n] = r], CallersOnce(r.queue),
         r.serving \in Caller => r.serving \notin InQueue(r.queue),
         \A c \in Caller : c \in InQueue(r.queue) \cup {r.serving} =>
           caller'[c].pc = "waiting" /\ caller'[c].conn = n,
         \A c \in Caller : caller'[c] = caller[c] \/ ~(caller[c].pc = "waiting" /\ caller[c].conn # n)
  PROVE  WaitingInLine'
<1>1. \A k \in Conn : conn'[k] = IF k = n THEN r ELSE conn[k]
  OBVIOUS
<1>2. SUFFICES ASSUME NEW k \in Conn
               PROVE  /\ CallersOnce(conn'[k].queue)
                      /\ conn'[k].serving \in Caller => conn'[k].serving \notin InQueue(conn'[k].queue)
                      /\ \A c \in Caller : c \in InQueue(conn'[k].queue) \cup {conn'[k].serving} =>
                           caller'[c].pc = "waiting" /\ caller'[c].conn = k
  BY DEF WaitingInLine, CallersOnce, InQueue
<1>3. CASE k = n
  BY <1>1, <1>3
<1>4. CASE k # n
  <2>1. conn'[k] = conn[k]
    BY <1>1, <1>4
  <2>2. /\ CallersOnce(conn[k].queue)
        /\ conn[k].serving \in Caller => conn[k].serving \notin InQueue(conn[k].queue)
        /\ \A c \in Caller : c \in InQueue(conn[k].queue) \cup {conn[k].serving} =>
             caller[c].pc = "waiting" /\ caller[c].conn = k
    BY DEF WaitingInLine
  <2>3. QED
    BY <1>4, <2>1, <2>2
<1>5. QED
  BY <1>3, <1>4

\* connections stay, and callers that wait stay
LEMMA LineStays ==
  ASSUME WaitingInLine, UNCHANGED conn,
         \A c \in Caller : caller'[c] = caller[c] \/ caller[c].pc # "waiting"
  PROVE  WaitingInLine'
  BY DEF WaitingInLine, CallersOnce, InQueue

\* environments and who has edited stay as they were
LEMMA FreshStays ==
  ASSUME CacheFresh, UNCHANGED <<edits, editor>>,
         \A n \in Conn : conn'[n].env = conn[n].env /\ (conn'[n].pc = "starting" => conn[n].pc = "starting"),
         \A s \in Server : cached'[s] # 0 => cached'[s] \in Conn /\
           (cached'[s] = cached[s] \/ conn[cached'[s]].pc = "starting")
  PROVE  CacheFresh'
<1>1. \A n \in Conn : Fresh(n) => Fresh(n)'
  BY DEF Fresh
<1>2. QED
  BY <1>1 DEF CacheFresh

-----------------------------------------------------------------------------
(* What a step of the pool does to connections and callers *)

Calling == {"locking", "bundling", "starting"}
Current(n) == Fresh(n) \/ \E e \in Editor : editor[e].pc = "closing"

\* the caller comes to wait at a connection of s that is fresh while nobody evicts
JoinsAt(d, s) ==
  /\ caller'[d].pc = "waiting" /\ caller'[d].conn \in Conn /\ caller'[d].conn <= spawned
  /\ conn'[caller'[d].conn].server = s /\ Current(caller'[d].conn)

Moves(d) ==
  \/ caller'[d] = caller[d]
  \/ caller'[d].pc = "idle"
  \/ caller[d].pc = "waiting" /\ caller'[d].pc = "stranded"
  \/ /\ caller[d].pc \in Calling /\ caller'[d].pc \in {"bundling", "starting"}
     /\ caller'[d].server = caller[d].server
  \/ caller[d].pc \in Calling /\ JoinsAt(d, caller[d].server)

SameConns == \A n \in Conn : n <= spawned =>
  conn'[n].env = conn[n].env /\ conn'[n].server = conn[n].server
\* edits and evictions go on, none begins
NoEdits ==
  /\ edits' = edits
  /\ \A e \in Editor : /\ editor'[e].racing = editor[e].racing
                       /\ editor'[e].pc = "closing" => editor[e].pc = "closing"

PoolGoesOn == WaitingInLine' /\ CacheFresh' /\ SameConns /\ NoEdits

LEMMA UseMoves ==
  ASSUME PoolInv, WaitingInLine, CacheFresh, NEW c \in Caller, caller[c].pc # "waiting",
         NEW s \in Server, cached[s] # 0, Use(c, cached[s]),
         UNCHANGED <<edits, cached, failed, spawned, editor>>
  PROVE  /\ PoolGoesOn /\ \A d \in Caller : d # c => caller'[d] = caller[d]
         /\ caller'[c].pc = "idle" \/ JoinsAt(c, s)
<1>1. PICK n : n = cached[s]
  OBVIOUS
<1>2. n \in Conn /\ conn[n] \in Connection /\ conn[n].server = s
  BY <1>1, PoolAssumption DEF PoolInv, Typed, Matched, Conn
<1>3. conn \in [Conn -> Connection] /\ caller \in [Caller -> CallerState]
  BY DEF PoolInv, Typed
<1>4. \A t \in Server : cached[t] # 0 => cached[t] \in Conn
  BY PoolAssumption DEF PoolInv, Typed, Conn
<1>5. NoEdits
  BY DEF NoEdits
<1>6. CASE Answer(c) /\ UNCHANGED conn
  <2>1. \A d \in Caller : caller'[d] = IF d = c THEN IdleCaller ELSE caller[d]
    BY <1>3, <1>6 DEF Answer
  <2>2. WaitingInLine'
    BY <1>6, <2>1, LineStays
  <2>3. CacheFresh'
    BY <1>4, <1>6, FreshStays
  <2>4. QED
    BY <1>5, <1>6, <2>1, <2>2, <2>3 DEF PoolGoesOn, SameConns, IdleCaller
<1>7. CASE Request(c, n)
  <2>1. PICK r : r = [conn[n] EXCEPT !.queue = Append(@, c)]
    OBVIOUS
  <2>2. conn[n].queue \in Queue /\ NotStopped(conn[n].queue)
    BY <1>1, <1>2 DEF Connection, PoolInv, QueuesOrdered
  <2>3. Append(conn[n].queue, c) \in Queue
    BY <2>2, AppendRequest
  <2>4. /\ r \in Connection /\ r.server = s /\ r.queue = Append(conn[n].queue, c)
        /\ r.env = conn[n].env /\ r.pc = conn[n].pc /\ r.serving = conn[n].serving
    BY <1>2, <2>1, <2>3 DEF Connection
  <2>5. conn' = [conn EXCEPT ![n] = r]
    BY <1>7, <2>1 DEF Request
  <2>6. \A k \in Conn : conn'[k] = IF k = n THEN r ELSE conn[k]
    BY <1>3, <2>5
  <2>7. /\ CallersOnce(conn[n].queue)
        /\ conn[n].serving \in Caller => conn[n].serving \notin InQueue(conn[n].queue)
        /\ \A d \in Caller : d \in InQueue(conn[n].queue) \cup {conn[n].serving} =>
             caller[d].pc = "waiting" /\ caller[d].conn = n
    BY <1>2 DEF WaitingInLine
  <2>8. CallersOnce(r.queue) /\ InQueue(r.queue) = InQueue(conn[n].queue) \cup {c}
    BY <2>2, <2>4, <2>7, AppendJoins
  <2>9. PICK w : w = [pc |-> "waiting", server |-> conn[n].server, conn |-> n]
    OBVIOUS
  <2>10. \A d \in Caller : caller'[d] = IF d = c THEN w ELSE caller[d]
    BY <1>3, <1>7, <2>9 DEF Request
  <2>11. w.pc = "waiting" /\ w.conn = n
    BY <2>9
  <2>12. WaitingInLine'
    <3>1. r.serving \in Caller => r.serving \notin InQueue(r.queue)
      BY <2>4, <2>7, <2>8
    <3>2. \A d \in Caller : d \in InQueue(r.queue) \cup {r.serving} =>
            caller'[d].pc = "waiting" /\ caller'[d].conn = n
      BY <2>4, <2>7, <2>8, <2>10, <2>11
    <3>3. \A d \in Caller : caller'[d] = caller[d] \/ ~(caller[d].pc = "waiting" /\ caller[d].conn # n)
      BY <2>10
    <3>4. r \in Connection /\ CallersOnce(r.queue)
      BY <2>4, <2>8
    <3>5. QED
      BY <1>2, <1>3, <2>5, <3>1, <3>2, <3>3, <3>4, LineMoves
  <2>13. CacheFresh'
    BY <1>4, <2>4, <2>6, FreshStays
  <2>14. Current(n)
    BY <1>1 DEF CacheFresh, Current
  <2>15. JoinsAt(c, s)
    <3>1. n <= spawned
      BY <1>1 DEF PoolInv, Counted
    <3>2. QED
      BY <1>2, <2>4, <2>6, <2>10, <2>11, <2>14, <3>1 DEF JoinsAt
  <2>16. SameConns
    BY <1>2, <2>4, <2>6 DEF SameConns
  <2>17. QED
    BY <1>5, <2>10, <2>12, <2>13, <2>15, <2>16 DEF PoolGoesOn
<1>8. QED
  BY <1>1, <1>6, <1>7 DEF Use

LEMMA AcquireMoves ==
  ASSUME PoolInv, WaitingInLine, CacheFresh, NEW c \in Caller, Acquire(c)
  PROVE  PoolGoesOn /\ \A d \in Caller : Moves(d)
<1>1. caller[c].pc = "locking" /\ caller[c].server \in Server
  BY DEF Acquire, PoolInv, Matched
<1>2. CASE cached[caller[c].server] # 0 /\ Use(c, cached[caller[c].server])
  <2>1. UNCHANGED <<edits, cached, failed, spawned, editor>>
    BY DEF Acquire
  <2>2. /\ PoolGoesOn /\ \A d \in Caller : d # c => caller'[d] = caller[d]
        /\ caller'[c].pc = "idle" \/ JoinsAt(c, caller[c].server)
    BY <1>1, <1>2, <2>1, UseMoves
  <2>3. QED
    BY <1>1, <2>2 DEF Moves, Calling
<1>3. CASE caller' = [caller EXCEPT ![c].pc = "bundling"] /\ UNCHANGED conn
  <2>1. caller[c] \in CallerState
    BY DEF PoolInv, Typed
  <2>2. PICK r \in CallerState : r = [caller[c] EXCEPT !.pc = "bundling"]
    BY <2>1 DEF CallerState
  <2>3. r.pc = "bundling" /\ r.server = caller[c].server
    BY <2>1, <2>2 DEF CallerState
  <2>4. \A d \in Caller : caller'[d] = IF d = c THEN r ELSE caller[d]
    BY <1>3, <2>2 DEF PoolInv, Typed
  <2>5. UNCHANGED <<edits, cached, spawned, editor>>
    BY DEF Acquire
  <2>6. WaitingInLine'
    BY <1>1, <1>3, <2>4, LineStays
  <2>7. \A t \in Server : cached[t] # 0 => cached[t] \in Conn
    BY PoolAssumption DEF PoolInv, Typed, Conn
  <2>8. CacheFresh'
    BY <1>3, <2>5, <2>7, FreshStays
  <2>9. QED
    BY <1>1, <1>3, <2>3, <2>4, <2>5, <2>6, <2>8 DEF PoolGoesOn, SameConns, NoEdits, Moves, Calling
<1>4. QED
  BY <1>2, <1>3 DEF Acquire

LEMMA SpawnMoves ==
  ASSUME PoolInv, PoolInv', WaitingInLine, CacheFresh, NEW c \in Caller, Spawn(c)
  PROVE  PoolGoesOn /\ \A d \in Caller : Moves(d)
<1>1. caller[c].pc = "bundling" /\ caller[c] \in CallerState
  BY DEF Spawn, PoolInv, Typed
<1>2. PICK n : n = spawned'
  OBVIOUS
<1>3. spawned \in Nat /\ n = spawned + 1 /\ n \in Conn
  BY <1>2, PoolAssumption DEF Spawn, PoolInv, Typed, Conn
<1>4. UNCHANGED <<edits, cached, failed, editor>> /\ edits \in 0..MaxEdits /\ caller[c].server \in Server
  BY <1>1 DEF Spawn, PoolInv, Typed, Matched
<1>5. /\ conn \in [Conn -> Connection] /\ conn' \in [Conn -> Connection]
      /\ caller \in [Caller -> CallerState] /\ caller' \in [Caller -> CallerState]
  BY DEF PoolInv, Typed
<1>6. PICK r : r = [NoConn EXCEPT !.pc = "starting", !.server = caller[c].server, !.env = edits]
  OBVIOUS
<1>7. conn' = [conn EXCEPT ![n] = r]
  BY <1>2, <1>6 DEF Spawn
<1>8. \A k \in Conn : conn'[k] = IF k = n THEN r ELSE conn[k]
  BY <1>5, <1>7
<1>9. r \in Connection
  BY <1>3, <1>5, <1>8
<1>10. r.pc = "starting" /\ r.env = edits /\ r.queue = <<>> /\ r.serving = None
  BY <1>6 DEF NoConn
<1>11. PICK w : w = [caller[c] EXCEPT !.pc = "starting", !.conn = n]
  OBVIOUS
<1>12. w.pc = "starting" /\ w.server = caller[c].server
  BY <1>1, <1>11 DEF CallerState
<1>13. \A d \in Caller : caller'[d] = IF d = c THEN w ELSE caller[d]
  BY <1>2, <1>5, <1>11 DEF Spawn
<1>14. InQueue(<<>>) = {} /\ CallersOnce(<<>>) /\ None \notin Caller
  BY PoolAssumption DEF InQueue, CallersOnce
<1>15. \A d \in Caller : caller[d].conn # n
  BY <1>3, <1>5 DEF PoolInv, Counted, CallerState
<1>16. WaitingInLine'
  <2>1. \A d \in Caller : caller[d].pc = "waiting" => caller'[d] = caller[d]
    BY <1>1, <1>13
  <2>2. SUFFICES ASSUME NEW k \in Conn
                 PROVE  /\ CallersOnce(conn'[k].queue)
                        /\ conn'[k].serving \in Caller => conn'[k].serving \notin InQueue(conn'[k].queue)
                        /\ \A d \in Caller : d \in InQueue(conn'[k].queue) \cup {conn'[k].serving} =>
                             caller'[d].pc = "waiting" /\ caller'[d].conn = k
    BY DEF WaitingInLine, CallersOnce, InQueue
  <2>3. CASE k = n
    BY <1>8, <1>10, <1>14, <2>3
  <2>4. CASE k # n
    <3>1. conn'[k] = conn[k]
      BY <1>8, <2>4
    <3>2. /\ CallersOnce(conn[k].queue)
          /\ conn[k].serving \in Caller => conn[k].serving \notin InQueue(conn[k].queue)
          /\ \A d \in Caller : d \in InQueue(conn[k].queue) \cup {conn[k].serving} =>
               caller[d].pc = "waiting" /\ caller[d].conn = k
      BY DEF WaitingInLine
    <3>3. QED
      BY <2>1, <3>1, <3>2
  <2>5. QED
    BY <2>3, <2>4
<1>17. \A s \in Server : cached[s] # 0 => cached[s] \in Conn /\ cached[s] # n
  <2>1. SUFFICES ASSUME NEW s \in Server, cached[s] # 0 PROVE cached[s] \in Conn /\ cached[s] # n
    OBVIOUS
  <2>2. cached[s] \in 0..MaxConns /\ cached[s] <= spawned
    BY DEF PoolInv, Typed, Counted
  <2>3. QED
    BY <1>3, <2>1, <2>2, PoolAssumption DEF Conn
<1>18. CacheFresh'
  <2>1. \A k \in Conn : Fresh(k) /\ k # n => Fresh(k)'
    BY <1>4, <1>8 DEF Fresh
  <2>2. Fresh(n)'
    BY <1>3, <1>4, <1>8, <1>10 DEF Fresh
  <2>3. \A k \in Conn : conn'[k].pc = "starting" => Fresh(k)'
    BY <1>8, <2>1, <2>2 DEF CacheFresh
  <2>4. QED
    BY <1>4, <1>17, <2>1, <2>3 DEF CacheFresh
<1>19. SameConns
  BY <1>3, <1>8 DEF SameConns, Conn
<1>20. \A d \in Caller : Moves(d)
  BY <1>1, <1>12, <1>13 DEF Moves, Calling
<1>21. QED
  BY <1>4, <1>16, <1>18, <1>19, <1>20 DEF PoolGoesOn, NoEdits

LEMMA StartedMoves ==
  ASSUME PoolInv, PoolInv', WaitingInLine, CacheFresh, NEW c \in Caller, Started(c)
  PROVE  PoolGoesOn /\ \A d \in Caller : Moves(d)
<1>1. PICK n : n = caller[c].conn
  OBVIOUS
<1>2. PICK s : s = caller[c].server
  OBVIOUS
<1>3. /\ n \in Conn /\ s \in Server /\ conn[n].server = s /\ conn[n] \in Connection
      /\ caller[c].pc = "starting" /\ caller[c] \in CallerState /\ conn[n].pc = "starting"
  BY <1>1, <1>2 DEF Started, PoolInv, Typed, Matched
<1>4. /\ conn \in [Conn -> Connection] /\ conn' \in [Conn -> Connection]
      /\ caller \in [Caller -> CallerState] /\ cached \in [Server -> 0..MaxConns]
  BY DEF PoolInv, Typed
<1>5. PICK r : r = [conn[n] EXCEPT !.pc = "serving", !.queue = <<c>>]
  OBVIOUS
<1>6. conn' = [conn EXCEPT ![n] = r]
  BY <1>1, <1>4, <1>5 DEF Started
<1>7. \A k \in Conn : conn'[k] = IF k = n THEN r ELSE conn[k]
  BY <1>4, <1>6
<1>8. /\ r \in Connection /\ r.queue = <<c>> /\ r.serving = conn[n].serving
      /\ r.env = conn[n].env /\ r.server = s /\ r.pc = "serving"
  BY <1>3, <1>4, <1>5, <1>7 DEF Connection
<1>9. PICK w : w = [caller[c] EXCEPT !.pc = "waiting"]
  OBVIOUS
<1>10. w.pc = "waiting" /\ w.conn = n /\ w.server = s
  BY <1>1, <1>2, <1>3, <1>9 DEF CallerState
<1>11. \A d \in Caller : caller'[d] = IF d = c THEN w ELSE caller[d]
  BY <1>4, <1>9 DEF Started
<1>12. UNCHANGED <<edits, spawned, editor>> /\ \A t \in Server : cached'[t] = IF t = s THEN n ELSE cached[t]
  BY <1>1, <1>2, <1>4 DEF Started
<1>13. InQueue(<<c>>) = {c} /\ CallersOnce(<<c>>)
  BY DEF InQueue, CallersOnce
<1>14. WaitingInLine'
  <2>1. \A d \in Caller : d = conn[n].serving => caller[d].pc = "waiting" /\ caller[d].conn = n /\ d # c
    BY <1>3 DEF WaitingInLine
  <2>2. \A d \in Caller : d \in InQueue(r.queue) \cup {r.serving} =>
          caller'[d].pc = "waiting" /\ caller'[d].conn = n
    BY <1>8, <1>10, <1>11, <1>13, <2>1
  <2>3. r.serving \in Caller => r.serving \notin InQueue(r.queue)
    BY <1>8, <1>13, <2>1
  <2>4. \A d \in Caller : caller'[d] = caller[d] \/ ~(caller[d].pc = "waiting" /\ caller[d].conn # n)
    BY <1>3, <1>11
  <2>5. CallersOnce(r.queue) /\ r \in Connection /\ n \in Conn /\ conn \in [Conn -> Connection]
    BY <1>3, <1>4, <1>8, <1>13
  <2>6. QED
    BY <1>6, <2>2, <2>3, <2>4, <2>5, LineMoves
<1>15. CacheFresh'
  <2>1. \A t \in Server : cached[t] # 0 => cached[t] \in Conn
    BY <1>4, PoolAssumption DEF Conn
  <2>2. \A t \in Server : cached'[t] # 0 => cached'[t] \in Conn /\
          (cached'[t] = cached[t] \/ conn[cached'[t]].pc = "starting")
    BY <1>3, <1>12, <2>1
  <2>3. \A k \in Conn : conn'[k].env = conn[k].env /\ (conn'[k].pc = "starting" => conn[k].pc = "starting")
    BY <1>7, <1>8
  <2>4. QED
    BY <1>12, <2>2, <2>3, FreshStays
<1>16. Current(n)
  BY <1>3 DEF CacheFresh, Current
<1>17. JoinsAt(c, s)
  <2>1. n <= spawned
    BY <1>1 DEF PoolInv, Counted
  <2>2. QED
    BY <1>3, <1>7, <1>8, <1>10, <1>11, <1>16, <2>1 DEF JoinsAt
<1>18. \A d \in Caller : Moves(d)
  BY <1>2, <1>3, <1>11, <1>17 DEF Moves, Calling
<1>19. SameConns
  BY <1>3, <1>7, <1>8 DEF SameConns
<1>20. QED
  BY <1>12, <1>14, <1>15, <1>18, <1>19 DEF PoolGoesOn, NoEdits

\* a caller leaves, with it its place in a queue or its connection that starts
LEMMA LeavesMoves ==
  ASSUME PoolInv, PoolInv', WaitingInLine, CacheFresh, NEW c \in Caller, StartFails(c) \/ CancelCall(c)
  PROVE  PoolGoesOn /\ \A d \in Caller : IF d = c THEN caller'[d].pc = "idle" ELSE caller'[d] = caller[d]
<1>1. PICK n : n = caller[c].conn
  OBVIOUS
<1>2. UNCHANGED <<edits, cached, spawned, editor>> /\ Answer(c)
  BY DEF StartFails, CancelCall
<1>3. conn \in [Conn -> Connection] /\ conn' \in [Conn -> Connection] /\ caller \in [Caller -> CallerState]
  BY DEF PoolInv, Typed
<1>4. /\ \A d \in Caller : caller'[d] = IF d = c THEN IdleCaller ELSE caller[d]
      /\ IdleCaller.pc = "idle"
  BY <1>2, <1>3 DEF Answer, IdleCaller
<1>5. NoEdits
  BY <1>2 DEF NoEdits
<1>6. \A t \in Server : cached[t] # 0 => cached[t] \in Conn
  BY PoolAssumption DEF PoolInv, Typed, Conn
<1>7. CASE UNCHANGED conn /\ caller[c].pc # "waiting"
  <2>1. WaitingInLine'
    BY <1>4, <1>7, LineStays
  <2>2. CacheFresh'
    BY <1>2, <1>6, <1>7, FreshStays
  <2>3. QED
    BY <1>4, <1>5, <1>7, <2>1, <2>2 DEF PoolGoesOn, SameConns
<1>8. ASSUME NEW r, n \in Conn, conn' = [conn EXCEPT ![n] = r],
             CallersOnce(r.queue), InQueue(r.queue) \subseteq InQueue(conn[n].queue) \ {c},
             r.serving = conn[n].serving \/ r.serving \notin Caller, r.serving # c,
             r.env = conn[n].env, r.server = conn[n].server, r.pc = "starting" => conn[n].pc = "starting",
             caller[c].pc # "waiting" \/ caller[c].conn = n
      PROVE  PoolGoesOn
  <2>1. \A k \in Conn : conn'[k] = IF k = n THEN r ELSE conn[k]
    BY <1>3, <1>8
  <2>2. r \in Connection
    BY <1>3, <1>8, <2>1
  <2>3. /\ conn[n].serving \in Caller => conn[n].serving \notin InQueue(conn[n].queue)
        /\ \A d \in Caller : d \in InQueue(conn[n].queue) \cup {conn[n].serving} =>
             caller[d].pc = "waiting" /\ caller[d].conn = n
    BY <1>8 DEF WaitingInLine
  <2>4. \A d \in Caller : d \in InQueue(r.queue) \cup {r.serving} =>
          d # c /\ d \in InQueue(conn[n].queue) \cup {conn[n].serving}
    BY <1>8
  <2>5. \A d \in Caller : d \in InQueue(r.queue) \cup {r.serving} =>
          caller'[d].pc = "waiting" /\ caller'[d].conn = n
    BY <1>4, <2>3, <2>4
  <2>6. r.serving \in Caller => r.serving \notin InQueue(r.queue)
    BY <1>8, <2>3
  <2>7. \A d \in Caller : caller'[d] = caller[d] \/ ~(caller[d].pc = "waiting" /\ caller[d].conn # n)
    BY <1>4, <1>8
  <2>8. WaitingInLine'
    BY <1>3, <1>8, <2>2, <2>5, <2>6, <2>7, LineMoves
  <2>9. CacheFresh'
    BY <1>2, <1>6, <1>8, <2>1, FreshStays
  <2>10. QED
    BY <1>5, <1>8, <2>1, <2>8, <2>9 DEF PoolGoesOn, SameConns
<1>9. CASE StartFails(c)
  <2>1. n \in Conn /\ conn[n] \in Connection /\ caller[c].pc = "starting"
    BY <1>1, <1>9 DEF StartFails, PoolInv, Matched, Typed
  <2>2. PICK r : r = [conn[n] EXCEPT !.pc = "gone"]
    OBVIOUS
  <2>3. /\ r.server = conn[n].server /\ r.queue = conn[n].queue /\ r.pc = "gone"
        /\ r.env = conn[n].env /\ r.serving = conn[n].serving
    BY <2>1, <2>2 DEF Connection
  <2>4. conn' = [conn EXCEPT ![n] = r]
    BY <1>1, <1>9, <2>2 DEF StartFails
  <2>5. CallersOnce(conn[n].queue) /\ c \notin InQueue(conn[n].queue) /\ conn[n].serving # c
    BY <2>1 DEF WaitingInLine
  <2>6. QED
    BY <1>4, <1>8, <2>1, <2>3, <2>4, <2>5
<1>10. CASE CancelCall(c) /\ caller[c].pc = "waiting"
  <2>1. n \in Conn /\ conn[n] \in Connection /\ conn[n].queue \in Queue
    BY <1>1, <1>10 DEF PoolInv, Matched, Typed, Connection
  <2>2. PICK serving : serving = IF conn[n].serving = c THEN Cancelled ELSE conn[n].serving
    OBVIOUS
  <2>3. PICK r : r = [conn[n] EXCEPT !.queue = Unqueued(conn[n].queue, c), !.serving = serving]
    OBVIOUS
  <2>4. /\ r.server = conn[n].server /\ r.queue = Unqueued(conn[n].queue, c) /\ r.pc = conn[n].pc
        /\ r.env = conn[n].env /\ r.serving = serving
    BY <2>1, <2>3 DEF Connection
  <2>5. conn' = [conn EXCEPT ![n] = r]
    BY <1>1, <1>3, <1>10, <2>1, <2>2, <2>3 DEF CancelCall
  <2>6. CallersOnce(conn[n].queue)
    BY <2>1 DEF WaitingInLine
  <2>7. CallersOnce(r.queue) /\ InQueue(r.queue) \subseteq InQueue(conn[n].queue) \ {c}
    BY <2>1, <2>4, <2>6, LeaveFreesPlace
  <2>8. serving # c /\ (serving = conn[n].serving \/ serving \notin Caller)
    BY <2>2, PoolAssumption DEF Cancelled
  <2>9. PoolGoesOn
    BY <1>1, <1>8, <2>1, <2>4, <2>5, <2>7, <2>8
  <2>10. QED
    BY <1>4, <2>9
<1>11. QED
  BY <1>7, <1>9, <1>10 DEF CancelCall

LEMMA OwnerMoves ==
  ASSUME PoolInv, PoolInv', WaitingInLine, CacheFresh, NEW n \in Conn,
         OwnerStep(n) \/ OrphanStarts(n) \/ TransportFails(n)
  PROVE  PoolGoesOn /\ \A d \in Caller : Moves(d)
<1>1. /\ conn \in [Conn -> Connection] /\ conn' \in [Conn -> Connection] /\ caller \in [Caller -> CallerState]
      /\ conn[n] \in Connection /\ conn[n].queue \in Queue
  BY DEF PoolInv, Typed, Connection
<1>2. UNCHANGED <<edits, cached, spawned, editor>>
  BY DEF OwnerStep, OrphanStarts, TransportFails, TakeRequest, Reply, OwnerStops
<1>3. /\ CallersOnce(conn[n].queue)
      /\ conn[n].serving \in Caller => conn[n].serving \notin InQueue(conn[n].queue)
      /\ \A d \in Caller : d \in InQueue(conn[n].queue) \cup {conn[n].serving} =>
           caller[d].pc = "waiting" /\ caller[d].conn = n
  BY DEF WaitingInLine
<1>4. \A t \in Server : cached[t] # 0 => cached[t] \in Conn
  BY PoolAssumption DEF PoolInv, Typed, Conn
<1>5. None \notin Caller
  BY PoolAssumption
<1>6. ASSUME NEW r, conn' = [conn EXCEPT ![n] = r], CallersOnce(r.queue),
             r.serving \in Caller => r.serving \notin InQueue(r.queue),
             r.env = conn[n].env, r.server = conn[n].server, r.pc = "starting" => conn[n].pc = "starting",
             \A d \in Caller : d \in InQueue(r.queue) \cup {r.serving} =>
               caller'[d].pc = "waiting" /\ caller'[d].conn = n,
             \A d \in Caller : caller'[d] = caller[d] \/ ~(caller[d].pc = "waiting" /\ caller[d].conn # n)
      PROVE  PoolGoesOn
  <2>1. \A k \in Conn : conn'[k] = IF k = n THEN r ELSE conn[k]
    BY <1>1, <1>6
  <2>2. r \in Connection
    BY <1>1, <2>1
  <2>3. WaitingInLine'
    BY <1>1, <1>6, <2>2, LineMoves
  <2>4. CacheFresh'
    BY <1>2, <1>4, <1>6, <2>1, FreshStays
  <2>5. SameConns
    BY <1>6, <2>1 DEF SameConns
  <2>6. QED
    BY <1>2, <2>3, <2>4, <2>5 DEF PoolGoesOn, NoEdits
<1>7. CASE OrphanStarts(n)
  <2>1. PICK r : r = [conn[n] EXCEPT !.pc = "serving"]
    OBVIOUS
  <2>2. /\ r.server = conn[n].server /\ r.queue = conn[n].queue /\ r.pc = "serving"
        /\ r.env = conn[n].env /\ r.serving = conn[n].serving
    BY <1>1, <2>1 DEF Connection
  <2>3. conn' = [conn EXCEPT ![n] = r] /\ UNCHANGED caller
    BY <1>7, <2>1 DEF OrphanStarts
  <2>4. QED
    BY <1>3, <1>6, <2>2, <2>3 DEF Moves
<1>8. CASE TakeRequest(n)
  <2>1. conn[n].queue # <<>> /\ UNCHANGED caller
    BY <1>8 DEF TakeRequest
  <2>2. PICK r : r = [conn[n] EXCEPT !.serving = Head(conn[n].queue), !.queue = Tail(conn[n].queue)]
    OBVIOUS
  <2>3. /\ r.server = conn[n].server /\ r.queue = Tail(conn[n].queue) /\ r.pc = conn[n].pc
        /\ r.env = conn[n].env /\ r.serving = Head(conn[n].queue)
    BY <1>1, <2>2 DEF Connection
  <2>4. conn' = [conn EXCEPT ![n] = r]
    BY <1>1, <1>8, <2>2 DEF TakeRequest
  <2>5. /\ CallersOnce(r.queue) /\ InQueue(r.queue) \subseteq InQueue(conn[n].queue)
        /\ r.serving \in InQueue(conn[n].queue)
        /\ r.serving \in Caller => r.serving \notin InQueue(r.queue)
    BY <1>1, <1>3, <2>1, <2>3, TailKeepsPlaces
  <2>6. \A d \in Caller : d \in InQueue(r.queue) \cup {r.serving} =>
          caller'[d].pc = "waiting" /\ caller'[d].conn = n
    BY <1>3, <2>1, <2>5
  <2>7. PoolGoesOn
    BY <1>6, <2>1, <2>3, <2>4, <2>5, <2>6
  <2>8. QED
    BY <2>1, <2>7 DEF Moves
<1>9. CASE Reply(n)
  <2>1. \A d \in Caller : caller'[d] = IF conn[n].serving = d THEN IdleCaller ELSE caller[d]
    BY <1>9 DEF Reply
  <2>2. PICK r : r = [conn[n] EXCEPT !.serving = None]
    OBVIOUS
  <2>3. /\ r.server = conn[n].server /\ r.queue = conn[n].queue /\ r.pc = conn[n].pc
        /\ r.env = conn[n].env /\ r.serving = None
    BY <1>1, <2>2 DEF Connection
  <2>4. conn' = [conn EXCEPT ![n] = r]
    BY <1>9, <2>2 DEF Reply
  <2>5. \A d \in Caller : d \in InQueue(r.queue) \cup {r.serving} =>
          caller'[d].pc = "waiting" /\ caller'[d].conn = n
    BY <1>3, <1>5, <2>1, <2>3
  <2>6. \A d \in Caller : caller'[d] = caller[d] \/ ~(caller[d].pc = "waiting" /\ caller[d].conn # n)
    BY <1>3, <2>1
  <2>7. PoolGoesOn
    BY <1>3, <1>5, <1>6, <2>3, <2>4, <2>5, <2>6
  <2>8. \A d \in Caller : Moves(d)
    BY <2>1 DEF Moves, IdleCaller
  <2>9. QED
    BY <2>7, <2>8
<1>10. CASE OwnerStops(n) \/ TransportFails(n)
  <2>1. \A d \in Caller : caller'[d] = IF d \in QueuedAt(n) THEN IdleCaller
                                       ELSE IF d = conn[n].serving
                                       THEN [IdleCaller EXCEPT !.pc = "stranded"] ELSE caller[d]
    BY <1>10 DEF OwnerStops, TransportFails, OwnerEnds
  <2>2. PICK r : r = [conn[n] EXCEPT !.pc = "gone", !.queue = <<>>, !.serving = None]
    OBVIOUS
  <2>3. /\ r.server = conn[n].server /\ r.queue = <<>> /\ r.pc = "gone"
        /\ r.env = conn[n].env /\ r.serving = None
    BY <1>1, <2>2 DEF Connection
  <2>4. conn' = [conn EXCEPT ![n] = r]
    BY <1>1, <1>10, <2>2 DEF OwnerStops, TransportFails, OwnerEnds
  <2>5. InQueue(<<>>) = {} /\ CallersOnce(<<>>)
    BY DEF InQueue, CallersOnce
  <2>6. \A d \in Caller : d \in QueuedAt(n) => d \in InQueue(conn[n].queue)
    BY DEF QueuedAt, InQueue
  <2>7. \A d \in Caller : caller'[d] = caller[d] \/ (caller[d].pc = "waiting" /\ caller[d].conn = n)
    BY <1>3, <2>1, <2>6
  <2>8. PoolGoesOn
    <3>1. \A d \in Caller : ~(d \in InQueue(r.queue) \cup {r.serving})
      BY <1>5, <2>3, <2>5
    <3>2. \A d \in Caller : caller'[d] = caller[d] \/ ~(caller[d].pc = "waiting" /\ caller[d].conn # n)
      BY <2>7
    <3>3. QED
      BY <1>5, <1>6, <2>3, <2>4, <2>5, <3>1, <3>2
  <2>9. \A d \in Caller : Moves(d)
    <3>1. SUFFICES ASSUME NEW d \in Caller PROVE Moves(d)
      OBVIOUS
    <3>2. IdleCaller.pc = "idle" /\ [IdleCaller EXCEPT !.pc = "stranded"].pc = "stranded"
      BY DEF IdleCaller
    <3>3. \/ caller'[d].pc = "idle" \/ caller'[d] = caller[d]
          \/ d = conn[n].serving /\ caller'[d].pc = "stranded"
      BY <2>1, <3>2
    <3>4. d = conn[n].serving => caller[d].pc = "waiting"
      BY <1>3
    <3>5. QED
      BY <3>3, <3>4 DEF Moves
  <2>10. QED
    BY <2>8, <2>9
<1>11. QED
  BY <1>7, <1>8, <1>9, <1>10 DEF OwnerStep

\* an eviction takes a connection out of the cache before its editor rests
LEMMA EditorMoves ==
  ASSUME PoolInv, PoolInv', WaitingInLine, CacheFresh, NEW e \in Editor, EditorStep(e)
  PROVE  PoolGoesOn /\ UNCHANGED caller
<1>1. /\ conn \in [Conn -> Connection] /\ conn' \in [Conn -> Connection]
      /\ editor \in [Editor -> EditorState] /\ cached \in [Server -> 0..MaxConns]
  BY DEF PoolInv, Typed, CacheFresh
<1>2. UNCHANGED <<edits, spawned, caller>>
  BY DEF EditorStep, Evicted, Evict
<1>3. CASE Evicted(e)
  <2>1. editor[e].pc = "closing" /\ editor[e].todo = {} /\ UNCHANGED <<cached, conn>>
    BY <1>3 DEF Evicted
  <2>2. PICK x \in EditorState : x = [editor[e] EXCEPT !.pc = "done", !.waits = 0]
    <3>1. 0 \in 0..MaxConns /\ editor[e] \in EditorState
      BY <1>1, PoolAssumption
    <3>2. [editor[e] EXCEPT !.pc = "done", !.waits = 0] \in EditorState
      BY <3>1 DEF EditorState
    <3>3. QED
      BY <3>2
  <2>3. x.pc = "done" /\ x.racing = editor[e].racing
    BY <1>1, <2>2 DEF EditorState
  <2>4. editor' = [editor EXCEPT ![e] = x]
    BY <1>1, <1>3, <2>2 DEF Evicted
  <2>5. \A f \in Editor : editor'[f] = IF f = e THEN x ELSE editor[f]
    BY <1>1, <2>4
  <2>6. editor' \in [Editor -> EditorState]
    BY <1>1, <2>4
  <2>7. \A k \in Conn : Fresh(k) => Fresh(k)'
    BY <1>2, <2>1, <2>3, <2>5 DEF Fresh
  <2>8. CacheFresh'
    <3>1. \A s \in Server : cached[s] # 0 => cached[s] \in Conn
      BY <1>1, PoolAssumption DEF Conn
    <3>2. ASSUME NEW f \in Editor, NEW s \in editor[f].todo, editor[f].pc = "closing"
          PROVE  editor'[f].pc = "closing" /\ s \in editor'[f].todo
      BY <2>1, <2>5, <3>2
    <3>3. QED
      BY <2>1, <2>6, <2>7, <3>1, <3>2 DEF CacheFresh
  <2>9. WaitingInLine'
    BY <1>2, <2>1, LineStays
  <2>10. QED
    BY <1>2, <2>1, <2>3, <2>5, <2>8, <2>9 DEF PoolGoesOn, SameConns, NoEdits
<1>4. ASSUME NEW s \in Server, Evict(e, s) PROVE PoolGoesOn
  <2>1. editor[e].pc = "closing" /\ s \in editor[e].todo
    BY <1>4 DEF Evict
  <2>2. PICK x \in EditorState : x = [editor[e] EXCEPT !.todo = @ \ {s}, !.waits = cached[s]]
    BY <1>1 DEF EditorState
  <2>3. x.pc = "closing" /\ x.racing = editor[e].racing /\ x.todo = editor[e].todo \ {s}
    BY <1>1, <2>1, <2>2 DEF EditorState
  <2>4. editor' = [editor EXCEPT ![e] = x]
    BY <1>1, <1>4, <2>2 DEF Evict
  <2>5. \A f \in Editor : editor'[f] = IF f = e THEN x ELSE editor[f]
    BY <1>1, <2>4
  <2>6. editor' \in [Editor -> EditorState]
    BY <1>1, <2>4
  <2>7. \A t \in Server : cached'[t] = IF t = s THEN 0 ELSE cached[t]
    BY <1>1, <1>4 DEF Evict
  <2>8. \A t \in Server : cached[t] # 0 => cached[t] \in Conn
    BY <1>1, PoolAssumption DEF Conn
  <2>9. NoEdits
    BY <1>2, <2>1, <2>3, <2>5 DEF NoEdits
  <2>10. ASSUME \A k \in Conn : conn'[k].env = conn[k].env /\ conn'[k].pc = conn[k].pc
         PROVE  CacheFresh'
    <3>1. \A k \in Conn : Fresh(k) => Fresh(k)'
      BY <1>2, <2>3, <2>5, <2>10 DEF Fresh
    <3>2. ASSUME NEW t \in Server, cached'[t] # 0
          PROVE  \/ Fresh(cached[t])' \/ \E f \in Editor : editor'[f].pc = "closing" /\ t \in editor'[f].todo
      <4>1. t # s /\ cached[t] # 0 /\ cached[t] \in Conn
        BY <2>7, <2>8, <3>2
      <4>2. cached'[t] = cached[t]
        BY <2>7, <4>1
      <4>3. CASE Fresh(cached[t])
        BY <3>1, <4>1, <4>2, <4>3 DEF Fresh
      <4>4. CASE \E f \in Editor : editor[f].pc = "closing" /\ t \in editor[f].todo
        BY <2>3, <2>5, <4>1, <4>4
      <4>5. QED
        BY <4>1, <4>3, <4>4 DEF CacheFresh
    <3>3. QED
      BY <2>6, <2>10, <3>1, <3>2 DEF CacheFresh
  <2>11. CASE cached[s] = 0
    <3>1. UNCHANGED conn
      BY <1>4, <2>11 DEF Evict
    <3>2. WaitingInLine'
      BY <1>2, <3>1, LineStays
    <3>3. QED
      BY <2>9, <2>10, <3>1, <3>2 DEF PoolGoesOn, SameConns
  <2>12. CASE cached[s] # 0
    <3>1. PICK n \in Conn : n = cached[s]
      BY <2>8, <2>12
    <3>2. PICK r : r = [conn[n] EXCEPT !.queue = Append(@, Stop)]
      OBVIOUS
    <3>3. conn[n] \in Connection /\ conn[n].queue \in Queue
      BY <1>1 DEF Connection
    <3>4. /\ r.server = conn[n].server /\ r.queue = Append(conn[n].queue, Stop) /\ r.pc = conn[n].pc
          /\ r.env = conn[n].env /\ r.serving = conn[n].serving
      BY <3>2, <3>3 DEF Connection
    <3>5. conn' = [conn EXCEPT ![n] = r]
      BY <1>4, <2>12, <3>1, <3>2 DEF Evict
    <3>6. \A k \in Conn : conn'[k] = IF k = n THEN r ELSE conn[k]
      BY <1>1, <3>5
    <3>7. r \in Connection
      BY <1>1, <3>6
    <3>8. /\ CallersOnce(conn[n].queue)
          /\ conn[n].serving \in Caller => conn[n].serving \notin InQueue(conn[n].queue)
          /\ \A d \in Caller : d \in InQueue(conn[n].queue) \cup {conn[n].serving} =>
               caller[d].pc = "waiting" /\ caller[d].conn = n
      BY DEF WaitingInLine
    <3>9. Stop \notin Caller
      BY PoolAssumption DEF Stop
    <3>10. CallersOnce(r.queue) /\ InQueue(r.queue) = InQueue(conn[n].queue) \cup {Stop}
      BY <3>3, <3>4, <3>8, <3>9, AppendJoins
    <3>11. \A d \in Caller : d \in InQueue(r.queue) \cup {r.serving} =>
             caller'[d].pc = "waiting" /\ caller'[d].conn = n
      BY <1>2, <3>4, <3>8, <3>9, <3>10
    <3>12. r.serving \in Caller => r.serving \notin InQueue(r.queue)
      BY <3>4, <3>8, <3>9, <3>10
    <3>13. WaitingInLine'
      BY <1>1, <1>2, <3>5, <3>7, <3>10, <3>11, <3>12, LineMoves
    <3>14. QED
      BY <2>9, <2>10, <3>4, <3>6, <3>13 DEF PoolGoesOn, SameConns
  <2>13. QED
    BY <2>11, <2>12
<1>5. QED
  BY <1>2, <1>3, <1>4 DEF EditorStep

\* an edit: what is cached will be evicted, what starts has raced it
LEMMA EditMoves ==
  ASSUME PoolInv, PoolInv', WaitingInLine, CacheFresh, StoreEdit
  PROVE  WaitingInLine' /\ CacheFresh' /\ edits < edits' /\ UNCHANGED <<conn, caller>>
<1>1. /\ edits \in 0..MaxEdits /\ edits' \in 0..MaxEdits /\ edits' = edits + 1 /\ edits' \in Editor
      /\ editor \in [Editor -> EditorState] /\ cached \in [Server -> 0..MaxConns]
  BY PoolAssumption DEF StoreEdit, PoolInv, Typed, CacheFresh, Editor
<1>2. PICK x \in EditorState :
        x = [pc |-> "closing", todo |-> {s \in Server : cached[s] # 0}, waits |-> 0,
             racing |-> {n \in Conn : conn[n].pc = "starting"}]
  <2>1. PICK todo \in SUBSET Server : todo = {s \in Server : cached[s] # 0}
    OBVIOUS
  <2>2. PICK racing \in SUBSET Conn : racing = {n \in Conn : conn[n].pc = "starting"}
    OBVIOUS
  <2>3. 0 \in 0..MaxConns
    BY PoolAssumption
  <2>4. [pc |-> "closing", todo |-> todo, waits |-> 0, racing |-> racing] \in EditorState
    BY <2>3 DEF EditorState
  <2>5. QED
    BY <2>1, <2>2, <2>4
<1>3. editor' = [editor EXCEPT ![edits'] = x]
  BY <1>2 DEF StoreEdit
<1>4. editor' \in [Editor -> EditorState] /\ editor'[edits'] = x
  BY <1>1, <1>3
<1>5. UNCHANGED <<cached, conn, caller>>
  BY DEF StoreEdit
<1>6. WaitingInLine'
  BY <1>5, LineStays
<1>7. \A n \in Conn : conn[n].pc = "starting" => Fresh(n)'
  BY <1>1, <1>2, <1>4 DEF Fresh
<1>8. CacheFresh'
  BY <1>1, <1>2, <1>4, <1>5, <1>7 DEF CacheFresh
<1>9. QED
  BY <1>1, <1>5, <1>6, <1>8

\* nothing happens in the pool
LEMMA PoolRests ==
  ASSUME PoolInv, WaitingInLine, CacheFresh, UNCHANGED <<edits, cached, spawned, conn, caller, editor>>
  PROVE  PoolGoesOn /\ \A d \in Caller : Moves(d)
<1>1. \A s \in Server : cached[s] # 0 => cached[s] \in Conn
  BY PoolAssumption DEF PoolInv, Typed, Conn
<1>2. WaitingInLine' /\ CacheFresh'
  BY <1>1, LineStays, FreshStays
<1>3. QED
  BY <1>2 DEF PoolGoesOn, SameConns, NoEdits, Moves

-----------------------------------------------------------------------------
(***************************************************************************)
(* Calls                                                                   *)
(***************************************************************************)

(* Steps of GatewayCalls, said of callers and connections one by one *)

AsBefore(d) == caller'[d].pc = caller[d].pc
OnlyCaller(c) == \A d \in Caller : d # c => AsBefore(d)
SameWires == \A n \in Conn : conn'[n].serving = conn[n].serving
OnAWire(c) == \E n \in Conn : conn[n].serving = c
CallStep == Calls!CallsNext \/ UNCHANGED Calls!callsVars

LEMMA WiresAre ==
  ASSUME SameWires
  PROVE  [n \in Conn |-> conn'[n].serving] = [n \in Conn |-> conn[n].serving]
  BY DEF SameWires

LEMMA CallRests ==
  ASSUME SameWires,
         \A d \in Caller : /\ caller'[d].pc = "idle" <=> caller[d].pc = "idle"
                           /\ caller'[d].pc = "stranded" <=> caller[d].pc = "stranded"
  PROVE  CallStep
<1>1. {c \in Caller : caller'[c].pc # "idle"} = {c \in Caller : caller[c].pc # "idle"}
  OBVIOUS
<1>2. {c \in Caller : caller'[c].pc = "stranded"} = {c \in Caller : caller[c].pc = "stranded"}
  OBVIOUS
<1>3. QED
  BY <1>1, <1>2, WiresAre DEF CallStep, Calls!callsVars

LEMMA CallAsked ==
  ASSUME SameWires, NEW c \in Caller, OnlyCaller(c),
         caller[c].pc = "idle", caller'[c].pc \notin {"idle", "stranded"}
  PROVE  CallStep
<1>1. {d \in Caller : caller'[d].pc # "idle"} = {d \in Caller : caller[d].pc # "idle"} \cup {c}
  BY DEF OnlyCaller, AsBefore
<1>2. {d \in Caller : caller'[d].pc = "stranded"} = {d \in Caller : caller[d].pc = "stranded"}
  BY DEF OnlyCaller, AsBefore
<1>3. Calls!Ask(c)
  BY <1>1, <1>2, WiresAre DEF Calls!Ask
<1>4. QED
  BY <1>3 DEF CallStep, Calls!CallsNext

LEMMA CallRefused ==
  ASSUME SameWires, NEW c \in Caller, OnlyCaller(c), ~OnAWire(c),
         caller[c].pc \notin {"idle", "stranded"}, caller'[c].pc = "idle"
  PROVE  CallStep
<1>1. {d \in Caller : caller'[d].pc # "idle"} = {d \in Caller : caller[d].pc # "idle"} \ {c}
  BY DEF OnlyCaller, AsBefore
<1>2. {d \in Caller : caller'[d].pc = "stranded"} = {d \in Caller : caller[d].pc = "stranded"}
  BY DEF OnlyCaller, AsBefore
<1>3. c \notin Calls!OnWire
  BY DEF Calls!OnWire, OnAWire
<1>4. Calls!Refuse({c})
  BY <1>1, <1>2, <1>3, WiresAre DEF Calls!Refuse
<1>5. QED
  BY <1>4 DEF CallStep, Calls!CallsNext

\* a wire changes
Wire(n, x) == \A k \in Conn : conn'[k].serving = IF k = n THEN x ELSE conn[k].serving

LEMMA WireIs ==
  ASSUME NEW n \in Conn, NEW x, Wire(n, x)
  PROVE  [k \in Conn |-> conn'[k].serving] = [[k \in Conn |-> conn[k].serving] EXCEPT ![n] = x]
  BY DEF Wire

LEMMA CallStarts ==
  ASSUME NEW n \in Conn, NEW c \in Caller, Wire(n, c), conn[n].serving = None, ~OnAWire(c),
         caller[c].pc \notin {"idle", "stranded"}, \A d \in Caller : AsBefore(d)
  PROVE  CallStep
<1>1. {d \in Caller : caller'[d].pc # "idle"} = {d \in Caller : caller[d].pc # "idle"}
  BY DEF AsBefore
<1>2. {d \in Caller : caller'[d].pc = "stranded"} = {d \in Caller : caller[d].pc = "stranded"}
  BY DEF AsBefore
<1>3. c \notin Calls!OnWire
  BY DEF Calls!OnWire, OnAWire
<1>4. Calls!Start(c, n)
  BY <1>1, <1>2, <1>3, WireIs DEF Calls!Start
<1>5. QED
  BY <1>4 DEF CallStep, Calls!CallsNext

LEMMA CallFinishes ==
  ASSUME NEW n \in Conn, Wire(n, None), conn[n].serving # None,
         \A d \in Caller : IF d = conn[n].serving THEN caller'[d].pc = "idle" ELSE AsBefore(d),
         \A d \in Caller : d = conn[n].serving => caller[d].pc # "stranded"
  PROVE  CallStep
<1>1. {d \in Caller : caller'[d].pc # "idle"} = {d \in Caller : caller[d].pc # "idle"} \ {conn[n].serving}
  BY DEF AsBefore
<1>2. {d \in Caller : caller'[d].pc = "stranded"} = {d \in Caller : caller[d].pc = "stranded"}
  BY DEF AsBefore
<1>3. Calls!Finish(n)
  BY <1>1, <1>2, WireIs DEF Calls!Finish
<1>4. QED
  BY <1>3 DEF CallStep, Calls!CallsNext

LEMMA CallWithdrawn ==
  ASSUME NEW c \in Caller, OnlyCaller(c), caller[c].pc # "idle", caller'[c].pc = "idle",
         \A n \in Conn : conn'[n].serving = IF conn[n].serving = c THEN Cancelled ELSE conn[n].serving
  PROVE  CallStep
<1>1. {d \in Caller : caller'[d].pc # "idle"} = {d \in Caller : caller[d].pc # "idle"} \ {c}
  BY DEF OnlyCaller, AsBefore
<1>2. {d \in Caller : caller'[d].pc = "stranded"} = {d \in Caller : caller[d].pc = "stranded"} \ {c}
  BY DEF OnlyCaller, AsBefore
<1>3. [n \in Conn |-> conn'[n].serving]
        = [n \in Conn |-> IF conn[n].serving = c THEN Cancelled ELSE conn[n].serving]
  OBVIOUS
<1>4. Calls!Withdraw(c)
  BY <1>1, <1>2, <1>3 DEF Calls!Withdraw
<1>5. QED
  BY <1>4 DEF CallStep, Calls!CallsNext

LEMMA CallsEnd ==
  ASSUME NEW n \in Conn, Wire(n, None), NEW queued \in SUBSET Caller,
         \A d \in queued : caller[d].pc \notin {"idle", "stranded"} /\ ~OnAWire(d),
         \A d \in Caller : IF d \in queued THEN caller'[d].pc = "idle"
                           ELSE IF d = conn[n].serving THEN caller'[d].pc = "stranded" ELSE AsBefore(d),
         \A d \in Caller : d = conn[n].serving => caller[d].pc # "idle"
  PROVE  CallStep
<1>1. {d \in Caller : caller'[d].pc # "idle"} = {d \in Caller : caller[d].pc # "idle"} \ queued
  BY DEF AsBefore
<1>2. {d \in Caller : caller'[d].pc = "stranded"}
        = {d \in Caller : caller[d].pc = "stranded"} \cup ({conn[n].serving} \cap Caller)
  <2>1. \A d \in queued : d # conn[n].serving
    BY DEF OnAWire
  <2>2. QED
    BY <2>1 DEF AsBefore
<1>3. \A d \in queued : d \notin Calls!OnWire
  BY DEF Calls!OnWire, OnAWire
<1>4. Calls!End(n, queued)
  BY <1>1, <1>2, <1>3, WireIs DEF Calls!End
<1>5. QED
  BY <1>4 DEF CallStep, Calls!CallsNext

(* Nobody waits for nothing *)

\* the lock is with a caller that is about to have a connection
LockHeld == lock # None => lock \in Caller /\ caller[lock].pc \in {"bundling", "starting"}
\* what is cached has started, what is not made has nothing to it
ConnsKnown ==
  /\ \A s \in Server : cached[s] # 0 => conn[cached[s]].pc \in {"serving", "gone"}
  /\ \A n \in Conn : /\ n > spawned => conn[n].pc = "none"
                     /\ conn[n].pc # "serving" => conn[n].serving = None
Connects(c) ==
  /\ caller[c].pc \in {"bundling", "starting"} => lock = c
  /\ caller[c].pc = "starting" => conn[caller[c].conn].pc = "starting"
StandsAt(c, n) == conn[n].pc = "serving" /\ c \in InQueue(conn[n].queue) \cup {conn[n].serving}
Attended(c) == Connects(c) /\ (caller[c].pc = "waiting" => StandsAt(c, caller[c].conn))

AttendInv == LockHeld /\ ConnsKnown /\ \A c \in Caller : Attended(c)
CallsInv == PoolInv /\ WaitingInLine /\ CacheFresh /\ AttendInv

LEMMA AllAttended == ASSUME AttendInv, NEW c \in Caller PROVE Attended(c)
  BY DEF AttendInv

LEMMA AttendStarts == PoolInit => AttendInv
<1> SUFFICES ASSUME PoolInit PROVE AttendInv
  OBVIOUS
<1>1. \A c \in Caller : caller[c].pc = "idle"
  BY DEF PoolInit, IdleCaller
<1>2. \A n \in Conn : conn[n].pc = "none" /\ conn[n].serving = None
  BY DEF PoolInit, NoConn
<1>3. lock = None /\ \A s \in Server : cached[s] = 0
  BY DEF PoolInit
<1>4. QED
  BY <1>1, <1>2, <1>3 DEF AttendInv, LockHeld, ConnsKnown, Attended, Connects

\* who is on a wire, or queued, waits there
LEMMA OnlyWaitersOnWires ==
  ASSUME WaitingInLine, NEW c \in Caller
  PROVE  /\ OnAWire(c) => caller[c].pc = "waiting"
         /\ \A n \in Conn : c \in InQueue(conn[n].queue) => caller[c].pc = "waiting" /\ ~OnAWire(c)
<1>1. ASSUME NEW n \in Conn, conn[n].serving = c PROVE caller[c].pc = "waiting" /\ caller[c].conn = n
  BY <1>1 DEF WaitingInLine
<1>2. ASSUME NEW n \in Conn, c \in InQueue(conn[n].queue) PROVE caller[c].pc = "waiting" /\ ~OnAWire(c)
  <2>1. caller[c].pc = "waiting" /\ caller[c].conn = n /\ conn[n].serving # c
    BY <1>2 DEF WaitingInLine
  <2>2. QED
    BY <1>1, <2>1 DEF OnAWire
<1>3. QED
  BY <1>1, <1>2 DEF OnAWire

\* What a caller has that a step leaves alone, with its connection
LEMMA AttendedStays ==
  ASSUME NEW c \in Caller, Attended(c), caller'[c] = caller[c], lock = c => lock' = c,
         caller[c].pc \in {"starting", "waiting"} =>
           LET n == caller[c].conn
           IN  /\ conn'[n].pc = conn[n].pc
               /\ c \in InQueue(conn[n].queue) \cup {conn[n].serving} =>
                    c \in InQueue(conn'[n].queue) \cup {conn'[n].serving}
  PROVE  Attended(c)'
  BY DEF Attended, Connects, StandsAt, InQueue

\* one connection changes, and goes on serving those who wait at it
LEMMA AttendedAt ==
  ASSUME CallsInv, NEW n \in Conn, NEW r \in Connection, conn' = [conn EXCEPT ![n] = r],
         NEW c \in Caller, caller'[c] = caller[c], lock = c => lock' = c,
         caller[c].pc \in {"starting", "waiting"} /\ caller[c].conn = n =>
           /\ r.pc = conn[n].pc
           /\ c \in InQueue(conn[n].queue) \cup {conn[n].serving} => c \in InQueue(r.queue) \cup {r.serving}
  PROVE  Attended(c)'
<1>1. /\ \A k \in Conn : conn'[k] = IF k = n THEN r ELSE conn[k]
      /\ caller[c].pc \in {"starting", "waiting"} => caller[c].conn \in Conn
  BY DEF CallsInv, PoolInv, Typed, Matched
<1>2. Attended(c)
  BY AllAttended DEF CallsInv
<1>3. QED
  BY <1>1, <1>2, AttendedStays

LEMMA ConnsStayKnown ==
  ASSUME CallsInv, UNCHANGED <<cached, spawned>>, NEW n \in Conn, NEW r \in Connection,
         conn' = [conn EXCEPT ![n] = r], r.pc # "serving" => r.serving = None,
         conn[n].pc # "none", conn[n].pc \in {"serving", "gone"} => r.pc \in {"serving", "gone"}
  PROVE  ConnsKnown'
<1>1. /\ \A k \in Conn : conn'[k] = IF k = n THEN r ELSE conn[k]
      /\ \A s \in Server : cached[s] # 0 => cached[s] \in Conn
  BY PoolAssumption DEF CallsInv, PoolInv, Typed, Conn
<1>2. QED
  BY <1>1 DEF CallsInv, AttendInv, ConnsKnown

LEMMA LockStays ==
  ASSUME AttendInv, lock' = lock, NEW c \in Caller, caller[c].pc \notin {"bundling", "starting"},
         \A d \in Caller : d # c => caller'[d] = caller[d]
  PROVE  LockHeld'
  BY DEF AttendInv, LockHeld

(* The steps of the pool *)

CallGoesOn == AttendInv' /\ CallStep

\* a caller that does not wait changes, the connections do not
LEMMA CallerAlone ==
  ASSUME CallsInv, NEW c \in Caller, caller[c].pc # "waiting", NEW x \in CallerState,
         caller' = [caller EXCEPT ![c] = x], UNCHANGED <<conn, cached, spawned>>, LockHeld',
         x.pc # "waiting", Connects(c)', \A d \in Caller : d # c /\ lock = d => lock' = d
  PROVE  AttendInv' /\ SameWires /\ OnlyCaller(c) /\ caller'[c] = x
<1>1. \A d \in Caller : caller'[d] = IF d = c THEN x ELSE caller[d]
  BY DEF CallsInv, PoolInv, Typed
<1>2. ConnsKnown'
  BY DEF CallsInv, AttendInv, ConnsKnown
<1>3. Attended(c)'
  BY <1>1 DEF Attended
<1>4. ASSUME NEW d \in Caller, d # c PROVE Attended(d)'
  <2>1. Attended(d)
    BY AllAttended DEF CallsInv
  <2>2. QED
    BY <1>1, <1>4, <2>1, AttendedStays
<1>5. AttendInv'
  BY <1>2, <1>3, <1>4 DEF AttendInv
<1>6. QED
  BY <1>1, <1>5 DEF SameWires, OnlyCaller, AsBefore

LEMMA UseAttended ==
  ASSUME CallsInv, NEW c \in Caller, caller[c].pc \in {"idle", "locking"},
         NEW s \in Server, cached[s] # 0, Use(c, cached[s]),
         UNCHANGED <<cached, lock, spawned>>
  PROVE  CallGoesOn
<1>1. PICK n : n = cached[s]
  OBVIOUS
<1>2. /\ n \in Conn /\ conn[n] \in Connection /\ conn[n].pc \in {"serving", "gone"}
      /\ conn \in [Conn -> Connection] /\ caller \in [Caller -> CallerState]
  BY <1>1, PoolAssumption DEF CallsInv, PoolInv, Typed, Conn, AttendInv, ConnsKnown
<1>3. ~OnAWire(c)
  BY OnlyWaitersOnWires DEF CallsInv
<1>4. CASE Answer(c) /\ UNCHANGED conn
  <2>1. /\ caller' = [caller EXCEPT ![c] = IdleCaller]
        /\ IdleCaller.pc = "idle" /\ IdleCaller \in CallerState
    BY <1>4, PoolAssumption DEF Answer, IdleCaller, CallerState
  <2>2. \A d \in Caller : caller'[d] = IF d = c THEN IdleCaller ELSE caller[d]
    BY <1>2, <2>1
  <2>3. LockHeld'
    BY <2>2, LockStays DEF CallsInv
  <2>4. Connects(c)'
    BY <2>1, <2>2 DEF Connects
  <2>5. AttendInv' /\ SameWires /\ OnlyCaller(c) /\ caller'[c].pc = "idle"
    BY <1>4, <2>1, <2>3, <2>4, CallerAlone
  <2>6. CASE caller[c].pc = "idle"
    BY <2>5, <2>6, CallRests DEF OnlyCaller, AsBefore, CallGoesOn
  <2>7. CASE caller[c].pc = "locking"
    BY <1>3, <2>5, <2>7, CallRefused DEF CallGoesOn
  <2>8. QED
    BY <2>6, <2>7
<1>5. CASE conn[n].pc # "gone" /\ Request(c, n)
  <2>1. PICK r : r = [conn[n] EXCEPT !.queue = Append(@, c)]
    OBVIOUS
  <2>2. conn[n].queue \in Queue /\ NotStopped(conn[n].queue)
    BY <1>1, <1>2 DEF Connection, CallsInv, PoolInv, QueuesOrdered
  <2>3. Append(conn[n].queue, c) \in Queue
    BY <2>2, AppendRequest
  <2>4. /\ r \in Connection /\ r.queue = Append(conn[n].queue, c)
        /\ r.pc = "serving" /\ r.serving = conn[n].serving /\ conn[n].pc = "serving"
    BY <1>2, <1>5, <2>1, <2>3 DEF Connection
  <2>5. conn' = [conn EXCEPT ![n] = r]
    BY <1>5, <2>1 DEF Request
  <2>6. \A k \in Conn : conn'[k] = IF k = n THEN r ELSE conn[k]
    BY <1>2, <2>5
  <2>7. c \notin InQueue(conn[n].queue) /\ CallersOnce(conn[n].queue)
    BY <1>2, OnlyWaitersOnWires DEF CallsInv, WaitingInLine
  <2>8. InQueue(r.queue) = InQueue(conn[n].queue) \cup {c}
    BY <2>2, <2>4, <2>7, AppendJoins
  <2>9. PICK w : w = [pc |-> "waiting", server |-> conn[n].server, conn |-> n]
    OBVIOUS
  <2>10. \A d \in Caller : caller'[d] = IF d = c THEN w ELSE caller[d]
    BY <1>2, <1>5, <2>9 DEF Request
  <2>11. w.pc = "waiting" /\ w.conn = n
    BY <2>9
  <2>12. Attended(c)'
    BY <1>2, <2>4, <2>6, <2>8, <2>10, <2>11 DEF Attended, Connects, StandsAt, InQueue
  <2>13. ASSUME NEW d \in Caller, d # c PROVE Attended(d)'
    <3>1. caller'[d] = caller[d] /\ (lock = d => lock' = d)
      BY <2>10, <2>13
    <3>2. r.pc = conn[n].pc
      BY <2>4
    <3>3. d \in InQueue(conn[n].queue) \cup {conn[n].serving} => d \in InQueue(r.queue) \cup {r.serving}
      BY <2>4, <2>8
    <3>4. n \in Conn /\ r \in Connection
      BY <1>2, <2>4
    <3>5. QED
      BY <2>5, <3>1, <3>2, <3>3, <3>4, AttendedAt
  <2>14. ConnsKnown'
    BY <1>2, <2>4, <2>5, ConnsStayKnown
  <2>15. LockHeld'
    BY <2>10, LockStays DEF CallsInv
  <2>16. AttendInv'
    BY <2>12, <2>13, <2>14, <2>15 DEF AttendInv
  <2>17. SameWires /\ OnlyCaller(c)
    BY <2>4, <2>6, <2>10 DEF SameWires, OnlyCaller, AsBefore
  <2>18. CASE caller[c].pc = "idle"
    BY <2>10, <2>11, <2>16, <2>17, <2>18, CallAsked DEF CallGoesOn
  <2>19. CASE caller[c].pc = "locking"
    BY <2>10, <2>11, <2>16, <2>17, <2>19, CallRests DEF CallGoesOn, OnlyCaller, AsBefore
  <2>20. QED
    BY <2>18, <2>19
<1>6. QED
  BY <1>1, <1>4, <1>5 DEF Use

LEMMA ConnectsAttended ==
  ASSUME CallsInv, NEW c \in Caller, NEW s \in Server, CallConnects(c, s)
  PROVE  CallGoesOn
<1>1. PICK x : x = [pc |-> "locking", server |-> s, conn |-> 0]
  OBVIOUS
<1>2. x \in CallerState /\ x.pc = "locking"
  BY <1>1, PoolAssumption DEF CallerState
<1>3. /\ caller[c].pc = "idle" /\ caller' = [caller EXCEPT ![c] = x]
      /\ UNCHANGED <<conn, cached, spawned, lock>>
  BY <1>1 DEF CallConnects
<1>4. \A d \in Caller : caller'[d] = IF d = c THEN x ELSE caller[d]
  BY <1>3 DEF CallsInv, PoolInv, Typed
<1>5. LockHeld'
  BY <1>3, <1>4, LockStays DEF CallsInv
<1>6. Connects(c)'
  BY <1>2, <1>4 DEF Connects
<1>7. AttendInv' /\ SameWires /\ OnlyCaller(c) /\ caller'[c] = x
  BY <1>2, <1>3, <1>5, <1>6, CallerAlone
<1>8. QED
  BY <1>2, <1>3, <1>7, CallAsked DEF CallGoesOn

LEMMA AcquireAttended ==
  ASSUME CallsInv, NEW c \in Caller, Acquire(c)
  PROVE  CallGoesOn
<1>1. caller[c].pc = "locking" /\ caller[c].server \in Server
  BY DEF Acquire, CallsInv, PoolInv, Matched
<1>2. CASE cached[caller[c].server] # 0 /\ Use(c, cached[caller[c].server]) /\ UNCHANGED lock
  BY <1>1, <1>2, UseAttended DEF Acquire
<1>3. CASE caller' = [caller EXCEPT ![c].pc = "bundling"] /\ lock' = c /\ UNCHANGED conn
  <2>1. PICK x : x = [caller[c] EXCEPT !.pc = "bundling"]
    OBVIOUS
  <2>2. x \in CallerState /\ x.pc = "bundling"
    BY <2>1 DEF CallerState, CallsInv, PoolInv, Typed
  <2>3. caller' = [caller EXCEPT ![c] = x] /\ UNCHANGED <<conn, cached, spawned>> /\ lock = None
    BY <1>3, <2>1 DEF Acquire
  <2>4. \A d \in Caller : caller'[d] = IF d = c THEN x ELSE caller[d]
    BY <2>3 DEF CallsInv, PoolInv, Typed
  <2>5. LockHeld' /\ Connects(c)'
    BY <1>3, <2>2, <2>4 DEF LockHeld, Connects
  <2>6. \A d \in Caller : lock # d
    BY <2>3, PoolAssumption
  <2>7. AttendInv' /\ SameWires /\ OnlyCaller(c) /\ caller'[c] = x
    BY <1>1, <2>2, <2>3, <2>5, <2>6, CallerAlone
  <2>8. QED
    BY <1>1, <2>2, <2>7, CallRests DEF CallGoesOn, OnlyCaller, AsBefore
<1>4. QED
  BY <1>2, <1>3 DEF Acquire

LEMMA SpawnAttended ==
  ASSUME CallsInv, PoolInv', NEW c \in Caller, Spawn(c)
  PROVE  CallGoesOn
<1>1. PICK n : n = spawned'
  OBVIOUS
<1>2. /\ n = spawned + 1 /\ n \in Conn /\ n > spawned /\ spawned \in 0..MaxConns /\ UNCHANGED <<cached, lock>>
      /\ conn \in [Conn -> Connection] /\ caller \in [Caller -> CallerState]
  BY <1>1, PoolAssumption DEF Spawn, CallsInv, PoolInv, Typed, Conn
<1>3. PICK r : r = [NoConn EXCEPT !.pc = "starting", !.server = caller[c].server, !.env = edits]
  OBVIOUS
<1>4. r.pc = "starting" /\ r.serving = None
  BY <1>3 DEF NoConn
<1>5. \A k \in Conn : conn'[k] = IF k = n THEN r ELSE conn[k]
  BY <1>1, <1>2, <1>3 DEF Spawn
<1>6. PICK x : x = [caller[c] EXCEPT !.pc = "starting", !.conn = n]
  OBVIOUS
<1>7. x.pc = "starting" /\ x.conn = n
  BY <1>2, <1>6 DEF CallerState
<1>8. \A d \in Caller : caller'[d] = IF d = c THEN x ELSE caller[d]
  BY <1>1, <1>2, <1>6 DEF Spawn
<1>9. caller[c].pc = "bundling" /\ lock = c
  BY AllAttended DEF Spawn, CallsInv, Attended, Connects
<1>10. LockHeld'
  BY <1>2, <1>7, <1>8, <1>9 DEF LockHeld
<1>11. conn[n].pc = "none" /\ conn[n].serving = None
  BY <1>2 DEF CallsInv, AttendInv, ConnsKnown
<1>12. ConnsKnown'
  <2>1. ASSUME NEW s \in Server, cached[s] # 0 PROVE conn'[cached[s]].pc \in {"serving", "gone"}
    <3>1. cached[s] \in Conn /\ cached[s] # n
      BY <1>2, <2>1, PoolAssumption DEF CallsInv, PoolInv, Typed, Counted, Conn
    <3>2. QED
      BY <1>5, <2>1, <3>1 DEF CallsInv, AttendInv, ConnsKnown
  <2>2. \A k \in Conn : k > n => k > spawned /\ k # n
    BY <1>2, PoolAssumption DEF Conn
  <2>3. QED
    BY <1>1, <1>2, <1>4, <1>5, <2>1, <2>2 DEF CallsInv, AttendInv, ConnsKnown
<1>13. Attended(c)'
  BY <1>2, <1>4, <1>5, <1>7, <1>8, <1>9 DEF Attended, Connects
<1>14. ASSUME NEW d \in Caller, d # c PROVE Attended(d)'
  <2>1. Attended(d)
    BY AllAttended DEF CallsInv
  <2>2. caller[d].pc \in {"starting", "waiting"} => caller[d].conn \in Conn /\ caller[d].conn # n
    BY <1>2, PoolAssumption DEF CallsInv, PoolInv, Matched, Counted, Conn
  <2>3. QED
    BY <1>2, <1>5, <1>8, <1>14, <2>1, <2>2, AttendedStays
<1>15. AttendInv'
  BY <1>10, <1>12, <1>13, <1>14 DEF AttendInv
<1>16. SameWires
  BY <1>4, <1>5, <1>11 DEF SameWires
<1>17. QED
  BY <1>7, <1>8, <1>9, <1>15, <1>16, CallRests DEF CallGoesOn

LEMMA StartedAttended ==
  ASSUME CallsInv, NEW c \in Caller, Started(c)
  PROVE  CallGoesOn
<1>1. PICK n : n = caller[c].conn
  OBVIOUS
<1>2. PICK s : s = caller[c].server
  OBVIOUS
<1>3. /\ n \in Conn /\ s \in Server /\ conn[n] \in Connection
      /\ caller[c].pc = "starting" /\ caller[c] \in CallerState /\ conn[n].pc = "starting"
      /\ conn \in [Conn -> Connection] /\ caller \in [Caller -> CallerState] /\ cached \in [Server -> 0..MaxConns]
  BY <1>1, <1>2 DEF Started, CallsInv, PoolInv, Typed, Matched
<1>4. PICK r : r = [conn[n] EXCEPT !.pc = "serving", !.queue = <<c>>]
  OBVIOUS
<1>5. <<c>> \in Queue /\ InQueue(<<c>>) = {c}
  BY DEF Queue, InQueue
<1>6. r \in Connection /\ r.queue = <<c>> /\ r.serving = conn[n].serving /\ r.pc = "serving"
  BY <1>3, <1>4, <1>5 DEF Connection
<1>7. conn' = [conn EXCEPT ![n] = r]
  BY <1>1, <1>3, <1>4 DEF Started
<1>8. \A k \in Conn : conn'[k] = IF k = n THEN r ELSE conn[k]
  BY <1>3, <1>7
<1>9. PICK x : x = [caller[c] EXCEPT !.pc = "waiting"]
  OBVIOUS
<1>10. x.pc = "waiting" /\ x.conn = n
  BY <1>1, <1>3, <1>9 DEF CallerState
<1>11. \A d \in Caller : caller'[d] = IF d = c THEN x ELSE caller[d]
  BY <1>3, <1>9 DEF Started
<1>12. /\ lock' = None /\ UNCHANGED spawned
       /\ \A t \in Server : cached'[t] = IF t = s THEN n ELSE cached[t]
  BY <1>1, <1>2, <1>3 DEF Started
<1>13. lock = c /\ conn[n].serving = None
  BY <1>3, AllAttended DEF CallsInv, AttendInv, ConnsKnown, Attended, Connects
<1>14. LockHeld'
  BY <1>12 DEF LockHeld
<1>15. ConnsKnown'
  <2>1. \A t \in Server : cached[t] # 0 => cached[t] \in Conn
    BY <1>3, PoolAssumption DEF Conn
  <2>2. \A t \in Server : cached'[t] # 0 => conn'[cached'[t]].pc \in {"serving", "gone"}
    BY <1>3, <1>6, <1>8, <1>12, <2>1 DEF CallsInv, AttendInv, ConnsKnown
  <2>3. \A k \in Conn : k > spawned => k # n
    BY <1>3 DEF CallsInv, AttendInv, ConnsKnown
  <2>4. QED
    BY <1>6, <1>8, <1>12, <2>2, <2>3 DEF CallsInv, AttendInv, ConnsKnown
<1>16. Attended(c)'
  <2>1. conn'[n].queue = <<c>> /\ conn'[n].pc = "serving"
    BY <1>3, <1>6, <1>8
  <2>2. Len(<<c>>) = 1 /\ <<c>>[1] = c /\ 1 \in 1..1
    OBVIOUS
  <2>3. \E k \in 1..Len(conn'[n].queue) : conn'[n].queue[k] = c
    BY <2>1, <2>2
  <2>4. caller'[c].pc = "waiting" /\ caller'[c].conn = n
    BY <1>10, <1>11
  <2> DEFINE queue == conn'[n].queue
  <2> HIDE DEF queue
  <2>5. c \in {queue[i] : i \in 1..Len(queue)} /\ queue = conn'[n].queue
    BY <2>3 DEF queue
  <2>6. QED
    BY <2>1, <2>4, <2>5 DEF Attended, Connects, StandsAt, InQueue
<1>17. ASSUME NEW d \in Caller, d # c PROVE Attended(d)'
  <2>1. caller[d].pc \in {"starting", "waiting"} => caller[d].conn # n
    BY <1>3, <1>13, <1>17, AllAttended DEF CallsInv, Attended, Connects, StandsAt
  <2>2. caller'[d] = caller[d] /\ lock # d
    BY <1>11, <1>13, <1>17
  <2>3. QED
    BY <1>3, <1>6, <1>7, <2>1, <2>2, AttendedAt
<1>18. AttendInv'
  BY <1>14, <1>15, <1>16, <1>17 DEF AttendInv
<1>19. SameWires
  BY <1>6, <1>8 DEF SameWires
<1>20. QED
  BY <1>3, <1>10, <1>11, <1>18, <1>19, CallRests DEF CallGoesOn

LEMMA StartFailsAttended ==
  ASSUME CallsInv, NEW c \in Caller, StartFails(c)
  PROVE  CallGoesOn
<1>1. PICK n : n = caller[c].conn
  OBVIOUS
<1>2. /\ n \in Conn /\ conn[n] \in Connection /\ caller[c].pc = "starting"
      /\ conn \in [Conn -> Connection] /\ caller \in [Caller -> CallerState]
  BY <1>1 DEF StartFails, CallsInv, PoolInv, Typed, Matched
<1>3. lock = c /\ conn[n].pc = "starting" /\ conn[n].serving = None
  BY <1>1, <1>2, AllAttended DEF CallsInv, AttendInv, ConnsKnown, Attended, Connects
<1>4. PICK r : r = [conn[n] EXCEPT !.pc = "gone"]
  OBVIOUS
<1>5. r \in Connection /\ r.pc = "gone" /\ r.serving = None
  BY <1>2, <1>3, <1>4 DEF Connection
<1>6. conn' = [conn EXCEPT ![n] = r] /\ lock' = None /\ UNCHANGED <<cached, spawned>>
  BY <1>1, <1>4 DEF StartFails
<1>7. \A d \in Caller : caller'[d] = IF d = c THEN IdleCaller ELSE caller[d]
  BY <1>2 DEF StartFails, Answer
<1>8. IdleCaller.pc = "idle"
  BY DEF IdleCaller
<1>9. LockHeld'
  BY <1>6 DEF LockHeld
<1>10. ConnsKnown'
  BY <1>2, <1>3, <1>5, <1>6, ConnsStayKnown
<1>11. Attended(c)'
  BY <1>7, <1>8 DEF Attended, Connects
<1>12. ASSUME NEW d \in Caller, d # c PROVE Attended(d)'
  <2>1. caller[d].pc \in {"starting", "waiting"} => caller[d].conn # n
    BY <1>3, <1>12, AllAttended DEF CallsInv, Attended, Connects, StandsAt
  <2>2. caller'[d] = caller[d] /\ lock # d
    BY <1>3, <1>7, <1>12
  <2>3. QED
    BY <1>2, <1>5, <1>6, <2>1, <2>2, AttendedAt
<1>13. AttendInv'
  BY <1>9, <1>10, <1>11, <1>12 DEF AttendInv
<1>14. SameWires /\ OnlyCaller(c) /\ ~OnAWire(c)
  <2>1. SameWires
    BY <1>2, <1>3, <1>5, <1>6 DEF SameWires
  <2>2. ~OnAWire(c)
    BY <1>2, OnlyWaitersOnWires DEF CallsInv
  <2>3. QED
    BY <1>7, <2>1, <2>2 DEF OnlyCaller, AsBefore
<1>15. QED
  BY <1>2, <1>7, <1>8, <1>13, <1>14, CallRefused DEF CallGoesOn

\* those behind who leaves move up
LEMMA OthersStayQueued ==
  ASSUME NEW queue \in Queue, NEW c \in Caller, NEW d \in InQueue(queue), d # c
  PROVE  d \in InQueue(Unqueued(queue, c))
<1>1. CASE c \notin {queue[i] : i \in 1..Len(queue)}
  BY <1>1 DEF Unqueued
<1>2. CASE c \in {queue[i] : i \in 1..Len(queue)}
  <2>1. PICK k : k = CHOOSE i \in 1..Len(queue) : queue[i] = c
    OBVIOUS
  <2>2. k \in 1..Len(queue) /\ queue[k] = c
    BY <1>2, <2>1
  <2>3. PICK n \in Nat : n = Len(queue)
    BY LenProperties DEF Queue
  <2>4. PICK q : q = [i \in 1..(n - 1) |-> IF i < k THEN queue[i] ELSE queue[i + 1]]
    OBVIOUS
  <2>5. Unqueued(queue, c) = q
    BY <1>2, <2>1, <2>3, <2>4 DEF Unqueued
  <2>6. Len(q) = n - 1
    <3>1. n - 1 \in Nat
      BY <2>2, <2>3
    <3>2. q \in [1..(n - 1) -> {q[i] : i \in 1..(n - 1)}]
      BY <2>4
    <3>3. QED
      BY <3>1, <3>2, SeqDef, LenProperties
  <2>7. PICK j \in 1..n : queue[j] = d
    BY <2>3 DEF InQueue
  <2>8. j # k
    BY <2>2, <2>7
  <2>9. \E i \in 1..(n - 1) : q[i] = d
    <3>1. CASE j < k
      <4>1. j \in 1..(n - 1)
        BY <2>2, <2>3, <3>1
      <4>2. QED
        BY <2>4, <2>7, <3>1, <4>1
    <3>2. CASE k < j
      <4>1. j - 1 \in 1..(n - 1) /\ ~(j - 1 < k) /\ (j - 1) + 1 = j
        BY <2>2, <2>3, <3>2
      <4>2. QED
        BY <2>4, <2>7, <4>1
    <3>3. QED
      BY <2>2, <2>3, <2>8, <3>1, <3>2
  <2>10. QED
    BY <2>5, <2>6, <2>9 DEF InQueue
<1>3. QED
  BY <1>1, <1>2

LEMMA CancelAttended ==
  ASSUME CallsInv, NEW c \in Caller, CancelCall(c)
  PROVE  CallGoesOn
<1>1. PICK n : n = caller[c].conn
  OBVIOUS
<1>2. /\ conn \in [Conn -> Connection] /\ caller \in [Caller -> CallerState]
      /\ caller[c].pc = "waiting" => n \in Conn /\ conn[n] \in Connection /\ conn[n].queue \in Queue
      /\ UNCHANGED <<cached, spawned>> /\ caller[c].pc # "idle"
  BY <1>1 DEF CancelCall, CallsInv, PoolInv, Typed, Matched, Connection
<1>3. \A d \in Caller : caller'[d] = IF d = c THEN IdleCaller ELSE caller[d]
  BY <1>2 DEF CancelCall, Answer
<1>4. IdleCaller.pc = "idle" /\ OnlyCaller(c)
  BY <1>3 DEF IdleCaller, OnlyCaller, AsBefore
<1>5. lock' = IF lock = c THEN None ELSE lock
  BY DEF CancelCall
<1>6. LockHeld'
  BY <1>3, <1>5 DEF LockHeld, CallsInv, AttendInv
<1>7. Attended(c)'
  BY <1>3, <1>4 DEF Attended, Connects
<1>8. CASE caller[c].pc # "waiting"
  <2>1. UNCHANGED conn
    BY <1>8 DEF CancelCall
  <2>2. ConnsKnown'
    BY <1>2, <2>1 DEF CallsInv, AttendInv, ConnsKnown
  <2>3. ASSUME NEW d \in Caller, d # c PROVE Attended(d)'
    <3>1. Attended(d)
      BY AllAttended DEF CallsInv
    <3>2. QED
      BY <1>3, <1>5, <2>1, <2>3, <3>1, AttendedStays
  <2>4. AttendInv'
    BY <1>6, <1>7, <2>2, <2>3 DEF AttendInv
  <2>5. ~OnAWire(c)
    BY <1>8, OnlyWaitersOnWires DEF CallsInv
  <2>6. \A k \in Conn : conn'[k].serving = IF conn[k].serving = c THEN Cancelled ELSE conn[k].serving
    BY <2>1, <2>5 DEF OnAWire
  <2>7. QED
    BY <1>2, <1>3, <1>4, <2>4, <2>6, CallWithdrawn DEF CallGoesOn
<1>9. CASE caller[c].pc = "waiting"
  <2>1. StandsAt(c, n)
    BY <1>1, <1>9, AllAttended DEF CallsInv, Attended
  <2>2. PICK serving : serving = IF conn[n].serving = c THEN Cancelled ELSE conn[n].serving
    OBVIOUS
  <2>3. PICK r : r = [conn[n] EXCEPT !.queue = Unqueued(conn[n].queue, c), !.serving = serving]
    OBVIOUS
  <2>4. Unqueued(conn[n].queue, c) \in Queue
    BY <1>2, <1>9, LeaveQueue
  <2>5. serving \in Caller \cup {None, Cancelled}
    BY <1>2, <1>9, <2>2 DEF Connection
  <2>6. /\ r \in Connection /\ r.queue = Unqueued(conn[n].queue, c) /\ r.serving = serving
        /\ r.pc = "serving" /\ conn[n].pc = "serving"
    BY <1>2, <1>9, <2>1, <2>3, <2>4, <2>5 DEF Connection, StandsAt
  <2>7. conn' = [conn EXCEPT ![n] = r]
    BY <1>1, <1>2, <1>9, <2>2, <2>3 DEF CancelCall
  <2>8. \A k \in Conn : conn'[k] = IF k = n THEN r ELSE conn[k]
    BY <1>2, <2>7
  <2>9. ConnsKnown'
    BY <1>2, <1>9, <2>6, <2>7, ConnsStayKnown
  <2>10. ASSUME NEW d \in Caller, d # c PROVE Attended(d)'
    <3>1. d \in InQueue(conn[n].queue) \cup {conn[n].serving} => d \in InQueue(r.queue) \cup {r.serving}
      BY <1>2, <1>9, <2>2, <2>6, <2>10, OthersStayQueued
    <3>2. caller'[d] = caller[d] /\ (lock = d => lock' = d) /\ n \in Conn /\ r \in Connection /\ r.pc = conn[n].pc
      BY <1>2, <1>3, <1>5, <1>9, <2>6, <2>10
    <3>3. QED
      BY <2>7, <3>1, <3>2, AttendedAt
  <2>11. AttendInv'
    BY <1>6, <1>7, <2>9, <2>10 DEF AttendInv
  <2>12. \A k \in Conn : k # n => conn[k].serving # c
    BY <1>1 DEF CallsInv, WaitingInLine
  <2>13. \A k \in Conn : conn'[k].serving = IF conn[k].serving = c THEN Cancelled ELSE conn[k].serving
    BY <2>2, <2>6, <2>8, <2>12
  <2>14. QED
    BY <1>2, <1>3, <1>4, <2>11, <2>13, CallWithdrawn DEF CallGoesOn
<1>10. QED
  BY <1>8, <1>9

LEMMA OrphanAttended ==
  ASSUME CallsInv, NEW n \in Conn, OrphanStarts(n)
  PROVE  CallGoesOn
<1>1. conn[n] \in Connection /\ conn[n].pc = "starting" /\ UNCHANGED <<cached, spawned, lock, caller>>
  BY DEF OrphanStarts, CallsInv, PoolInv, Typed
<1>2. PICK r : r = [conn[n] EXCEPT !.pc = "serving"]
  OBVIOUS
<1>3. r \in Connection /\ r.serving = conn[n].serving /\ r.pc = "serving"
  BY <1>1, <1>2 DEF Connection
<1>4. conn' = [conn EXCEPT ![n] = r]
  BY <1>2 DEF OrphanStarts
<1>5. ConnsKnown'
  BY <1>1, <1>3, <1>4, ConnsStayKnown
<1>6. \A d \in Caller : Attended(d)'
  BY <1>1, <1>3, <1>4, AttendedAt DEF OrphanStarts
<1>7. AttendInv'
  BY <1>1, <1>5, <1>6 DEF CallsInv, AttendInv, LockHeld
<1>8. SameWires
  BY <1>3, <1>4 DEF SameWires, CallsInv, PoolInv, Typed
<1>9. QED
  BY <1>1, <1>7, <1>8, CallRests DEF CallGoesOn

LEMMA TakesTheHead ==
  ASSUME NEW queue \in Queue, queue # <<>>
  PROVE  InQueue(queue) \subseteq {Head(queue)} \cup InQueue(Tail(queue))
<1>1. PICK n \in Nat : n = Len(queue)
  BY LenProperties DEF Queue
<1>2. PICK q : q = Tail(queue)
  OBVIOUS
<1>3. Len(q) = n - 1 /\ Head(queue) = queue[1] /\ \A i \in 1..(n - 1) : q[i] = queue[i + 1]
  BY <1>1, <1>2, HeadTailProperties DEF Queue
<1>4. \A j \in 1..n : j # 1 => j - 1 \in 1..(n - 1) /\ (j - 1) + 1 = j
  BY <1>1
<1>5. \A j \in 1..n : j # 1 => \E i \in 1..(n - 1) : q[i] = queue[j]
  BY <1>3, <1>4
<1>6. QED
  BY <1>1, <1>2, <1>3, <1>5 DEF InQueue

LEMMA TakeAttended ==
  ASSUME CallsInv, NEW n \in Conn, TakeRequest(n)
  PROVE  CallGoesOn
<1>1. /\ conn[n] \in Connection /\ conn[n].queue \in Queue /\ conn \in [Conn -> Connection]
      /\ conn[n].queue # <<>> /\ Head(conn[n].queue) # Stop
      /\ conn[n].pc = "serving" /\ conn[n].serving = None
      /\ UNCHANGED <<cached, spawned, lock, caller>>
  BY DEF TakeRequest, Idling, CallsInv, PoolInv, Typed, Connection
<1>2. PICK c : c = Head(conn[n].queue)
  OBVIOUS
<1>3. c \in Caller /\ Tail(conn[n].queue) \in Queue
  BY <1>1, <1>2, HeadTailProperties DEF Queue
<1>4. CallersOnce(conn[n].queue)
  BY DEF CallsInv, WaitingInLine
<1>5. c \in InQueue(conn[n].queue)
  BY <1>1, <1>2, <1>4, TailKeepsPlaces
<1>6. InQueue(conn[n].queue) \subseteq {c} \cup InQueue(Tail(conn[n].queue))
  BY <1>1, <1>2, TakesTheHead
<1>7. PICK r : r = [conn[n] EXCEPT !.serving = c, !.queue = Tail(conn[n].queue)]
  OBVIOUS
<1>8. r \in Connection /\ r.serving = c /\ r.pc = "serving" /\ r.queue = Tail(conn[n].queue)
  BY <1>1, <1>3, <1>7 DEF Connection
<1>9. conn' = [conn EXCEPT ![n] = r]
  BY <1>1, <1>2, <1>7 DEF TakeRequest
<1>10. ConnsKnown'
  BY <1>1, <1>8, <1>9, ConnsStayKnown
<1>11. ASSUME NEW d \in Caller PROVE Attended(d)'
  <2>1. conn[n].serving # d
    BY <1>1, PoolAssumption
  <2>2. d \in InQueue(conn[n].queue) \cup {conn[n].serving} => d \in InQueue(r.queue) \cup {r.serving}
    BY <1>6, <1>8, <2>1
  <2>3. QED
    BY <1>1, <1>8, <1>9, <2>2, AttendedAt
<1>12. AttendInv'
  BY <1>1, <1>10, <1>11 DEF CallsInv, AttendInv, LockHeld
<1>13. Wire(n, c)
  BY <1>1, <1>8, <1>9 DEF Wire
<1>14. caller[c].pc = "waiting" /\ ~OnAWire(c)
  BY <1>3, <1>5, OnlyWaitersOnWires DEF CallsInv
<1>15. QED
  BY <1>1, <1>3, <1>12, <1>13, <1>14, CallStarts DEF CallGoesOn, AsBefore

LEMMA ReplyAttended ==
  ASSUME CallsInv, NEW n \in Conn, Reply(n)
  PROVE  CallGoesOn
<1>1. /\ conn[n] \in Connection /\ conn[n].pc = "serving" /\ conn[n].serving # None
      /\ conn \in [Conn -> Connection] /\ UNCHANGED <<cached, spawned, lock>>
  BY DEF Reply, CallsInv, PoolInv, Typed
<1>2. PICK r : r = [conn[n] EXCEPT !.serving = None]
  OBVIOUS
<1>3. r \in Connection /\ r.serving = None /\ r.pc = "serving" /\ r.queue = conn[n].queue
  BY <1>1, <1>2 DEF Connection
<1>4. conn' = [conn EXCEPT ![n] = r]
  BY <1>2 DEF Reply
<1>5. \A d \in Caller : caller'[d] = IF conn[n].serving = d THEN IdleCaller ELSE caller[d]
  BY DEF Reply
<1>6. \A d \in Caller : conn[n].serving = d => caller[d].pc = "waiting"
  BY OnlyWaitersOnWires DEF CallsInv, OnAWire
<1>7. IdleCaller.pc = "idle"
  BY DEF IdleCaller
<1>8. LockHeld'
  BY <1>1, <1>5, <1>6 DEF CallsInv, AttendInv, LockHeld
<1>9. ConnsKnown'
  BY <1>1, <1>3, <1>4, ConnsStayKnown
<1>10. ASSUME NEW d \in Caller PROVE Attended(d)'
  <2>1. CASE conn[n].serving = d
    BY <1>5, <1>7, <2>1 DEF Attended, Connects
  <2>2. CASE conn[n].serving # d
    <3>1. caller'[d] = caller[d] /\ r.pc = conn[n].pc
      BY <1>1, <1>3, <1>5, <2>2
    <3>2. d \in InQueue(conn[n].queue) \cup {conn[n].serving} => d \in InQueue(r.queue) \cup {r.serving}
      BY <1>3, <2>2
    <3>3. lock = d => lock' = d
      BY <1>1
    <3>4. QED
      BY <1>3, <1>4, <3>1, <3>2, <3>3, AttendedAt
  <2>3. QED
    BY <2>1, <2>2
<1>11. AttendInv'
  BY <1>8, <1>9, <1>10 DEF AttendInv
<1>12. Wire(n, None)
  BY <1>1, <1>3, <1>4 DEF Wire
<1>13. QED
  BY <1>1, <1>5, <1>6, <1>7, <1>11, <1>12, CallFinishes DEF CallGoesOn, AsBefore

LEMMA EndsAttended ==
  ASSUME CallsInv, NEW n \in Conn, OwnerStops(n) \/ TransportFails(n)
  PROVE  CallGoesOn
<1>1. /\ conn[n] \in Connection /\ conn[n].pc = "serving" /\ conn \in [Conn -> Connection]
      /\ OwnerEnds(n, QueuedAt(n)) /\ UNCHANGED <<cached, spawned, lock>>
  BY DEF OwnerStops, TransportFails, Idling, CallsInv, PoolInv, Typed
<1>2. PICK queued : queued = QueuedAt(n)
  OBVIOUS
<1>3. queued \in SUBSET Caller /\ \A d \in Caller : d \in queued <=> d \in InQueue(conn[n].queue)
  <2>1. conn[n].queue \in Queue
    BY <1>1 DEF Connection
  <2>2. \A i \in 1..Len(conn[n].queue) : conn[n].queue[i] \in Caller \cup {Stop}
    BY <2>1, ElementOfSeq DEF Queue
  <2>3. QED
    BY <1>2, <2>2, PoolAssumption DEF QueuedAt, InQueue, Stop
<1>4. \A d \in queued : caller[d].pc = "waiting" /\ ~OnAWire(d)
  BY <1>3, OnlyWaitersOnWires DEF CallsInv
<1>5. PICK idle, gone : idle = IdleCaller /\ gone = [IdleCaller EXCEPT !.pc = "stranded"]
  OBVIOUS
<1>6. idle.pc = "idle" /\ gone.pc = "stranded"
  BY <1>5 DEF IdleCaller
<1>7. \A d \in Caller : caller'[d] = IF d \in queued THEN idle
                                   ELSE IF d = conn[n].serving THEN gone ELSE caller[d]
  BY <1>1, <1>2, <1>5 DEF OwnerEnds
<1>8. \A d \in Caller : d = conn[n].serving => caller[d].pc = "waiting"
  BY OnlyWaitersOnWires DEF CallsInv, OnAWire
<1>9. PICK r : r = [conn[n] EXCEPT !.pc = "gone", !.queue = <<>>, !.serving = None]
  OBVIOUS
<1>10. <<>> \in Queue
  BY EmptySeq DEF Queue
<1>11. r \in Connection /\ r.serving = None /\ r.pc = "gone"
  BY <1>1, <1>9, <1>10 DEF Connection
<1>12. conn' = [conn EXCEPT ![n] = r]
  BY <1>1, <1>9 DEF OwnerEnds
<1>13. ConnsKnown'
  BY <1>1, <1>11, <1>12, ConnsStayKnown
<1>14. LockHeld'
  BY <1>1, <1>4, <1>7, <1>8 DEF CallsInv, AttendInv, LockHeld
<1>15. ASSUME NEW d \in Caller PROVE Attended(d)'
  <2>1. CASE d \in queued \/ d = conn[n].serving
    BY <1>6, <1>7, <2>1 DEF Attended, Connects
  <2>2. CASE ~(d \in queued \/ d = conn[n].serving)
    <3>1. caller[d].pc \in {"starting", "waiting"} => caller[d].conn # n
      BY <1>1, <1>3, <2>2, AllAttended DEF CallsInv, Attended, Connects, StandsAt
    <3>2. QED
      BY <1>1, <1>7, <1>11, <1>12, <2>2, <3>1, AttendedAt
  <2>3. QED
    BY <2>1, <2>2
<1>16. AttendInv'
  BY <1>13, <1>14, <1>15 DEF AttendInv
<1>17. Wire(n, None)
  BY <1>1, <1>11, <1>12 DEF Wire
<1>18. QED
  BY <1>3, <1>4, <1>6, <1>7, <1>8, <1>16, <1>17, CallsEnd DEF CallGoesOn, AsBefore

LEMMA EvictAttended ==
  ASSUME CallsInv, NEW e \in Editor, NEW s \in Server, Evict(e, s)
  PROVE  CallGoesOn
<1>1. UNCHANGED <<spawned, lock, caller>> /\ cached' = [cached EXCEPT ![s] = 0]
  BY DEF Evict
<1>2. /\ \A t \in Server : cached'[t] # 0 => cached'[t] = cached[t]
      /\ cached[s] # 0 => cached[s] \in Conn
      /\ \A t \in Server : cached[t] # 0 => cached[t] \in Conn
  BY <1>1, PoolAssumption DEF CallsInv, PoolInv, Typed, Conn
<1>3. CASE UNCHANGED conn
  <2>1. ConnsKnown'
    BY <1>1, <1>2, <1>3 DEF CallsInv, AttendInv, ConnsKnown
  <2>2. AttendInv'
    BY <1>1, <1>3, <2>1 DEF CallsInv, AttendInv, LockHeld, Attended, Connects, StandsAt, InQueue
  <2>3. QED
    BY <1>1, <1>3, <2>2, CallRests DEF CallGoesOn, SameWires
<1>4. CASE cached[s] # 0
  <2>1. PICK n : n = cached[s]
    OBVIOUS
  <2>2. n \in Conn /\ conn[n] \in Connection /\ conn[n].queue \in Queue /\ conn \in [Conn -> Connection]
    BY <1>2, <1>4, <2>1 DEF CallsInv, PoolInv, Typed, Connection
  <2>3. CallersOnce(conn[n].queue) /\ Stop \notin Caller
    BY <2>2, PoolAssumption DEF CallsInv, WaitingInLine, Stop
  <2>4. PICK r : r = [conn[n] EXCEPT !.queue = Append(conn[n].queue, Stop)]
    OBVIOUS
  <2>5. Append(conn[n].queue, Stop) \in Queue /\ InQueue(Append(conn[n].queue, Stop)) = InQueue(conn[n].queue) \cup {Stop}
    BY <2>2, <2>3, AppendJoins DEF Queue
  <2>6. r \in Connection /\ r.pc = conn[n].pc /\ r.serving = conn[n].serving
        /\ r.queue = Append(conn[n].queue, Stop)
    BY <2>2, <2>4, <2>5 DEF Connection
  <2>7. conn' = [conn EXCEPT ![n] = r]
    BY <1>4, <2>1, <2>2, <2>4 DEF Evict
  <2>8. \A k \in Conn : conn'[k] = IF k = n THEN r ELSE conn[k]
    BY <2>2, <2>7
  <2>9. ConnsKnown'
    BY <1>1, <1>2, <2>2, <2>6, <2>8 DEF CallsInv, AttendInv, ConnsKnown
  <2>10. \A d \in Caller : Attended(d)'
    BY <1>1, <2>2, <2>5, <2>6, <2>7, AttendedAt
  <2>11. AttendInv'
    BY <1>1, <2>9, <2>10 DEF CallsInv, AttendInv, LockHeld
  <2>12. SameWires
    BY <2>6, <2>8 DEF SameWires
  <2>13. QED
    BY <1>1, <2>11, <2>12, CallRests DEF CallGoesOn
<1>5. QED
  BY <1>3, <1>4 DEF Evict

LEMMA RestAttended ==
  ASSUME CallsInv, UNCHANGED <<cached, lock, spawned, conn, caller>>
  PROVE  CallGoesOn
<1>1. AttendInv'
  BY DEF CallsInv, AttendInv, LockHeld, ConnsKnown, Attended, Connects, StandsAt, InQueue
<1>2. QED
  BY <1>1, CallRests DEF CallGoesOn, SameWires

LEMMA CallsGoOn == CallsInv /\ [PoolNext]_poolVars => CallsInv' /\ CallStep
<1> SUFFICES ASSUME CallsInv, [PoolNext]_poolVars PROVE CallsInv' /\ CallStep
  OBVIOUS
<1>1. PoolInv'
  BY NextKeeps DEF CallsInv
<1>2. PoolInv /\ WaitingInLine /\ CacheFresh
  BY DEF CallsInv
<1>3. ASSUME NEW c \in Caller, CallerStep(c) \/ CancelCall(c) PROVE CallGoesOn /\ WaitingInLine' /\ CacheFresh'
  <2>1. CASE Acquire(c)
    BY <1>1, <1>2, <2>1, AcquireAttended, AcquireMoves DEF PoolGoesOn
  <2>2. CASE Spawn(c)
    BY <1>1, <1>2, <2>2, SpawnAttended, SpawnMoves DEF PoolGoesOn
  <2>3. CASE Started(c)
    BY <1>1, <1>2, <2>3, StartedAttended, StartedMoves DEF PoolGoesOn
  <2>4. CASE StartFails(c)
    BY <1>1, <1>2, <2>4, StartFailsAttended, LeavesMoves DEF PoolGoesOn
  <2>5. CASE CancelCall(c)
    BY <1>1, <1>2, <2>5, CancelAttended, LeavesMoves DEF PoolGoesOn
  <2>6. QED
    BY <1>3, <2>1, <2>2, <2>3, <2>4, <2>5 DEF CallerStep
<1>4. ASSUME NEW c \in Caller, NEW s \in Server, CallCached(c, s) \/ CallConnects(c, s)
      PROVE  CallGoesOn /\ WaitingInLine' /\ CacheFresh'
  <2>1. CASE CallCached(c, s)
    BY <1>2, <2>1, UseAttended, UseMoves DEF CallCached, PoolGoesOn
  <2>2. CASE CallConnects(c, s)
    <3>1. \A d \in Caller : caller'[d] = caller[d] \/ caller[d].pc # "waiting"
      BY <2>2 DEF CallConnects, CallsInv, PoolInv, Typed
    <3>2. WaitingInLine'
      BY <1>2, <2>2, <3>1, LineStays DEF CallConnects
    <3>3. \A t \in Server : cached[t] # 0 => cached[t] \in Conn
      BY PoolAssumption DEF CallsInv, PoolInv, Typed, Conn
    <3>4. CacheFresh'
      BY <1>2, <2>2, <3>3, FreshStays DEF CallConnects
    <3>5. QED
      BY <2>2, <3>2, <3>4, ConnectsAttended
  <2>3. QED
    BY <1>4, <2>1, <2>2
<1>5. ASSUME NEW n \in Conn, OwnerStep(n) \/ OrphanStarts(n) \/ TransportFails(n)
      PROVE  CallGoesOn /\ WaitingInLine' /\ CacheFresh'
  <2>1. CallGoesOn
    BY <1>5, TakeAttended, ReplyAttended, EndsAttended, OrphanAttended DEF OwnerStep
  <2>2. WaitingInLine' /\ CacheFresh'
    BY <1>1, <1>2, <1>5, OwnerMoves DEF PoolGoesOn
  <2>3. QED
    BY <2>1, <2>2
<1>6. ASSUME NEW e \in Editor, EditorStep(e) PROVE CallGoesOn /\ WaitingInLine' /\ CacheFresh'
  <2>1. CallGoesOn
    <3>1. CASE Evicted(e)
      BY <3>1, RestAttended DEF Evicted
    <3>2. QED
      BY <1>6, <3>1, EvictAttended DEF EditorStep
  <2>2. QED
    BY <1>1, <1>2, <1>6, <2>1, EditorMoves DEF PoolGoesOn
<1>7. ASSUME StoreEdit PROVE CallGoesOn /\ WaitingInLine' /\ CacheFresh'
  BY <1>1, <1>2, <1>7, RestAttended, EditMoves DEF StoreEdit
<1>8. ASSUME UNCHANGED <<edits, cached, lock, spawned, conn, caller, editor>>
      PROVE  CallGoesOn /\ WaitingInLine' /\ CacheFresh'
  <2>1. PoolGoesOn
    BY <1>2, <1>8, PoolRests
  <2>2. QED
    BY <1>8, <2>1, RestAttended DEF PoolGoesOn
<1>9. CallGoesOn /\ WaitingInLine' /\ CacheFresh'
  BY <1>3, <1>4, <1>5, <1>6, <1>7, <1>8 DEF PoolNext, poolVars, FailureExpires
<1>10. QED
  BY <1>1, <1>9 DEF CallsInv, CallGoesOn

LEMMA CallsBegin == PoolInit => CallsInv
  BY InitPoolInv, LineStarts, AttendStarts DEF CallsInv

(* Whoever waits in the pool waits for something that goes on without him:   *)
(* whatever callers, owners, cancellations, failures and evictions do in     *)
(* between, the lock is never left with a caller that is gone, and no        *)
(* request stands at a connection whose owner has ended: what CallAnswered   *)
(* rests on, for any number of callers and connections.                      *)
THEOREM CallsAreAttended == PoolSpec => []CallsAttended
<1>1. CallsInv => WaitersAttended
  <2> SUFFICES ASSUME CallsInv, NEW c \in Caller
               PROVE  /\ caller[c].pc = "locking" => lock = None \/ caller[lock].pc \in {"bundling", "starting"}
                      /\ caller[c].pc \in {"bundling", "starting"} => lock = c
                      /\ caller[c].pc = "starting" => conn[caller[c].conn].pc = "starting"
                      /\ caller[c].pc = "waiting" =>
                           /\ conn[caller[c].conn].pc = "serving"
                           /\ c \in QueuedAt(caller[c].conn) \cup {conn[caller[c].conn].serving}
    BY DEF WaitersAttended
  <2>1. Attended(c) /\ LockHeld
    BY AllAttended DEF CallsInv, AttendInv
  <2>2. c # Stop
    BY PoolAssumption DEF Stop
  <2>3. QED
    BY <2>1, <2>2 DEF LockHeld, Attended, Connects, StandsAt, QueuedAt, InQueue
<1>2. NothingBehindStop /\ WaitersAttended => CallsAttended
  BY DEF CallsAttended
<1>3. QED
  BY <1>1, <1>2, CallsBegin, CallsGoOn, NoneBehindStop, PTL DEF PoolSpec

(* The pool implements the promise of GatewayCalls: a call goes on a wire    *)
(* once, on one connection that has nothing else on it, and only for a       *)
(* caller who is there; only a call on the wire of a connection that ends    *)
(* is lost. Each step of the pool is a step of a call or leaves all calls    *)
(* where they are.                                                           *)
THEOREM PoolImplementsCalls == PoolSpec => ImplementsCalls
<1>1. PoolInit => Calls!CallsInit
  <2> SUFFICES ASSUME PoolInit PROVE Calls!CallsInit
    OBVIOUS
  <2>1. \A c \in Caller : caller[c].pc = "idle"
    BY DEF PoolInit, IdleCaller
  <2>2. \A n \in Conn : conn[n].serving = None
    BY DEF PoolInit, NoConn
  <2>3. QED
    BY <2>1, <2>2 DEF Calls!CallsInit
<1>2. CallsInv /\ [PoolNext]_poolVars => [Calls!CallsNext]_(Calls!callsVars)
  BY CallsGoOn DEF CallStep
<1>3. CallsInv /\ [PoolNext]_poolVars => CallsInv'
  BY CallsGoOn
<1>4. QED
  BY <1>1, <1>2, <1>3, CallsBegin, PTL DEF PoolSpec, ImplementsCalls, Calls!CallsSpec

-----------------------------------------------------------------------------
(***************************************************************************)
(* Requests                                                                *)
(***************************************************************************)

(* A request and what was decided when it was checked *)

Allows(q, s) == envs[q.edits][s] \subseteq q.may \/ q.lapsed

\* the credentials it was checked with, and that no eviction has begun since
Sound(q) ==
  /\ q.pc = "checked" /\ q.edits \in 0..edits
  /\ q.edits = edits /\ ~q.closing => \A e \in Editor : editor[e].pc # "closing"

Answerable(c) ==
  /\ request[c].pc = "checked" =>
       Sound(request[c]) /\ \A s \in request[c].todo : Allows(request[c], s)
  /\ caller[c].pc # "idle" => request[c].pc = "checked"
  /\ caller[c].pc \in Calling => Allows(request[c], caller[c].server)
  /\ caller[c].pc = "waiting" =>
       /\ Allows(request[c], conn[caller[c].conn].server)
       /\ Fresh(caller[c].conn) \/ Raced(c, caller[c].conn)

RequestState ==
  [pc : {"none", "verified", "checked"}, todo : SUBSET Server, edits : 0..MaxEdits,
   closing : BOOLEAN, lapsed : BOOLEAN, may : SUBSET Host]
TokenState == [valid : BOOLEAN, ceiling : Zone \cup {Unset}, scope : SUBSET Server]

GatewayTyped ==
  /\ envs \in [0..MaxEdits -> Env]
  /\ token \in [Caller -> TokenState]
  /\ request \in [Caller -> RequestState]

GatewayInv ==
  PoolInv /\ WaitingInLine /\ CacheFresh /\ PolicyTypeOK /\ GatewayTyped /\ \A c \in Caller : Answerable(c)

LEMMA GatewayStarts == GatewayInit => GatewayInv
<1> SUFFICES ASSUME GatewayInit PROVE GatewayInv
  OBVIOUS
<1>1. PoolInv /\ WaitingInLine /\ CacheFresh
  BY InitPoolInv, LineStarts DEF GatewayInit
<1>2. PolicyTypeOK
  BY DEF GatewayInit, PolicyInit, PolicyTypeOK
<1>3. NoToken \in TokenState
  BY DEF NoToken, TokenState
<1>4. NoRequest \in RequestState
  BY PoolAssumption DEF NoRequest, RequestState
<1>5. GatewayTyped
  BY <1>3, <1>4 DEF GatewayInit, GatewayTyped
<1>6. \A c \in Caller : caller[c].pc = "idle" /\ request[c].pc = "none"
  BY DEF GatewayInit, PoolInit, IdleCaller, NoRequest
<1>7. QED
  BY <1>1, <1>2, <1>5, <1>6 DEF GatewayInv, Answerable, Calling

LEMMA PolicyStays == PolicyTypeOK /\ (PolicyNext \/ UNCHANGED policyVars) => PolicyTypeOK'
  BY DEF PolicyTypeOK, PolicyNext, SetRule, SetCeiling, SetOverride, Toggle, policyVars

\* a request that is checked, and stays, as the pool goes on
LEMMA AnswerableLasts ==
  ASSUME GatewayInv, NEW c \in Caller, PoolGoesOn, Moves(c), request'[c] = request[c], UNCHANGED envs
  PROVE  Answerable(c)'
<1>1. PICK q : q = request[c]
  OBVIOUS
<1>2. \A s : Allows(q, s) => Allows(q, s)'
  BY DEF Allows
<1>3. q.pc = "checked" => Sound(q) /\ \A s \in q.todo : Allows(q, s)
  BY <1>1 DEF GatewayInv, Answerable
<1>4. Sound(q) => Sound(q)'
  BY DEF Sound, PoolGoesOn, NoEdits
<1>5. caller[c].pc # "idle" => q.pc = "checked"
  BY <1>1 DEF GatewayInv, Answerable
<1>6. caller'[c].pc # "idle" => caller[c].pc # "idle"
  BY DEF Moves, Calling
<1>7. ASSUME caller'[c].pc \in Calling PROVE Allows(q, caller[c].server)'
  <2>1. caller[c].pc \in Calling /\ caller'[c].server = caller[c].server
    BY <1>7 DEF Moves, Calling, JoinsAt
  <2>2. Allows(q, caller[c].server)
    BY <1>1, <2>1 DEF GatewayInv, Answerable
  <2>3. QED
    BY <2>1, <2>2 DEF Allows
<1>8. ASSUME caller'[c].pc = "waiting"
      PROVE  /\ Allows(q, conn[caller[c].conn].server)'
             /\ Fresh(caller[c].conn)' \/ Raced(c, caller[c].conn)'
  <2>1. PICK n : n = caller'[c].conn
    OBVIOUS
  <2>2. \A k \in Conn : k <= spawned /\ Fresh(k) => Fresh(k)'
    BY DEF PoolGoesOn, SameConns, NoEdits, Fresh
  <2>3. CASE caller'[c] = caller[c]
    <3>1. n \in Conn /\ n <= spawned
      BY <1>8, <2>1, <2>3 DEF GatewayInv, PoolInv, Matched, Counted
    <3>2. conn'[n].server = conn[n].server
      BY <3>1 DEF PoolGoesOn, SameConns
    <3>3. Allows(q, conn[n].server) /\ (Fresh(n) \/ Raced(c, n))
      BY <1>1, <1>8, <2>1, <2>3 DEF GatewayInv, Answerable
    <3>4. Raced(c, n) => Raced(c, n)'
      BY DEF Raced, PoolGoesOn, NoEdits
    <3>5. QED
      BY <2>1, <2>2, <3>1, <3>2, <3>3, <3>4 DEF Allows
  <2>4. CASE caller[c].pc \in Calling /\ JoinsAt(c, caller[c].server)
    <3>1. n \in Conn /\ conn'[n].server = caller[c].server /\ Current(n)
      BY <2>1, <2>4 DEF JoinsAt
    <3>2. Allows(q, caller[c].server)
      BY <1>1, <2>4 DEF GatewayInv, Answerable
    <3>3. q.pc = "checked" /\ Sound(q)
      BY <1>3, <1>5, <2>4 DEF Calling
    <3>4. CASE Fresh(n)
      <4>1. n <= spawned
        BY <2>1, <2>4 DEF JoinsAt
      <4>2. QED
        BY <2>1, <2>2, <3>1, <3>2, <3>4, <4>1 DEF Allows
    <3>5. CASE \E e \in Editor : editor[e].pc = "closing"
      <4>1. q.edits # edits \/ q.closing
        BY <3>3, <3>5 DEF Sound
      <4>2. Raced(c, n)'
        BY <1>1, <4>1 DEF Raced, PoolGoesOn, NoEdits
      <4>3. QED
        BY <2>1, <3>1, <3>2, <4>2 DEF Allows
    <3>6. QED
      BY <3>1, <3>4, <3>5 DEF Current
  <2>5. QED
    BY <1>8, <2>3, <2>4 DEF Moves, Calling
<1>9. QED
  BY <1>1, <1>2, <1>3, <1>4, <1>5, <1>6, <1>7, <1>8 DEF Answerable

\* a request is sent on to a server it may be sent to, or that server is skipped
LEMMA ForwardsKeep ==
  ASSUME GatewayInv, NEW c \in Caller, NEW s \in Server, caller[c].pc = "idle", UNCHANGED envs,
         Forwards(c, s) \/ Skips(s),
         NEW q, request'[c] = q, Sound(q), \A t \in q.todo \cup {s} : Allows(q, t)
  PROVE  PoolGoesOn /\ Answerable(c)' /\ \A d \in Caller : d # c => caller'[d] = caller[d]
<1>1. Allows(q, s)' /\ \A t \in q.todo : Allows(q, t)'
  BY DEF Allows
<1>2. ASSUME PoolGoesOn PROVE Sound(q)'
  BY <1>2 DEF Sound, PoolGoesOn, NoEdits
<1>3. CASE cached[s] # 0 /\ Use(c, cached[s]) /\ UNCHANGED <<edits, cached, failed, lock, spawned, editor>>
  <2>1. /\ PoolGoesOn /\ \A d \in Caller : d # c => caller'[d] = caller[d]
        /\ caller'[c].pc = "idle" \/ JoinsAt(c, s)
    BY <1>3, UseMoves DEF GatewayInv
  <2>2. CASE caller'[c].pc = "idle"
    BY <1>1, <1>2, <2>1, <2>2 DEF Answerable, Sound, Calling
  <2>3. CASE JoinsAt(c, s)
    <3>1. PICK n \in Conn : n = caller'[c].conn
      BY <2>3 DEF JoinsAt
    <3>2. caller'[c].pc = "waiting" /\ conn'[n].server = s /\ n <= spawned /\ Current(n)
      BY <2>3, <3>1 DEF JoinsAt
    <3>3. Fresh(n)' \/ Raced(c, n)'
      <4>1. CASE Fresh(n)
        BY <2>1, <3>2, <4>1 DEF Fresh, PoolGoesOn, SameConns, NoEdits
      <4>2. CASE \E e \in Editor : editor[e].pc = "closing"
        BY <2>1, <4>2 DEF Sound, Raced, PoolGoesOn, NoEdits
      <4>3. QED
        BY <3>2, <4>1, <4>2 DEF Current
    <3>4. QED
      BY <1>1, <1>2, <2>1, <3>1, <3>2, <3>3 DEF Answerable, Sound, Calling
  <2>4. QED
    BY <2>1, <2>2, <2>3
<1>4. CASE CallConnects(c, s)
  <2>1. PICK w : w = [pc |-> "locking", server |-> s, conn |-> 0]
    OBVIOUS
  <2>2. \A d \in Caller : caller'[d] = IF d = c THEN w ELSE caller[d]
    BY <1>4, <2>1 DEF CallConnects, GatewayInv, PoolInv, Typed
  <2>3. UNCHANGED <<edits, cached, spawned, conn, editor>>
    BY <1>4 DEF CallConnects
  <2>4. WaitingInLine'
    BY <2>2, <2>3, LineStays DEF GatewayInv
  <2>5. \A t \in Server : cached[t] # 0 => cached[t] \in Conn
    BY PoolAssumption DEF GatewayInv, PoolInv, Typed, Conn
  <2>6. CacheFresh'
    BY <2>3, <2>5, FreshStays DEF GatewayInv
  <2>7. PoolGoesOn
    BY <2>3, <2>4, <2>6 DEF PoolGoesOn, SameConns, NoEdits
  <2>8. w.pc = "locking" /\ w.server = s
    BY <2>1
  <2>9. QED
    BY <1>1, <1>2, <2>2, <2>7, <2>8 DEF Answerable, Sound, Calling
<1>5. CASE Skips(s)
  <2>1. UNCHANGED <<edits, cached, spawned, conn, caller, editor>>
    BY <1>5 DEF Skips, poolVars
  <2>2. PoolGoesOn
    BY <2>1, PoolRests DEF GatewayInv
  <2>3. QED
    BY <1>1, <1>2, <2>1, <2>2 DEF Answerable, Sound, Calling
<1>6. QED
  BY <1>3, <1>4, <1>5 DEF Forwards, CallCached

\* a server a request may reach has no destination above the token's ceiling
LEMMA AdmissionClears ==
  ASSUME GatewayInv, NEW c \in Caller, NEW s \in Reachable(c), UNCHANGED envs,
         NEW q, q.edits = edits, q.may = Trusted(c), q.lapsed = ~token[c].valid
  PROVE  Allows(q, s)
<1>1. edits \in 0..MaxEdits /\ envs[edits] \in [Server -> SUBSET Host] /\ token[c] \in TokenState
  BY GatewayAssumption DEF GatewayInv, PoolInv, Typed, GatewayTyped
<1>2. s \in Server
  BY GatewayAssumption DEF Reachable, GatewayInv, PolicyTypeOK
<1>3. PICK hosts \in SUBSET Host : hosts = envs[edits][s]
  BY <1>1, <1>2
<1>4. SUFFICES ASSUME token[c].valid, NEW h \in hosts PROVE h \in Trusted(c)
  BY <1>3 DEF Allows
<1>5. CASE token[c].ceiling = Unset
  BY <1>3, <1>5 DEF Trusted
<1>6. CASE token[c].ceiling # Unset
  <2>1. ServerZone(s, hosts) <= token[c].ceiling
    BY <1>3, <1>4, <1>6 DEF Reachable, WithinResidency, IdentityCeiling, Within
  <2>2. PICK z : z = ServerZone(s, hosts)
    OBVIOUS
  <2>3. \A k \in hosts : ZoneOf(k) <= z
    BY <1>4, <2>2, ServerZonesAre DEF GatewayInv
  <2>4. z \in Zone
    BY <1>4, <2>2, ServerZonesAre DEF GatewayInv
  <2>5. ZoneOf(h) \in Zone /\ token[c].ceiling \in Zone
    BY <1>1, <1>6, ZonesAre DEF GatewayInv, TokenState
  <2>6. ZoneOf(h) <= token[c].ceiling
    BY <2>1, <2>2, <2>3, <2>4, <2>5 DEF Zone
  <2>7. QED
    BY <2>6 DEF Trusted
<1>7. QED
  BY <1>5, <1>6

-----------------------------------------------------------------------------
(* Steps of the gateway *)

\* what is remembered of a request that is checked now
LEMMA CheckIsSound ==
  ASSUME GatewayInv, NEW c \in Caller, NEW rest \in SUBSET Server, Checked(c, rest), UNCHANGED envs,
         NEW s \in Server, rest \cup {s} \subseteq Reachable(c)
  PROVE  /\ request' \in [Caller -> RequestState] /\ \A d \in Caller : d # c => request'[d] = request[d]
         /\ Sound(request'[c]) /\ \A t \in request'[c].todo \cup {s} : Allows(request'[c], t)
         /\ request'[c].todo = rest
<1>1. PICK closing \in BOOLEAN : closing <=> \E e \in Editor : editor[e].pc = "closing"
  OBVIOUS
<1>2. PICK lapsed \in BOOLEAN : lapsed <=> ~token[c].valid
  OBVIOUS
<1>3. edits \in 0..MaxEdits /\ edits \in 0..edits /\ Trusted(c) \in SUBSET Host
  BY DEF GatewayInv, PoolInv, Typed, Trusted
<1>4. PICK may \in SUBSET Host : may = Trusted(c)
  BY <1>3
<1>5. PICK q : q = [pc |-> "checked", todo |-> rest, edits |-> edits, lapsed |-> lapsed, may |-> may,
                    closing |-> closing]
  OBVIOUS
<1>6. q \in RequestState
  BY <1>3, <1>5 DEF RequestState
<1>7. /\ q.pc = "checked" /\ q.todo = rest /\ q.edits = edits /\ q.lapsed = lapsed /\ q.may = may
      /\ q.closing = closing
  BY <1>5
<1>8. q = [pc |-> "checked", todo |-> rest, edits |-> edits, lapsed |-> ~token[c].valid, may |-> Trusted(c),
           closing |-> \E e \in Editor : editor[e].pc = "closing"]
  BY <1>1, <1>2, <1>4, <1>5
<1>9. request' = [request EXCEPT ![c] = q]
  BY <1>8 DEF Checked
<1>10. \A d \in Caller : request'[d] = IF d = c THEN q ELSE request[d]
  BY <1>9 DEF GatewayInv, GatewayTyped
<1>11. request' \in [Caller -> RequestState]
  BY <1>6, <1>9 DEF GatewayInv, GatewayTyped
<1>12. Sound(q)
  BY <1>1, <1>3, <1>7 DEF Sound
<1>13. q.lapsed = ~token[c].valid
  BY <1>8
<1>14. \A t \in rest \cup {s} : Allows(q, t)
  BY <1>4, <1>7, <1>13, AdmissionClears
<1>15. QED
  BY <1>7, <1>10, <1>11, <1>12, <1>14

\* the pool goes on, and each caller's request with it
LEMMA GatewayGoesOn ==
  ASSUME GatewayInv, PoolInv', PolicyTypeOK', GatewayTyped', PoolGoesOn,
         \A c \in Caller : Answerable(c)'
  PROVE  GatewayInv'
  BY DEF GatewayInv, PoolGoesOn

LEMMA ForwardKeepsPool ==
  ASSUME PoolInv, NEW c \in Caller, NEW s \in Server, Forwards(c, s) \/ Skips(s)
  PROVE  PoolInv'
<1>1. PoolNext \/ UNCHANGED poolVars
  BY DEF Forwards, Skips, PoolNext
<1>2. QED
  BY <1>1, NextKeeps

LEMMA CallKeeps ==
  ASSUME GatewayInv, NEW c \in Caller, NEW s \in Server, caller[c].pc = "idle", UNCHANGED <<policyVars, envs, token>>,
         Forwards(c, s) \/ Skips(s), request' \in [Caller -> RequestState],
         \A d \in Caller : d # c => request'[d] = request[d],
         Sound(request'[c]), \A t \in request'[c].todo \cup {s} : Allows(request'[c], t)
  PROVE  GatewayInv'
<1>1. PoolInv'
  BY ForwardKeepsPool DEF GatewayInv
<1>2. PICK q : q = request'[c]
  OBVIOUS
<1>3. Sound(q) /\ \A t \in q.todo \cup {s} : Allows(q, t)
  BY <1>2
<1>4. PoolGoesOn /\ Answerable(c)' /\ \A d \in Caller : d # c => caller'[d] = caller[d]
  BY <1>2, <1>3, ForwardsKeep
<1>5. \A d \in Caller : d # c => Answerable(d)'
  BY <1>4, AnswerableLasts DEF Moves
<1>6. GatewayTyped'
  BY DEF GatewayInv, GatewayTyped
<1>7. PolicyTypeOK'
  BY PolicyStays DEF GatewayInv
<1>8. QED
  BY <1>1, <1>4, <1>5, <1>6, <1>7, GatewayGoesOn

\* a caller whose request has been checked or verified is idle until it is sent on
LEMMA VerifiedIsIdle ==
  ASSUME GatewayInv, NEW c \in Caller, request[c].pc # "checked"
  PROVE  caller[c].pc = "idle"
  BY DEF GatewayInv, Answerable

LEMMA CallToolKeeps ==
  ASSUME GatewayInv, NEW c \in Caller, NEW s \in Server, CallTool(c, s)
  PROVE  GatewayInv'
<1>1. caller[c].pc = "idle"
  BY VerifiedIsIdle DEF CallTool
<1>2. Checked(c, {}) /\ {} \cup {s} \subseteq Reachable(c)
  BY DEF CallTool, Admitted
<1>3. UNCHANGED <<policyVars, envs, token>> /\ Forwards(c, s)
  BY DEF CallTool
<1>4. /\ request' \in [Caller -> RequestState] /\ \A d \in Caller : d # c => request'[d] = request[d]
      /\ Sound(request'[c]) /\ \A t \in request'[c].todo \cup {s} : Allows(request'[c], t)
  BY <1>2, <1>3, CheckIsSound
<1>5. QED
  BY <1>1, <1>3, <1>4, CallKeeps

\* nothing changes but a request that ends, or is nowhere in the pool
LEMMA RequestsKeep ==
  ASSUME GatewayInv, NEW c \in Caller, NEW q \in RequestState, request' = [request EXCEPT ![c] = q],
         caller[c].pc = "idle", q.pc # "checked", UNCHANGED <<poolVars, policyVars, envs, token>>
  PROVE  GatewayInv'
<1>1. \A d \in Caller : request'[d] = IF d = c THEN q ELSE request[d]
  BY DEF GatewayInv, GatewayTyped
<1>2. PoolInv'
  BY NextKeeps DEF GatewayInv
<1>3. PoolGoesOn /\ \A d \in Caller : Moves(d)
  BY PoolRests DEF poolVars, GatewayInv
<1>4. \A d \in Caller : d # c => Answerable(d)'
  BY <1>1, <1>3, AnswerableLasts
<1>5. Answerable(c)'
  BY <1>1 DEF Answerable, poolVars, Calling
<1>6. GatewayTyped' /\ PolicyTypeOK'
  BY PolicyStays DEF GatewayInv, GatewayTyped
<1>7. QED
  BY <1>2, <1>3, <1>4, <1>5, <1>6, GatewayGoesOn

LEMMA ListToolsKeeps ==
  ASSUME GatewayInv, NEW c \in Caller, ListTools(c)
  PROVE  GatewayInv'
<1>1. caller[c].pc = "idle"
  BY VerifiedIsIdle DEF ListTools
<1>2. CASE Reachable(c) = {}
  <2>1. NoRequest \in RequestState /\ NoRequest.pc # "checked"
    BY PoolAssumption DEF NoRequest, RequestState
  <2>2. QED
    BY <1>1, <1>2, <2>1, RequestsKeep DEF ListTools
<1>3. CASE Reachable(c) # {}
  <2>1. PICK s \in Reachable(c) : (Skips(s) \/ Forwards(c, s)) /\ Checked(c, Reachable(c) \ {s})
    BY <1>3 DEF ListTools
  <2>2. s \in Server /\ Reachable(c) \ {s} \in SUBSET Server
    BY GatewayAssumption DEF Reachable, GatewayInv, PolicyTypeOK
  <2>3. (Reachable(c) \ {s}) \cup {s} \subseteq Reachable(c)
    OBVIOUS
  <2>4. UNCHANGED <<policyVars, envs, token>>
    BY DEF ListTools
  <2>5. /\ request' \in [Caller -> RequestState] /\ \A d \in Caller : d # c => request'[d] = request[d]
        /\ Sound(request'[c]) /\ \A t \in request'[c].todo \cup {s} : Allows(request'[c], t)
    BY <2>1, <2>2, <2>3, <2>4, CheckIsSound
  <2>6. QED
    BY <1>1, <2>1, <2>2, <2>4, <2>5, CallKeeps
<1>4. QED
  BY <1>2, <1>3

LEMMA ListsNextKeeps ==
  ASSUME GatewayInv, NEW c \in Caller, NEW s \in Server, ListsNext(c, s)
  PROVE  GatewayInv'
<1>1. /\ caller[c].pc = "idle" /\ request[c].pc = "checked" /\ s \in request[c].todo
      /\ Skips(s) \/ Forwards(c, s)
      /\ UNCHANGED <<policyVars, envs, token>>
  BY DEF ListsNext
<1>2. request[c] \in RequestState /\ request \in [Caller -> RequestState]
  BY DEF GatewayInv, GatewayTyped
<1>3. PICK q \in RequestState : q = [request[c] EXCEPT !.todo = @ \ {s}]
  BY <1>2 DEF RequestState
<1>4. /\ q.pc = "checked" /\ q.edits = request[c].edits /\ q.closing = request[c].closing
      /\ q.may = request[c].may /\ q.lapsed = request[c].lapsed /\ q.todo = request[c].todo \ {s}
  BY <1>1, <1>2, <1>3 DEF RequestState
<1>5. request' = [request EXCEPT ![c] = q]
  BY <1>2, <1>3 DEF ListsNext
<1>6. request' \in [Caller -> RequestState] /\ \A d \in Caller : request'[d] = IF d = c THEN q ELSE request[d]
  BY <1>2, <1>5
<1>7. Sound(request[c]) /\ \A t \in request[c].todo : Allows(request[c], t)
  BY <1>1 DEF GatewayInv, Answerable
<1>8. Sound(q) /\ \A t \in q.todo \cup {s} : Allows(q, t)
  BY <1>1, <1>4, <1>7 DEF Sound, Allows
<1>9. QED
  BY <1>1, <1>6, <1>8, CallKeeps

LEMMA EndKeepsGateway ==
  ASSUME GatewayInv, NEW c \in Caller, Ends(c) \/ Verify(c)
  PROVE  GatewayInv'
<1>1. CASE Ends(c)
  <2>1. NoRequest \in RequestState /\ NoRequest.pc # "checked"
    BY PoolAssumption DEF NoRequest, RequestState
  <2>2. QED
    BY <1>1, <2>1, RequestsKeep DEF Ends
<1>2. CASE Verify(c)
  <2>1. request[c] \in RequestState
    BY DEF GatewayInv, GatewayTyped
  <2>2. PICK q \in RequestState : q = [request[c] EXCEPT !.pc = "verified"]
    BY <2>1 DEF RequestState
  <2>3. q.pc = "verified"
    BY <2>1, <2>2 DEF RequestState
  <2>4. QED
    BY <1>2, <2>2, <2>3, RequestsKeep DEF Verify
<1>3. QED
  BY <1>1, <1>2

LEMMA CancelsKeeps ==
  ASSUME GatewayInv, NEW c \in Caller, Cancels(c)
  PROVE  GatewayInv'
<1>1. CancelCall(c) /\ UNCHANGED <<policyVars, envs, token>> /\ request' = [request EXCEPT ![c] = NoRequest]
  BY DEF Cancels
<1>2. PoolInv'
  BY <1>1, NextKeeps DEF PoolNext, GatewayInv
<1>3. NoRequest \in RequestState /\ NoRequest.pc = "none"
  BY PoolAssumption DEF NoRequest, RequestState
<1>4. \A d \in Caller : request'[d] = IF d = c THEN NoRequest ELSE request[d]
  BY <1>1 DEF GatewayInv, GatewayTyped
<1>5. PoolGoesOn /\ \A d \in Caller : IF d = c THEN caller'[d].pc = "idle" ELSE caller'[d] = caller[d]
  BY <1>1, <1>2, LeavesMoves DEF GatewayInv
<1>6. \A d \in Caller : d # c => Answerable(d)'
  BY <1>1, <1>4, <1>5, AnswerableLasts DEF Moves
<1>7. Answerable(c)'
  BY <1>3, <1>4, <1>5 DEF Answerable, Calling
<1>8. GatewayTyped' /\ PolicyTypeOK'
  BY <1>1, <1>3, PolicyStays DEF GatewayInv, GatewayTyped
<1>9. QED
  BY <1>2, <1>5, <1>6, <1>7, <1>8, GatewayGoesOn

LEMMA PoolRunKeeps ==
  ASSUME GatewayInv, PoolRuns
  PROVE  GatewayInv'
<1>1. PoolNext /\ UNCHANGED <<policyVars, envs, token, request>>
  BY DEF PoolRuns, PoolNext
<1>2. PoolInv'
  BY <1>1, NextKeeps DEF GatewayInv
<1>3. PoolInv /\ WaitingInLine /\ CacheFresh
  BY DEF GatewayInv
<1>4. ASSUME NEW c \in Caller, CallerStep(c) PROVE PoolGoesOn /\ \A d \in Caller : Moves(d)
  <2>1. CASE StartFails(c)
    BY <1>2, <1>3, <2>1, LeavesMoves DEF Moves
  <2>2. QED
    BY <1>2, <1>3, <1>4, <2>1, AcquireMoves, SpawnMoves, StartedMoves DEF CallerStep
<1>5. ASSUME NEW s \in Server, FailureExpires(s) PROVE PoolGoesOn /\ \A d \in Caller : Moves(d)
  BY <1>3, <1>5, PoolRests DEF FailureExpires
<1>6. ASSUME NEW n \in Conn, OwnerStep(n) \/ OrphanStarts(n) \/ TransportFails(n)
      PROVE  PoolGoesOn /\ \A d \in Caller : Moves(d)
  BY <1>2, <1>3, <1>6, OwnerMoves
<1>7. ASSUME NEW e \in Editor, EditorStep(e) PROVE PoolGoesOn /\ \A d \in Caller : Moves(d)
  BY <1>2, <1>3, <1>7, EditorMoves DEF Moves
<1>8. PoolGoesOn /\ \A d \in Caller : Moves(d)
  BY <1>4, <1>5, <1>6, <1>7 DEF PoolRuns
<1>9. \A d \in Caller : Answerable(d)'
  BY <1>1, <1>8, AnswerableLasts
<1>10. GatewayTyped' /\ PolicyTypeOK'
  BY <1>1, PolicyStays DEF GatewayInv, GatewayTyped
<1>11. QED
  BY <1>2, <1>8, <1>9, <1>10, GatewayGoesOn

\* an edit: who is in the pool has raced it
LEMMA PutEnvKeeps ==
  ASSUME GatewayInv, NEW env \in Env, PutEnv(env)
  PROVE  GatewayInv'
<1>1. /\ StoreEdit /\ UNCHANGED <<policyVars, token, request>>
      /\ envs' = [n \in 0..MaxEdits |-> IF n > edits THEN env ELSE envs[n]]
  BY DEF PutEnv
<1>2. PoolInv'
  BY <1>1, NextKeeps DEF PoolNext, GatewayInv
<1>3. WaitingInLine' /\ CacheFresh' /\ edits < edits' /\ UNCHANGED <<conn, caller>>
  BY <1>1, <1>2, EditMoves DEF GatewayInv
<1>4. GatewayTyped' /\ PolicyTypeOK'
  BY <1>1, PolicyStays DEF GatewayInv, GatewayTyped
<1>5. edits \in Nat /\ edits' \in Nat /\ edits \in 0..MaxEdits
  BY <1>2, PoolAssumption DEF GatewayInv, PoolInv, Typed
<1>6. ASSUME NEW c \in Caller PROVE Answerable(c)'
  <2>1. PICK q \in RequestState : q = request[c]
    BY DEF GatewayInv, GatewayTyped
  <2>2. /\ q.pc = "checked" => Sound(q) /\ \A s \in q.todo : Allows(q, s)
        /\ caller[c].pc # "idle" => q.pc = "checked"
        /\ caller[c].pc \in Calling => Allows(q, caller[c].server)
        /\ caller[c].pc = "waiting" => Allows(q, conn[caller[c].conn].server)
    BY <2>1 DEF GatewayInv, Answerable
  <2>3. ASSUME q.pc = "checked"
        PROVE  q.edits \in 0..edits' /\ q.edits # edits' /\ envs'[q.edits] = envs[q.edits]
    <3>1. q.edits \in 0..edits
      BY <2>2, <2>3 DEF Sound
    <3>2. q.edits \in 0..MaxEdits /\ ~(q.edits > edits)
      BY <1>5, <3>1, PoolAssumption
    <3>3. QED
      BY <1>1, <1>3, <1>5, <3>1, <3>2
  <2>4. q.pc = "checked" => Sound(q)'
    BY <2>2, <2>3 DEF Sound
  <2>5. \A s : q.pc = "checked" /\ Allows(q, s) => Allows(q, s)'
    BY <2>3 DEF Allows
  <2>6. \A n : q.pc = "checked" => Raced(c, n)'
    BY <1>1, <2>1, <2>3 DEF Raced
  <2>7. request'[c] = q
    BY <1>1, <2>1
  <2>8. QED
    BY <1>3, <2>2, <2>4, <2>5, <2>6, <2>7 DEF Answerable, Calling
<1>7. QED
  BY <1>2, <1>3, <1>4, <1>6 DEF GatewayInv

\* a token or the policy changes
LEMMA PoolIdles ==
  ASSUME GatewayInv, UNCHANGED <<poolVars, envs, request>>, token' \in [Caller -> TokenState], PolicyTypeOK'
  PROVE  GatewayInv'
<1>1. PoolInv'
  BY NextKeeps DEF GatewayInv
<1>2. PoolGoesOn /\ \A d \in Caller : Moves(d)
  BY PoolRests DEF poolVars, GatewayInv
<1>3. \A d \in Caller : Answerable(d)'
  BY <1>2, AnswerableLasts
<1>4. GatewayTyped'
  BY DEF GatewayInv, GatewayTyped
<1>5. QED
  BY <1>1, <1>2, <1>3, <1>4, GatewayGoesOn

LEMMA MintKeeps ==
  ASSUME GatewayInv, NEW c \in Caller, NEW z \in Zone \cup {Unset}, NEW scope \in SUBSET Server, MintToken(c, z, scope)
  PROVE  GatewayInv'
<1>1. [valid |-> TRUE, ceiling |-> z, scope |-> scope] \in TokenState
  BY DEF TokenState
<1>2. token' \in [Caller -> TokenState]
  BY <1>1 DEF MintToken, GatewayInv, GatewayTyped
<1>3. QED
  BY <1>2, PoolIdles, PolicyStays DEF MintToken, GatewayInv

LEMMA LapseKeeps ==
  ASSUME GatewayInv, NEW c \in Caller, TokenLapses(c)
  PROVE  GatewayInv'
<1>1. token[c] \in TokenState
  BY DEF GatewayInv, GatewayTyped
<1>2. PICK t \in TokenState : t = [token[c] EXCEPT !.valid = FALSE]
  BY <1>1 DEF TokenState
<1>3. token' \in [Caller -> TokenState]
  BY <1>2 DEF TokenLapses, GatewayInv, GatewayTyped
<1>4. QED
  BY <1>3, PoolIdles, PolicyStays DEF TokenLapses, GatewayInv

LEMMA GatewayKeeps == GatewayInv /\ [GatewayNext]_gatewayVars => GatewayInv'
<1> SUFFICES ASSUME GatewayInv, [GatewayNext]_gatewayVars PROVE GatewayInv'
  OBVIOUS
<1>1. ASSUME NEW c \in Caller, MintSessionToken(c) PROVE GatewayInv'
  <2>1. SessionCeiling \in Zone \cup {Unset}
    BY PolicyAssumption DEF SessionCeiling, CeilingForProfile, GatewayInv, PolicyTypeOK
  <2>2. QED
    BY <1>1, <2>1, MintKeeps DEF MintSessionToken
<1>2. ASSUME PolicyNext /\ UNCHANGED <<poolVars, envs, token, request>> PROVE GatewayInv'
  <2>1. token' \in [Caller -> TokenState] /\ PolicyTypeOK'
    BY <1>2, PolicyStays DEF GatewayInv, GatewayTyped
  <2>2. QED
    BY <1>2, <2>1, PoolIdles
<1>3. ASSUME UNCHANGED gatewayVars PROVE GatewayInv'
  <2>1. token' \in [Caller -> TokenState] /\ PolicyTypeOK'
    BY <1>3, PolicyStays DEF GatewayInv, GatewayTyped, gatewayVars
  <2>2. QED
    BY <1>3, <2>1, PoolIdles DEF gatewayVars
<1>4. QED
  BY <1>1, <1>2, <1>3, MintKeeps, LapseKeeps, EndKeepsGateway, ListToolsKeeps, CancelsKeeps, CallToolKeeps,
     ListsNextKeeps, PutEnvKeeps, PoolRunKeeps DEF GatewayNext

LEMMA GatewayInvariant == GatewaySpec => []GatewayInv
  BY GatewayStarts, GatewayKeeps, PTL DEF GatewaySpec

(* A request waits at a connection whose environment is the one it was      *)
(* checked with, unless an edit has come between: so a server works on it   *)
(* only with destinations that its token's ceiling allowed when it was      *)
(* checked - for every policy, every number of edits, callers and servers.  *)
THEOREM ResidencyHolds == GatewaySpec => []ResidencyKept
<1>1. ASSUME GatewayInv PROVE ResidencyKept
  <2>1. SUFFICES ASSUME NEW n \in Conn, conn[n].serving \in Caller
                 PROVE  \/ envs[conn[n].env][conn[n].server] \subseteq request[conn[n].serving].may
                        \/ Raced(conn[n].serving, n) \/ request[conn[n].serving].lapsed
    BY DEF ResidencyKept
  <2>2. PICK c \in Caller : c = conn[n].serving
    BY <2>1
  <2>3. caller[c].pc = "waiting" /\ caller[c].conn = n
    BY <1>1, <2>2 DEF GatewayInv, WaitingInLine
  <2>4. Allows(request[c], conn[n].server) /\ (Fresh(n) \/ Raced(c, n))
    BY <1>1, <2>3 DEF GatewayInv, Answerable
  <2>5. (conn[n].env = edits /\ request[c].edits = edits) \/ Raced(c, n)
    BY <2>4 DEF Fresh, Raced
  <2>6. QED
    BY <2>2, <2>4, <2>5 DEF Allows
<1>2. QED
  BY <1>1, GatewayInvariant, PTL

(* The best-rule loop finds the last of the most specific rules that match  *)
(* and the ranking its least key, whatever rules the operator has stored:   *)
(* so the zone of a host is that of a most specific rule, the profile's own *)
(* before the base's, and a compiled step is blocked only when no provider  *)
(* complies.                                                                *)
THEOREM PolicyDecides == PlatformSpec => []PolicyIsRight
<1>1. PlatformInit => PolicyTypeOK
  BY DEF PlatformInit, GatewayInit, PolicyInit, PolicyTypeOK
<1>2. ASSUME PolicyTypeOK, [PlatformNext]_platformVars PROVE PolicyTypeOK'
  <2>1. PolicyNext \/ UNCHANGED policyVars
    BY <1>2 DEF PlatformNext, platformVars, gatewayVars, GatewayNext, MintToken, MintSessionToken, TokenLapses, Verify,
       ListTools, Ends, Cancels, CallTool, ListsNext, PutEnv, PoolRuns
  <2>2. QED
    BY <1>2, <2>1, PolicyStays
<1>3. PolicyTypeOK => PolicyIsRight
  BY MostSpecificDoesWin, PlansDoComply DEF PolicyIsRight
<1>4. QED
  BY <1>1, <1>2, <1>3, PTL DEF PlatformSpec

=============================================================================
