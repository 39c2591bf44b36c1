--------------------------- MODULE ServicesProofs ---------------------------
(***************************************************************************)
(* Theorems about the parts around the hub: the pull between nodes, the    *)
(* runner registry, the commands of the daemon, the tasks of created       *)
(* sessions with the reports on them, the relay of a terminal, and the     *)
(* outbox of the desktop app. They share no state.                         *)
(***************************************************************************)
EXTENDS NodeSync, RunnerRegistry, Daemon, SessionTasks, TerminalRelay, Outbox, SequenceTheorems, FiniteSetTheorems, TLAPS

-----------------------------------------------------------------------------
(***************************************************************************)
(* The pull between nodes                                                  *)
(***************************************************************************)

(* NodeSync, the events: a cursor passes over none but those that came      *)
(* behind what a reader had taken.  Nothing is asked of who pulls from whom. *)

SyncTyped ==
  /\ SyncTypeOK
  /\ \A n \in Node : /\ pull[n].pc # "idle" => pull[n].peer \in Peers[n]
                     /\ pull[n].pc = "apply" => pull[n].item \in RowItem

\* a cursor is that of an event; what a batch in hand holds are events of the peer,
\* and beyond it come the others that the node lacks
Dense(n) ==
  LET b == pull[n].ulids
      p == pull[n].peer
  IN  /\ b \subseteq events[p]
      /\ \A u \in events[p] \ (events[n] \cup b) : \A w \in b : u <= w => u \in lateEvents[p]

EventsInv ==
  /\ \A n \in Node : \A p \in Peers[n] : eventCursor[n][p] \in events[p] \cup {0}
  /\ CursorSkipsNothing
  /\ \A n \in Node : pull[n].pc = "events" => Dense(n)

LEMMA SyncFacts ==
  ASSUME SyncTyped
  PROVE  /\ \A n \in Node : Peers[n] \subseteq Node /\ events[n] \subseteq Nat /\ pull[n] \in Pulling
         /\ \A n \in Node : pull[n].pc # "idle" => pull[n].peer \in Node
         /\ \A n \in Node : pull[n].ulids \subseteq Nat
         /\ \A n, p \in Node : eventCursor[n][p] \in Nat /\ rowCursor[n][p] \in Nat
         /\ \A n \in Node : \A r \in RunnerName : runner[n][r] \in Row /\ runner[n][r].at \in 0..MaxClock
         /\ \A x \in Row : x.at \in Nat /\ x.at \in 0..MaxClock
         /\ MaxClock \in Nat /\ MaxUlid \in Nat /\ Ulid \subseteq Nat
<1>1. MaxClock \in Nat /\ MaxUlid \in Nat /\ Ulid \subseteq Nat
  BY SyncAssumption DEF Ulid
<1>2. \A x \in Row : x.at \in Nat /\ x.at \in 0..MaxClock
  BY <1>1 DEF Row, Time, NoRow
<1>3. \A n \in Node : Peers[n] \subseteq Node /\ events[n] \subseteq Nat /\ pull[n] \in Pulling
  BY <1>1, SyncAssumption DEF SyncTyped, SyncTypeOK
<1>4. \A n \in Node : pull[n].ulids \subseteq Nat
  BY <1>1, <1>3 DEF Pulling
<1>5. \A n, p \in Node : eventCursor[n][p] \in Nat /\ rowCursor[n][p] \in Nat
  BY <1>1 DEF SyncTyped, SyncTypeOK
<1>6. \A n \in Node : \A r \in RunnerName : runner[n][r] \in Row /\ runner[n][r].at \in 0..MaxClock
  BY <1>2 DEF SyncTyped, SyncTypeOK
<1>7. QED
  BY <1>1, <1>2, <1>3, <1>4, <1>5, <1>6 DEF SyncTyped

LEMMA NoPullTyped ==
  /\ NoRow \in Row /\ NoPull \in Pulling /\ NoPull.pc = "idle"
  /\ NoPull.todo = {} /\ NoPull.rows = {} /\ NoPull.ulids = {}
<1>1. NoRow \in Row /\ 0 \in 0..MaxClock
  BY SyncAssumption DEF Row
<1>2. QED
  BY <1>1 DEF NoPull, Pulling

\* what the steps of a pull leave of it
LEMMA PullTypes ==
  ASSUME SyncTyped, NEW n \in Node,
         \/ pull' = [pull EXCEPT ![n] = NoPull]
         \/ \E q \in Pulling : /\ pull' = [pull EXCEPT ![n] = q]
                               /\ q.pc # "idle" => q.peer \in Peers[n]
                               /\ q.pc = "apply" => q.item \in RowItem
  PROVE  /\ pull' \in [Node -> Pulling]
         /\ \A m \in Node : /\ pull'[m].pc # "idle" => pull'[m].peer \in Peers[m]
                            /\ pull'[m].pc = "apply" => pull'[m].item \in RowItem
  BY NoPullTyped DEF SyncTyped, SyncTypeOK

LEMMA RowLandsTyped ==
  ASSUME SyncTyped, NEW n \in Node, NEW r \in RunnerName, NEW row \in Row, NEW t, RowLands(n, r, row, t)
  PROVE  runner' \in [Node -> [RunnerName -> Row]] /\ lateRows' \in [Node -> SUBSET RunnerName]
<1>1. runner \in [Node -> [RunnerName -> Row]] /\ lateRows \in [Node -> SUBSET RunnerName]
  BY DEF SyncTyped, SyncTypeOK
<1>2. PICK names : names = lateRows'[n] /\ names \in {lateRows[n] \cup {r}, lateRows[n] \ {r}}
                  /\ lateRows' = [lateRows EXCEPT ![n] = names]
  BY <1>1 DEF RowLands
<1>3. QED
  BY <1>1, <1>2 DEF RowLands

LEMMA EventLandsTyped ==
  ASSUME SyncTyped, NEW n \in Node, NEW u \in Ulid, EventLands(n, u)
  PROVE  events' \in [Node -> SUBSET Ulid] /\ lateEvents' \in [Node -> SUBSET Ulid]
<1>1. events \in [Node -> SUBSET Ulid] /\ lateEvents \in [Node -> SUBSET Ulid]
  BY DEF SyncTyped, SyncTypeOK
<1>2. QED
  BY <1>1 DEF EventLands

LEMMA WriteTyped ==
  ASSUME SyncTyped, NEW n \in Node, NEW r \in RunnerName, NEW row \in Row, NEW t \in Time, Write(n, r, row, t)
  PROVE  SyncTyped'
<1>1. runner' \in [Node -> [RunnerName -> Row]] /\ lateRows' \in [Node -> SUBSET RunnerName]
  BY RowLandsTyped DEF Write
<1>2. undone' \in [Node -> SUBSET RunnerName]
  <2>1. undone \in [Node -> SUBSET RunnerName]
    BY DEF SyncTyped, SyncTypeOK
  <2>2. PICK u : u = undone'[n] /\ u \in {undone[n] \cup {r}, undone[n] \ {r}, undone[n]}
                 /\ undone' = [undone EXCEPT ![n] = u]
    BY <2>1 DEF Write
  <2>3. QED
    BY <2>1, <2>2
<1>3. stamps' \in [RunnerName -> SUBSET Time] /\ tied' \subseteq RunnerName
  BY DEF Write, SyncTyped, SyncTypeOK
<1>4. written' \in 0..MaxWrites
  BY SyncAssumption DEF Write, SyncTyped, SyncTypeOK
<1>5. QED
  BY <1>1, <1>2, <1>3, <1>4 DEF Write, eventVars, SyncTyped, SyncTypeOK

LEMMA RowsTime == \A t \in Time, d \in BOOLEAN : [at |-> t, deleted |-> d] \in Row
  BY DEF Row

\* an exported batch: rows as they are at the peer, with every row that comes
\* before one of them and is not behind the cursor
LEMMA ExportedRows ==
  ASSUME SyncTyped, NEW p \in Node, NEW since, NEW batch \in ExportRows(p, since)
  PROVE  /\ batch \in SUBSET RowItem
         /\ \A i \in batch : i.row = runner[p][i.name]
         /\ \A i \in batch : \A r \in RunnerName :
               runner[p][r] # NoRow /\ runner[p][r].at >= since /\ runner[p][r].at < i.row.at =>
                   \E j \in batch : j.name = r /\ j.row = runner[p][r]
<1> DEFINE due == {r \in RunnerName : runner[p][r] # NoRow /\ runner[p][r].at >= since}
           time == [r \in due |-> runner[p][r].at]
           ItemOf(r) == [name |-> r, row |-> runner[p][r]]
<1>1. PICK b \in Batches(due, time) : batch = {ItemOf(r) : r \in b}
  BY DEF ExportRows
<1>2. b \subseteq due /\ \A x \in b, y \in due \ b : time[x] <= time[y]
  BY DEF Batches
<1>3. \A r \in b : ItemOf(r) \in RowItem /\ ItemOf(r).name = r /\ ItemOf(r).row = runner[p][r]
  BY <1>2, SyncFacts DEF RowItem
<1>4. batch \in SUBSET RowItem /\ \A i \in batch : i.name \in b /\ i.row = runner[p][i.name]
  BY <1>1, <1>3
<1>5. ASSUME NEW i \in batch, NEW r \in RunnerName,
             runner[p][r] # NoRow, runner[p][r].at >= since, runner[p][r].at < i.row.at
      PROVE  \E j \in batch : j.name = r /\ j.row = runner[p][r]
  <2>1. r \in due /\ i.name \in b
    BY <1>4, <1>5
  <2>2. time[r] = runner[p][r].at /\ time[i.name] = i.row.at /\ i.name \in RunnerName
    BY <1>2, <1>4, <2>1
  <2>3. i.row.at \in Nat /\ runner[p][r].at \in Nat
    BY <1>4, <2>2, SyncFacts
  <2>4. r \notin b => i.row.at <= runner[p][r].at
    <3> HIDE DEF due, time
    <3>1. QED
      BY <1>2, <2>1, <2>2
  <2>6. r \in b
    BY <1>5, <2>3, <2>4
  <2>5. QED
    BY <1>1, <1>3, <2>6
<1>6. QED
  BY <1>4, <1>5

LEMMA SyncTyping ==
  ASSUME SyncTyped, [SyncNext]_syncVars
  PROVE  SyncTyped'
<1>1. ASSUME NEW n \in Node, NEW u \in Ulid, CreateEvent(n, u) PROVE SyncTyped'
  BY <1>1, EventLandsTyped DEF CreateEvent, rowVars, SyncTyped, SyncTypeOK
<1>2. ASSUME NEW n \in Node, NEW r \in RunnerName, NEW t \in Time, UpsertRunner(n, r, t) \/ DeleteRunner(n, r, t)
      PROVE  SyncTyped'
  <2>1. PICK d \in BOOLEAN : Write(n, r, [at |-> t, deleted |-> d], t)
    BY <1>2 DEF UpsertRunner, DeleteRunner
  <2>2. PICK row \in Row : row = [at |-> t, deleted |-> d]
    BY RowsTime
  <2>3. QED
    BY <2>1, <2>2, WriteTyped
<1>3. ASSUME NEW n \in Node, NEW p \in Node, PullEvents(n, p) PROVE SyncTyped'
  <2>1. PICK batch \in SUBSET Ulid : Begins(n, p, batch)
    <3>1. \A b \in ExportEvents(p, eventCursor[n][p]) : b \in SUBSET Ulid
      BY DEF ExportEvents, Batches, SyncTyped, SyncTypeOK
    <3>2. QED
      BY <1>3, <3>1 DEF PullEvents
  <2>2. PICK q : q = [NoPull EXCEPT
            !.pc = IF batch = {} THEN "fetchRows" ELSE "events", !.peer = p, !.ulids = batch]
    OBVIOUS
  <2>3. q \in Pulling /\ q.peer = p /\ q.pc # "apply" /\ pull' = [pull EXCEPT ![n] = q]
    BY <2>1, <2>2, NoPullTyped DEF NoPull, Pulling, Begins
  <2>4. p \in Peers[n] /\ failures' \in 0..MaxFailures
    <3>1. MaxFailures \in Nat /\ failures \in 0..MaxFailures
      BY SyncAssumption DEF SyncTyped, SyncTypeOK
    <3>2. failures' = failures \/ (failures < MaxFailures /\ failures' = failures + 1)
      BY <1>3 DEF PullEvents
    <3>3. QED
      BY <1>3, <3>1, <3>2 DEF PullEvents
  <2>5. QED
    BY <1>3, <2>3, <2>4, PullTypes DEF PullEvents, eventVars, rowVars, SyncTyped, SyncTypeOK
<1>4. ASSUME NEW n \in Node, ImportEvent(n) PROVE SyncTyped'
  <2>1. PICK u \in Ulid : EventLands(n, u)
    BY <1>4, SyncFacts DEF ImportEvent, Pulling
  <2>2. QED
    BY <1>4, <2>1, EventLandsTyped DEF ImportEvent, rowVars, SyncTyped, SyncTypeOK
<1>5. ASSUME NEW n \in Node, SaveEventCursor(n) PROVE SyncTyped'
  <2>1. pull[n] \in Pulling /\ pull[n].pc = "events" /\ pull[n].peer \in Peers[n] /\ pull[n].peer \in Node
    BY <1>5, SyncFacts DEF SaveEventCursor, SyncTyped
  <2>2. PICK u \in 0..MaxUlid : eventCursor' = [eventCursor EXCEPT ![n][pull[n].peer] = u]
    <3>1. pull[n].ulids \subseteq 0..MaxUlid
      BY <2>1, SyncAssumption DEF Pulling, Ulid
    <3>2. QED
      BY <1>5, <3>1 DEF SaveEventCursor
  <2>3. eventCursor' \in [Node -> [Node -> 0..MaxUlid]]
    BY <2>1, <2>2 DEF SyncTyped, SyncTypeOK
  <2>4. PICK q : q = [pull[n] EXCEPT !.pc = "fetchRows", !.ulids = {}]
    OBVIOUS
  <2>5. q \in Pulling /\ q.peer = pull[n].peer /\ q.pc # "apply" /\ pull' = [pull EXCEPT ![n] = q]
    <3>1. q \in Pulling /\ q.peer = pull[n].peer /\ q.pc # "apply"
      BY <2>1, <2>4 DEF Pulling
    <3>2. pull' = [pull EXCEPT ![n] = q]
      BY <1>5, <2>1, <2>4, SyncFacts DEF SaveEventCursor, SyncTyped, SyncTypeOK, Pulling
    <3>3. QED
      BY <3>1, <3>2
  <2>6. QED
    BY <1>5, <2>1, <2>3, <2>5, PullTypes DEF SaveEventCursor, rowVars, SyncTyped, SyncTypeOK
<1>6. ASSUME NEW n \in Node, PullRows(n) PROVE SyncTyped'
  <2>1. pull[n] \in Pulling /\ pull[n].peer \in Peers[n] /\ pull[n].peer \in Node
    BY <1>6, SyncFacts DEF PullRows, SyncTyped
  <2>2. PICK batch \in ExportRows(pull[n].peer, rowCursor[n][pull[n].peer]) :
            IF batch = {} THEN Stops(n)
            ELSE pull' = [pull EXCEPT ![n].pc = "merge", ![n].rows = batch, ![n].todo = batch]
    BY <1>6 DEF PullRows
  <2>3. batch \in SUBSET RowItem
    BY <2>1, ExportedRows
  <2>4. PICK q : q = [pull[n] EXCEPT !.pc = "merge", !.rows = batch, !.todo = batch]
    OBVIOUS
  <2>5. q \in Pulling /\ q.peer = pull[n].peer /\ q.pc # "apply"
    BY <2>1, <2>3, <2>4 DEF Pulling
  <2>6. pull' = [pull EXCEPT ![n] = q] \/ pull' = [pull EXCEPT ![n] = NoPull]
    BY <2>2, <2>4 DEF Stops
  <2>7. QED
    BY <1>6, <2>1, <2>5, <2>6, PullTypes DEF PullRows, eventVars, rowVars, SyncTyped, SyncTypeOK
<1>7. ASSUME NEW n \in Node, CompareRow(n) PROVE SyncTyped'
  <2>1. pull[n] \in Pulling /\ pull[n].pc = "merge" /\ pull[n].peer \in Peers[n]
    BY <1>7, SyncFacts DEF CompareRow, SyncTyped
  <2>2. PICK i, q :
            /\ i \in pull[n].todo
            /\ pull' = [pull EXCEPT ![n] = q]
            /\ \/ q = [pull[n] EXCEPT !.pc = "apply", !.item = i, !.seen = runner[n][i.name].at]
               \/ q = [pull[n] EXCEPT !.todo = pull[n].todo \ {i}]
    BY <1>7 DEF CompareRow
  <2>3. i \in RowItem /\ runner[n][i.name].at \in 0..MaxClock
    BY <2>1, <2>2, SyncFacts DEF Pulling, RowItem
  <2>4. q \in Pulling /\ q.peer = pull[n].peer /\ (q.pc = "apply" => q.item \in RowItem)
    BY <2>1, <2>2, <2>3 DEF Pulling
  <2>5. QED
    BY <1>7, <2>1, <2>2, <2>4, PullTypes DEF CompareRow, eventVars, rowVars, SyncTyped, SyncTypeOK
<1>8. ASSUME NEW n \in Node, ApplyRow(n) PROVE SyncTyped'
  <2>1. pull[n] \in Pulling /\ pull[n].peer \in Peers[n] /\ pull[n].item \in RowItem
    BY <1>8, SyncFacts DEF ApplyRow, SyncTyped
  <2>2. PICK i \in RowItem : i = pull[n].item
    BY <2>1
  <2>3. i.name \in RunnerName /\ i.row \in Row /\ RowLands(n, i.name, i.row, i.row.at)
    BY <1>8, <2>2 DEF ApplyRow, RowItem
  <2>4. runner' \in [Node -> [RunnerName -> Row]] /\ lateRows' \in [Node -> SUBSET RunnerName]
    BY <2>3, RowLandsTyped
  <2>5. undone' \in [Node -> SUBSET RunnerName]
    <3>1. undone \in [Node -> SUBSET RunnerName]
      BY DEF SyncTyped, SyncTypeOK
    <3>2. PICK u : u \in {undone[n] \cup {i.name}, undone[n] \ {i.name}, undone[n]}
                   /\ undone' = [undone EXCEPT ![n] = u]
      BY <1>8, <2>2 DEF ApplyRow
    <3>3. QED
      BY <2>3, <3>1, <3>2
  <2>6. PICK q : q = [pull[n] EXCEPT !.pc = "merge", !.todo = pull[n].todo \ {i}, !.item = NoRowItem, !.seen = 0]
    OBVIOUS
  <2>7. q \in Pulling /\ q.peer = pull[n].peer /\ q.pc = "merge" /\ pull' = [pull EXCEPT ![n] = q]
    <3>1. 0 \in 0..MaxClock
      BY SyncAssumption
    <3>2. q \in Pulling /\ q.peer = pull[n].peer /\ q.pc = "merge"
      BY <2>1, <2>6, <3>1 DEF Pulling
    <3>3. QED
      BY <1>8, <2>2, <2>6, <3>2 DEF ApplyRow
  <2>8. QED
    BY <1>8, <2>1, <2>4, <2>5, <2>7, PullTypes DEF ApplyRow, eventVars, SyncTyped, SyncTypeOK
<1>9. ASSUME NEW n \in Node, SaveRowCursor(n) PROVE SyncTyped'
  <2>1. pull[n] \in Pulling /\ pull[n].peer \in Node
    BY <1>9, SyncFacts DEF SaveRowCursor
  <2>2. PICK t \in 0..MaxClock : rowCursor' = [rowCursor EXCEPT ![n][pull[n].peer] = t]
    BY <1>9, <2>1, SyncFacts DEF SaveRowCursor, Pulling, RowItem
  <2>3. rowCursor' \in [Node -> [Node -> 0..MaxClock]]
    BY <2>1, <2>2 DEF SyncTyped, SyncTypeOK
  <2>4. pull' = [pull EXCEPT ![n] = NoPull]
    BY <1>9 DEF SaveRowCursor, Stops
  <2>5. QED
    BY <1>9, <2>3, <2>4, PullTypes DEF SaveRowCursor, eventVars, SyncTyped, SyncTypeOK
<1>10. ASSUME NEW n \in Node, PullFails(n) PROVE SyncTyped'
  <2>1. pull' = [pull EXCEPT ![n] = NoPull] /\ failures' \in 0..MaxFailures
    BY <1>10, SyncAssumption DEF PullFails, Stops, SyncTyped, SyncTypeOK
  <2>2. QED
    BY <1>10, <2>1, PullTypes DEF PullFails, eventVars, rowVars, SyncTyped, SyncTypeOK
<1>11. CASE UNCHANGED syncVars
  BY <1>11 DEF syncVars, eventVars, rowVars, SyncTyped, SyncTypeOK
<1>12. QED
  BY <1>1, <1>2, <1>3, <1>4, <1>5, <1>6, <1>7, <1>8, <1>9, <1>10, <1>11 DEF SyncNext, PullStep

\* an exported batch: events of the peer beyond the cursor, with every one before them
LEMMA ExportedEvents ==
  ASSUME SyncTyped, NEW p \in Node, NEW since \in Nat, NEW batch \in ExportEvents(p, since)
  PROVE  /\ batch \subseteq events[p]
         /\ \A w \in batch : \A u \in events[p] \ batch : u <= w => u <= since
<1> DEFINE due == {u \in events[p] : u > since}
           time == [u \in due |-> u]
<1>1. batch \subseteq due /\ \A x \in batch, y \in due \ batch : time[x] <= time[y]
  BY DEF ExportEvents, Batches
<1>2. \A x \in batch, y \in due \ batch : x <= y
  BY <1>1
<1>3. ASSUME NEW w \in batch, NEW u \in events[p] \ batch, u <= w, ~(u <= since) PROVE FALSE
  <2>1. u \in Nat /\ w \in Nat
    BY <1>1, SyncFacts
  <2>2. u \in due
    BY <1>3, <2>1
  <2>3. w <= u
    BY <1>2, <2>2
  <2>4. u = w
    BY <1>3, <2>1, <2>3
  <2>5. QED
    BY <2>4
<1>4. QED
  BY <1>1, <1>3

\* an event becomes visible, committed by the node or imported
LEMMA LandingKeeps ==
  ASSUME SyncTyped, EventsInv, NEW m \in Node, NEW u \in Ulid, u \notin events[m], EventLands(m, u),
         UNCHANGED <<eventCursor, pull>>
  PROVE  EventsInv'
<1>1. /\ events' = [events EXCEPT ![m] = events[m] \cup {u}]
      /\ lateEvents' = [lateEvents EXCEPT ![m] = IF EventPassed(m, u) THEN lateEvents[m] \cup {u} ELSE lateEvents[m]]
  BY DEF EventLands
<1>2. /\ events'[m] = events[m] \cup {u} /\ \A n \in Node : n # m => events'[n] = events[n]
      /\ \A n \in Node : lateEvents[n] \subseteq lateEvents'[n]
      /\ EventPassed(m, u) => u \in lateEvents'[m]
  BY <1>1 DEF SyncTyped, SyncTypeOK
<1>3. u \in Nat
  BY SyncFacts
<1>4. ASSUME NEW n \in Node, NEW p \in Peers[n] PROVE eventCursor'[n][p] \in events'[p] \cup {0}
  BY <1>2, <1>4, SyncFacts DEF EventsInv
<1>5. ASSUME NEW n \in Node, NEW p \in Peers[n], NEW v \in events'[p] \ events'[n], v <= eventCursor[n][p]
      PROVE  v \in lateEvents'[p]
  <2>1. p \in Node /\ eventCursor[n][p] \in Nat
    BY SyncFacts
  <2>2. CASE v \in events[p]
    BY <1>2, <1>5, <2>1, <2>2 DEF EventsInv, CursorSkipsNothing
  <2>3. CASE v \notin events[p]
    <3>1. p = m /\ v = u
      BY <1>2, <2>1, <2>3
    <3>2. u # eventCursor[n][m]
      <4>1. eventCursor[n][m] \in events[m] \cup {0}
        BY <3>1 DEF EventsInv
      <4>2. u # 0
        BY SyncAssumption DEF Ulid
      <4>3. QED
        BY <4>1, <4>2
    <3>3. u < eventCursor[n][m]
      BY <1>3, <1>5, <2>1, <3>1, <3>2
    <3>4. EventPassed(m, u)
      BY <3>1, <3>3 DEF EventPassed, Readers
    <3>5. QED
      BY <1>2, <3>1, <3>4
  <2>4. QED
    BY <2>2, <2>3
<1>6. ASSUME NEW n \in Node, pull[n].pc = "events" PROVE Dense(n)'
  <2>1. Dense(n) /\ pull[n].peer \in Node /\ pull[n].peer \in Peers[n] /\ pull'[n] = pull[n]
    BY <1>6, SyncFacts DEF EventsInv, SyncTyped
  <2>2. PICK p \in Node : p = pull[n].peer
    BY <2>1
  <2>3. pull[n].ulids \subseteq events'[p]
    BY <1>2, <2>1, <2>2 DEF Dense
  <2>4. ASSUME NEW v \in events'[p] \ (events'[n] \cup pull[n].ulids), NEW w \in pull[n].ulids, v <= w
        PROVE  v \in lateEvents'[p]
    <3>1. CASE v \in events[p]
      BY <1>2, <2>1, <2>2, <2>4, <3>1 DEF Dense
    <3>2. CASE v \notin events[p]
      <4>1. p = m /\ v = u
        BY <1>2, <2>4, <3>2
      <4>2. v # w /\ w \in Nat
        BY <2>4, SyncFacts
      <4>3. u < w
        BY <1>3, <2>4, <4>1, <4>2
      <4>4. EventPassed(m, u)
        BY <1>6, <2>1, <2>2, <4>1, <4>3 DEF EventPassed, Readers, Fetching
      <4>5. QED
        BY <1>2, <4>1, <4>4
    <3>3. QED
      BY <3>1, <3>2
  <2>5. QED
    BY <2>1, <2>2, <2>3, <2>4 DEF Dense
<1>7. CursorSkipsNothing'
  BY <1>5 DEF CursorSkipsNothing
<1>8. QED
  BY <1>4, <1>6, <1>7 DEF EventsInv

\* the pull of one node moves on, out of the events or into a batch of them
LEMMA PullMoves ==
  ASSUME EventsInv, NEW n \in Node, UNCHANGED eventVars,
         \A m \in Node : m # n => pull'[m] = pull[m],
         pull'[n].pc = "events" => Dense(n)'
  PROVE  EventsInv'
<1>1. CursorSkipsNothing'
  BY DEF EventsInv, CursorSkipsNothing, eventVars
<1>2. \A m \in Node : m # n /\ pull'[m].pc = "events" => Dense(m)'
  BY DEF EventsInv, Dense, eventVars
<1>3. QED
  BY <1>1, <1>2 DEF EventsInv, eventVars

LEMMA EventsStep ==
  ASSUME SyncTyped, EventsInv, [SyncNext]_syncVars
  PROVE  EventsInv'
<1>1. pull \in [Node -> Pulling]
  BY DEF SyncTyped, SyncTypeOK
<1>2. ASSUME NEW n \in Node, NEW u \in Ulid, CreateEvent(n, u) PROVE EventsInv'
  <2>1. u \notin events[n]
    BY <1>2 DEF CreateEvent
  <2>2. QED
    BY <1>2, <2>1, LandingKeeps DEF CreateEvent
<1>3. ASSUME NEW n \in Node, ImportEvent(n) PROVE EventsInv'
  <2>1. PICK u \in Ulid : u \notin events[n] /\ EventLands(n, u)
    BY <1>1, <1>3 DEF ImportEvent, Pulling
  <2>2. QED
    BY <1>3, <2>1, LandingKeeps DEF ImportEvent
<1>4. ASSUME NEW n \in Node, NEW p \in Node, PullEvents(n, p) PROVE EventsInv'
  <2>1. PICK batch : Begins(n, p, batch) /\ (batch = {} \/ batch \in ExportEvents(p, eventCursor[n][p]))
    BY <1>4 DEF PullEvents
  <2>2. PICK q : q = [NoPull EXCEPT
            !.pc = IF batch = {} THEN "fetchRows" ELSE "events", !.peer = p, !.ulids = batch]
    OBVIOUS
  <2>3. pull' = [pull EXCEPT ![n] = q] /\ q.peer = p /\ q.ulids = batch /\ (q.pc = "events" => batch # {})
    BY <2>1, <2>2 DEF Begins, NoPull
  <2>4. pull'[n] = q /\ \A m \in Node : m # n => pull'[m] = pull[m]
    BY <1>1, <2>3
  <2>5. ASSUME q.pc = "events" PROVE Dense(n)'
    <3>1. batch \in ExportEvents(p, eventCursor[n][p]) /\ eventCursor[n][p] \in Nat /\ p \in Peers[n]
      BY <1>4, <2>1, <2>3, <2>5, SyncFacts DEF PullEvents
    <3>2. /\ batch \subseteq events[p]
          /\ \A w \in batch : \A u \in events[p] \ batch : u <= w => u <= eventCursor[n][p]
      BY <3>1, ExportedEvents
    <3>3. \A w \in batch : \A u \in events[p] \ (events[n] \cup batch) : u <= w => u \in lateEvents[p]
      BY <3>1, <3>2 DEF EventsInv, CursorSkipsNothing
    <3>4. QED
      BY <1>4, <2>3, <2>4, <3>2, <3>3 DEF Dense, PullEvents, eventVars
  <2>6. QED
    BY <1>4, <2>4, <2>5, PullMoves DEF PullEvents
<1>5. ASSUME NEW n \in Node, SaveEventCursor(n) PROVE EventsInv'
  <2>1. /\ pull[n].pc = "events" /\ pull[n].ulids \subseteq events[n] /\ Dense(n)
        /\ pull[n].peer \in Node /\ pull[n].peer \in Peers[n]
    BY <1>5, SyncFacts DEF SaveEventCursor, EventsInv, SyncTyped
  <2>2. PICK p \in Node : p = pull[n].peer
    BY <2>1
  <2>3. PICK g \in pull[n].ulids : eventCursor' = [eventCursor EXCEPT ![n][p] = g]
    BY <1>5, <2>2 DEF SaveEventCursor
  <2>4. UNCHANGED <<events, lateEvents>> /\ g \in events[p] /\ g \in Nat
    BY <1>5, <2>1, <2>2, SyncFacts DEF SaveEventCursor, Dense
  <2>5. eventCursor'[n][p] = g /\ \A m, x \in Node : m # n \/ x # p => eventCursor'[m][x] = eventCursor[m][x]
    BY <2>3 DEF SyncTyped, SyncTypeOK
  <2>6. \A m \in Node : \A x \in Peers[m] : eventCursor'[m][x] \in events'[x] \cup {0}
    BY <2>4, <2>5, SyncFacts DEF EventsInv
  <2>7. ASSUME NEW m \in Node, NEW x \in Peers[m], NEW u \in events[x] \ events[m], u <= eventCursor'[m][x]
        PROVE  u \in lateEvents[x]
    <3>1. CASE m = n /\ x = p
      <4>1. u \in events[p] \ (events[n] \cup pull[n].ulids) /\ u <= g
        BY <2>1, <2>5, <2>7, <3>1
      <4>2. QED
        BY <2>1, <2>2, <3>1, <4>1 DEF Dense
    <3>2. CASE m # n \/ x # p
      BY <2>5, <2>7, <3>2, SyncFacts DEF EventsInv, CursorSkipsNothing
    <3>3. QED
      BY <3>1, <3>2
  <2>8. CursorSkipsNothing'
    BY <2>4, <2>7 DEF CursorSkipsNothing
  <2>9. pull'[n].pc = "fetchRows" /\ \A m \in Node : m # n => pull'[m] = pull[m]
    BY <1>1, <1>5 DEF SaveEventCursor, Pulling
  <2>10. \A m \in Node : pull'[m].pc = "events" => Dense(m)'
    BY <2>4, <2>9 DEF EventsInv, Dense
  <2>11. QED
    BY <2>6, <2>8, <2>10 DEF EventsInv
<1>6. ASSUME NEW n \in Node, PullRows(n) \/ CompareRow(n) \/ ApplyRow(n) \/ SaveRowCursor(n) \/ PullFails(n)
      PROVE  EventsInv'
  <2>1. UNCHANGED eventVars
    BY <1>6 DEF PullRows, CompareRow, ApplyRow, SaveRowCursor, PullFails
  <2>2. PICK q : pull' = [pull EXCEPT ![n] = q] /\ q.pc # "events"
    <3>1. CASE PullRows(n)
      <4>1. PICK batch : IF batch = {} THEN Stops(n)
            ELSE pull' = [pull EXCEPT ![n].pc = "merge", ![n].rows = batch, ![n].todo = batch]
        BY <3>1 DEF PullRows
      <4>2. PICK q : q = [pull[n] EXCEPT !.pc = "merge", !.rows = batch, !.todo = batch]
        OBVIOUS
      <4>3. q.pc = "merge"
        BY <1>1, <4>2 DEF Pulling
      <4>4. QED
        BY <4>1, <4>2, <4>3, NoPullTyped DEF Stops
    <3>2. CASE CompareRow(n)
      <4>1. PICK i, q :
                /\ i \in pull[n].todo
                /\ pull' = [pull EXCEPT ![n] = q] /\ pull[n].pc = "merge"
                /\ \/ q = [pull[n] EXCEPT !.pc = "apply", !.item = i, !.seen = runner[n][i.name].at]
                   \/ q = [pull[n] EXCEPT !.todo = pull[n].todo \ {i}]
        BY <3>2 DEF CompareRow
      <4>2. q.pc # "events"
        BY <1>1, <4>1 DEF Pulling
      <4>3. QED
        BY <4>1, <4>2
    <3>3. CASE ApplyRow(n)
      <4>1. PICK i, q : /\ pull' = [pull EXCEPT ![n] = q]
                        /\ q = [pull[n] EXCEPT !.pc = "merge", !.todo = pull[n].todo \ {i}, !.item = NoRowItem, !.seen = 0]
        BY <3>3 DEF ApplyRow
      <4>2. q.pc # "events"
        BY <1>1, <4>1 DEF Pulling
      <4>3. QED
        BY <4>1, <4>2
    <3>4. CASE SaveRowCursor(n) \/ PullFails(n)
      BY <3>4, NoPullTyped DEF SaveRowCursor, PullFails, Stops
    <3>5. QED
      BY <1>6, <3>1, <3>2, <3>3, <3>4
  <2>3. pull'[n].pc # "events" /\ \A m \in Node : m # n => pull'[m] = pull[m]
    BY <1>1, <2>2
  <2>4. QED
    BY <2>1, <2>3, PullMoves
<1>7. ASSUME UNCHANGED <<eventVars, pull>> PROVE EventsInv'
  BY <1>7 DEF eventVars, EventsInv, CursorSkipsNothing, Dense
<1>8. ASSUME NEW n \in Node, NEW r \in RunnerName, NEW t \in Time, UpsertRunner(n, r, t) \/ DeleteRunner(n, r, t)
      PROVE  EventsInv'
  BY <1>7, <1>8 DEF UpsertRunner, DeleteRunner, Write
<1>9. CASE UNCHANGED syncVars
  BY <1>7, <1>9 DEF syncVars
<1>10. QED
  BY <1>2, <1>3, <1>4, <1>5, <1>6, <1>8, <1>9 DEF SyncNext, PullStep

LEMMA SyncStart == SyncInit => SyncTyped /\ EventsInv
<1> SUFFICES ASSUME SyncInit PROVE SyncTyped /\ EventsInv
  OBVIOUS
<1>1. \A n \in Node : pull[n] = NoPull /\ events[n] = {} /\ \A p \in Node : eventCursor[n][p] = 0
  BY DEF SyncInit
<1>2. 0 \in 0..MaxUlid /\ 0 \in 0..MaxClock /\ 0 \in 0..MaxWrites /\ 0 \in 0..MaxFailures
  BY SyncAssumption
<1>3. SyncTypeOK
  BY <1>2, NoPullTyped DEF SyncInit, SyncTypeOK
<1>4. SyncTyped
  BY <1>1, <1>3, NoPullTyped DEF SyncTyped
<1>5. \A n \in Node : Peers[n] \subseteq Node
  BY SyncAssumption
<1>6. EventsInv
  BY <1>1, <1>5, NoPullTyped DEF EventsInv, CursorSkipsNothing
<1>7. QED
  BY <1>4, <1>6

(* For any nodes, whoever pulls from whom, any ULIDs in any order, batches    *)
(* and failing pulls: a cursor passes over no event of its peer but those     *)
(* that became visible there behind others a reader had taken.                *)
THEOREM CursorsSkipNothing == SyncSpec => []CursorSkipsNothing
<1>1. SyncInit => SyncTyped /\ EventsInv
  BY SyncStart
<1>2. SyncTyped /\ EventsInv /\ [SyncNext]_syncVars => (SyncTyped /\ EventsInv)'
  BY SyncTyping, EventsStep
<1>3. SyncTyped /\ EventsInv => CursorSkipsNothing
  BY DEF EventsInv
<1>4. QED
  BY <1>1, <1>2, <1>3, PTL DEF SyncSpec

-----------------------------------------------------------------------------
(***************************************************************************)
(* The rows.  Every row there is, in a store or in a pull, is a copy of one *)
(* that was written.  A row that a node lacks lies behind no cursor, and in *)
(* a pull below what its batch holds only if it is itself still to come.    *)
(***************************************************************************)

Copies(r) == {NoRow} \cup {runner[n][r] : n \in Node}
                     \cup UNION {{i.row : i \in {j \in pull[n].rows : j.name = r}} : n \in Node}

\* rows are of a write, and those of one time are one row
Stamped(r) == \A x \in Copies(r) :
  /\ x.at \in stamps[r] \cup {0}
  /\ r \notin tied => \A y \in Copies(r) : x.at = y.at => x = y

\* each write left its row, or a newer one, at some node, or one gave way
Stands(r) == \A t \in stamps[r] : \E n \in Node : runner[n][r].at >= t \/ r \in undone[n]

\* n lacks p's row of r without an excuse
Lacks(n, p, r) == runner[n][r].at < runner[p][r].at /\ r \notin lateRows[p] \cup undone[n]

Merging(n) == pull[n].pc \in {"merge", "apply"}

\* what the node lacks below the top of its batch is still to be merged
Pending(n) ==
  LET p == pull[n].peer IN
    /\ pull[n].todo \subseteq pull[n].rows
    /\ pull[n].pc = "apply" => pull[n].item \in pull[n].todo /\ pull[n].seen < pull[n].item.row.at
    /\ \A r \in RunnerName : Lacks(n, p, r) => \A i \in pull[n].rows : runner[p][r].at < i.row.at =>
         \E j \in pull[n].todo : j.name = r /\ j.row.at >= runner[p][r].at

RowsInv ==
  /\ \A r \in RunnerName : Stamped(r) /\ Stands(r)
  /\ RowCursorSkipsNothing
  /\ \A n \in Node : Merging(n) => Pending(n)

LEMMA CopyFacts ==
  ASSUME SyncTyped, NEW r \in RunnerName
  PROVE  /\ NoRow \in Copies(r) /\ NoRow.at = 0
         /\ \A n \in Node : runner[n][r] \in Copies(r) /\ runner[n][r].at \in Nat
         /\ \A n \in Node : \A i \in pull[n].rows : i.name = r => i.row \in Copies(r)
         /\ \A n \in Node : \A i \in pull[n].rows : i \in RowItem /\ i.row \in Row /\ i.row.at \in Nat
         /\ stamps[r] \subseteq Nat /\ 0 \notin stamps[r]
<1>1. \A n \in Node : \A i \in pull[n].rows : i \in RowItem /\ i.row \in Row /\ i.row.at \in Nat
  BY SyncFacts DEF Pulling, RowItem
<1>2. stamps[r] \subseteq Nat /\ 0 \notin stamps[r]
  BY SyncAssumption DEF SyncTyped, SyncTypeOK, Time
<1>3. \A n \in Node : runner[n][r] \in Copies(r) /\ runner[n][r].at \in Nat
  BY SyncFacts DEF Copies
<1>4. NoRow \in Copies(r) /\ NoRow.at = 0
  BY DEF Copies, NoRow
<1>5. \A n \in Node : \A i \in pull[n].rows : i.name = r => i.row \in Copies(r)
  BY DEF Copies
<1>6. QED
  BY <1>1, <1>2, <1>3, <1>4, <1>5

\* the pull of one node moves on and no row changes
LEMMA RowPullMoves ==
  ASSUME SyncTyped, SyncTyped', RowsInv, NEW n \in Node, UNCHANGED <<runner, rowCursor, lateRows, undone, stamps, tied>>,
         \A m \in Node : m # n => pull'[m] = pull[m],
         \A i \in pull'[n].rows : \E m \in Node : i.row = runner[m][i.name] \/ i \in pull[m].rows,
         Merging(n)' => Pending(n)'
  PROVE  RowsInv'
<1>1. ASSUME NEW r \in RunnerName, NEW x \in Copies(r)' PROVE x \in Copies(r)
  <2>1. CASE x = NoRow \/ \E m \in Node : x = runner[m][r]
    BY <2>1 DEF Copies
  <2>2. ASSUME NEW m \in Node, NEW i \in pull'[m].rows, i.name = r, x = i.row PROVE x \in Copies(r)
    BY <2>2 DEF Copies
  <2>3. QED
    BY <1>1, <2>1, <2>2 DEF Copies
<1>2. \A r \in RunnerName : Stamped(r)' /\ Stands(r)'
  BY <1>1 DEF RowsInv, Stamped, Stands
<1>3. RowCursorSkipsNothing'
  BY DEF RowsInv, RowCursorSkipsNothing
<1>4. \A m \in Node : m # n /\ Merging(m)' => Pending(m)'
  BY DEF RowsInv, Merging, Pending, Lacks
<1>5. QED
  BY <1>2, <1>3, <1>4 DEF RowsInv

\* a row lands at m, written there or merged: what is lacked after it
LEMMA LackedBefore ==
  ASSUME SyncTyped, RowsInv, NEW m \in Node, NEW r \in RunnerName, NEW row \in Row, NEW t \in Nat, row.at = t,
         RowLands(m, r, row, t),
         \A n \in Node : \A x \in RunnerName : n # m \/ x # r => (x \in undone'[n] <=> x \in undone[n]),
         t < runner[m][r].at => r \in undone'[m],
         r \in undone[m] /\ r \notin undone'[m] => \A y \in stamps[r] : y <= t,
         NEW n \in Node, NEW p \in Node, NEW x \in RunnerName, Lacks(n, p, x)'
  PROVE  \/ p = m /\ x = r /\ ~RowPassed(m, t) /\ runner'[p][x].at = t
         \/ Lacks(n, p, x) /\ runner'[p][x] = runner[p][x] /\ (n = m /\ x = r => t < runner[p][x].at)
<1>1. /\ runner'[m][r] = row /\ \A q \in Node, y \in RunnerName : q # m \/ y # r => runner'[q][y] = runner[q][y]
      /\ \A q \in Node, y \in RunnerName : q # m \/ y # r => (y \in lateRows'[q] <=> y \in lateRows[q])
      /\ r \in lateRows'[m] <=> RowPassed(m, t)
  <2>1. runner \in [Node -> [RunnerName -> Row]] /\ lateRows \in [Node -> SUBSET RunnerName]
    BY DEF SyncTyped, SyncTypeOK
  <2>2. /\ runner' = [runner EXCEPT ![m][r] = row]
        /\ lateRows' = [lateRows EXCEPT ![m] = IF RowPassed(m, t) THEN lateRows[m] \cup {r} ELSE lateRows[m] \ {r}]
    BY DEF RowLands
  <2>3. QED
    BY <2>1, <2>2
<1>2. CASE x # r \/ (n # m /\ p # m)
  BY <1>1, <1>2 DEF Lacks
<1>3. CASE x = r /\ p = m
  BY <1>1, <1>3 DEF Lacks
<1>4. CASE x = r /\ p # m /\ n = m
  <2>1. t < runner[p][r].at /\ r \notin lateRows[p] /\ r \notin undone'[m] /\ runner'[p][r] = runner[p][r]
    BY <1>1, <1>4 DEF Lacks
  <2>2. runner[m][r].at \in Nat /\ runner[p][r].at \in Nat
    BY CopyFacts
  <2>3. ~(t < runner[m][r].at)
    BY <2>1
  <2>4. runner[p][r].at \in stamps[r]
    <3>1. runner[p][r].at \in stamps[r] \cup {0}
      BY CopyFacts DEF RowsInv, Stamped
    <3>2. QED
      BY <2>1, <2>2, <3>1
  <2>5. r \notin undone[m]
    BY <2>1, <2>2, <2>4
  <2>6. QED
    BY <1>4, <2>1, <2>2, <2>3, <2>5 DEF Lacks
<1>5. QED
  BY <1>2, <1>3, <1>4

LEMMA RowLandingKeeps ==
  ASSUME SyncTyped, SyncTyped', RowsInv,
         NEW m \in Node, NEW r \in RunnerName, NEW row \in Row, NEW t \in Nat, row.at = t,
         RowLands(m, r, row, t),
         \A n \in Node : \A x \in RunnerName : n # m \/ x # r => (x \in undone'[n] <=> x \in undone[n]),
         t < runner[m][r].at => r \in undone'[m],
         r \in undone[m] /\ r \notin undone'[m] => \A y \in stamps[r] : y <= t,
         stamps'[r] = stamps[r] \cup {t}, \A x \in RunnerName \ {r} : stamps'[x] = stamps[x],
         t # 0, r \in tied' \/ t \notin stamps[r] \/ row \in Copies(r), \A x \in tied : x \in tied',
         UNCHANGED rowCursor,
         \A n \in Node : /\ pull'[n].peer = pull[n].peer /\ pull'[n].rows = pull[n].rows
                         /\ Merging(n)' => Merging(n)
                         /\ pull'[n].todo \subseteq pull[n].todo
                         /\ pull'[n].pc = "apply" => pull'[n] = pull[n]
                         /\ \A j \in pull[n].todo : j \in pull'[n].todo \/ (n = m /\ j.name = r /\ j.row.at = t)
  PROVE  RowsInv'
<1>1. runner'[m][r] = row /\ \A q \in Node, y \in RunnerName : q # m \/ y # r => runner'[q][y] = runner[q][y]
  BY DEF RowLands, SyncTyped, SyncTypeOK
<1>2. ASSUME NEW x \in RunnerName, NEW c \in Copies(x)' PROVE c \in Copies(x) \/ (x = r /\ c = row)
  <2>1. CASE c = NoRow \/ \E n \in Node : c = runner'[n][x]
    BY <1>1, <2>1 DEF Copies
  <2>2. ASSUME NEW n \in Node, NEW i \in pull'[n].rows, i.name = x, c = i.row PROVE c \in Copies(x)
    BY <2>2 DEF Copies
  <2>3. QED
    BY <1>2, <2>1, <2>2 DEF Copies
<1>3. \A x \in RunnerName : Stamped(x)'
  <2>1. ASSUME NEW x \in RunnerName \ {r} PROVE Stamped(x)'
    BY <1>2, <2>1 DEF RowsInv, Stamped
  <2>2. \A c \in Copies(r)' : c.at \in stamps'[r] \cup {0}
    BY <1>2 DEF RowsInv, Stamped
  <2>3. ASSUME r \notin tied', NEW c \in Copies(r)', NEW d \in Copies(r)', c.at = d.at PROVE c = d
    <3>1. CASE row \in Copies(r)
      BY <1>2, <2>3, <3>1 DEF RowsInv, Stamped
    <3>2. CASE t \notin stamps[r]
      <4>1. \A e \in Copies(r) : e.at # t
        BY <3>2 DEF RowsInv, Stamped
      <4>2. QED
        BY <1>2, <2>3, <4>1 DEF RowsInv, Stamped
    <3>3. QED
      BY <2>3, <3>1, <3>2
  <2>4. Stamped(r)'
    BY <2>2, <2>3 DEF Stamped
  <2>5. QED
    BY <2>1, <2>4
<1>4. \A x \in RunnerName : Stands(x)'
  <2>1. ASSUME NEW x \in RunnerName \ {r} PROVE Stands(x)'
    BY <1>1, <2>1 DEF RowsInv, Stands
  <2>2. ASSUME NEW s \in stamps'[r] PROVE \E n \in Node : runner'[n][r].at >= s \/ r \in undone'[n]
    <3>1. CASE s = t
      BY <1>1, <3>1
    <3>2. CASE s \in stamps[r]
      <4>1. PICK n \in Node : runner[n][r].at >= s \/ r \in undone[n]
        BY <3>2 DEF RowsInv, Stands
      <4>2. s \in Nat /\ runner[n][r].at \in Nat
        BY <3>2, CopyFacts
      <4>3. CASE n # m
        BY <1>1, <4>1, <4>3
      <4>4. CASE n = m
        <5>1. r \in undone'[m] \/ t >= s
          BY <3>2, <4>1, <4>2, <4>4
        <5>2. QED
          BY <1>1, <5>1
      <4>5. QED
        BY <4>3, <4>4
    <3>3. QED
      BY <2>2, <3>1, <3>2
  <2>3. Stands(r)'
    BY <2>2 DEF Stands
  <2>4. QED
    BY <2>1, <2>3
<1>5. RowCursorSkipsNothing'
  <2> SUFFICES ASSUME NEW n \in Node, NEW p \in Peers[n], NEW x \in RunnerName, Lacks(n, p, x)'
               PROVE  ~(runner'[p][x].at < rowCursor[n][p])
    BY DEF RowCursorSkipsNothing, Lacks
  <2>1. p \in Node
    BY SyncFacts
  <2>2. CASE p = m /\ x = r /\ ~RowPassed(m, t) /\ runner'[p][x].at = t
    BY <2>2 DEF RowPassed, Readers
  <2>3. CASE Lacks(n, p, x) /\ runner'[p][x] = runner[p][x]
    BY <2>3 DEF RowsInv, RowCursorSkipsNothing, Lacks
  <2>4. QED
    BY <2>1, <2>2, <2>3, LackedBefore
<1>6. ASSUME NEW n \in Node, Merging(n)' PROVE Pending(n)'
  <2>1. /\ Merging(n) /\ Pending(n) /\ pull'[n].peer = pull[n].peer /\ pull'[n].rows = pull[n].rows
        /\ pull[n].peer \in Node /\ pull[n].peer \in Peers[n] /\ pull[n].pc # "idle"
    BY <1>6, SyncFacts DEF RowsInv, Merging, SyncTyped
  <2>2. PICK p \in Node : p = pull[n].peer
    BY <2>1
  <2>3. pull'[n].todo \subseteq pull'[n].rows
    BY <2>1 DEF Pending
  <2>4. pull'[n].pc = "apply" => pull'[n].item \in pull'[n].todo /\ pull'[n].seen < pull'[n].item.row.at
    BY <2>1 DEF Pending
  <2>5. ASSUME NEW x \in RunnerName, Lacks(n, p, x)', NEW i \in pull[n].rows, runner'[p][x].at < i.row.at
        PROVE  \E j \in pull'[n].todo : j.name = x /\ j.row.at >= runner'[p][x].at
    <3>1. CASE p = m /\ x = r /\ ~RowPassed(m, t) /\ runner'[p][x].at = t
      BY <2>1, <2>2, <2>5, <3>1 DEF RowPassed, Readers, Fetching
    <3>2. CASE Lacks(n, p, x) /\ runner'[p][x] = runner[p][x] /\ (n = m /\ x = r => t < runner[p][x].at)
      <4>1. PICK j \in pull[n].todo : j.name = x /\ j.row.at >= runner[p][x].at
        BY <2>1, <2>2, <2>5, <3>2 DEF Pending
      <4>2. runner[p][x].at \in Nat
        BY CopyFacts
      <4>3. j \in pull'[n].todo
        BY <3>2, <4>1, <4>2
      <4>4. QED
        BY <3>2, <4>1, <4>3
    <3>3. QED
      BY <2>5, <3>1, <3>2, LackedBefore
  <2>6. QED
    BY <2>1, <2>2, <2>3, <2>4, <2>5 DEF Pending
<1>7. QED
  BY <1>3, <1>4, <1>5, <1>6 DEF RowsInv

LEMMA WriteKeeps ==
  ASSUME SyncTyped, SyncTyped', RowsInv, NEW n \in Node, NEW r \in RunnerName, NEW row \in Row, NEW t \in Time,
         row.at = t, Write(n, r, row, t)
  PROVE  RowsInv'
<1>1. t \in Nat /\ t # 0
  BY SyncAssumption DEF Time
<1>2. /\ undone' = [undone EXCEPT ![n] = IF t < runner[n][r].at THEN undone[n] \cup {r}
                       ELSE IF \A s \in stamps[r] : s <= t THEN undone[n] \ {r} ELSE undone[n]]
      /\ undone \in [Node -> SUBSET RunnerName] /\ stamps \in [RunnerName -> SUBSET Time]
  BY DEF Write, SyncTyped, SyncTypeOK
<1>3. /\ \A m \in Node : \A x \in RunnerName : m # n \/ x # r => (x \in undone'[m] <=> x \in undone[m])
      /\ t < runner[n][r].at => r \in undone'[n]
      /\ r \in undone[n] /\ r \notin undone'[n] => \A y \in stamps[r] : y <= t
  BY <1>2
<1>4. stamps'[r] = stamps[r] \cup {t} /\ \A x \in RunnerName \ {r} : stamps'[x] = stamps[x]
  BY <1>2 DEF Write
<1>5. (r \in tied' \/ t \notin stamps[r]) /\ \A x \in tied : x \in tied'
  BY DEF Write
<1>6. UNCHANGED <<rowCursor, pull>> /\ RowLands(n, r, row, t)
  BY DEF Write
<1>7. QED
  BY <1>1, <1>3, <1>4, <1>5, <1>6, RowLandingKeeps DEF Merging

LEMMA ApplyKeeps ==
  ASSUME SyncTyped, SyncTyped', RowsInv, NEW n \in Node, ApplyRow(n)
  PROVE  RowsInv'
<1>1. /\ pull[n].pc = "apply" /\ pull[n] \in Pulling /\ pull \in [Node -> Pulling]
      /\ Pending(n) /\ pull[n].item \in RowItem
  BY SyncFacts DEF ApplyRow, RowsInv, Merging, SyncTyped, SyncTypeOK
<1>2. PICK i \in RowItem : i = pull[n].item
  BY <1>1
<1>3. PICK r \in RunnerName, row \in Row, t \in Nat : r = i.name /\ row = i.row /\ t = row.at
  BY SyncFacts DEF RowItem
<1>4. /\ i \in pull[n].todo /\ i \in pull[n].rows /\ pull[n].seen < t /\ pull[n].seen \in Nat
  BY <1>1, <1>2, <1>3, SyncFacts DEF Pending, Pulling
<1>5. row \in Copies(r) /\ t # 0 /\ t \in stamps[r]
  <2>1. row \in Copies(r)
    BY <1>3, <1>4, CopyFacts
  <2>2. row.at \in stamps[r] \cup {0}
    BY <2>1 DEF RowsInv, Stamped
  <2>3. QED
    BY <1>3, <1>4, <2>1, <2>2
<1>6. /\ undone' = [undone EXCEPT ![n] =
             IF t < runner[n][r].at /\ runner[n][r].at # pull[n].seen THEN undone[n] \cup {r}
             ELSE IF \A s \in stamps[r] : s <= t THEN undone[n] \ {r} ELSE undone[n]]
      /\ undone \in [Node -> SUBSET RunnerName]
  BY <1>2, <1>3 DEF ApplyRow, SyncTyped, SyncTypeOK
<1>7. runner[n][r].at \in Nat
  BY CopyFacts
<1>8. /\ \A m \in Node : \A x \in RunnerName : m # n \/ x # r => (x \in undone'[m] <=> x \in undone[m])
      /\ r \in undone[n] /\ r \notin undone'[n] => \A y \in stamps[r] : y <= t
  BY <1>6
<1>9. t < runner[n][r].at => r \in undone'[n]
  BY <1>4, <1>6, <1>7
<1>10. RowLands(n, r, row, t)
  BY <1>2, <1>3 DEF ApplyRow
<1>17. rowCursor' = rowCursor /\ stamps' = stamps /\ tied' = tied
  BY DEF ApplyRow
<1>11. PICK q : /\ q = [pull[n] EXCEPT !.pc = "merge", !.todo = pull[n].todo \ {i}, !.item = NoRowItem, !.seen = 0]
                /\ pull' = [pull EXCEPT ![n] = q]
  BY <1>2 DEF ApplyRow
<1>12. /\ q.peer = pull[n].peer /\ q.rows = pull[n].rows /\ q.pc = "merge" /\ q.todo = pull[n].todo \ {i}
       /\ pull'[n] = q /\ \A m \in Node : m # n => pull'[m] = pull[m]
  BY <1>1, <1>11 DEF Pulling
<1>13. \A m \in Node : /\ pull'[m].peer = pull[m].peer /\ pull'[m].rows = pull[m].rows
                       /\ Merging(m)' => Merging(m)
                       /\ pull'[m].todo \subseteq pull[m].todo
                       /\ pull'[m].pc = "apply" => pull'[m] = pull[m]
                       /\ \A j \in pull[m].todo : j \in pull'[m].todo \/ (m = n /\ j.name = r /\ j.row.at = t)
  BY <1>1, <1>3, <1>12 DEF Merging
<1>14. stamps'[r] = stamps[r] \cup {t} /\ \A x \in RunnerName \ {r} : stamps'[x] = stamps[x]
  BY <1>5, <1>17
<1>15. rowCursor' = rowCursor /\ \A x \in tied : x \in tied'
  BY <1>17
<1>16. row.at = t /\ t # 0 /\ (r \in tied' \/ t \notin stamps[r] \/ row \in Copies(r))
  BY <1>3, <1>5
<1>18. QED
  BY <1>8, <1>9, <1>10, <1>13, <1>14, <1>15, <1>16, RowLandingKeeps

\* a row that is not newer at the peer is none that the node lacks
LEMMA CompareKeeps ==
  ASSUME SyncTyped, SyncTyped', RowsInv, NEW n \in Node, CompareRow(n)
  PROVE  RowsInv'
<1>1. /\ pull[n].pc = "merge" /\ pull[n] \in Pulling /\ pull \in [Node -> Pulling] /\ Pending(n)
      /\ pull[n].peer \in Node
  BY SyncFacts DEF CompareRow, RowsInv, Merging, SyncTyped, SyncTypeOK
<1>2. PICK i \in pull[n].todo : pull' = [pull EXCEPT ![n] = IF i.row.at > runner[n][i.name].at
          THEN [pull[n] EXCEPT !.pc = "apply", !.item = i, !.seen = runner[n][i.name].at]
          ELSE [pull[n] EXCEPT !.todo = pull[n].todo \ {i}]]
  BY DEF CompareRow
<1>3. i \in RowItem /\ i.name \in RunnerName /\ i.row.at \in Nat
  BY <1>1, SyncFacts DEF Pulling, RowItem
<1>4. PICK q : /\ pull' = [pull EXCEPT ![n] = q]
               /\ \/ i.row.at > runner[n][i.name].at
                     /\ q = [pull[n] EXCEPT !.pc = "apply", !.item = i, !.seen = runner[n][i.name].at]
                  \/ ~(i.row.at > runner[n][i.name].at) /\ q = [pull[n] EXCEPT !.todo = pull[n].todo \ {i}]
  BY <1>2
<1>5. /\ q.peer = pull[n].peer /\ q.rows = pull[n].rows
      /\ \/ i.row.at > runner[n][i.name].at /\ q.pc = "apply" /\ q.item = i /\ q.seen = runner[n][i.name].at
            /\ q.todo = pull[n].todo
         \/ ~(i.row.at > runner[n][i.name].at) /\ q.pc = "merge" /\ q.todo = pull[n].todo \ {i}
  BY <1>1, <1>4 DEF Pulling
<1>6. pull'[n] = q /\ \A m \in Node : m # n => pull'[m] = pull[m]
  BY <1>1, <1>4
<1>7. UNCHANGED <<runner, rowCursor, lateRows, undone, stamps, tied>>
  BY DEF CompareRow, rowVars
<1>8. PICK p \in Node : p = pull[n].peer
  BY <1>1
<1>9. ASSUME NEW r \in RunnerName, Lacks(n, p, r), NEW k \in pull[n].rows, runner[p][r].at < k.row.at
      PROVE  \E j \in q.todo : j.name = r /\ j.row.at >= runner[p][r].at
  <2>1. PICK j \in pull[n].todo : j.name = r /\ j.row.at >= runner[p][r].at
    BY <1>1, <1>8, <1>9 DEF Pending
  <2>2. runner[n][r].at \in Nat /\ runner[p][r].at \in Nat /\ runner[n][r].at < runner[p][r].at
    BY <1>9, CopyFacts DEF Lacks
  <2>3. j = i => i.row.at > runner[n][i.name].at
    BY <1>3, <2>1, <2>2
  <2>4. QED
    BY <1>5, <2>1, <2>3
<1>10. Pending(n)'
  <2>1. q.todo \subseteq q.rows
    BY <1>1, <1>5 DEF Pending
  <2>2. q.pc = "apply" => q.item \in q.todo /\ q.seen < q.item.row.at
    BY <1>3, <1>5, CopyFacts
  <2>3. QED
    BY <1>5, <1>6, <1>7, <1>8, <1>9, <2>1, <2>2 DEF Pending, Lacks
<1>11. \A k \in pull'[n].rows : \E m \in Node : k.row = runner[m][k.name] \/ k \in pull[m].rows
  BY <1>5, <1>6
<1>12. QED
  BY <1>6, <1>7, <1>10, <1>11, RowPullMoves

LEMMA PullRowsKeeps ==
  ASSUME SyncTyped, SyncTyped', RowsInv, NEW n \in Node, PullRows(n)
  PROVE  RowsInv'
<1>1. pull[n] \in Pulling /\ pull \in [Node -> Pulling] /\ pull[n].peer \in Node /\ pull[n].peer \in Peers[n]
  BY SyncFacts DEF PullRows, SyncTyped, SyncTypeOK
<1>2. PICK p \in Node, since \in Nat : p = pull[n].peer /\ since = rowCursor[n][p]
  BY <1>1, SyncFacts
<1>3. PICK batch \in ExportRows(p, since) :
          IF batch = {} THEN Stops(n)
          ELSE pull' = [pull EXCEPT ![n].pc = "merge", ![n].rows = batch, ![n].todo = batch]
  BY <1>2 DEF PullRows
<1>4. PICK q : /\ pull' = [pull EXCEPT ![n] = q]
               /\ q = NoPull \/ q = [pull[n] EXCEPT !.pc = "merge", !.rows = batch, !.todo = batch]
  BY <1>3 DEF Stops
<1>5. \/ q.pc = "idle" /\ q.rows = {}
      \/ q.pc = "merge" /\ q.rows = batch /\ q.todo = batch /\ q.peer = p
  BY <1>1, <1>2, <1>4, NoPullTyped DEF Pulling
<1>6. pull'[n] = q /\ \A m \in Node : m # n => pull'[m] = pull[m]
  BY <1>1, <1>4
<1>7. UNCHANGED <<runner, rowCursor, lateRows, undone, stamps, tied>>
  BY DEF PullRows, rowVars
<1>8. \A i \in batch : i.row = runner[p][i.name]
  BY ExportedRows
<1>9. ASSUME NEW r \in RunnerName, Lacks(n, p, r), NEW i \in batch, runner[p][r].at < i.row.at
      PROVE  \E j \in batch : j.name = r /\ j.row.at >= runner[p][r].at
  <2>1. runner[n][r].at \in Nat /\ runner[p][r].at \in Nat /\ runner[n][r].at < runner[p][r].at
    BY <1>9, CopyFacts DEF Lacks
  <2>2. ~(runner[p][r].at < since)
    BY <1>1, <1>2, <1>9 DEF RowsInv, RowCursorSkipsNothing, Lacks
  <2>3. runner[p][r] # NoRow
    BY <2>1 DEF NoRow
  <2>4. PICK j \in batch : j.name = r /\ j.row = runner[p][r]
    BY <1>9, <2>1, <2>2, <2>3, ExportedRows
  <2>5. QED
    BY <2>1, <2>4
<1>10. Merging(n)' => Pending(n)'
  BY <1>5, <1>6, <1>7, <1>9 DEF Merging, Pending, Lacks
<1>11. \A i \in pull'[n].rows : \E m \in Node : i.row = runner[m][i.name] \/ i \in pull[m].rows
  BY <1>5, <1>6, <1>8
<1>12. QED
  BY <1>6, <1>7, <1>10, <1>11, RowPullMoves

LEMMA SaveRowKeeps ==
  ASSUME SyncTyped, SyncTyped', RowsInv, NEW n \in Node, SaveRowCursor(n)
  PROVE  RowsInv'
<1>1. /\ pull[n].pc = "merge" /\ pull[n].todo = {} /\ Pending(n) /\ pull \in [Node -> Pulling]
      /\ pull[n].peer \in Node
  BY SyncFacts DEF SaveRowCursor, RowsInv, Merging, SyncTyped, SyncTypeOK
<1>2. PICK p \in Node : p = pull[n].peer
  BY <1>1
<1>3. PICK i \in pull[n].rows : rowCursor' = [rowCursor EXCEPT ![n][p] = i.row.at]
  BY <1>2 DEF SaveRowCursor
<1>4. rowCursor'[n][p] = i.row.at /\ \A m, x \in Node : m # n \/ x # p => rowCursor'[m][x] = rowCursor[m][x]
  BY <1>3 DEF SyncTyped, SyncTypeOK
<1>5. pull'[n] = NoPull /\ \A m \in Node : m # n => pull'[m] = pull[m]
  BY <1>1 DEF SaveRowCursor, Stops
<1>6. UNCHANGED <<runner, lateRows, undone, stamps, tied>>
  BY DEF SaveRowCursor
<1>7. ASSUME NEW m \in Node, NEW x \in Peers[m], NEW r \in RunnerName, Lacks(m, x, r)
      PROVE  ~(runner[x][r].at < rowCursor'[m][x])
  <2>1. x \in Node
    BY SyncFacts
  <2>2. CASE m = n /\ x = p
    BY <1>1, <1>2, <1>4, <1>7, <2>2 DEF Pending
  <2>3. CASE m # n \/ x # p
    BY <1>4, <1>7, <2>1, <2>3 DEF RowsInv, RowCursorSkipsNothing, Lacks
  <2>4. QED
    BY <2>2, <2>3
<1>8. RowCursorSkipsNothing'
  BY <1>6, <1>7 DEF RowCursorSkipsNothing, Lacks
<1>9. \A m \in Node : Merging(m)' => Pending(m)'
  <2>1. ~Merging(n)'
    BY <1>5, NoPullTyped DEF Merging
  <2>2. QED
    BY <1>5, <1>6, <2>1 DEF RowsInv, Merging, Pending, Lacks
<1>10. ASSUME NEW r \in RunnerName, NEW x \in Copies(r)' PROVE x \in Copies(r)
  <2>1. CASE x = NoRow \/ \E m \in Node : x = runner[m][r]
    BY <2>1 DEF Copies
  <2>2. ASSUME NEW m \in Node, NEW j \in pull'[m].rows, j.name = r, x = j.row PROVE x \in Copies(r)
    BY <1>5, <2>2, NoPullTyped DEF Copies
  <2>3. QED
    BY <1>6, <1>10, <2>1, <2>2 DEF Copies
<1>11. \A r \in RunnerName : Stamped(r)' /\ Stands(r)'
  BY <1>6, <1>10 DEF RowsInv, Stamped, Stands
<1>12. QED
  BY <1>8, <1>9, <1>11 DEF RowsInv

LEMMA RowsStep ==
  ASSUME SyncTyped, RowsInv, [SyncNext]_syncVars
  PROVE  RowsInv'
<1>1. SyncTyped'
  BY SyncTyping
<1>2. pull \in [Node -> Pulling]
  BY DEF SyncTyped, SyncTypeOK
<1>3. ASSUME UNCHANGED rowVars, NEW n \in Node, \A m \in Node : m # n => pull'[m] = pull[m],
             pull'[n].pc \in {"idle", "events", "fetchRows"}, pull'[n].rows \subseteq pull[n].rows
      PROVE  RowsInv'
  BY <1>1, <1>3, RowPullMoves DEF rowVars, Merging
<1>4. ASSUME NEW n \in Node, NEW u \in Ulid, CreateEvent(n, u) PROVE RowsInv'
  BY <1>4 DEF CreateEvent, rowVars, RowsInv, Stamped, Copies, Stands, RowCursorSkipsNothing, Merging, Pending, Lacks
<1>5. ASSUME NEW n \in Node, ImportEvent(n) PROVE RowsInv'
  BY <1>5 DEF ImportEvent, rowVars, RowsInv, Stamped, Copies, Stands, RowCursorSkipsNothing, Merging, Pending, Lacks
<1>6. ASSUME NEW n \in Node, NEW r \in RunnerName, NEW t \in Time, UpsertRunner(n, r, t) \/ DeleteRunner(n, r, t)
      PROVE  RowsInv'
  <2>1. PICK row \in Row : row.at = t /\ Write(n, r, row, t)
    BY <1>6, RowsTime DEF UpsertRunner, DeleteRunner
  <2>2. QED
    BY <1>1, <2>1, WriteKeeps
<1>7. ASSUME NEW n \in Node, NEW p \in Node, PullEvents(n, p) PROVE RowsInv'
  <2>1. PICK batch : Begins(n, p, batch) /\ UNCHANGED rowVars
    BY <1>7 DEF PullEvents
  <2>2. PICK q : q = [NoPull EXCEPT
            !.pc = IF batch = {} THEN "fetchRows" ELSE "events", !.peer = p, !.ulids = batch]
    OBVIOUS
  <2>3. pull' = [pull EXCEPT ![n] = q] /\ q.pc \in {"events", "fetchRows"} /\ q.rows = {}
    BY <2>1, <2>2 DEF Begins, NoPull
  <2>4. pull'[n] = q /\ \A m \in Node : m # n => pull'[m] = pull[m]
    BY <1>2, <2>3
  <2>5. QED
    BY <1>3, <2>1, <2>3, <2>4
<1>8. ASSUME NEW n \in Node, SaveEventCursor(n) PROVE RowsInv'
  <2>1. PICK q : q = [pull[n] EXCEPT !.pc = "fetchRows", !.ulids = {}]
    OBVIOUS
  <2>2. q.pc = "fetchRows" /\ q.rows = pull[n].rows /\ pull[n] \in Pulling
    BY <1>2, <2>1 DEF Pulling
  <2>3. pull' = [pull EXCEPT ![n] = q] /\ UNCHANGED rowVars
    BY <1>2, <1>8, <2>1 DEF SaveEventCursor, Pulling
  <2>4. pull'[n] = q /\ \A m \in Node : m # n => pull'[m] = pull[m]
    BY <1>2, <2>3
  <2>5. QED
    BY <1>3, <2>2, <2>3, <2>4
<1>9. ASSUME NEW n \in Node, PullFails(n) PROVE RowsInv'
  BY <1>2, <1>3, <1>9, NoPullTyped DEF PullFails, Stops
<1>10. CASE UNCHANGED syncVars
  BY <1>10 DEF syncVars, rowVars, RowsInv, Stamped, Copies, Stands, RowCursorSkipsNothing, Merging, Pending, Lacks
<1>11. QED
  BY <1>1, <1>4, <1>5, <1>6, <1>7, <1>8, <1>9, <1>10, PullRowsKeeps, CompareKeeps, ApplyKeeps, SaveRowKeeps
     DEF SyncNext, PullStep

LEMMA RowsStart == SyncInit => RowsInv
<1> SUFFICES ASSUME SyncInit PROVE RowsInv
  OBVIOUS
<1>1. \A n \in Node : /\ pull[n] = NoPull /\ \A r \in RunnerName : runner[n][r] = NoRow
                      /\ \A p \in Node : rowCursor[n][p] = 0
  BY DEF SyncInit
<1>2. \A r \in RunnerName : stamps[r] = {} /\ NoRow.at = 0
  BY DEF SyncInit, NoRow
<1>3. \A r \in RunnerName : \A x \in Copies(r) : x = NoRow
  BY <1>1, NoPullTyped DEF Copies
<1>4. \A n \in Node : Peers[n] \subseteq Node /\ ~Merging(n)
  BY <1>1, SyncAssumption, NoPullTyped DEF Merging
<1>5. \A r \in RunnerName : Stamped(r) /\ Stands(r)
  BY <1>2, <1>3 DEF Stamped, Stands
<1>6. RowCursorSkipsNothing
  BY <1>1, <1>2, <1>4 DEF RowCursorSkipsNothing
<1>7. QED
  BY <1>4, <1>5, <1>6 DEF RowsInv

LEMMA RowsInvMeans ==
  ASSUME SyncTyped, RowsInv
  PROVE  LastWriteStands /\ RowCursorSkipsNothing
<1>1. ASSUME NEW r \in RunnerName, r \notin tied, NEW n \in Node, NEW m \in Node, runner[n][r].at = runner[m][r].at
      PROVE  runner[n][r] = runner[m][r]
  BY <1>1, CopyFacts DEF RowsInv, Stamped
<1>2. QED
  BY <1>1 DEF LastWriteStands, RowsInv, Stands

(* For any nodes, names, clocks, batches, whoever pulls from whom, writes in    *)
(* any order of their stamps and failing pulls: a registration or a removal is  *)
(* at some node until a newer one is, unless a node let its row give way to an  *)
(* older write, and rows of one time are one row but for ties.                  *)
THEOREM LastWritesStand == SyncSpec => []LastWriteStands
<1>1. SyncInit => SyncTyped /\ RowsInv
  BY SyncStart, RowsStart
<1>2. SyncTyped /\ RowsInv /\ [SyncNext]_syncVars => (SyncTyped /\ RowsInv)'
  BY SyncTyping, RowsStep
<1>3. SyncTyped /\ RowsInv => LastWriteStands
  BY RowsInvMeans
<1>4. QED
  BY <1>1, <1>2, <1>3, PTL DEF SyncSpec

(* For the same: the one cursor over the rows of all names passes over none     *)
(* that the node lacks, whatever the LIMIT cuts off and the order within one    *)
(* time, but those that came behind what a reader had taken and those of which  *)
(* the node had a row as new and let it give way.                               *)
THEOREM RowCursorsSkipNothing == SyncSpec => []RowCursorSkipsNothing
<1>1. SyncInit => SyncTyped /\ RowsInv
  BY SyncStart, RowsStart
<1>2. SyncTyped /\ RowsInv /\ [SyncNext]_syncVars => (SyncTyped /\ RowsInv)'
  BY SyncTyping, RowsStep
<1>3. SyncTyped /\ RowsInv => RowCursorSkipsNothing
  BY DEF RowsInv
<1>4. QED
  BY <1>1, <1>2, <1>3, PTL DEF SyncSpec

(* All of it: a pull leaves out no event and no row's last word, but for what   *)
(* the order of stamps and commits takes from it.                               *)
THEOREM PullsAreSound == SyncSpec => []PullsLoseNothing
<1>1. CursorSkipsNothing /\ RowCursorSkipsNothing /\ LastWriteStands => PullsLoseNothing
  BY DEF PullsLoseNothing
<1>2. QED
  BY <1>1, CursorsSkipNothing, RowCursorsSkipNothing, LastWritesStand, PTL

-----------------------------------------------------------------------------
(***************************************************************************)
(* The runner registry                                                     *)
(***************************************************************************)

LEMMA EmptyQueue == Items(<<>>) = {} /\ OnceEach(<<>>) /\ <<>> \in Seq(Item)
  BY DEF Items, OnceEach

LEMMA QueueDomain ==
  ASSUME NEW q \in Seq(Item)
  PROVE  DOMAIN q = 1..Len(q) /\ Len(q) \in Nat /\ Items(q) \subseteq Item /\ (q # <<>> => Len(q) > 0)
  BY LenProperties, EmptySeq DEF Items

LEMMA AppendItem ==
  ASSUME NEW q \in Seq(Item), NEW i \in Item
  PROVE  /\ Append(q, i) \in Seq(Item) /\ Append(q, i) # <<>>
         /\ Items(Append(q, i)) = Items(q) \cup {i}
         /\ OnceEach(q) /\ i \notin Items(q) => OnceEach(Append(q, i))
<1>1. /\ Append(q, i) \in Seq(Item) /\ Append(q, i) # <<>>
      /\ Len(Append(q, i)) = Len(q) + 1
      /\ \A k \in 1..Len(q) : Append(q, i)[k] = q[k]
      /\ Append(q, i)[Len(q) + 1] = i
  BY AppendProperties
<1>2. DOMAIN Append(q, i) = 1..(Len(q) + 1) /\ DOMAIN q = 1..Len(q) /\ Len(q) \in Nat
  BY <1>1, QueueDomain
<1>3. Items(Append(q, i)) = Items(q) \cup {i}
  BY <1>1, <1>2 DEF Items
<1>4. OnceEach(q) /\ i \notin Items(q) => OnceEach(Append(q, i))
  BY <1>1, <1>2 DEF OnceEach, Items
<1>5. QED
  BY <1>1, <1>3, <1>4

LEMMA TailItem ==
  ASSUME NEW q \in Seq(Item), q # <<>>
  PROVE  /\ Tail(q) \in Seq(Item) /\ Head(q) \in Items(q) /\ Head(q) \in Item
         /\ Items(q) = Items(Tail(q)) \cup {Head(q)}
         /\ OnceEach(q) => OnceEach(Tail(q)) /\ Head(q) \notin Items(Tail(q))
<1>1. /\ Tail(q) \in Seq(Item) /\ Len(Tail(q)) = Len(q) - 1 /\ Head(q) = q[1]
      /\ \A k \in 1..Len(Tail(q)) : Tail(q)[k] = q[k + 1]
  BY HeadTailProperties
<1>2. DOMAIN Tail(q) = 1..(Len(q) - 1) /\ DOMAIN q = 1..Len(q) /\ Len(q) \in Nat /\ Len(q) > 0
  BY <1>1, QueueDomain
<1>3. Items(q) = Items(Tail(q)) \cup {Head(q)}
  <2>1. ASSUME NEW k \in DOMAIN q, k # 1 PROVE q[k] = Tail(q)[k - 1] /\ k - 1 \in DOMAIN Tail(q)
    BY <1>1, <1>2, <2>1
  <2>2. ASSUME NEW k \in DOMAIN Tail(q) PROVE Tail(q)[k] = q[k + 1] /\ k + 1 \in DOMAIN q
    BY <1>1, <1>2
  <2>3. Items(q) \subseteq Items(Tail(q)) \cup {Head(q)}
    <3>1. ASSUME NEW k \in DOMAIN q PROVE q[k] \in Items(Tail(q)) \cup {Head(q)}
      <4>1. CASE k = 1
        BY <1>1, <4>1
      <4>2. CASE k # 1
        BY <2>1, <4>2 DEF Items
      <4>3. QED
        BY <4>1, <4>2
    <3>2. QED
      BY <3>1 DEF Items
  <2>4. Items(Tail(q)) \subseteq Items(q)
    BY <2>2 DEF Items
  <2>5. Head(q) \in Items(q)
    BY <1>1, <1>2 DEF Items
  <2>6. QED
    BY <2>3, <2>4, <2>5
<1>4. OnceEach(q) => OnceEach(Tail(q)) /\ Head(q) \notin Items(Tail(q))
  <2>1. ASSUME NEW k \in DOMAIN Tail(q) PROVE Tail(q)[k] = q[k + 1] /\ k + 1 \in DOMAIN q /\ k + 1 # 1
    BY <1>1, <1>2
  <2>2. \A j, k \in DOMAIN Tail(q) : j + 1 = k + 1 => j = k
    BY <1>2
  <2>3. 1 \in DOMAIN q
    BY <1>2
  <2>4. QED
    BY <1>1, <2>1, <2>2, <2>3 DEF OnceEach, Items
<1>5. QED
  BY <1>1, <1>3, <1>4, QueueDomain

LEMMA JoinedQueues ==
  ASSUME NEW q \in Seq(Item), NEW s \in Seq(Item)
  PROVE  /\ q \o s \in Seq(Item)
         /\ Items(q \o s) = Items(q) \cup Items(s)
         /\ OnceEach(q) /\ OnceEach(s) /\ Items(q) \cap Items(s) = {} => OnceEach(q \o s)
<1>1. /\ q \o s \in Seq(Item) /\ Len(q \o s) = Len(q) + Len(s)
      /\ \A k \in 1..(Len(q) + Len(s)) : (q \o s)[k] = IF k <= Len(q) THEN q[k] ELSE s[k - Len(q)]
  BY ConcatProperties
<1>2. DOMAIN (q \o s) = 1..(Len(q) + Len(s)) /\ DOMAIN q = 1..Len(q) /\ DOMAIN s = 1..Len(s)
      /\ Len(q) \in Nat /\ Len(s) \in Nat
  BY <1>1, QueueDomain
<1>3. ASSUME NEW k \in DOMAIN q PROVE k \in DOMAIN (q \o s) /\ (q \o s)[k] = q[k]
  BY <1>1, <1>2
<1>4. ASSUME NEW k \in DOMAIN s PROVE k + Len(q) \in DOMAIN (q \o s) /\ (q \o s)[k + Len(q)] = s[k]
  BY <1>1, <1>2
<1>5. ASSUME NEW k \in DOMAIN (q \o s)
      PROVE  \/ k \in DOMAIN q /\ (q \o s)[k] = q[k]
             \/ k - Len(q) \in DOMAIN s /\ (q \o s)[k] = s[k - Len(q)] /\ k > Len(q)
  BY <1>1, <1>2
<1>6. Items(q \o s) = Items(q) \cup Items(s)
  <2>1. ASSUME NEW k \in DOMAIN (q \o s) PROVE (q \o s)[k] \in Items(q) \cup Items(s)
    BY <1>5 DEF Items
  <2>2. Items(q \o s) \subseteq Items(q) \cup Items(s)
    BY <2>1 DEF Items
  <2>3. Items(q) \subseteq Items(q \o s)
    BY <1>3 DEF Items
  <2>4. Items(s) \subseteq Items(q \o s)
    BY <1>4 DEF Items
  <2>5. QED
    BY <2>2, <2>3, <2>4
<1>7. ASSUME OnceEach(q), OnceEach(s), Items(q) \cap Items(s) = {} PROVE OnceEach(q \o s)
  <2> SUFFICES ASSUME NEW j \in DOMAIN (q \o s), NEW k \in DOMAIN (q \o s), (q \o s)[j] = (q \o s)[k]
               PROVE  j = k
    BY DEF OnceEach
  <2>1. CASE j \in DOMAIN q /\ (q \o s)[j] = q[j]
    <3>1. ~ (k - Len(q) \in DOMAIN s /\ (q \o s)[k] = s[k - Len(q)])
      BY <1>7, <2>1 DEF Items
    <3>2. k \in DOMAIN q /\ (q \o s)[k] = q[k]
      BY <1>5, <3>1
    <3>3. QED
      BY <1>7, <2>1, <3>2 DEF OnceEach
  <2>2. CASE j - Len(q) \in DOMAIN s /\ (q \o s)[j] = s[j - Len(q)]
    <3>1. ~ (k \in DOMAIN q /\ (q \o s)[k] = q[k])
      BY <1>7, <2>2 DEF Items
    <3>2. k - Len(q) \in DOMAIN s /\ (q \o s)[k] = s[k - Len(q)]
      BY <1>5, <3>1
    <3>3. j - Len(q) = k - Len(q)
      BY <1>7, <2>2, <3>2 DEF OnceEach
    <3>4. QED
      BY <1>2, <3>3
  <2>3. QED
    BY <1>5, <2>1, <2>2
<1>8. QED
  BY <1>1, <1>6, <1>7

\* what Reroute puts behind a queue
LEMMA InOrderItems ==
  ASSUME NEW some \in SUBSET Item, NEW q, NEW s \in InOrder(some, q)
  PROVE  /\ s \in Seq(Item) /\ Items(s) = some /\ OnceEach(s)
         /\ some = {} => s = <<>>
<1>1. /\ Items(s) = some /\ OnceEach(s)
      /\ \E n \in 0..Len(q) : s \in [1..n -> some]
  BY DEF InOrder
<1>2. PICK n \in Nat : s \in [1..n -> some]
  BY <1>1
<1>3. s \in Seq(Item) /\ Len(s) = n
  BY <1>2
<1>4. some = {} => s = <<>>
  <2>1. ASSUME n # 0 PROVE s[1] \in some
    BY <1>2, <2>1
  <2>2. QED
    BY <1>3, <2>1, EmptySeq
<1>5. QED
  BY <1>1, <1>3, <1>4

-----------------------------------------------------------------------------
(* The inductive invariant.  That an item is in one place, and nowhere once   *)
(* a runner has it, is what lets a poll hand out the head of its queue        *)
(* without looking, and lets a removal refuse only what nobody holds.         *)

QueuesApart ==
  \A r, a \in Runner :
    /\ r # a => Items(pending[r]) \cap Items(pending[a]) = {} /\ Items(leaving[r]) \cap Items(leaving[a]) = {}
    /\ Items(pending[r]) \cap Items(leaving[a]) = {}

QueuedOnce == \A r \in Runner : OnceEach(pending[r]) /\ OnceEach(leaving[r])

QueuedIsFree ==
  \A r \in Runner : \A i \in Items(pending[r]) \cup Items(leaving[r]) : fut[i] # "new" /\ holder[i] = Nobody

NewIsFree == \A i \in Item : fut[i] = "new" => holder[i] = Nobody

RegistryInv ==
  /\ TypeOK /\ NoLostWakeup /\ NothingForgotten
  /\ QueuesApart /\ QueuedOnce /\ QueuedIsFree /\ NewIsFree

LEMMA InitRegistryInv == Init => RegistryInv
  BY EmptyQueue, RegistryAssumption
     DEF Init, RegistryInv, TypeOK, NoLostWakeup, NothingForgotten, QueuesApart, QueuedOnce,
         QueuedIsFree, NewIsFree, PollState, NoPoll, Queued

\* what SetEvents does to the polls and events of the runners in rs, and to others
LEMMA EventsSet ==
  ASSUME TypeOK, NEW rs \in SUBSET Runner, SetEvents(rs)
  PROVE  /\ event' \in [Runner -> {"clear", "set"}] /\ poll' \in [Runner -> [Slot -> PollState]]
         /\ \A r \in rs : /\ event'[r] = "set"
                          /\ \A k \in Slot : poll'[r][k].open /\ ~poll'[r][k].stale => poll'[r][k].woken
         /\ \A r \in Runner \ rs : event'[r] = event[r] /\ poll'[r] = poll[r]
<1>1. /\ event' = [r \in Runner |-> IF r \in rs THEN "set" ELSE event[r]]
      /\ poll' = [r \in Runner |-> [k \in Slot |->
           IF r \in rs /\ poll[r][k].open /\ ~poll[r][k].stale
             THEN [poll[r][k] EXCEPT !.woken = TRUE] ELSE poll[r][k]]]
  BY DEF SetEvents
<1>2. event \in [Runner -> {"clear", "set"}] /\ poll \in [Runner -> [Slot -> PollState]]
  BY DEF TypeOK
<1>3. \A r \in Runner : \A k \in Slot : poll[r][k] \in PollState /\ poll[r] \in [Slot -> PollState]
  BY <1>2
<1>4. event' \in [Runner -> {"clear", "set"}]
  BY <1>1, <1>2
<1>5. ASSUME NEW r \in Runner, NEW k \in Slot
      PROVE  /\ poll'[r][k] = IF r \in rs /\ poll[r][k].open /\ ~poll[r][k].stale
                                THEN [poll[r][k] EXCEPT !.woken = TRUE] ELSE poll[r][k]
             /\ poll'[r][k] \in PollState
             /\ r \in rs /\ poll'[r][k].open /\ ~poll'[r][k].stale => poll'[r][k].woken
  BY <1>1, <1>3 DEF PollState
<1>6. poll' \in [Runner -> [Slot -> PollState]]
  <2>1. \A r \in Runner : [k \in Slot |->
           IF r \in rs /\ poll[r][k].open /\ ~poll[r][k].stale
             THEN [poll[r][k] EXCEPT !.woken = TRUE] ELSE poll[r][k]] \in [Slot -> PollState]
    BY <1>1, <1>5
  <2>2. QED
    BY <1>1, <2>1
<1>7. ASSUME NEW r \in Runner \ rs PROVE event'[r] = event[r] /\ poll'[r] = poll[r]
  BY <1>1, <1>2, <1>3
<1>8. QED
  BY <1>1, <1>4, <1>5, <1>6, <1>7

LEMMA RegisterKeeps ==
  ASSUME RegistryInv, NEW r \in Runner, Register(r)
  PROVE  RegistryInv'
  BY DEF RegistryInv, Register, TypeOK, NoLostWakeup, NothingForgotten, QueuesApart, QueuedOnce,
         QueuedIsFree, NewIsFree, callVars, runnerVars, Queued

LEMMA DeregisterKeeps ==
  ASSUME RegistryInv, NEW r \in Runner, Deregister(r)
  PROVE  RegistryInv'
<1>1. /\ registered' = registered \ {r} /\ UNCHANGED <<known, fut, holder, working, late, dropped>>
      /\ pending' = [pending EXCEPT ![r] = <<>>] /\ leaving' = [leaving EXCEPT ![r] = pending[r]]
      /\ event' = [event EXCEPT ![r] = "clear"] /\ leaving[r] = <<>>
      /\ poll' = [poll EXCEPT ![r] = [k \in Slot |-> [poll[r][k] EXCEPT !.stale = poll[r][k].stale \/ poll[r][k].open]]]
  BY DEF Deregister, QueueAfterPop, callVars, runnerVars
<1>2. TypeOK
  BY DEF RegistryInv
<1>3. /\ pending'[r] = <<>> /\ leaving'[r] = pending[r]
      /\ \A a \in Runner : a # r => pending'[a] = pending[a] /\ leaving'[a] = leaving[a]
                                    /\ event'[a] = event[a] /\ poll'[a] = poll[a]
  BY <1>1, <1>2 DEF TypeOK
<1>4. TypeOK'
  <2>1. [k \in Slot |-> [poll[r][k] EXCEPT !.stale = poll[r][k].stale \/ poll[r][k].open]] \in [Slot -> PollState]
    <3>1. \A k \in Slot : poll[r][k] \in PollState
      BY <1>2 DEF TypeOK
    <3>2. \A k \in Slot : [poll[r][k] EXCEPT !.stale = poll[r][k].stale \/ poll[r][k].open] \in PollState
      BY <3>1 DEF PollState
    <3>3. QED
      BY <3>2
  <2>2. poll' \in [Runner -> [Slot -> PollState]]
    <3> DEFINE polls == [k \in Slot |-> [poll[r][k] EXCEPT !.stale = poll[r][k].stale \/ poll[r][k].open]]
    <3>1. poll' = [poll EXCEPT ![r] = polls]
      BY DEF Deregister
    <3>2. polls \in [Slot -> PollState] /\ poll \in [Runner -> [Slot -> PollState]]
      BY <1>2, <2>1 DEF TypeOK
    <3> HIDE DEF polls
    <3>3. QED
      BY <3>1, <3>2
  <2>3. QED
    BY <1>1, <1>2, <2>2, EmptyQueue DEF TypeOK
<1>5. NoLostWakeup'
  BY <1>1, <1>3 DEF RegistryInv, NoLostWakeup
<1>6. NothingForgotten'
  <2>1. \A i \in Item, a \in Runner :
          Queued(i, pending[a]) \/ Queued(i, leaving[a]) => Queued(i, pending'[a]) \/ Queued(i, leaving'[a])
    BY <1>1, <1>3, EmptyQueue DEF Queued
  <2>2. QED
    BY <1>1, <2>1 DEF RegistryInv, NothingForgotten
<1>7. QueuesApart' /\ QueuedOnce' /\ QueuedIsFree'
  <2>1. /\ Items(pending'[r]) = {} /\ Items(leaving'[r]) = Items(pending[r]) /\ Items(leaving[r]) = {}
        /\ OnceEach(pending'[r])
    BY <1>1, <1>3, EmptyQueue
  <2>2. QueuesApart'
    <3>1. \A a \in Runner : /\ Items(pending'[a]) \subseteq Items(pending[a])
                            /\ a # r => Items(leaving'[a]) = Items(leaving[a])
      BY <1>3, <2>1
    <3>2. ASSUME NEW a \in Runner, NEW b \in Runner, a # b
          PROVE  /\ Items(pending'[a]) \cap Items(pending'[b]) = {}
                 /\ Items(leaving'[a]) \cap Items(leaving'[b]) = {}
      BY <2>1, <3>1, <3>2 DEF RegistryInv, QueuesApart
    <3>3. ASSUME NEW a \in Runner, NEW b \in Runner
          PROVE  Items(pending'[a]) \cap Items(leaving'[b]) = {}
      BY <2>1, <3>1 DEF RegistryInv, QueuesApart
    <3>4. QED
      BY <3>2, <3>3 DEF QueuesApart
  <2>3. QueuedOnce'
    BY <1>3, <2>1 DEF RegistryInv, QueuedOnce
  <2>4. QueuedIsFree'
    BY <1>1, <1>3, <2>1 DEF RegistryInv, QueuedIsFree
  <2>5. QED
    BY <2>2, <2>3, <2>4
<1>8. NewIsFree'
  BY <1>1 DEF RegistryInv, NewIsFree
<1>9. QED
  BY <1>4, <1>5, <1>6, <1>7, <1>8 DEF RegistryInv

LEMMA EnqueueKeeps ==
  ASSUME RegistryInv, NEW i \in Item, NEW r \in Runner, Enqueue(i, r)
  PROVE  RegistryInv'
<1>1. /\ fut[i] = "new" /\ r \in registered /\ fut' = [fut EXCEPT ![i] = "waiting"]
      /\ known' = known \cup {i} /\ pending' = [pending EXCEPT ![r] = Append(@, i)]
      /\ SetEvents({r}) /\ UNCHANGED <<registered, holder, working, late, leaving, dropped>>
  BY DEF Enqueue, runnerVars
<1>2. TypeOK /\ pending[r] \in Seq(Item) /\ holder[i] = Nobody
  BY <1>1 DEF RegistryInv, TypeOK, NewIsFree
<1>3. /\ event' \in [Runner -> {"clear", "set"}] /\ poll' \in [Runner -> [Slot -> PollState]]
      /\ event'[r] = "set" /\ \A k \in Slot : poll'[r][k].open /\ ~poll'[r][k].stale => poll'[r][k].woken
      /\ \A a \in Runner : a # r => event'[a] = event[a] /\ poll'[a] = poll[a]
  BY <1>1, <1>2, EventsSet
<1>4. /\ pending'[r] \in Seq(Item) /\ Items(pending'[r]) = Items(pending[r]) \cup {i} /\ OnceEach(pending'[r])
      /\ \A a \in Runner : a # r => pending'[a] = pending[a]
      /\ \A a \in Runner : i \notin Items(pending[a]) /\ i \notin Items(leaving[a])
  <2>1. pending'[r] = Append(pending[r], i) /\ \A a \in Runner : a # r => pending'[a] = pending[a]
    BY <1>1, <1>2 DEF TypeOK
  <2>2. \A a \in Runner : i \notin Items(pending[a]) /\ i \notin Items(leaving[a])
    BY <1>1 DEF RegistryInv, QueuedIsFree
  <2>3. QED
    BY <1>2, <2>1, <2>2, AppendItem DEF RegistryInv, QueuedOnce
<1>5. fut'[i] = "waiting" /\ \A e \in Item : e # i => fut'[e] = fut[e]
  BY <1>1, <1>2 DEF TypeOK
<1>6. TypeOK'
  <2>1. pending' \in [Runner -> Seq(Item)]
    BY <1>1, <1>2, <1>4 DEF TypeOK
  <2>2. QED
    BY <1>1, <1>2, <1>3, <2>1 DEF TypeOK
<1>7. NoLostWakeup'
  BY <1>1, <1>3, <1>4 DEF RegistryInv, NoLostWakeup
<1>8. NothingForgotten'
  BY <1>1, <1>4, <1>5 DEF RegistryInv, NothingForgotten, Queued
<1>9. QueuesApart' /\ QueuedOnce'
  <2>1. QueuesApart'
    <3> SUFFICES ASSUME NEW a \in Runner, NEW b \in Runner
                 PROVE  /\ a # b => Items(pending'[a]) \cap Items(pending'[b]) = {}
                                    /\ Items(leaving'[a]) \cap Items(leaving'[b]) = {}
                        /\ Items(pending'[a]) \cap Items(leaving'[b]) = {}
      BY DEF QueuesApart
    <3>1. Items(pending'[a]) = Items(pending[a]) \cup (IF a = r THEN {i} ELSE {})
      BY <1>4
    <3>2. Items(pending'[b]) = Items(pending[b]) \cup (IF b = r THEN {i} ELSE {})
      BY <1>4
    <3>3. /\ a # b => Items(pending[a]) \cap Items(pending[b]) = {} /\ Items(leaving[a]) \cap Items(leaving[b]) = {}
          /\ Items(pending[a]) \cap Items(leaving[b]) = {}
      BY DEF RegistryInv, QueuesApart
    <3>4. i \notin Items(pending[a]) /\ i \notin Items(pending[b]) /\ i \notin Items(leaving[b]) /\ leaving' = leaving
      BY <1>1, <1>4
    <3>5. QED
      BY <3>1, <3>2, <3>3, <3>4
  <2>2. QueuedOnce'
    BY <1>1, <1>4 DEF RegistryInv, QueuedOnce
  <2>3. QED
    BY <2>1, <2>2
<1>10. QueuedIsFree' /\ NewIsFree'
  <2>1. \A a \in Runner : Items(pending[a]) \subseteq Item /\ Items(leaving[a]) \subseteq Item
    BY <1>2, QueueDomain DEF TypeOK
  <2>2. QED
    BY <1>1, <1>2, <1>4, <1>5, <2>1 DEF RegistryInv, QueuedIsFree, NewIsFree
<1>11. QED
  BY <1>6, <1>7, <1>8, <1>9, <1>10 DEF RegistryInv


\* what Reroute does, with the choices it makes: the items that move, where to,
\* and what is put behind each queue
RerouteEffect(r, moved, to, more) ==
  /\ \A i \in Item : i \in moved <=> i \in Items(leaving[r]) /\ Waits(i)
  /\ \A a \in Runner :
       /\ Items(more[a]) = {i \in moved : to[i] = a} /\ OnceEach(more[a])
       /\ Items(more[a]) = {} => more[a] = <<>>
  /\ pending' = [a \in Runner |-> pending[a] \o more[a]]
  /\ SetEvents({a \in Runner : Items(more[a]) # {}})
  /\ fut' = [i \in Item |-> IF i \in moved /\ to[i] = Nobody THEN "refused" ELSE fut[i]]
  /\ known' = known \ ((Items(leaving[r]) \ moved) \cup {i \in moved : to[i] = Nobody})
  /\ leaving' = [leaving EXCEPT ![r] = <<>>]
  /\ UNCHANGED <<registered, holder, working, late, dropped>>

LEMMA RerouteMoves ==
  ASSUME RegistryInv, NEW r \in Runner, Reroute(r)
  PROVE  \E moved \in SUBSET Item :
           \E to \in [moved -> Eligible], more \in [Runner -> Seq(Item)] : RerouteEffect(r, moved, to, more)
<1> DEFINE moved == {i \in Items(leaving[r]) : Waits(i)}
           For(to, a) == {i \in moved : to[i] = a}
<1>1. PICK to \in [moved -> Eligible], more \in [Runner -> UNION {InOrder(S, leaving[r]) : S \in SUBSET moved}] :
         /\ \A a \in Runner : more[a] \in InOrder(For(to, a), leaving[r])
         /\ pending' = [a \in Runner |-> pending[a] \o more[a]]
         /\ SetEvents({a \in Runner : For(to, a) # {}})
         /\ fut' = [i \in Item |-> IF i \in For(to, Nobody) THEN "refused" ELSE fut[i]]
         /\ known' = known \ ((Items(leaving[r]) \ moved) \cup For(to, Nobody))
  BY DEF Reroute, Forgets
<1>2. leaving' = [leaving EXCEPT ![r] = <<>>] /\ UNCHANGED <<registered, holder, working, late, dropped>>
  BY DEF Reroute, runnerVars
<1>3. moved \subseteq Item
  BY QueueDomain DEF RegistryInv, TypeOK
<1>4. ASSUME NEW a \in Runner
      PROVE  /\ Items(more[a]) = For(to, a) /\ OnceEach(more[a]) /\ more[a] \in Seq(Item)
             /\ For(to, a) = {} => more[a] = <<>>
  BY <1>1, <1>3, InOrderItems
<1>5. more \in [Runner -> Seq(Item)]
  BY <1>1, <1>4
<1>6. SetEvents({a \in Runner : Items(more[a]) # {}})
  <2>1. {a \in Runner : For(to, a) # {}} = {a \in Runner : Items(more[a]) # {}}
    BY <1>4
  <2>2. QED
    BY <1>1, <2>1
<1>7. fut' = [i \in Item |-> IF i \in moved /\ to[i] = Nobody THEN "refused" ELSE fut[i]]
  BY <1>1
<1>8. QED
  <2>1. /\ \A i \in Item : i \in moved <=> i \in Items(leaving[r]) /\ Waits(i)
    BY <1>3
  <2>2. RerouteEffect(r, moved, to, more)
    BY <1>1, <1>2, <1>4, <1>6, <1>7, <2>1 DEF RerouteEffect
  <2>3. moved \in SUBSET Item /\ more \in [Runner -> Seq(Item)] /\ to \in [moved -> Eligible]
    BY <1>1, <1>3, <1>5
  <2> HIDE DEF moved
  <2>4. QED
    BY <2>2, <2>3

LEMMA RerouteStep ==
  ASSUME RegistryInv, NEW r \in Runner, NEW moved \in SUBSET Item,
         NEW to \in [moved -> Eligible], NEW more \in [Runner -> Seq(Item)],
         RerouteEffect(r, moved, to, more)
  PROVE  RegistryInv'
<1> USE DEF RerouteEffect
<1>1. \A a \in Runner : pending'[a] = pending[a] \o more[a]
  OBVIOUS
<1>2. TypeOK /\ moved \subseteq Items(leaving[r]) /\ moved \subseteq Item /\ Items(leaving[r]) \subseteq Item
      /\ \A i \in Items(leaving[r]) : i \in moved <=> fut[i] = "waiting"
  BY QueueDomain DEF RegistryInv, TypeOK, Waits
<1>3. /\ event' \in [Runner -> {"clear", "set"}] /\ poll' \in [Runner -> [Slot -> PollState]]
      /\ \A a \in Runner : Items(more[a]) # {} =>
            event'[a] = "set" /\ \A k \in Slot : poll'[a][k].open /\ ~poll'[a][k].stale => poll'[a][k].woken
      /\ \A a \in Runner : Items(more[a]) = {} => event'[a] = event[a] /\ poll'[a] = poll[a]
  <2> DEFINE rs == {a \in Runner : Items(more[a]) # {}}
  <2>1. SetEvents(rs) /\ rs \in SUBSET Runner
    OBVIOUS
  <2>2. \A a \in Runner : a \in rs <=> Items(more[a]) # {}
    OBVIOUS
  <2> HIDE DEF rs
  <2>3. QED
    BY <1>2, <2>1, <2>2, EventsSet
<1>4. ASSUME NEW a \in Runner
      PROVE  /\ pending'[a] \in Seq(Item) /\ OnceEach(pending'[a])
             /\ Items(pending'[a]) = Items(pending[a]) \cup Items(more[a])
             /\ Items(more[a]) = {} => pending'[a] = pending[a]
             /\ Items(more[a]) \subseteq moved
  <2>1. pending[a] \in Seq(Item) /\ more[a] \in Seq(Item) /\ pending'[a] = pending[a] \o more[a]
    BY <1>1, <1>2 DEF TypeOK
  <2>2. OnceEach(pending[a]) /\ OnceEach(more[a]) /\ Items(more[a]) \subseteq moved
    BY DEF RegistryInv, QueuedOnce
  <2>3. Items(pending[a]) \cap Items(more[a]) = {}
    BY <1>2, <2>2 DEF RegistryInv, QueuesApart
  <2>4. Items(more[a]) = {} => pending[a] \o more[a] = pending[a]
    BY <2>1, ConcatEmptySeq
  <2>5. QED
    BY <2>1, <2>2, <2>3, <2>4, JoinedQueues
<1>5. leaving'[r] = <<>> /\ \A a \in Runner : a # r => leaving'[a] = leaving[a]
  BY <1>2 DEF TypeOK
<1>6. Items(leaving'[r]) = {} /\ OnceEach(leaving'[r]) /\ leaving'[r] \in Seq(Item)
  BY <1>5, EmptyQueue
<1>7. TypeOK'
  <2>1. pending' \in [Runner -> Seq(Item)]
    BY <1>4
  <2>2. leaving' \in [Runner -> Seq(Item)]
    BY <1>2, <1>6 DEF TypeOK
  <2>3. QED
    BY <1>2, <1>3, <2>1, <2>2 DEF TypeOK
<1>8. NoLostWakeup'
  <2> SUFFICES ASSUME NEW a \in Runner, pending'[a] # <<>>
               PROVE  /\ a \in registered /\ event'[a] = "set"
                      /\ \A k \in Slot : poll'[a][k].open /\ ~poll'[a][k].stale => poll'[a][k].woken
    BY DEF NoLostWakeup
  <2>1. CASE Items(more[a]) = {}
    BY <1>3, <1>4, <2>1 DEF RegistryInv, NoLostWakeup
  <2>2. CASE Items(more[a]) # {}
    <3>1. PICK i \in moved : to[i] = a
      BY <2>2
    <3>2. a \in registered
      BY <3>1, RegistryAssumption DEF Eligible
    <3>3. QED
      BY <1>3, <2>2, <3>2
  <2>3. QED
    BY <2>1, <2>2
<1>9. NothingForgotten'
  <2> SUFFICES ASSUME NEW i \in Item, fut'[i] = "waiting"
               PROVE  /\ i \in known'
                      /\ \/ holder'[i] # Nobody
                         \/ \E a \in Runner : Queued(i, pending'[a]) \/ Queued(i, leaving'[a])
                         \/ i \in dropped
    BY DEF NothingForgotten
  <2>1. fut[i] = "waiting" /\ ~(i \in moved /\ to[i] = Nobody)
    OBVIOUS
  <2>2. /\ i \in known
        /\ \/ holder[i] # Nobody \/ i \in dropped
           \/ \E a \in Runner : Queued(i, pending[a]) \/ Queued(i, leaving[a])
    BY <2>1 DEF RegistryInv, NothingForgotten
  <2>3. i \in known'
    BY <1>2, <2>1, <2>2
  <2>4. ASSUME NEW a \in Runner, Queued(i, pending[a])
        PROVE  Queued(i, pending'[a])
    BY <1>4, <2>4 DEF Queued
  <2>5. ASSUME NEW a \in Runner, Queued(i, leaving[a]), a # r
        PROVE  Queued(i, leaving'[a])
    BY <1>5, <2>5 DEF Queued
  <2>6. ASSUME Queued(i, leaving[r])
        PROVE  \E a \in Runner : Queued(i, pending'[a])
    <3>1. i \in moved /\ to[i] # Nobody
      BY <1>2, <2>1, <2>6 DEF Queued
    <3>2. to[i] \in Runner
      BY <1>2, <3>1 DEF Eligible, TypeOK
    <3>3. i \in Items(more[to[i]])
      BY <3>1, <3>2
    <3>4. QED
      BY <1>4, <3>2, <3>3 DEF Queued
  <2>7. QED
    BY <2>2, <2>3, <2>4, <2>5, <2>6
<1>10. QueuesApart'
  <2> SUFFICES ASSUME NEW a \in Runner, NEW b \in Runner
               PROVE  /\ a # b => Items(pending'[a]) \cap Items(pending'[b]) = {}
                                  /\ Items(leaving'[a]) \cap Items(leaving'[b]) = {}
                      /\ Items(pending'[a]) \cap Items(leaving'[b]) = {}
    BY DEF QueuesApart
  <2>1. /\ Items(pending'[a]) = Items(pending[a]) \cup Items(more[a])
        /\ Items(pending'[b]) = Items(pending[b]) \cup Items(more[b])
        /\ Items(more[a]) \subseteq Items(leaving[r]) /\ Items(more[b]) \subseteq Items(leaving[r])
    BY <1>2, <1>4
  <2>2. a # b => Items(more[a]) \cap Items(more[b]) = {}
    OBVIOUS
  <2>3. ASSUME NEW c \in Runner
        PROVE  /\ Items(leaving'[c]) \subseteq Items(leaving[c])
               /\ c = r => Items(leaving'[c]) = {}
    BY <1>5, <1>6
  <2>4. /\ a # b => Items(pending[a]) \cap Items(pending[b]) = {} /\ Items(leaving[a]) \cap Items(leaving[b]) = {}
        /\ Items(pending[a]) \cap Items(leaving[b]) = {} /\ Items(pending[a]) \cap Items(leaving[r]) = {}
        /\ Items(pending[b]) \cap Items(leaving[r]) = {}
        /\ b # r => Items(leaving[b]) \cap Items(leaving[r]) = {}
    BY DEF RegistryInv, QueuesApart
  <2>5. a # b => Items(pending'[a]) \cap Items(pending'[b]) = {}
    BY <2>1, <2>2, <2>4
  <2>6. a # b => Items(leaving'[a]) \cap Items(leaving'[b]) = {}
    BY <2>3, <2>4
  <2>7. Items(pending'[a]) \cap Items(leaving'[b]) = {}
    <3>1. CASE b = r
      BY <2>3, <3>1
    <3>2. CASE b # r
      BY <2>1, <2>3, <2>4, <3>2
    <3>3. QED
      BY <3>1, <3>2
  <2>8. QED
    BY <2>5, <2>6, <2>7
<1>11. QueuedOnce'
  BY <1>4, <1>5, <1>6 DEF RegistryInv, QueuedOnce
<1>12. ASSUME NEW i \in Item PROVE (fut'[i] = "new" => fut[i] = "new") /\ holder'[i] = holder[i]
  OBVIOUS
<1>13. QueuedIsFree'
  <2> SUFFICES ASSUME NEW a \in Runner, NEW i \in Items(pending'[a]) \cup Items(leaving'[a])
               PROVE  fut'[i] # "new" /\ holder'[i] = Nobody
    BY DEF QueuedIsFree
  <2>1. \E b \in Runner : i \in Items(pending[b]) \cup Items(leaving[b])
    BY <1>2, <1>4, <1>5, <1>6
  <2>2. i \in Item
    BY <1>2, <2>1, QueueDomain DEF TypeOK
  <2>3. QED
    BY <1>12, <2>1, <2>2 DEF RegistryInv, QueuedIsFree
<1>14. NewIsFree'
  BY <1>12 DEF RegistryInv, NewIsFree
<1>15. QED
  BY <1>7, <1>8, <1>9, <1>10, <1>11, <1>13, <1>14 DEF RegistryInv

LEMMA RerouteKeeps ==
  ASSUME RegistryInv, NEW r \in Runner, Reroute(r)
  PROVE  RegistryInv'
  BY RerouteMoves, RerouteStep

\* what the failed call drops was in the hands of the deregister
LEMMA DeregisterFailsKeeps ==
  ASSUME RegistryInv, NEW r \in Runner, DeregisterFails(r)
  PROVE  RegistryInv'
<1>1. /\ dropped' = dropped \cup Items(leaving[r]) /\ leaving' = [leaving EXCEPT ![r] = <<>>]
      /\ UNCHANGED <<registered, pending, event, known, fut, holder, working, late, poll>>
  BY DEF DeregisterFails, callVars, runnerVars
<1>2. TypeOK /\ Items(leaving[r]) \subseteq Item
  BY QueueDomain DEF RegistryInv, TypeOK
<1>3. leaving'[r] = <<>> /\ \A a \in Runner : a # r => leaving'[a] = leaving[a]
  BY <1>1, <1>2 DEF TypeOK
<1>4. Items(leaving'[r]) = {} /\ OnceEach(leaving'[r]) /\ leaving'[r] \in Seq(Item)
  BY <1>3, EmptyQueue
<1>5. TypeOK'
  <2>1. leaving' \in [Runner -> Seq(Item)]
    BY <1>1, <1>2, <1>4 DEF TypeOK
  <2>2. QED
    BY <1>1, <1>2, <2>1 DEF TypeOK
<1>6. NoLostWakeup' /\ NewIsFree'
  BY <1>1 DEF RegistryInv, NoLostWakeup, NewIsFree
<1>7. NothingForgotten'
  BY <1>1, <1>3 DEF RegistryInv, NothingForgotten, Queued
<1>8. QueuesApart' /\ QueuedOnce' /\ QueuedIsFree'
  <2>1. \A a \in Runner : Items(leaving'[a]) \subseteq Items(leaving[a]) /\ OnceEach(leaving'[a])
    BY <1>3, <1>4 DEF RegistryInv, QueuedOnce
  <2>2. QED
    BY <1>1, <2>1 DEF RegistryInv, QueuesApart, QueuedOnce, QueuedIsFree
<1>9. QED
  BY <1>5, <1>6, <1>7, <1>8 DEF RegistryInv

\* A step that leaves the queues and the polls alone and makes no item new keeps
\* the invariant if whatever is still waited for stays where it was.
LEMMA CallersKeep ==
  ASSUME RegistryInv, UNCHANGED <<registered, pending, event, holder, poll, leaving, dropped>>,
         known' \subseteq known, working' \subseteq working, late' \subseteq Item,
         fut' \in [Item -> {"new", "waiting", "timeout", "refused", "ok", "failed"}],
         \A i \in Item : /\ fut'[i] = "new" <=> fut[i] = "new"
                         /\ fut'[i] = "waiting" => fut[i] = "waiting" /\ (i \in known => i \in known')
  PROVE  RegistryInv'
<1>1. TypeOK'
  BY DEF RegistryInv, TypeOK
<1>2. \A r \in Runner : Items(pending[r]) \subseteq Item /\ Items(leaving[r]) \subseteq Item
  BY QueueDomain DEF RegistryInv, TypeOK
<1>3. NoLostWakeup' /\ QueuesApart' /\ QueuedOnce'
  BY DEF RegistryInv, NoLostWakeup, QueuesApart, QueuedOnce
<1>4. NothingForgotten'
  BY DEF RegistryInv, NothingForgotten, Queued
<1>5. QueuedIsFree' /\ NewIsFree'
  BY <1>2 DEF RegistryInv, QueuedIsFree, NewIsFree
<1>6. QED
  BY <1>1, <1>3, <1>4, <1>5 DEF RegistryInv

LEMMA TimeoutKeeps ==
  ASSUME RegistryInv, NEW i \in Item, Timeout(i) \/ GiveUp(i)
  PROVE  RegistryInv'
<1>1. TypeOK
  BY DEF RegistryInv
<1>2. CASE Timeout(i)
  BY <1>1, <1>2, CallersKeep DEF Timeout, TypeOK, runnerVars
<1>3. CASE GiveUp(i)
  BY <1>1, <1>3, CallersKeep DEF GiveUp, TypeOK, runnerVars
<1>4. QED
  BY <1>2, <1>3

LEMMA ResultKeeps ==
  ASSUME RegistryInv, NEW i \in Item, ResultDropped(i) \/ ResultArrives(i) \/ WorkLost(i)
  PROVE  RegistryInv'
<1>1. TypeOK
  BY DEF RegistryInv
<1>2. CASE ResultDropped(i) \/ WorkLost(i)
  BY <1>1, <1>2, CallersKeep DEF ResultDropped, WorkLost, TypeOK, callVars
<1>3. CASE ResultArrives(i)
  <2>1. /\ known' = known \ {i} /\ working' = working \ {i}
        /\ UNCHANGED <<registered, pending, event, holder, poll, leaving, dropped>>
    BY <1>3 DEF ResultArrives
  <2>2. CASE Deliverable(i)
    <3>1. PICK a \in {"ok", "failed"} : fut' = [fut EXCEPT ![i] = a]
      BY <1>3, <2>2 DEF ResultArrives
    <3>2. fut[i] = "waiting" /\ late' = late
      BY <1>3, <2>2 DEF ResultArrives, Deliverable
    <3>3. QED
      BY <1>1, <2>1, <3>1, <3>2, CallersKeep DEF TypeOK
  <2>3. CASE ~Deliverable(i)
    <3>1. fut[i] # "waiting"
      BY <2>3 DEF RegistryInv, NothingForgotten, Deliverable
    <3>2. fut' = fut /\ late' = late \cup {i}
      BY <1>3, <2>3 DEF ResultArrives
    <3>3. QED
      BY <1>1, <2>1, <3>1, <3>2, CallersKeep DEF TypeOK
  <2>4. QED
    BY <2>2, <2>3
<1>4. QED
  BY <1>2, <1>3

\* a poll that opens or closes without taking anything
LEMMA QuietPollKeeps ==
  ASSUME RegistryInv, NEW r \in Runner, NEW k \in Slot,
         BeginPoll(r, k) \/ PollFindsNothing(r, k) \/ PollTimesOut(r, k)
  PROVE  RegistryInv'
<1>1. PICK s \in PollState : poll' = [poll EXCEPT ![r][k] = s]
  BY DEF BeginPoll, PollFindsNothing, PollTimesOut, PollState, NoPoll
<1>2. s = NoPoll \/ s.woken = (event[r] = "set")
  <2>1. /\ BeginPoll(r, k) => poll' = [poll EXCEPT ![r][k] = [open |-> TRUE, stale |-> FALSE, woken |-> event[r] = "set"]]
        /\ ~BeginPoll(r, k) => poll' = [poll EXCEPT ![r][k] = NoPoll]
    BY DEF BeginPoll, PollFindsNothing, PollTimesOut
  <2>2. poll'[r][k] = s /\ (BeginPoll(r, k) => poll'[r][k].woken = (event[r] = "set")) /\ (~BeginPoll(r, k) => poll'[r][k] = NoPoll)
    BY <1>1, <2>1 DEF RegistryInv, TypeOK
  <2>3. QED
    BY <2>2
<1>3. /\ UNCHANGED <<registered, pending, callVars, runnerVars, leaving, dropped>>
      /\ event' \in [Runner -> {"clear", "set"}]
      /\ \A a \in Runner : pending[a] # <<>> => event'[a] = event[a]
  BY DEF RegistryInv, TypeOK, BeginPoll, PollFindsNothing, PollTimesOut, Clear
<1>4. poll' \in [Runner -> [Slot -> PollState]]
      /\ \A a \in Runner, j \in Slot : poll'[a][j] = IF a = r /\ j = k THEN s ELSE poll[a][j]
  BY <1>1 DEF RegistryInv, TypeOK
<1>5. TypeOK'
  BY <1>3, <1>4 DEF RegistryInv, TypeOK, callVars, runnerVars
<1>6. NoLostWakeup'
  <2> SUFFICES ASSUME NEW a \in Runner, pending[a] # <<>>
               PROVE  /\ a \in registered /\ event'[a] = "set"
                      /\ \A j \in Slot : poll'[a][j].open /\ ~poll'[a][j].stale => poll'[a][j].woken
    BY <1>3 DEF NoLostWakeup
  <2>1. /\ a \in registered /\ event[a] = "set" /\ event'[a] = event[a]
        /\ \A j \in Slot : poll[a][j].open /\ ~poll[a][j].stale => poll[a][j].woken
    BY <1>3 DEF RegistryInv, NoLostWakeup
  <2>2. a = r => ~s.open \/ s.woken
    <3>1. ~NoPoll.open
      BY DEF NoPoll
    <3>2. a = r => event[r] = "set"
      BY <2>1
    <3>3. QED
      BY <1>2, <3>1, <3>2
  <2>3. QED
    BY <1>4, <2>1, <2>2
<1>7. NothingForgotten' /\ QueuesApart' /\ QueuedOnce' /\ QueuedIsFree' /\ NewIsFree'
  <2>1. UNCHANGED <<pending, leaving, dropped, fut, holder, known>>
    BY <1>3 DEF callVars, runnerVars
  <2>2. NothingForgotten'
    BY <2>1 DEF RegistryInv, NothingForgotten, Queued
  <2>3. QueuesApart' /\ QueuedOnce'
    BY <2>1 DEF RegistryInv, QueuesApart, QueuedOnce
  <2>4. QueuedIsFree' /\ NewIsFree'
    BY <2>1 DEF RegistryInv, QueuedIsFree, NewIsFree
  <2>5. QED
    BY <2>2, <2>3, <2>4
<1>8. QED
  BY <1>5, <1>6, <1>7 DEF RegistryInv

LEMMA PollTakesKeeps ==
  ASSUME RegistryInv, NEW r \in Runner, NEW k \in Slot, PollTakes(r, k)
  PROVE  RegistryInv'
<1> DEFINE i == Head(pending[r])
<1>1. /\ pending[r] # <<>> /\ holder' = [holder EXCEPT ![i] = r] /\ working' \in {working, working \cup {i}}
      /\ pending' = [pending EXCEPT ![r] = Tail(@)]
      /\ event' = [event EXCEPT ![r] = IF Tail(pending[r]) = <<>> /\ ~poll[r][k].stale THEN "clear" ELSE @]
      /\ poll' = [poll EXCEPT ![r][k] = NoPoll] /\ UNCHANGED <<registered, known, fut, late, leaving, dropped>>
  BY DEF PollTakes, Clear, ClearWhen, callVars
<1>2. TypeOK /\ pending[r] \in Seq(Item)
  BY DEF RegistryInv, TypeOK
<1>3. /\ Tail(pending[r]) \in Seq(Item) /\ i \in Item /\ i \in Items(pending[r])
      /\ Items(pending[r]) = Items(Tail(pending[r])) \cup {i}
      /\ OnceEach(Tail(pending[r])) /\ i \notin Items(Tail(pending[r]))
  BY <1>1, <1>2, TailItem DEF RegistryInv, QueuedOnce
<1> HIDE DEF i
<1>4. pending'[r] = Tail(pending[r]) /\ \A a \in Runner : a # r => pending'[a] = pending[a]
  BY <1>1, <1>2 DEF TypeOK
<1>5. holder'[i] = r /\ \A e \in Item : e # i => holder'[e] = holder[e]
  BY <1>1, <1>2, <1>3 DEF TypeOK
<1>6. \A a \in Runner, j \in Slot : poll'[a][j] = IF a = r /\ j = k THEN NoPoll ELSE poll[a][j]
  BY <1>1, <1>2 DEF TypeOK
<1>7. TypeOK'
  <2>1. pending' \in [Runner -> Seq(Item)]
    BY <1>1, <1>2, <1>3 DEF TypeOK
  <2>2. poll' \in [Runner -> [Slot -> PollState]]
    BY <1>1, <1>2 DEF TypeOK, PollState, NoPoll
  <2>3. event' \in [Runner -> {"clear", "set"}]
    BY <1>1, <1>2 DEF TypeOK
  <2>4. holder' \in [Item -> Runner \cup {Nobody}]
    BY <1>1, <1>2 DEF TypeOK
  <2>5. QED
    BY <1>1, <1>2, <1>3, <2>1, <2>2, <2>3, <2>4 DEF TypeOK
<1>8. NoLostWakeup'
  <2> SUFFICES ASSUME NEW a \in Runner, pending'[a] # <<>>
               PROVE  /\ a \in registered /\ event'[a] = "set"
                      /\ \A j \in Slot : poll'[a][j].open /\ ~poll'[a][j].stale => poll'[a][j].woken
    BY <1>1 DEF NoLostWakeup
  <2>1. pending[a] # <<>> /\ event'[a] = event[a]
    BY <1>1, <1>2, <1>4 DEF TypeOK
  <2>2. QED
    BY <1>6, <2>1 DEF RegistryInv, NoLostWakeup, NoPoll
<1>9. NothingForgotten'
  <2> SUFFICES ASSUME NEW e \in Item, fut[e] = "waiting"
               PROVE  /\ e \in known
                      /\ \/ holder'[e] # Nobody
                         \/ \E a \in Runner : Queued(e, pending'[a]) \/ Queued(e, leaving[a])
                         \/ e \in dropped
    BY <1>1 DEF NothingForgotten
  <2>1. CASE e = i
    BY <1>5, <2>1, RegistryAssumption DEF RegistryInv, NothingForgotten
  <2>2. CASE e # i
    <3>1. \A a \in Runner : Queued(e, pending[a]) => Queued(e, pending'[a])
      BY <1>3, <1>4, <2>2 DEF Queued
    <3>2. QED
      BY <1>5, <2>2, <3>1 DEF RegistryInv, NothingForgotten
  <2>3. QED
    BY <2>1, <2>2
<1>10. /\ \A a \in Runner : Items(pending'[a]) \subseteq Items(pending[a]) /\ OnceEach(pending'[a])
       /\ \A a \in Runner : i \notin Items(pending'[a]) /\ i \notin Items(leaving[a])
  BY <1>3, <1>4 DEF RegistryInv, QueuesApart, QueuedOnce
<1>11. QueuesApart' /\ QueuedOnce'
  <2>1. QueuesApart'
    <3> SUFFICES ASSUME NEW a \in Runner, NEW b \in Runner
                 PROVE  /\ a # b => Items(pending'[a]) \cap Items(pending'[b]) = {}
                        /\ a # b => Items(leaving[a]) \cap Items(leaving[b]) = {}
                        /\ Items(pending'[a]) \cap Items(leaving[b]) = {}
      BY <1>1 DEF QueuesApart
    <3>1. Items(pending'[a]) \subseteq Items(pending[a]) /\ Items(pending'[b]) \subseteq Items(pending[b])
      BY <1>10
    <3>2. QED
      BY <3>1 DEF RegistryInv, QueuesApart
  <2>2. QueuedOnce'
    BY <1>1, <1>10 DEF RegistryInv, QueuedOnce
  <2>3. QED
    BY <2>1, <2>2
<1>12. QueuedIsFree' /\ NewIsFree'
  <2>1. \A a \in Runner : Items(pending[a]) \subseteq Item /\ Items(leaving[a]) \subseteq Item
    BY <1>2, QueueDomain DEF TypeOK
  <2>2. QueuedIsFree'
    <3> SUFFICES ASSUME NEW a \in Runner, NEW e \in Items(pending'[a]) \cup Items(leaving[a])
                 PROVE  fut[e] # "new" /\ holder'[e] = Nobody
      BY <1>1 DEF QueuedIsFree
    <3>1. e # i /\ e \in Items(pending[a]) \cup Items(leaving[a])
      BY <1>10
    <3>2. fut[e] # "new" /\ holder[e] = Nobody /\ e \in Item
      BY <2>1, <3>1 DEF RegistryInv, QueuedIsFree
    <3>3. QED
      BY <1>5, <3>1, <3>2
  <2>3. fut[i] # "new"
    BY <1>3 DEF RegistryInv, QueuedIsFree
  <2>4. NewIsFree'
    BY <1>1, <1>5, <2>3 DEF RegistryInv, NewIsFree
  <2>5. QED
    BY <2>2, <2>4
<1>13. QED
  BY <1>7, <1>8, <1>9, <1>11, <1>12 DEF RegistryInv

LEMMA RegistryNextKeeps == RegistryInv /\ [Next]_vars => RegistryInv'
<1>1. CASE UNCHANGED vars
  BY <1>1 DEF vars, callVars, runnerVars, RegistryInv, TypeOK, NoLostWakeup, NothingForgotten,
              QueuesApart, QueuedOnce, QueuedIsFree, NewIsFree, Queued
<1>2. ASSUME RegistryInv, Next PROVE RegistryInv'
  BY <1>2, RegisterKeeps, DeregisterKeeps, DeregisterFailsKeeps, RerouteKeeps, EnqueueKeeps, TimeoutKeeps, ResultKeeps,
     QuietPollKeeps, PollTakesKeeps DEF Next, PollNext
<1>3. QED
  BY <1>1, <1>2

(* The registry's tables have their types, an item that is handed out is seen *)
(* by a poll that waits, and none is forgotten while its caller waits, except *)
(* what a deregister held when its database call failed.                      *)
THEOREM ItemsDoReachRunners == Spec => [](TypeOK /\ ItemsReachRunners)
<1>1. RegistryInv => TypeOK /\ ItemsReachRunners
  BY DEF RegistryInv, ItemsReachRunners
<1>2. QED
  BY <1>1, InitRegistryInv, RegistryNextKeeps, PTL DEF Spec

-----------------------------------------------------------------------------
(* The registry keeps the hand-off it promises *)

LEMMA InitHandsOff == Init => Handoff!HandoffInit
  BY DEF Init, Handoff!HandoffInit

LEMMA CallsHandOff ==
  ASSUME RegistryInv, NEW i \in Item, (\E r \in Runner : Enqueue(i, r)) \/ Timeout(i) \/ GiveUp(i)
  PROVE  Handoff!Ask(i) \/ Handoff!CallerGivesUp(i) \/ UNCHANGED Handoff!handoffVars
  BY DEF Enqueue, Timeout, GiveUp, runnerVars, Handoff!Ask, Handoff!CallerGivesUp, Handoff!handoffVars

LEMMA ResultsHandOff ==
  ASSUME RegistryInv, NEW i \in Item, ResultDropped(i) \/ ResultArrives(i) \/ WorkLost(i)
  PROVE  Handoff!RunnerAnswers(i) \/ UNCHANGED Handoff!handoffVars
<1>1. CASE ResultDropped(i) \/ WorkLost(i)
  BY <1>1 DEF ResultDropped, WorkLost, callVars, Handoff!handoffVars
<1>2. CASE ResultArrives(i) /\ Deliverable(i)
  <2>1. holder[i] # Nobody /\ fut[i] = "waiting"
    BY <1>2, RegistryAssumption DEF ResultArrives, Deliverable, RegistryInv, TypeOK
  <2>2. QED
    BY <1>2, <2>1 DEF ResultArrives, Handoff!RunnerAnswers
<1>3. CASE ResultArrives(i) /\ ~Deliverable(i)
  BY <1>3 DEF ResultArrives, Handoff!handoffVars
<1>4. QED
  BY <1>1, <1>2, <1>3

\* a poll hands out what nobody holds yet and some caller has asked for
LEMMA PollsHandOff ==
  ASSUME RegistryInv, NEW r \in Runner, NEW k \in Slot, PollNext(r, k)
  PROVE  (\E i \in Item : Handoff!Hand(i)) \/ UNCHANGED Handoff!handoffVars
<1>1. CASE PollTakes(r, k)
  <2> DEFINE i == Head(pending[r])
  <2>1. pending[r] \in Seq(Item) /\ pending[r] # <<>>
    BY <1>1 DEF PollTakes, RegistryInv, TypeOK
  <2>2. i \in Item /\ fut[i] # "new" /\ holder[i] = Nobody
    BY <2>1, TailItem DEF RegistryInv, QueuedIsFree
  <2>3. holder' = [holder EXCEPT ![i] = r] /\ fut' = fut
    BY <1>1 DEF PollTakes, callVars
  <2> HIDE DEF i
  <2>4. QED
    BY <2>2, <2>3 DEF Handoff!Hand
<1>2. CASE BeginPoll(r, k) \/ PollFindsNothing(r, k) \/ PollTimesOut(r, k)
  BY <1>2 DEF BeginPoll, PollFindsNothing, PollTimesOut, callVars, runnerVars, Handoff!handoffVars
<1>3. QED
  BY <1>1, <1>2 DEF PollNext

\* the removal of a runner refuses items that wait and that nobody holds
LEMMA RerouteHandsOff ==
  ASSUME RegistryInv, NEW r \in Runner, Reroute(r)
  PROVE  Handoff!RegistryRefuses
<1>1. PICK moved \in SUBSET Item :
         \E to \in [moved -> Eligible], more \in [Runner -> Seq(Item)] : RerouteEffect(r, moved, to, more)
  BY RerouteMoves
<1>2. PICK to \in [moved -> Eligible], more \in [Runner -> Seq(Item)] : RerouteEffect(r, moved, to, more)
  BY <1>1
<1> DEFINE gone == {i \in moved : to[i] = Nobody}
<1>3. /\ \A i \in moved : i \in Items(leaving[r]) /\ fut[i] = "waiting"
      /\ fut' = [i \in Item |-> IF i \in moved /\ to[i] = Nobody THEN "refused" ELSE fut[i]]
      /\ holder' = holder
  BY <1>2 DEF RerouteEffect, Waits
<1>4. fut' = [i \in Item |-> IF i \in gone THEN "refused" ELSE fut[i]]
  BY <1>3
<1>5. gone \in SUBSET {i \in Item : fut[i] = "waiting" /\ holder[i] = Nobody}
  BY <1>3 DEF RegistryInv, QueuedIsFree
<1> HIDE DEF gone
<1>6. QED
  BY <1>3, <1>4, <1>5 DEF Handoff!RegistryRefuses

(* A work item is handed to at most one runner, its caller gets one answer,  *)
(* which is that runner's unless the caller gave up or the item was refused  *)
(* while nobody held it: the registry implements WorkHandoff.                *)
THEOREM RegistryImplementsHandoff == Spec => ImplementsHandoff
<1>1. RegistryInv /\ [Next]_vars => [Handoff!HandoffNext]_(Handoff!handoffVars)
  <2>1. CASE UNCHANGED vars
    BY <2>1 DEF vars, callVars, runnerVars, Handoff!handoffVars
  <2>2. ASSUME RegistryInv, NEW r \in Runner, Register(r) \/ Deregister(r) \/ DeregisterFails(r)
        PROVE  UNCHANGED Handoff!handoffVars
    BY <2>2 DEF Register, Deregister, DeregisterFails, callVars, runnerVars, Handoff!handoffVars
  <2>3. ASSUME RegistryInv, Next PROVE Handoff!HandoffNext \/ UNCHANGED Handoff!handoffVars
    BY <2>2, <2>3, CallsHandOff, ResultsHandOff, PollsHandOff, RerouteHandsOff DEF Next, Handoff!HandoffNext
  <2>4. QED
    BY <2>1, <2>3
<1>2. QED
  BY <1>1, InitRegistryInv, RegistryNextKeeps, InitHandsOff, PTL DEF Spec, ImplementsHandoff, Handoff!HandoffSpec

-----------------------------------------------------------------------------
(***************************************************************************)
(* The commands of the daemon                                              *)
(***************************************************************************)

CommandState ==
    [pc : {"idle", "reading", "judging", "clearing", "launching", "settling", "writing",
           "terminating", "waiting", "killing", "done"},
     cmd : {"none", "start", "stop", "restart"}, saw : Pid \cup {NoFile, Empty}]

Live(p) == process[p] \in {"booting", "serving", "stopping"}

\* what a command under way knows of a live daemon p, or takes for granted
CommandKnows(c, p) ==
    /\ cli[c].pc = "reading" => file = p
    /\ cli[c].pc = "judging" => file = p /\ cli[c].saw = p
    /\ cli[c].pc \in {"settling", "writing", "terminating", "waiting"} => cli[c].saw = p
    /\ cli[c].pc \notin {"clearing", "launching", "killing"}

\* one command at a time, which follows the one live daemon
Followed ==
    /\ \A c, d \in Cli : CommandUnderWay(c) /\ CommandUnderWay(d) => c = d
    /\ \A p \in Pid : Live(p) =>
          /\ (\A c \in Cli : ~CommandUnderWay(c)) => file = p
          /\ \A c \in Cli : CommandKnows(c, p)

DaemonInv == DaemonTypeOK /\ (~disturbed => Followed)

LEMMA InitDaemonInv == DaemonInit => DaemonInv
<1> SUFFICES ASSUME DaemonInit PROVE DaemonInv
  OBVIOUS
<1>1. NoCommand \in CommandState /\ NoCommand.pc = "idle"
  BY DEF NoCommand, CommandState
<1>2. DaemonTypeOK
  <2>1. cli \in [Cli -> CommandState] /\ launched \in 0..MaxPid
    BY <1>1, DaemonAssumption DEF DaemonInit
  <2>2. process \in [Pid -> {"none", "booting", "serving", "stopping", "killed", "gone"}]
    BY DEF DaemonInit
  <2>3. QED
    BY <2>1, <2>2 DEF DaemonInit, DaemonTypeOK, CommandState
<1>3. \A c \in Cli : ~CommandUnderWay(c)
  BY <1>1 DEF DaemonInit, CommandUnderWay
<1>4. \A p \in Pid : ~Live(p)
  BY DEF DaemonInit, Live
<1>5. QED
  BY <1>2, <1>3, <1>4 DEF DaemonInv, Followed

\* the command that is under way goes on
LEMMA CommandMoves ==
  ASSUME DaemonInv, NEW c \in Cli, CommandUnderWay(c), NEW x \in CommandState,
         cli' = [cli EXCEPT ![c] = x], x.pc # "idle",
         file' \in Pid \cup {NoFile, Empty}, launched' \in 0..MaxPid,
         process' \in [Pid -> {"none", "booting", "serving", "stopping", "killed", "gone"}],
         disturbed' \in BOOLEAN, disturbed => disturbed',
         Followed => \A p \in Pid : Live(p)' => (x.pc = "done" => file' = p) /\ CommandKnows(c, p)'
  PROVE  DaemonInv'
<1>1. cli' \in [Cli -> CommandState] /\ cli'[c] = x /\ \A d \in Cli : d # c => cli'[d] = cli[d]
  BY DEF DaemonInv, DaemonTypeOK, CommandState
<1>2. DaemonTypeOK'
  BY <1>1 DEF DaemonTypeOK, CommandState
<1>3. ASSUME ~disturbed' PROVE Followed'
  <2>1. Followed
    BY <1>3 DEF DaemonInv
  <2>2. \A d \in Cli : d # c => ~CommandUnderWay(d) /\ ~CommandUnderWay(d)'
    BY <1>1, <2>1 DEF Followed, CommandUnderWay
  <2>3. ASSUME NEW p \in Pid, Live(p)' PROVE \A d \in Cli : CommandKnows(d, p)'
    <3>1. CommandKnows(c, p)'
      BY <2>1, <2>3
    <3>2. ASSUME NEW d \in Cli, d # c PROVE CommandKnows(d, p)'
      BY <2>2, <3>2 DEF CommandUnderWay, CommandKnows
    <3>3. QED
      BY <3>1, <3>2
  <2>4. ASSUME NEW p \in Pid, Live(p)', \A d \in Cli : ~CommandUnderWay(d)' PROVE file' = p
    <3>1. x.pc = "done"
      BY <1>1, <2>4 DEF CommandUnderWay
    <3>2. QED
      BY <2>1, <2>4, <3>1
  <2>5. QED
    BY <2>2, <2>3, <2>4 DEF Followed
<1>4. QED
  BY <1>2, <1>3 DEF DaemonInv

\* as it does when it only moves on
LEMMA CommandGone ==
  ASSUME DaemonInv, NEW c \in Cli, NEW place \in {"reading", "judging", "clearing", "launching", "settling",
                                               "writing", "terminating", "waiting", "killing", "done"},
         CommandGoes(c, place)
  PROVE  \E x \in CommandState : /\ cli' = [cli EXCEPT ![c] = x] /\ x.pc = place /\ cli'[c] = x
                                 /\ x.saw = cli[c].saw
<1>1. cli[c] \in CommandState /\ cli \in [Cli -> CommandState]
  BY DEF DaemonInv, DaemonTypeOK, CommandState
<1>2. PICK x \in CommandState : x = [cli[c] EXCEPT !.pc = place]
  BY <1>1 DEF CommandState
<1>3. cli' = [cli EXCEPT ![c] = x] /\ x.pc = place /\ x.saw = cli[c].saw
  BY <1>1, <1>2 DEF CommandGoes, CommandState
<1>4. QED
  BY <1>1, <1>3

LEMMA CommandKeeps ==
  ASSUME DaemonInv, NEW c \in Cli, NEW cmd \in {"start", "stop", "restart"}, Command(c, cmd)
  PROVE  DaemonInv'
<1>1. cli \in [Cli -> CommandState] /\ NoCommand \in CommandState
  BY DEF DaemonInv, DaemonTypeOK, CommandState, NoCommand
<1>2. PICK x \in CommandState : x = [NoCommand EXCEPT !.pc = "reading", !.cmd = cmd]
  BY <1>1 DEF CommandState
<1>3. /\ cli' = [cli EXCEPT ![c] = x] /\ x.pc = "reading" /\ UNCHANGED <<file, process, launched>>
      /\ disturbed' = (disturbed \/ \E d \in Cli : CommandUnderWay(d))
  BY <1>1, <1>2 DEF Command, CommandState
<1>4. cli' \in [Cli -> CommandState] /\ cli'[c] = x /\ \A d \in Cli : d # c => cli'[d] = cli[d]
  BY <1>1, <1>3
<1>5. DaemonTypeOK'
  <2>1. disturbed' \in BOOLEAN
    BY <1>3
  <2>2. QED
    BY <1>3, <1>4, <2>1 DEF DaemonInv, DaemonTypeOK, CommandState
<1>6. ASSUME ~disturbed' PROVE Followed'
  <2>1. Followed /\ \A d \in Cli : ~CommandUnderWay(d)
    BY <1>3, <1>6 DEF DaemonInv
  <2>2. \A d \in Cli : d # c => ~CommandUnderWay(d)'
    BY <1>4, <2>1 DEF CommandUnderWay
  <2>3. ASSUME NEW p \in Pid, Live(p)' PROVE file' = p /\ \A d \in Cli : CommandKnows(d, p)'
    <3>1. file' = p
      BY <1>3, <2>1, <2>3 DEF Live, Followed
    <3>2. CommandKnows(c, p)'
      BY <1>3, <1>4, <3>1 DEF CommandKnows
    <3>3. ASSUME NEW d \in Cli, d # c PROVE CommandKnows(d, p)'
      BY <2>2, <3>3 DEF CommandUnderWay, CommandKnows
    <3>4. QED
      BY <3>1, <3>2, <3>3
  <2>4. QED
    BY <2>2, <2>3 DEF Followed
<1>7. QED
  BY <1>5, <1>6 DEF DaemonInv

LEMMA StatusKeeps ==
  ASSUME DaemonInv, NEW c \in Cli, ReadsFile(c) \/ JudgesStatus(c) \/ ClearsStale(c)
  PROVE  DaemonInv'
<1>1. /\ CommandUnderWay(c) /\ UNCHANGED <<process, launched, disturbed>>
      /\ cli[c] \in CommandState /\ cli \in [Cli -> CommandState]
  BY DEF ReadsFile, JudgesStatus, ClearsStale, CommandAt, CommandUnderWay, DaemonInv, DaemonTypeOK,
         CommandState
<1>2. DaemonTypeOK
  BY DEF DaemonInv
<1>3. \A p \in Pid : Live(p)' = Live(p)
  BY <1>1 DEF Live
<1>4. CASE ReadsFile(c)
  <2>1. PICK x \in CommandState : x = [cli[c] EXCEPT !.pc = "judging", !.saw = file]
    BY <1>1, <1>2 DEF CommandState, DaemonTypeOK
  <2>2. cli' = [cli EXCEPT ![c] = x] /\ x.pc = "judging" /\ x.saw = file /\ cli'[c] = x
        /\ UNCHANGED file /\ cli[c].pc = "reading"
    BY <1>1, <1>4, <2>1 DEF ReadsFile, CommandState, CommandAt
  <2>3. Followed => \A p \in Pid : Live(p) => CommandKnows(c, p)'
    BY <2>2 DEF Followed, CommandKnows
  <2>4. QED
    BY <1>1, <1>2, <1>3, <2>2, <2>3, CommandMoves DEF DaemonTypeOK
<1>5. CASE JudgesStatus(c)
  <2>1. PICK place : place = NextAfterStatus(c)
    OBVIOUS
  <2>2. /\ place \in {"done", "terminating", "clearing"} /\ CommandGoes(c, place)
        /\ cli[c].pc = "judging"
        /\ place = "terminating" => Running(c)
        /\ place = "clearing" => ~Running(c)
        /\ Running(c) \/ cli[c].saw = NoFile => file' = file
        /\ file' \in {NoFile, file}
    BY <1>5, <2>1 DEF JudgesStatus, NextAfterStatus, CommandAt
  <2>3. PICK x \in CommandState : /\ cli' = [cli EXCEPT ![c] = x] /\ x.pc = place /\ cli'[c] = x
                                  /\ x.saw = cli[c].saw
    BY <2>2, CommandGone
  <2>4. ASSUME Followed, NEW p \in Pid, Live(p)
        PROVE  (x.pc = "done" => file' = p) /\ CommandKnows(c, p)'
    <3>1. file = p /\ cli[c].saw = p
      BY <2>2, <2>4 DEF Followed, CommandKnows
    <3>2. Running(c)
      BY <2>4, <3>1 DEF Running, ProcessAlive, Live
    <3>3. QED
      BY <2>2, <2>3, <3>1, <3>2 DEF CommandKnows
  <2>5. file' \in Pid \cup {NoFile, Empty}
    BY <1>2, <2>2 DEF DaemonTypeOK
  <2>6. QED
    BY <1>1, <1>2, <1>3, <2>2, <2>3, <2>4, <2>5, CommandMoves DEF DaemonTypeOK
<1>6. CASE ClearsStale(c)
  <2>1. cli[c].pc = "clearing" /\ file' \in {NoFile, file}
    BY <1>6 DEF ClearsStale, CommandAt
  <2>2. Followed => \A p \in Pid : ~Live(p)
    BY <2>1 DEF Followed, CommandKnows
  <2>3. PICK x \in CommandState : cli' = [cli EXCEPT ![c] = x] /\ x.pc # "idle"
    <3>1. CASE cli[c].cmd = "restart"
      <4>1. PICK x \in CommandState : x = [cli[c] EXCEPT !.pc = "reading", !.cmd = "start"]
        BY <1>1 DEF CommandState
      <4>2. cli' = [cli EXCEPT ![c] = x] /\ x.pc = "reading"
        BY <1>1, <1>6, <3>1, <4>1 DEF ClearsStale, CommandState
      <4>3. QED
        BY <4>2
    <3>2. CASE cli[c].cmd # "restart"
      <4>1. CommandGoes(c, "launching")
        BY <1>6, <3>2 DEF ClearsStale
      <4>2. QED
        BY <4>1, CommandGone
    <3>3. QED
      BY <3>1, <3>2
  <2>4. file' \in Pid \cup {NoFile, Empty}
    BY <1>2, <2>1 DEF DaemonTypeOK
  <2>5. QED
    BY <1>1, <1>2, <1>3, <2>2, <2>3, <2>4, CommandMoves DEF DaemonTypeOK
<1>7. QED
  BY <1>4, <1>5, <1>6

LEMMA StartsKeep ==
  ASSUME DaemonInv, NEW c \in Cli, Launches(c) \/ Settles(c) \/ WritesFile(c) \/ WriteFails(c)
  PROVE  DaemonInv'
<1>1. /\ CommandUnderWay(c) /\ UNCHANGED disturbed
      /\ cli[c] \in CommandState /\ cli \in [Cli -> CommandState]
  BY DEF Launches, Settles, WritesFile, WriteFails, CommandAt, CommandUnderWay, DaemonInv, DaemonTypeOK,
         CommandState
<1>2. DaemonTypeOK /\ cli[c].saw \in Pid \cup {NoFile, Empty}
  BY <1>1 DEF DaemonInv, CommandState
<1>3. CASE Launches(c)
  <2>1. launched + 1 \in Pid /\ launched + 1 \in 0..MaxPid
    BY <1>2, <1>3, DaemonAssumption DEF Launches, DaemonTypeOK, Pid
  <2>2. PICK p \in Pid : p = launched + 1
    BY <2>1
  <2>3. PICK x \in CommandState : x = [cli[c] EXCEPT !.pc = "settling", !.saw = p]
    BY <1>1, <2>2 DEF CommandState
  <2>4. /\ cli' = [cli EXCEPT ![c] = x] /\ x.pc = "settling" /\ x.saw = p /\ cli'[c] = x
        /\ process' = [process EXCEPT ![p] = "booting"] /\ launched' = p
        /\ UNCHANGED file /\ cli[c].pc = "launching"
    BY <1>1, <1>3, <2>2, <2>3 DEF Launches, CommandState, CommandAt
  <2>5. process' \in [Pid -> {"none", "booting", "serving", "stopping", "killed", "gone"}]
        /\ \A q \in Pid : q # p => Live(q)' = Live(q)
    BY <1>2, <2>4 DEF DaemonTypeOK, Live
  <2>6. Followed => \A q \in Pid : Live(q)' => q = p
    BY <2>4, <2>5 DEF Followed, CommandKnows
  <2>7. Followed => \A q \in Pid : Live(q)' => CommandKnows(c, q)'
    BY <2>4, <2>6 DEF CommandKnows
  <2>8. QED
    BY <1>1, <1>2, <2>1, <2>2, <2>4, <2>5, <2>7, CommandMoves DEF DaemonTypeOK
<1>4. CASE Settles(c)
  <2>1. /\ cli[c].pc = "settling" /\ UNCHANGED <<process, launched>>
        /\ \/ CommandGoes(c, "writing") /\ file' = Empty
           \/ ~ProcessAlive(cli[c].saw) /\ CommandGoes(c, "done") /\ UNCHANGED file
    BY <1>4 DEF Settles, CommandAt
  <2>2. PICK x \in CommandState : /\ cli' = [cli EXCEPT ![c] = x] /\ cli'[c] = x /\ x.saw = cli[c].saw
                                  /\ \/ x.pc = "writing"
                                     \/ x.pc = "done" /\ ~ProcessAlive(cli[c].saw)
    BY <2>1, CommandGone
  <2>3. ASSUME Followed, NEW p \in Pid, Live(p)'
        PROVE  x.pc = "writing" /\ CommandKnows(c, p)'
    <3>1. Live(p) /\ cli[c].saw = p
      BY <2>1, <2>3 DEF Live, Followed, CommandKnows
    <3>2. ProcessAlive(cli[c].saw)
      BY <3>1 DEF Live, ProcessAlive
    <3>3. QED
      BY <2>2, <3>1, <3>2 DEF CommandKnows
  <2>4. file' \in Pid \cup {NoFile, Empty}
    BY <1>2, <2>1 DEF DaemonTypeOK
  <2>5. x.pc # "idle"
    BY <2>2
  <2>6. QED
    BY <1>1, <1>2, <2>1, <2>2, <2>3, <2>4, <2>5, CommandMoves DEF DaemonTypeOK
<1>5. CASE WritesFile(c)
  <2>1. /\ cli[c].pc = "writing" /\ UNCHANGED <<process, launched>> /\ file' = cli[c].saw
        /\ CommandGoes(c, "done")
    BY <1>5 DEF WritesFile, CommandAt
  <2>2. PICK x \in CommandState : cli' = [cli EXCEPT ![c] = x] /\ cli'[c] = x /\ x.pc = "done"
    BY <2>1, CommandGone
  <2>3. Followed => \A p \in Pid : Live(p)' => file' = p /\ CommandKnows(c, p)'
    BY <2>1, <2>2 DEF Followed, CommandKnows, Live
  <2>4. QED
    BY <1>1, <1>2, <2>1, <2>2, <2>3, CommandMoves DEF DaemonTypeOK
<1>6. CASE WriteFails(c)
  <2>1. /\ cli[c].pc = "writing" /\ UNCHANGED <<file, launched>> /\ CommandGoes(c, "done")
        /\ process' = [process EXCEPT ![cli[c].saw] = IF ProcessAlive(cli[c].saw) THEN "killed" ELSE @]
    BY <1>6 DEF WriteFails, CommandAt
  <2>2. PICK x \in CommandState : cli' = [cli EXCEPT ![c] = x] /\ cli'[c] = x /\ x.pc = "done"
    BY <2>1, CommandGone
  <2>3. /\ process' \in [Pid -> {"none", "booting", "serving", "stopping", "killed", "gone"}]
        /\ \A p \in Pid : p # cli[c].saw => process'[p] = process[p]
        /\ \A p \in Pid : p = cli[c].saw => ~Live(p)'
    BY <1>2, <2>1 DEF DaemonTypeOK, Live, ProcessAlive
  <2>4. Followed => \A p \in Pid : ~Live(p)'
    BY <2>1, <2>3 DEF Followed, CommandKnows, Live
  <2>5. QED
    BY <1>1, <1>2, <2>1, <2>2, <2>3, <2>4, CommandMoves DEF DaemonTypeOK
<1>7. QED
  BY <1>3, <1>4, <1>5, <1>6

LEMMA StopsKeep ==
  ASSUME DaemonInv, NEW c \in Cli, Terminates(c) \/ WaitEnds(c) \/ KillEnds(c) \/ CliDies(c)
  PROVE  DaemonInv'
<1>1. /\ CommandUnderWay(c) /\ UNCHANGED launched
      /\ cli[c] \in CommandState /\ cli \in [Cli -> CommandState]
  BY DEF Terminates, WaitEnds, KillEnds, CliDies, CommandAt, CommandUnderWay, DaemonInv, DaemonTypeOK,
         CommandState
<1>2. DaemonTypeOK
  BY DEF DaemonInv
<1>3. AfterStop(c) \in {"clearing", "done"}
  BY DEF AfterStop
<1>4. CASE CliDies(c)
  <2>1. PICK x \in CommandState : cli' = [cli EXCEPT ![c] = x] /\ cli'[c] = x
    BY <1>4, CommandGone DEF CliDies
  <2>2. cli' \in [Cli -> CommandState] /\ UNCHANGED <<file, process, launched>> /\ disturbed' = TRUE
    BY <1>1, <1>4, <2>1 DEF CliDies
  <2>3. QED
    BY <1>2, <2>2 DEF DaemonInv, DaemonTypeOK, CommandState
<1>5. CASE (Terminates(c) \/ WaitEnds(c)) /\ ~ProcessAlive(cli[c].saw)
  <2>1. /\ cli[c].pc \in {"terminating", "waiting"} /\ UNCHANGED <<process, disturbed>>
        /\ file' = NoFile /\ CommandGoes(c, AfterStop(c))
    BY <1>5 DEF Terminates, WaitEnds, CommandAt, Stopped
  <2>2. PICK x \in CommandState : cli' = [cli EXCEPT ![c] = x] /\ cli'[c] = x /\ x.pc # "idle"
    BY <1>3, <2>1, CommandGone
  <2>3. Followed => \A p \in Pid : ~Live(p)'
    BY <1>5, <2>1 DEF Followed, CommandKnows, Live, ProcessAlive
  <2>4. QED
    BY <1>1, <1>2, <2>1, <2>2, <2>3, CommandMoves DEF DaemonTypeOK
<1>6. CASE (Terminates(c) \/ WaitEnds(c)) /\ ProcessAlive(cli[c].saw)
  <2>1. PICK place \in {"waiting", "killing"}, to \in {process[cli[c].saw], "stopping", "killed"} :
           /\ cli[c].pc \in {"terminating", "waiting"} /\ UNCHANGED <<file, disturbed>>
           /\ CommandGoes(c, place) /\ process' = [process EXCEPT ![cli[c].saw] = to]
           /\ place = "killing" => to = "killed"
           /\ to \in {"stopping", "killed"}
    BY <1>6 DEF Terminates, WaitEnds, CommandAt
  <2>2. PICK x \in CommandState : /\ cli' = [cli EXCEPT ![c] = x] /\ cli'[c] = x /\ x.pc = place
                                  /\ x.saw = cli[c].saw
    BY <2>1, CommandGone
  <2>3. /\ process' \in [Pid -> {"none", "booting", "serving", "stopping", "killed", "gone"}]
        /\ \A p \in Pid : p # cli[c].saw => process'[p] = process[p]
        /\ \A p \in Pid : p = cli[c].saw => process'[p] = to
    BY <1>2, <2>1 DEF DaemonTypeOK
  <2>4. Followed => \A p \in Pid : Live(p)' => p = cli[c].saw /\ place = "waiting"
    BY <2>1, <2>3 DEF Followed, CommandKnows, Live
  <2>5. Followed => \A p \in Pid : Live(p)' => x.pc # "done" /\ CommandKnows(c, p)'
    BY <2>2, <2>4 DEF CommandKnows
  <2>6. x.pc # "idle"
    BY <2>2
  <2>7. QED
    BY <1>1, <1>2, <2>1, <2>2, <2>3, <2>5, <2>6, CommandMoves DEF DaemonTypeOK
<1>7. CASE KillEnds(c)
  <2>1. /\ cli[c].pc = "killing" /\ UNCHANGED process
        /\ file' = NoFile /\ CommandGoes(c, AfterStop(c))
    BY <1>7 DEF KillEnds, CommandAt, Stopped
  <2>2. PICK x \in CommandState : cli' = [cli EXCEPT ![c] = x] /\ cli'[c] = x /\ x.pc # "idle"
    BY <1>3, <2>1, CommandGone
  <2>3. Followed => \A p \in Pid : ~Live(p)'
    BY <2>1 DEF Followed, CommandKnows, Live
  <2>4. disturbed' \in BOOLEAN /\ (disturbed => disturbed')
    BY <1>7 DEF KillEnds
  <2>5. QED
    BY <1>1, <1>2, <2>1, <2>2, <2>3, <2>4, CommandMoves DEF DaemonTypeOK
<1>8. QED
  BY <1>4, <1>5, <1>6, <1>7

LEMMA ProcessKeeps ==
  ASSUME DaemonInv, NEW p \in Pid, Binds(p) \/ Exits(p)
  PROVE  DaemonInv'
<1>1. PICK to \in {"serving", "gone"} :
         /\ process' = [process EXCEPT ![p] = to] /\ UNCHANGED <<file, launched, cli, disturbed>>
         /\ to = "serving" => process[p] = "booting"
  BY DEF Binds, Exits, Becomes
<1>2. /\ process' \in [Pid -> {"none", "booting", "serving", "stopping", "killed", "gone"}]
      /\ \A q \in Pid : Live(q)' => Live(q)
  BY <1>1 DEF DaemonInv, DaemonTypeOK, Live
<1>3. QED
  BY <1>1, <1>2 DEF DaemonInv, DaemonTypeOK, Followed, CommandKnows, CommandUnderWay

LEMMA DaemonKeeps == DaemonInv /\ [DaemonNext]_daemonVars => DaemonInv'
<1> SUFFICES ASSUME DaemonInv, [DaemonNext]_daemonVars PROVE DaemonInv'
  OBVIOUS
<1>1. CASE UNCHANGED daemonVars
  BY <1>1 DEF daemonVars, DaemonInv, DaemonTypeOK, Followed, CommandKnows, CommandUnderWay, Live
<1>2. CASE DaemonNext
  BY <1>2, CommandKeeps, StatusKeeps, StartsKeep, StopsKeep, ProcessKeeps DEF DaemonNext
<1>3. QED
  BY <1>1, <1>2

\* Whatever processes die and whichever starts and writes fail, after commands
\* that did not overlap, were not interrupted and killed what they meant to, the
\* live daemon is the one in the PID file (start, stop, restart, status).
THEOREM LiveDaemonIsFound == DaemonSpec => [](DaemonTypeOK /\ DaemonIsFound)
<1>1. DaemonInit => DaemonInv
  BY InitDaemonInv
<1>2. DaemonInv /\ [DaemonNext]_daemonVars => DaemonInv'
  BY DaemonKeeps
<1>3. DaemonInv => DaemonTypeOK /\ DaemonIsFound
  BY DEF DaemonInv, DaemonIsFound, Followed, Live
<1>4. QED
  BY <1>1, <1>2, <1>3, PTL DEF DaemonSpec

-----------------------------------------------------------------------------
(***************************************************************************)
(* Tasks of created sessions                                               *)
(***************************************************************************)

Docs == [task : Create \cup {None}, result : Create \cup {None}, handoff : Create \cup {None}]
Boxes == [of : Create \cup {None}, id : Create \cup {None}, env : Create \cup {None},
          file : Create \cup {None}, dressed : BOOLEAN]
CallPlace == {"idle", "refused", "storing", "provisioning", "entering", "configuring",
              "starting", "up", "failed"}
GuestPlace == {"off", "booted", "idle", "working", "retrying", "refused", "lost", "done"}
Guests == [pc : GuestPlace, on : Create \cup {None}]

\* a create call that has made its container, or ended
Later == {"entering", "configuring", "starting", "up", "failed"}

\* what a container holds, and how far its guest is, when nobody meddled with it
Serves(b, x, g) ==
  /\ x.of \in Create /\ pc[x.of] \in Later
  /\ x.id \in {None, x.of} /\ x.env \in {None, x.of} /\ x.file \in {None, x.of}
  /\ g.on \in {None, x.of}
  /\ g.pc = "working" => x.id # None \/ x.file # None
  /\ g.pc \in {"retrying", "done"} => task[x.of] # "running"
  /\ g.pc = "refused" => doc[b[2]].task # x.of

BoxRight(b) ==
  b \notin meddled => (box[b] = NoBox /\ guest[b] = Off) \/ Serves(b, box[b], guest[b])

CallsRight ==
  /\ \A c \in Create : pc[c] = "idle" \/ request[c] \in Request
  /\ \A c \in Create : pc[c] = "idle" => task[c] = "none"
  /\ \A n \in Name : entry[n] # None => pc[entry[n]] \in Later

TasksInv == SessionTasksTypeOK /\ CallsRight /\ (\A b \in Box : BoxRight(b)) /\ NoCredentialLeft

\* what the hub's side may do meanwhile to a container somebody works in
HubGoesOn ==
  \A c \in Create : pc[c] \in Later =>
    /\ pc'[c] \in Later
    /\ task[c] # "running" => task'[c] # "running"
    /\ \A n \in Name : doc'[n].task = c => doc[n].task = c

LEMMA Unchanged ==
  ASSUME TasksInv, HubGoesOn, NEW b \in Box, box'[b] = box[b], guest'[b] = guest[b],
         b \in meddled <=> b \in meddled'
  PROVE  BoxRight(b)'
<1>1. BoxRight(b)
  BY DEF TasksInv
<1>2. CASE b \in meddled
  BY <1>2 DEF BoxRight
<1>3. CASE b \notin meddled /\ box[b] = NoBox /\ guest[b] = Off
  BY <1>3 DEF BoxRight, NoBox, Off
<1>4. CASE Serves(b, box[b], guest[b])
  <2>1. PICK x, g, c : x = box[b] /\ g = guest[b] /\ c = x.of
    OBVIOUS
  <2>2. c \in Create /\ pc[c] \in Later /\ b[2] \in Name
    BY <1>4, <2>1 DEF Serves, Box
  <2>3. /\ pc'[c] \in Later /\ (task[c] # "running" => task'[c] # "running")
        /\ (doc'[b[2]].task = c => doc[b[2]].task = c)
    BY <2>2 DEF HubGoesOn
  <2>4. Serves(b, x, g)'
    BY <1>4, <2>1, <2>2, <2>3 DEF Serves
  <2>5. QED
    BY <2>1, <2>4 DEF BoxRight
<1>5. QED
  BY <1>1, <1>2, <1>3, <1>4 DEF BoxRight

LEMMA OneBox ==
  ASSUME TasksInv, HubGoesOn, NEW b, b \in Box => BoxRight(b)',
         \A a \in Box \ {b} : box'[a] = box[a] /\ guest'[a] = guest[a] /\ (a \in meddled <=> a \in meddled')
  PROVE  \A a \in Box : BoxRight(a)'
<1>1. TAKE a \in Box
<1>2. CASE a = b
  BY <1>2
<1>3. CASE a # b
  BY <1>3, Unchanged
<1>4. QED
  BY <1>2, <1>3

LEMMA NoBoxTouched ==
  ASSUME TasksInv, HubGoesOn, UNCHANGED <<box, guest, meddled>>
  PROVE  \A a \in Box : BoxRight(a)'
BY Unchanged

\* a call that goes from one place to the next
LEMMA CallMoves ==
  ASSUME TasksInv, NEW c \in Create, NEW from, NEW to, Moves(c, from, to), UNCHANGED <<task, doc>>,
         to \in CallPlace,
         from \in Later => to \in Later
  PROVE  /\ HubGoesOn /\ pc' \in [Create -> CallPlace]
         /\ pc'[c] = to /\ pc[c] = from /\ \A a \in Create \ {c} : pc'[a] = pc[a]
         /\ \A a \in Create : pc[a] \in Later => pc'[a] \in Later
<1>1. /\ pc'[c] = to /\ pc[c] = from /\ \A a \in Create \ {c} : pc'[a] = pc[a]
      /\ pc' \in [Create -> CallPlace]
  BY DEF Moves, TasksInv, SessionTasksTypeOK, CallPlace
<1>2. \A a \in Create : pc[a] \in Later => pc'[a] \in Later
  BY <1>1
<1>3. QED
  BY <1>1, <1>2 DEF HubGoesOn

-----------------------------------------------------------------------------
LEMMA RequestKeeps ==
  ASSUME TasksInv, NEW c \in Create, NEW r \in Request,
         RefusesContinue(c, r) \/ Registers(c, r) \/ TakesPlain(c, r)
  PROVE  TasksInv'
<1>1. /\ pc[c] = "idle" /\ task[c] = "none"
      /\ \E to \in {"refused", "storing", "provisioning"} : pc' = [pc EXCEPT ![c] = to]
      /\ request' = [request EXCEPT ![c] = r] /\ token' = [token EXCEPT ![c] = "valid"]
      /\ task' = task \/ task' = [task EXCEPT ![c] = "running"]
      /\ UNCHANGED <<doc, entry, ending, guests>>
  BY DEF RefusesContinue, Registers, TakesPlain, Moves, Requested, Issues, TasksInv, CallsRight
<1>2. PICK to \in {"refused", "storing", "provisioning"} : pc' = [pc EXCEPT ![c] = to]
  BY <1>1
<1>3. /\ pc'[c] = to /\ request'[c] = r /\ token'[c] = "valid" /\ task'[c] \in {"none", "running"}
      /\ \A a \in Create \ {c} : /\ pc'[a] = pc[a] /\ request'[a] = request[a]
                                 /\ token'[a] = token[a] /\ task'[a] = task[a]
  BY <1>1, <1>2 DEF TasksInv, SessionTasksTypeOK
<1>4. SessionTasksTypeOK'
  <2>1. /\ pc' \in [Create -> CallPlace]
        /\ request' \in [Create -> Request \cup {None}]
        /\ token' \in [Create -> {"none", "valid", "gone"}]
    BY <1>1, <1>2 DEF TasksInv, SessionTasksTypeOK, CallPlace
  <2>2. task' \in [Create -> {"none", "running"} \cup Ended]
    BY <1>1 DEF TasksInv, SessionTasksTypeOK
  <2>3. QED
    BY <1>1, <2>1, <2>2 DEF TasksInv, SessionTasksTypeOK, CallPlace, guests
<1>5. HubGoesOn
  BY <1>1, <1>3 DEF HubGoesOn, Later
<1>6. CallsRight'
  <2>1. \A a \in Create : pc'[a] = "idle" \/ request'[a] \in Request
    BY <1>3 DEF TasksInv, CallsRight
  <2>2. \A a \in Create : pc'[a] = "idle" => task'[a] = "none"
    BY <1>3 DEF TasksInv, CallsRight
  <2>3. \A n \in Name : entry'[n] # None => pc'[entry'[n]] \in Later
    BY <1>1, <1>5 DEF TasksInv, CallsRight, HubGoesOn, SessionTasksTypeOK
  <2>4. QED
    BY <2>1, <2>2, <2>3 DEF CallsRight
<1>7. NoCredentialLeft'
  BY <1>1, <1>3 DEF TasksInv, NoCredentialLeft, Ended
<1>8. QED
  BY <1>1, <1>4, <1>5, <1>6, <1>7, NoBoxTouched DEF TasksInv, guests

LEMMA StoreKeeps ==
  ASSUME TasksInv, NEW c \in Create, Stores(c)
  PROVE  TasksInv'
<1>1. /\ pc[c] = "storing" /\ pc' = [pc EXCEPT ![c] = "provisioning"]
      /\ doc' = [doc EXCEPT ![NameOf(c)] = Stored(@, c)]
      /\ UNCHANGED <<request, task, token, entry, ending, guests>>
  BY DEF Stores, Moves
<1>2. PICK n : n = NameOf(c)
  OBVIOUS
<1>3. n \in Name
  BY <1>1, <1>2 DEF TasksInv, CallsRight, NameOf, Request
<1>4. PICK d : d = doc[n]
  OBVIOUS
<1>5. d \in Docs
  BY <1>3, <1>4 DEF TasksInv, SessionTasksTypeOK, Docs
<1>6. PICK e \in Docs : e = [d EXCEPT !.task = c]
  BY <1>5 DEF Docs
<1>7. e.task = c
  BY <1>5, <1>6 DEF Docs
<1>8. doc' = [doc EXCEPT ![n] = e]
  BY <1>1, <1>2, <1>4, <1>6 DEF Stored
<1>9. doc' \in [Name -> Docs] /\ doc'[n] = e /\ \A m \in Name \ {n} : doc'[m] = doc[m]
  BY <1>3, <1>6, <1>8 DEF TasksInv, SessionTasksTypeOK, Docs
<1>10. /\ pc' \in [Create -> CallPlace]
       /\ pc'[c] = "provisioning" /\ \A a \in Create \ {c} : pc'[a] = pc[a]
  BY <1>1 DEF TasksInv, SessionTasksTypeOK, CallPlace
<1>11. SessionTasksTypeOK'
  BY <1>1, <1>9, <1>10 DEF TasksInv, SessionTasksTypeOK, Docs, CallPlace, guests
<1>12. HubGoesOn
  <2>2. SUFFICES ASSUME NEW a \in Create, pc[a] \in Later
                 PROVE  /\ pc'[a] \in Later
                        /\ task[a] # "running" => task'[a] # "running"
                        /\ \A m \in Name : doc'[m].task = a => doc[m].task = a
    BY DEF HubGoesOn
  <2>3. a # c
    BY <1>1, <2>2 DEF Later
  <2>4. pc'[a] \in Later /\ task' = task
    BY <1>1, <1>10, <2>2, <2>3
  <2>5. \A m \in Name : doc'[m].task = a => doc[m].task = a
    BY <1>7, <1>9, <2>3
  <2>6. QED
    BY <2>4, <2>5
<1>13. CallsRight'
  <2>1. \A m \in Name : entry'[m] # None => pc'[entry'[m]] \in Later
    BY <1>1, <1>12 DEF TasksInv, CallsRight, HubGoesOn, SessionTasksTypeOK
  <2>2. QED
    BY <1>1, <1>10, <2>1 DEF TasksInv, CallsRight
<1>14. NoCredentialLeft'
  BY <1>1 DEF TasksInv, NoCredentialLeft
<1>15. QED
  BY <1>1, <1>11, <1>12, <1>13, <1>14, NoBoxTouched DEF TasksInv, guests

LEMMA EntersKeeps ==
  ASSUME TasksInv, NEW c \in Create,
         Enters(c) \/ CreateFails(c)
  PROVE  TasksInv'
<1>1. /\ UNCHANGED <<request, task, token, doc, ending, guests>>
      /\ entry' = entry \/ entry' = [entry EXCEPT ![NameOf(c)] = c]
  BY DEF Enters, CreateFails, hub
<1>2. PICK from \in {"storing", "provisioning", "entering", "configuring", "starting"},
           to \in {"configuring", "failed"} : Moves(c, from, to)
  BY DEF Enters, CreateFails
<1>3. to \in CallPlace /\ to \in Later
  BY DEF CallPlace, Later
<1>4. HubGoesOn /\ pc' \in [Create -> CallPlace] /\ pc'[c] = to /\ pc[c] = from
      /\ (\A a \in Create \ {c} : pc'[a] = pc[a])
      /\ \A a \in Create : pc[a] \in Later => pc'[a] \in Later
  BY <1>1, <1>2, <1>3, CallMoves
<1>5. entry' \in [Name -> Create \cup {None}]
      /\ \A n \in Name : entry'[n] = entry[n] \/ entry'[n] = c
  BY <1>1 DEF TasksInv, SessionTasksTypeOK
<1>6. SessionTasksTypeOK'
  BY <1>1, <1>4, <1>5 DEF TasksInv, SessionTasksTypeOK, CallPlace, guests
<1>7. CallsRight'
  <2>1. \A a \in Create : pc'[a] = "idle" \/ request'[a] \in Request
    BY <1>1, <1>4 DEF TasksInv, CallsRight
  <2>2. \A a \in Create : pc'[a] = "idle" => task'[a] = "none"
    BY <1>1, <1>3, <1>4 DEF TasksInv, CallsRight, Later
  <2>3. \A n \in Name : entry'[n] # None => pc'[entry'[n]] \in Later
    BY <1>3, <1>4, <1>5 DEF TasksInv, CallsRight, SessionTasksTypeOK
  <2>4. QED
    BY <2>1, <2>2, <2>3 DEF CallsRight
<1>8. NoCredentialLeft'
  BY <1>1 DEF TasksInv, NoCredentialLeft
<1>9. QED
  BY <1>1, <1>4, <1>6, <1>7, <1>8, NoBoxTouched DEF TasksInv, guests

\* a token lapses; the health check fails a task
LEMMA LapsesKeep ==
  ASSUME TasksInv, NEW c \in Create, Expires(c) \/ HealthCheck(c)
  PROVE  TasksInv'
<1>1. UNCHANGED <<request, pc, doc, entry, guests>>
  BY DEF Expires, HealthCheck, calls
<1>2. /\ task' \in [Create -> {"none", "running"} \cup Ended]
      /\ \A a \in Create : task'[a] = task[a] \/ (task[a] = "running" /\ task'[a] = "failed")
  BY DEF Expires, HealthCheck, TasksInv, SessionTasksTypeOK, Ended
<1>3. token' \in [Create -> {"none", "valid", "gone"}]
  BY DEF Expires, HealthCheck, TasksInv, SessionTasksTypeOK
<1>4. ending' \subseteq Create
  BY DEF Expires, HealthCheck, TasksInv, SessionTasksTypeOK
<1>5. SessionTasksTypeOK'
  BY <1>1, <1>2, <1>3, <1>4 DEF TasksInv, SessionTasksTypeOK, guests
<1>6. HubGoesOn
  BY <1>1, <1>2 DEF HubGoesOn
<1>7. CallsRight'
  BY <1>1, <1>2 DEF TasksInv, CallsRight
<1>8. NoCredentialLeft'
  BY DEF TasksInv, NoCredentialLeft, Expires, HealthCheck, SessionTasksTypeOK
<1>9. QED
  BY <1>1, <1>5, <1>6, <1>7, <1>8, NoBoxTouched DEF TasksInv, guests

\* a container that is replaced
LEMMA ReplacedIsRight ==
  ASSUME TasksInv, HubGoesOn, NEW b, NEW x \in Boxes, Replaced(b, x),
         \/ x = NoBox
         \/ x.of \in Create /\ pc'[x.of] \in Later /\ x.id = None /\ x.env = None /\ x.file = None
  PROVE  /\ \A a \in Box : BoxRight(a)'
         /\ box' \in [Box -> Boxes] /\ guest' \in [Box -> Guests] /\ lost' \subseteq Box /\ meddled' \subseteq Box
<1>1. Off \in Guests /\ Off.on = None /\ Off.pc = "off"
  BY DEF Off, Guests, GuestPlace
<1>2. /\ box' \in [Box -> Boxes] /\ guest' \in [Box -> Guests] /\ lost' \subseteq Box /\ meddled' \subseteq Box
      /\ \A a \in Box \ {b} : box'[a] = box[a] /\ guest'[a] = guest[a] /\ (a \in meddled <=> a \in meddled')
      /\ b \in Box => box'[b] = x /\ guest'[b] = Off
  BY <1>1 DEF Replaced, TasksInv, SessionTasksTypeOK, Boxes, Guests, GuestPlace
<1>3. b \in Box => BoxRight(b)'
  <2>1. CASE x = NoBox
    BY <1>2, <2>1 DEF BoxRight, NoBox, Off
  <2>2. CASE x.of \in Create /\ pc'[x.of] \in Later /\ x.id = None /\ x.env = None /\ x.file = None
    <3>1. Serves(b, x, Off)'
      BY <1>1, <2>2 DEF Serves
    <3>2. QED
      BY <1>2, <3>1 DEF BoxRight
  <2>3. QED
    BY <2>1, <2>2
<1>4. QED
  BY <1>2, <1>3, OneBox

LEMMA ProvisionKeeps ==
  ASSUME TasksInv, NEW c \in Create, Provisions(c)
  PROVE  TasksInv'
<1>1. "entering" \in CallPlace /\ "entering" \in Later
  BY DEF CallPlace, Later
<1>2. UNCHANGED <<request, task, token, doc, entry, ending>> /\ Moves(c, "provisioning", "entering")
  BY DEF Provisions, hub
<1>3. HubGoesOn /\ pc' \in [Create -> CallPlace] /\ pc'[c] = "entering" /\ pc[c] = "provisioning"
      /\ (\A a \in Create \ {c} : pc'[a] = pc[a])
      /\ \A a \in Create : pc[a] \in Later => pc'[a] \in Later
  BY <1>1, <1>2, CallMoves
<1>4. NoBox \in Boxes /\ NoBox.id = None /\ NoBox.env = None /\ NoBox.file = None
  BY DEF NoBox, Boxes
<1>5. PICK x \in Boxes : x = [NoBox EXCEPT !.of = c]
  BY <1>4 DEF Boxes
<1>6. x.of = c /\ x.id = None /\ x.env = None /\ x.file = None
  BY <1>4, <1>5 DEF Boxes
<1>7. Replaced(BoxOf(c), x)
  BY <1>5 DEF Provisions
<1>8. /\ \A a \in Box : BoxRight(a)'
      /\ box' \in [Box -> Boxes] /\ guest' \in [Box -> Guests] /\ lost' \subseteq Box /\ meddled' \subseteq Box
  BY <1>1, <1>3, <1>6, <1>7, ReplacedIsRight
<1>9. SessionTasksTypeOK'
  BY <1>2, <1>3, <1>8 DEF TasksInv, SessionTasksTypeOK, CallPlace, Boxes, Guests, GuestPlace
<1>10. CallsRight'
  <2>1. \A a \in Create : pc'[a] = "idle" \/ request'[a] \in Request
    BY <1>2, <1>3 DEF TasksInv, CallsRight
  <2>2. \A a \in Create : pc'[a] = "idle" => task'[a] = "none"
    BY <1>2, <1>3 DEF TasksInv, CallsRight
  <2>3. \A n \in Name : entry'[n] # None => pc'[entry'[n]] \in Later
    BY <1>2, <1>3 DEF TasksInv, CallsRight, SessionTasksTypeOK
  <2>4. QED
    BY <2>1, <2>2, <2>3 DEF CallsRight
<1>11. NoCredentialLeft'
  BY <1>2 DEF TasksInv, NoCredentialLeft
<1>12. QED
  BY <1>8, <1>9, <1>10, <1>11 DEF TasksInv

\* a session is recycled: when its task is finalised, or because it is deleted
LEMMA RecycleKeeps ==
  ASSUME TasksInv, NEW n, Recycled(n), UNCHANGED <<calls, task, doc>>,
         \/ UNCHANGED <<token, ending>>
         \/ \E c \in Create : ending' = ending \ {c} /\ token' = Revoked(c)
  PROVE  TasksInv'
<1>1. HubGoesOn
  BY DEF HubGoesOn, calls
<1>2. NoBox \in Boxes
  BY DEF NoBox, Boxes
<1>3. /\ \A a \in Box : BoxRight(a)'
      /\ box' \in [Box -> Boxes] /\ guest' \in [Box -> Guests] /\ lost' \subseteq Box /\ meddled' \subseteq Box
  <2>1. CASE entry[n] = None
    <3>1. UNCHANGED guests
      BY <2>1 DEF Recycled
    <3>2. QED
      BY <1>1, <3>1, NoBoxTouched DEF guests, TasksInv, SessionTasksTypeOK, Boxes, Guests, GuestPlace
  <2>2. CASE entry[n] # None
    <3>1. Replaced(BoxOf(entry[n]), NoBox)
      BY <2>2 DEF Recycled
    <3>2. PICK b : b = BoxOf(entry[n])
      OBVIOUS
    <3>3. QED
      BY <1>1, <1>2, <3>1, <3>2, ReplacedIsRight
  <2>3. QED
    BY <2>1, <2>2
<1>4. entry' \in [Name -> Create \cup {None}] /\ \A m \in Name : entry'[m] # None => entry'[m] = entry[m]
  BY DEF Recycled, TasksInv, SessionTasksTypeOK
<1>5. /\ token' \in [Create -> {"none", "valid", "gone"}] /\ ending' \subseteq Create
      /\ \A c \in Create : c \in ending /\ c \notin ending' => token'[c] # "valid"
      /\ \A c \in Create : token'[c] = "valid" => token[c] = "valid"
  BY DEF Revoked, TasksInv, SessionTasksTypeOK
<1>6. SessionTasksTypeOK'
  BY <1>3, <1>4, <1>5 DEF TasksInv, SessionTasksTypeOK, Boxes, Guests, GuestPlace, calls
<1>7. CallsRight'
  BY <1>4 DEF TasksInv, CallsRight, calls
<1>8. NoCredentialLeft'
  <2>1. SUFFICES ASSUME NEW c \in Create, task'[c] \in Ended, c \notin ending'
                 PROVE  token'[c] # "valid"
    BY DEF NoCredentialLeft
  <2>2. task[c] \in Ended
    BY <2>1
  <2>3. CASE c \in ending
    BY <1>5, <2>1, <2>3
  <2>4. CASE c \notin ending
    <3>1. task[c] \in Ended /\ c \notin ending => token[c] # "valid"
      BY DEF TasksInv, NoCredentialLeft
    <3>2. token'[c] = "valid" => token[c] = "valid"
      BY <1>5
    <3>3. QED
      BY <2>2, <2>4, <3>1, <3>2
  <2>5. QED
    BY <2>3, <2>4
<1>9. QED
  BY <1>3, <1>6, <1>7, <1>8 DEF TasksInv

-----------------------------------------------------------------------------
\* what an injection makes of a container
Injects(x, c, y) ==
  /\ y.of = x.of /\ y.env = c /\ y.id = (IF x.id = None THEN c ELSE x.id) /\ y.file \in {x.file, c}

LEMMA InjectedFits ==
  ASSUME NEW x \in Boxes, NEW c \in Create, NEW y \in Injected(x, c)
  PROVE  y \in Boxes /\ Injects(x, c, y)
<1>1. PICK i \in Create \cup {None} : i = IF x.id = None THEN c ELSE x.id
  BY DEF Boxes
<1>2. PICK z \in Boxes : z = [x EXCEPT !.env = c, !.id = i]
  BY DEF Boxes
<1>3. z.of = x.of /\ z.env = c /\ z.id = i /\ z.file = x.file
  BY <1>2 DEF Boxes
<1>4. WithIdentity(x, c) = z
  BY <1>1, <1>2 DEF WithIdentity
<1>5. PICK w \in Boxes : w = [z EXCEPT !.dressed = TRUE]
  BY DEF Boxes
<1>6. w.of = z.of /\ w.env = z.env /\ w.id = z.id /\ w.file = z.file
  BY <1>5 DEF Boxes
<1>7. PICK v \in Boxes : v = [w EXCEPT !.file = c]
  BY DEF Boxes
<1>8. v.of = w.of /\ v.env = w.env /\ v.id = w.id /\ v.file = c
  BY <1>7 DEF Boxes
<1>9. y = z \/ y = w \/ y = v
  BY <1>4, <1>5, <1>7 DEF Injected, Dressed, WithTask
<1>10. CASE y = z
  BY <1>1, <1>3, <1>10 DEF Injects
<1>11. CASE y = w
  BY <1>1, <1>3, <1>6, <1>11 DEF Injects
<1>12. CASE y = v
  BY <1>1, <1>3, <1>6, <1>8, <1>12 DEF Injects
<1>13. QED
  BY <1>9, <1>10, <1>11, <1>12

\* a create call injects into the container of its name, which it made or meddles with
LEMMA InjectingIsRight ==
  ASSUME TasksInv, HubGoesOn, NEW c \in Create, request[c] \in Request, box[BoxOf(c)] # NoBox,
         NEW y \in Injected(box[BoxOf(c)], c), box' = [box EXCEPT ![BoxOf(c)] = y],
         Touched(c), UNCHANGED <<guest, lost>>
  PROVE  (\A a \in Box : BoxRight(a)') /\ box' \in [Box -> Boxes] /\ meddled' \subseteq Box
<1>1. PICK b : b = BoxOf(c)
  OBVIOUS
<1>2. b \in Box
  BY <1>1 DEF BoxOf, Request, Box
<1>3. PICK x : x = box[b]
  OBVIOUS
<1>4. x \in Boxes
  BY <1>2, <1>3 DEF TasksInv, SessionTasksTypeOK, Boxes
<1>5. y \in Boxes /\ Injects(x, c, y)
  BY <1>1, <1>3, <1>4, InjectedFits
<1>6. box' = [box EXCEPT ![b] = y] /\ meddled' = IF x.of = c THEN meddled ELSE meddled \cup {b}
  BY <1>1, <1>3 DEF Touched
<1>7. box' \in [Box -> Boxes] /\ meddled' \subseteq Box /\ box'[b] = y
      /\ \A a \in Box \ {b} : box'[a] = box[a] /\ guest'[a] = guest[a] /\ (a \in meddled <=> a \in meddled')
  <2>1. box \in [Box -> Boxes] /\ meddled \subseteq Box
    BY DEF TasksInv, SessionTasksTypeOK, Boxes
  <2>2. box' \in [Box -> Boxes] /\ box'[b] = y /\ \A a \in Box \ {b} : box'[a] = box[a]
    BY <1>2, <1>5, <1>6, <2>1
  <2>3. meddled' \subseteq Box /\ \A a \in Box \ {b} : a \in meddled <=> a \in meddled'
    BY <1>2, <1>6, <2>1
  <2>4. QED
    BY <2>2, <2>3
<1>8. BoxRight(b)'
  <2>1. CASE b \in meddled'
    BY <2>1 DEF BoxRight
  <2>2. CASE b \notin meddled'
    <3>1. x.of = c /\ b \notin meddled
      BY <1>6, <2>2
    <3>2. Serves(b, x, guest[b])
      BY <1>1, <1>2, <1>3, <3>1 DEF TasksInv, BoxRight
    <3>3. PICK g : g = guest[b]
      OBVIOUS
    <3>4. /\ pc'[c] \in Later /\ (task[c] # "running" => task'[c] # "running")
          /\ (doc'[b[2]].task = c => doc[b[2]].task = c)
      BY <1>2, <3>1, <3>2 DEF Serves, HubGoesOn, Box
    <3>5. Serves(b, y, g)'
      BY <1>5, <3>1, <3>2, <3>3, <3>4 DEF Serves, Injects
    <3>6. QED
      BY <1>7, <3>3, <3>5 DEF BoxRight
  <2>3. QED
    BY <2>1, <2>2
<1>9. QED
  BY <1>7, <1>8, OneBox

LEMMA ConfigureKeeps ==
  ASSUME TasksInv, NEW c \in Create, Configures(c)
  PROVE  TasksInv'
<1>1. "starting" \in CallPlace /\ "starting" \in Later
  BY DEF CallPlace, Later
<1>2. /\ UNCHANGED <<request, task, token, doc, entry, ending, guest, lost>>
      /\ Moves(c, "configuring", "starting") /\ box[BoxOf(c)] # NoBox /\ Touched(c)
  BY DEF Configures, hub
<1>3. HubGoesOn /\ pc' \in [Create -> CallPlace] /\ pc'[c] = "starting" /\ pc[c] = "configuring"
      /\ (\A a \in Create \ {c} : pc'[a] = pc[a])
      /\ \A a \in Create : pc[a] \in Later => pc'[a] \in Later
  BY <1>1, <1>2, CallMoves
<1>4. PICK y \in Injected(box[BoxOf(c)], c) : box' = [box EXCEPT ![BoxOf(c)] = y]
  BY DEF Configures
<1>5. request[c] \in Request
  BY <1>3 DEF TasksInv, CallsRight
<1>6. (\A a \in Box : BoxRight(a)') /\ box' \in [Box -> Boxes] /\ meddled' \subseteq Box
  BY <1>2, <1>3, <1>4, <1>5, InjectingIsRight
<1>7. SessionTasksTypeOK'
  BY <1>2, <1>3, <1>6 DEF TasksInv, SessionTasksTypeOK, CallPlace, Boxes
<1>8. CallsRight'
  <2>1. \A a \in Create : pc'[a] = "idle" \/ request'[a] \in Request
    BY <1>2, <1>3 DEF TasksInv, CallsRight
  <2>2. \A a \in Create : pc'[a] = "idle" => task'[a] = "none"
    BY <1>2, <1>3 DEF TasksInv, CallsRight
  <2>3. \A n \in Name : entry'[n] # None => pc'[entry'[n]] \in Later
    BY <1>2, <1>3 DEF TasksInv, CallsRight, SessionTasksTypeOK
  <2>4. QED
    BY <2>1, <2>2, <2>3 DEF CallsRight
<1>9. NoCredentialLeft'
  BY <1>2 DEF TasksInv, NoCredentialLeft
<1>10. QED
  BY <1>6, <1>7, <1>8, <1>9 DEF TasksInv

LEMMA RefreshKeeps ==
  ASSUME TasksInv, NEW n \in Name, Refreshes(n)
  PROVE  TasksInv'
<1>1. PICK c : c = entry[n]
  OBVIOUS
<1>2. c \in Create /\ pc[c] \in Later
  BY <1>1 DEF Refreshes, TasksInv, CallsRight, SessionTasksTypeOK
<1>3. request[c] \in Request
  BY <1>2 DEF TasksInv, CallsRight, Later
<1>4. UNCHANGED <<request, pc, task, token, doc, entry, ending, guest, lost>> /\ Touched(c) /\ box[BoxOf(c)] # NoBox
  BY <1>1 DEF Refreshes, calls, hub
<1>5. PICK y \in Injected(box[BoxOf(c)], c) : box' = [box EXCEPT ![BoxOf(c)] = y]
  BY <1>1 DEF Refreshes
<1>6. HubGoesOn
  BY <1>4 DEF HubGoesOn
<1>7. (\A a \in Box : BoxRight(a)') /\ box' \in [Box -> Boxes] /\ meddled' \subseteq Box
  BY <1>2, <1>3, <1>4, <1>5, <1>6, InjectingIsRight
<1>8. SessionTasksTypeOK'
  BY <1>4, <1>7 DEF TasksInv, SessionTasksTypeOK, Boxes
<1>9. CallsRight' /\ NoCredentialLeft'
  BY <1>4 DEF TasksInv, CallsRight, NoCredentialLeft
<1>10. QED
  BY <1>7, <1>8, <1>9 DEF TasksInv

LEMMA StartKeeps ==
  ASSUME TasksInv, NEW c \in Create, Starts(c)
  PROVE  TasksInv'
<1>1. "up" \in CallPlace /\ "up" \in Later
  BY DEF CallPlace, Later
<1>2. /\ UNCHANGED <<request, task, token, doc, entry, ending, box, lost>>
      /\ Moves(c, "starting", "up") /\ box[BoxOf(c)] # NoBox /\ Touched(c)
  BY DEF Starts, hub
<1>3. HubGoesOn /\ pc' \in [Create -> CallPlace] /\ pc'[c] = "up" /\ pc[c] = "starting"
      /\ (\A a \in Create \ {c} : pc'[a] = pc[a])
      /\ \A a \in Create : pc[a] \in Later => pc'[a] \in Later
  BY <1>1, <1>2, CallMoves
<1>4. request[c] \in Request
  BY <1>3 DEF TasksInv, CallsRight
<1>5. PICK b : b = BoxOf(c)
  OBVIOUS
<1>6. b \in Box
  BY <1>4, <1>5 DEF BoxOf, Request, Box
<1>7. Off \in Guests /\ Off.on = None /\ Off.pc = "off" /\ "booted" \in GuestPlace
  BY DEF Off, Guests, GuestPlace
<1>8. PICK booted \in Guests : booted = [Off EXCEPT !.pc = "booted"]
  BY <1>7 DEF Guests
<1>9. booted.pc = "booted" /\ booted.on = None
  BY <1>7, <1>8 DEF Guests
<1>10. PICK g : g = IF guest[b] = Off THEN booted ELSE guest[b]
  OBVIOUS
<1>11. guest' = [guest EXCEPT ![b] = g]
  BY <1>5, <1>8, <1>10 DEF Starts
<1>12. guest[b] \in Guests /\ g \in Guests
  BY <1>6, <1>10 DEF TasksInv, SessionTasksTypeOK, Guests, GuestPlace
<1>13. guest' \in [Box -> Guests] /\ guest'[b] = g /\ \A a \in Box \ {b} : guest'[a] = guest[a]
  BY <1>6, <1>11, <1>12 DEF TasksInv, SessionTasksTypeOK, Guests, GuestPlace
<1>14. meddled' = (IF box[b].of = c THEN meddled ELSE meddled \cup {b}) /\ box[b] # NoBox
  BY <1>2, <1>5 DEF Touched
<1>15. meddled' \subseteq Box /\ \A a \in Box \ {b} : a \in meddled <=> a \in meddled'
  BY <1>6, <1>14 DEF TasksInv, SessionTasksTypeOK
<1>16. BoxRight(b)'
  <2>1. CASE b \in meddled'
    BY <2>1 DEF BoxRight
  <2>2. CASE b \notin meddled'
    <3>1. box[b].of = c /\ b \notin meddled
      BY <1>14, <2>2
    <3>2. Serves(b, box[b], guest[b])
      BY <1>6, <1>14, <3>1 DEF TasksInv, BoxRight
    <3>3. PICK x : x = box[b]
      OBVIOUS
    <3>4. /\ pc'[c] \in Later /\ (task[c] # "running" => task'[c] # "running")
          /\ (doc'[b[2]].task = c => doc[b[2]].task = c)
      BY <1>1, <1>2, <1>3
    <3>5. Serves(b, x, g)'
      <4>1. CASE guest[b] = Off
        BY <1>7, <1>9, <1>10, <3>1, <3>2, <3>3, <3>4, <4>1 DEF Serves
      <4>2. CASE guest[b] # Off
        BY <1>10, <3>1, <3>2, <3>3, <3>4, <4>2 DEF Serves
      <4>3. QED
        BY <4>1, <4>2
    <3>6. QED
      BY <1>2, <1>13, <3>3, <3>5 DEF BoxRight
  <2>3. QED
    BY <2>1, <2>2
<1>17. \A a \in Box : BoxRight(a)'
  BY <1>2, <1>3, <1>13, <1>15, <1>16, OneBox
<1>18. SessionTasksTypeOK'
  BY <1>2, <1>3, <1>13, <1>15 DEF TasksInv, SessionTasksTypeOK, CallPlace, Guests, GuestPlace
<1>19. CallsRight'
  <2>1. \A a \in Create : pc'[a] = "idle" \/ request'[a] \in Request
    BY <1>2, <1>3 DEF TasksInv, CallsRight
  <2>2. \A a \in Create : pc'[a] = "idle" => task'[a] = "none"
    BY <1>2, <1>3 DEF TasksInv, CallsRight
  <2>3. \A n \in Name : entry'[n] # None => pc'[entry'[n]] \in Later
    BY <1>2, <1>3 DEF TasksInv, CallsRight, SessionTasksTypeOK
  <2>4. QED
    BY <2>1, <2>2, <2>3 DEF CallsRight
<1>20. NoCredentialLeft'
  BY <1>2 DEF TasksInv, NoCredentialLeft
<1>21. QED
  BY <1>17, <1>18, <1>19, <1>20 DEF TasksInv

-----------------------------------------------------------------------------
\* a guest goes on, and the hub may have heard of it
LEMMA GuestGoes ==
  ASSUME TasksInv, HubGoesOn, NEW b \in Box, NEW at \in GuestPlace, NEW on, Goes(b, at, on),
         UNCHANGED <<box, meddled>>, Serves(b, box[b], guest[b]) => on \in {None, box[b].of},
         on \in Create \cup {None}, guest[b] # Off,
         Serves(b, box[b], guest[b]) =>
           /\ at = "working" => box[b].id # None \/ box[b].file # None
           /\ at \in {"retrying", "done"} => task'[box[b].of] # "running"
           /\ at = "refused" => doc[b[2]].task # box[b].of
  PROVE  (\A a \in Box : BoxRight(a)') /\ guest' \in [Box -> Guests]
<1>1. PICK g \in Guests : g = [pc |-> at, on |-> on]
  BY DEF Guests
<1>2. g.pc = at /\ g.on = on
  BY <1>1
<1>3. guest' = [guest EXCEPT ![b] = g]
  BY <1>1 DEF Goes
<1>4. guest' \in [Box -> Guests] /\ guest'[b] = g /\ \A a \in Box \ {b} : guest'[a] = guest[a]
  BY <1>3 DEF TasksInv, SessionTasksTypeOK, Guests, GuestPlace
<1>5. BoxRight(b)'
  <2>1. CASE b \in meddled
    BY <2>1 DEF BoxRight
  <2>2. CASE b \notin meddled
    <3>1. Serves(b, box[b], guest[b])
      BY <2>2 DEF TasksInv, BoxRight
    <3>2. PICK x, c : x = box[b] /\ c = x.of
      OBVIOUS
    <3>3. c \in Create /\ pc[c] \in Later /\ b[2] \in Name
      BY <3>1, <3>2 DEF Serves, Box
    <3>4. pc'[c] \in Later /\ (doc'[b[2]].task = c => doc[b[2]].task = c)
      BY <3>3 DEF HubGoesOn
    <3>5. Serves(b, x, g)'
      BY <1>2, <3>1, <3>2, <3>3, <3>4 DEF Serves
    <3>6. QED
      BY <1>4, <3>2, <3>5 DEF BoxRight
  <2>3. QED
    BY <2>1, <2>2
<1>6. QED
  BY <1>4, <1>5, OneBox

\* the row a token names, if there is one, is its own
LEMMA RowIsOwn ==
  ASSUME NEW b
  PROVE  RowOf(b) \in {None, box[b].id} /\ Writer(b) \in {None, box[b].id}
BY DEF RowOf, Writer

\* a document's result or handoff is written; its task stays
LEMMA RowsStay ==
  ASSUME TasksInv, NEW m, NEW w \in Create, NEW what \in {"result", "handoff"},
         doc' = (IF what = "result" THEN [doc EXCEPT ![m].result = w] ELSE [doc EXCEPT ![m].handoff = w])
  PROVE  doc' \in [Name -> Docs] /\ \A n \in Name : doc'[n].task = doc[n].task
<1>1. CASE m \notin Name
  <2>1. doc \in [Name -> Docs]
    BY DEF TasksInv, SessionTasksTypeOK, Docs
  <2>2. doc' = doc
    BY <1>1, <2>1
  <2>3. QED
    BY <2>1, <2>2
<1>2. CASE m \in Name
  <2>1. PICK d \in Docs : d = doc[m]
    BY <1>2 DEF TasksInv, SessionTasksTypeOK, Docs
  <2>2. PICK e \in Docs : e = IF what = "result" THEN [d EXCEPT !.result = w] ELSE [d EXCEPT !.handoff = w]
    BY DEF Docs
  <2>3. e.task = d.task
    BY <2>2 DEF Docs
  <2>4. doc' = [doc EXCEPT ![m] = e]
    BY <2>1, <2>2
  <2>5. doc' \in [Name -> Docs] /\ doc'[m] = e /\ \A n \in Name \ {m} : doc'[n] = doc[n]
    BY <1>2, <2>4 DEF TasksInv, SessionTasksTypeOK, Docs
  <2>6. QED
    BY <2>1, <2>3, <2>5
<1>3. QED
  BY <1>1, <1>2

\* a task that is completed ends, if it runs, and is then to be finalised
LEMMA CompletedEnds ==
  ASSUME TasksInv, NEW c \in Create, Completed(c), UNCHANGED <<calls, token>>
  PROVE  /\ task' \in [Create -> {"none", "running"} \cup Ended] /\ ending' \subseteq Create
         /\ task'[c] # "running" /\ \A a \in Create : task[a] # "running" => task'[a] # "running"
         /\ \A a \in Create : pc[a] = "idle" => task'[a] = "none"
         /\ NoCredentialLeft'
<1>1. task \in [Create -> {"none", "running"} \cup Ended] /\ ending \subseteq Create
  BY DEF TasksInv, SessionTasksTypeOK
<1>2. CASE task[c] = "running"
  <2>1. task' = [task EXCEPT ![c] = "completed"] /\ ending' = ending \cup {c}
    BY <1>2 DEF Completed
  <2>2. task'[c] = "completed" /\ \A a \in Create \ {c} : task'[a] = task[a]
    BY <1>1, <2>1
  <2>3. task' \in [Create -> {"none", "running"} \cup Ended]
    BY <1>1, <2>1 DEF Ended
  <2>4. \A a \in Create : pc[a] = "idle" => task'[a] = "none"
    BY <1>2, <2>2 DEF TasksInv, CallsRight
  <2>5. NoCredentialLeft'
    BY <2>1, <2>2 DEF TasksInv, NoCredentialLeft
  <2>6. QED
    BY <1>1, <2>1, <2>2, <2>3, <2>4, <2>5
<1>3. CASE task[c] # "running"
  <2>1. UNCHANGED <<task, ending>>
    BY <1>3 DEF Completed
  <2>2. QED
    BY <1>1, <1>3, <2>1 DEF TasksInv, CallsRight, NoCredentialLeft
<1>4. QED
  BY <1>2, <1>3

LEMMA GuestKeeps ==
  ASSUME TasksInv, NEW b \in Box,
         \/ Fetches(b) \/ FallsBack(b) \/ Reports(b) \/ ReportsByKey(b) \/ ReportRefused(b)
         \/ ReportLost(b) \/ HandsOff(b)
  PROVE  TasksInv'
<1>1. PICK x, g : x = box[b] /\ g = guest[b]
  OBVIOUS
<1>2. x \in Boxes /\ g \in Guests
  BY <1>1 DEF TasksInv, SessionTasksTypeOK, Boxes, Guests, GuestPlace
<1>3. /\ x.of \in Create \cup {None} /\ x.id \in Create \cup {None} /\ x.env \in Create \cup {None}
      /\ x.file \in Create \cup {None} /\ g.on \in Create \cup {None}
  BY <1>2 DEF Boxes, Guests
<1>4. g.pc # "off" => guest[b] # Off
  BY <1>1 DEF Off
<1>5. {"idle", "working", "retrying", "refused", "lost", "done"} \subseteq GuestPlace
  BY DEF GuestPlace
<1>6. RowOf(b) \in {None, x.id} /\ Writer(b) \in {None, x.id}
  BY <1>1, RowIsOwn
<1>7. Serves(b, x, g) => g.on \in {None, x.of} /\ x.id \in {None, x.of} /\ x.file \in {None, x.of} /\ x.env \in {None, x.of}
  BY DEF Serves
<1>8. ASSUME UNCHANGED <<calls, hub, box, meddled>>, lost' \subseteq Box,
             (\A a \in Box : BoxRight(a)') /\ guest' \in [Box -> Guests]
      PROVE  TasksInv'
  <2>1. SessionTasksTypeOK'
    BY <1>8 DEF TasksInv, SessionTasksTypeOK, Guests, GuestPlace, calls, hub
  <2>2. CallsRight' /\ NoCredentialLeft'
    BY <1>8 DEF TasksInv, CallsRight, NoCredentialLeft, calls, hub
  <2>3. QED
    BY <1>8, <2>1, <2>2 DEF TasksInv
<1>9. lost \subseteq Box
  BY DEF TasksInv, SessionTasksTypeOK
<1>10. UNCHANGED <<calls, hub>> => HubGoesOn
  BY DEF HubGoesOn, calls, hub
<1>11. CASE Fetches(b)
  <2>1. /\ g.pc = "booted" /\ x.id # None /\ RowOf(b) # None /\ Goes(b, "working", RowOf(b))
        /\ UNCHANGED <<calls, hub, box, lost, meddled>>
    BY <1>1, <1>11 DEF Fetches, Is
  <2>2. (\A a \in Box : BoxRight(a)') /\ guest' \in [Box -> Guests]
    <3>1. PICK on : on = RowOf(b)
      OBVIOUS
    <3>2. QED
      BY <1>1, <1>3, <1>4, <1>5, <1>6, <1>7, <1>10, <2>1, <3>1, GuestGoes
  <2>3. QED
    BY <1>8, <1>9, <2>1, <2>2
<1>12. CASE FallsBack(b)
  <2>1. g.pc = "booted" /\ UNCHANGED <<calls, hub, box, lost, meddled>>
    BY <1>1, <1>12 DEF FallsBack, Is
  <2>2. Goes(b, "idle", None) \/ (x.file # None /\ Goes(b, "working", x.file))
    BY <1>1, <1>12 DEF FallsBack
  <2>3. (\A a \in Box : BoxRight(a)') /\ guest' \in [Box -> Guests]
    <3>1. CASE Goes(b, "idle", None)
      BY <1>1, <1>4, <1>5, <1>10, <2>1, <3>1, GuestGoes
    <3>2. CASE x.file # None /\ Goes(b, "working", x.file)
      <4>1. PICK on : on = x.file
        OBVIOUS
      <4>2. QED
        BY <1>1, <1>3, <1>4, <1>5, <1>7, <1>10, <2>1, <3>2, <4>1, GuestGoes
    <3>3. QED
      BY <2>2, <3>1, <3>2
  <2>4. QED
    BY <1>8, <1>9, <2>1, <2>3
<1>13. CASE ReportLost(b)
  <2>1. /\ g.pc = "working" /\ Goes(b, "lost", g.on) /\ lost' = lost \cup {b}
        /\ UNCHANGED <<calls, hub, box, meddled>>
    BY <1>1, <1>13 DEF ReportLost, Is
  <2>2. (\A a \in Box : BoxRight(a)') /\ guest' \in [Box -> Guests]
    BY <1>1, <1>3, <1>4, <1>5, <1>7, <1>10, <2>1, GuestGoes
  <2>3. QED
    BY <1>8, <1>9, <2>1, <2>2
<1>14. CASE ReportRefused(b)
  <2>1. /\ x.file = None /\ UNCHANGED <<calls, hub, box, lost, meddled>>
        /\ \/ g.pc = "working" /\ Writer(b) = None /\ Goes(b, "refused", g.on)
           \/ g.pc = "retrying" /\ Goes(b, "done", g.on)
    BY <1>1, <1>14 DEF ReportRefused, Is
  <2>2. (\A a \in Box : BoxRight(a)') /\ guest' \in [Box -> Guests]
    <3>1. CASE g.pc = "working" /\ Writer(b) = None /\ Goes(b, "refused", g.on)
      <4>1. Serves(b, x, g) => doc[b[2]].task # x.of
        <5>1. HAVE Serves(b, x, g)
        <5>2. x.id # None /\ x.id = x.of
          BY <2>1, <3>1, <5>1 DEF Serves
        <5>3. ~\E n \in Name : doc[n].task = x.id
          BY <1>1, <3>1, <5>2 DEF Writer, RowOf
        <5>4. QED
          BY <5>2, <5>3 DEF Box
      <4>2. QED
        BY <1>1, <1>3, <1>4, <1>5, <1>7, <1>10, <2>1, <3>1, <4>1, GuestGoes
    <3>2. CASE g.pc = "retrying" /\ Goes(b, "done", g.on)
      <4>1. Serves(b, x, g) => task'[x.of] # "running"
        BY <2>1, <3>2 DEF Serves, hub
      <4>2. QED
        BY <1>1, <1>3, <1>4, <1>5, <1>7, <1>10, <2>1, <3>2, <4>1, GuestGoes
    <3>3. QED
      BY <2>1, <3>1, <3>2
  <2>3. QED
    BY <1>8, <1>9, <2>1, <2>2
<1>15. ASSUME NEW w \in Create, Completed(w), UNCHANGED <<calls, token, entry, box, lost, meddled>>,
              Serves(b, x, g) => w = x.of,
              doc' \in [Name -> Docs], \A n \in Name : doc'[n].task = doc[n].task,
              NEW at \in {"done", "retrying"}, Goes(b, at, g.on), g.pc # "off"
       PROVE  TasksInv'
  <2>1. /\ task' \in [Create -> {"none", "running"} \cup Ended] /\ ending' \subseteq Create
        /\ task'[w] # "running" /\ (\A a \in Create : task[a] # "running" => task'[a] # "running")
        /\ (\A a \in Create : pc[a] = "idle" => task'[a] = "none")
        /\ NoCredentialLeft'
    BY <1>15, CompletedEnds
  <2>2. HubGoesOn
    BY <1>15, <2>1 DEF HubGoesOn, calls
  <2>3. at \in GuestPlace /\ at # "working" /\ at # "refused"
    BY <1>5
  <2>4. PICK on : on = g.on
    OBVIOUS
  <2>5. (\A a \in Box : BoxRight(a)') /\ guest' \in [Box -> Guests]
    BY <1>1, <1>3, <1>4, <1>7, <1>15, <2>1, <2>2, <2>3, <2>4, GuestGoes
  <2>6. SessionTasksTypeOK'
    BY <1>15, <2>1, <2>5 DEF TasksInv, SessionTasksTypeOK, Docs, Guests, GuestPlace, calls
  <2>7. CallsRight'
    BY <1>15, <2>1 DEF TasksInv, CallsRight, calls
  <2>8. QED
    BY <2>1, <2>5, <2>6, <2>7 DEF TasksInv
<1>16. CASE Reports(b)
  <2>1. PICK w : w = Writer(b)
    OBVIOUS
  <2>2. w \in Create /\ w = x.id /\ (Serves(b, x, g) => w = x.of)
    BY <1>3, <1>6, <1>7, <1>16, <2>1 DEF Reports
  <2>3. Completed(w) /\ UNCHANGED <<calls, token, entry, box, lost, meddled>> /\ g.pc # "off"
    BY <1>1, <1>16, <2>1 DEF Reports, Is
  <2>4. PICK at \in {"done", "retrying"} : Goes(b, at, g.on)
    BY <1>1, <1>16 DEF Reports
  <2>5. doc' = [doc EXCEPT ![NameOf(w)].result = w]
    BY <1>16, <2>1 DEF Reports
  <2>6. PICK m : m = NameOf(w)
    OBVIOUS
  <2>7. doc' \in [Name -> Docs] /\ \A n \in Name : doc'[n].task = doc[n].task
    BY <2>2, <2>5, <2>6, RowsStay
  <2>8. QED
    BY <1>15, <2>2, <2>3, <2>4, <2>7
<1>17. CASE ReportsByKey(b)
  <2>1. PICK w : w = x.env
    OBVIOUS
  <2>2. w \in Create /\ (Serves(b, x, g) => w = x.of) /\ g.pc # "off"
    BY <1>1, <1>3, <1>7, <1>17, <2>1 DEF ReportsByKey, Is
  <2>3. Completed(w) /\ UNCHANGED <<calls, token, doc, entry, box, lost, meddled>> /\ Goes(b, "done", g.on)
    BY <1>1, <1>17, <2>1 DEF ReportsByKey
  <2>4. doc' \in [Name -> Docs] /\ \A n \in Name : doc'[n].task = doc[n].task
    BY <2>3 DEF TasksInv, SessionTasksTypeOK, Docs
  <2>5. QED
    BY <1>15, <2>2, <2>3, <2>4
<1>18. CASE HandsOff(b)
  <2>1. PICK w : w = Writer(b)
    OBVIOUS
  <2>2. w \in Create /\ doc' = [doc EXCEPT ![NameOf(w)].handoff = w]
        /\ UNCHANGED <<calls, task, token, entry, ending, guests>>
    BY <1>3, <1>6, <1>18, <2>1 DEF HandsOff
  <2>3. PICK m : m = NameOf(w)
    OBVIOUS
  <2>4. doc' \in [Name -> Docs] /\ \A n \in Name : doc'[n].task = doc[n].task
    BY <2>2, <2>3, RowsStay
  <2>5. HubGoesOn
    BY <2>2, <2>4 DEF HubGoesOn, calls
  <2>6. SessionTasksTypeOK' /\ CallsRight' /\ NoCredentialLeft'
    <3>1. SessionTasksTypeOK'
      BY <2>2, <2>4 DEF TasksInv, SessionTasksTypeOK, Docs, calls, guests
    <3>2. CallsRight'
      BY <2>2 DEF TasksInv, CallsRight, calls
    <3>3. NoCredentialLeft'
      BY <2>2 DEF TasksInv, NoCredentialLeft
    <3>4. QED
      BY <3>1, <3>2, <3>3
  <2>7. QED
    BY <2>2, <2>5, <2>6, NoBoxTouched DEF TasksInv, guests
<1>19. QED
  BY <1>11, <1>12, <1>13, <1>14, <1>16, <1>17, <1>18

-----------------------------------------------------------------------------
LEMMA TasksStart == SessionTasksInit => TasksInv
<1> SUFFICES ASSUME SessionTasksInit
             PROVE  TasksInv
  OBVIOUS
<1>1. NoBox \in Boxes /\ Off \in Guests
  BY DEF NoBox, Boxes, Off, Guests, GuestPlace
<1>2. PICK d \in Docs : d = [task |-> None, result |-> None, handoff |-> None]
  BY DEF Docs
<1>3. /\ request \in [Create -> Request \cup {None}] /\ pc \in [Create -> CallPlace]
      /\ task \in [Create -> {"none", "running"} \cup Ended]
      /\ token \in [Create -> {"none", "valid", "gone"}] /\ entry \in [Name -> Create \cup {None}]
      /\ ending = {} /\ lost = {} /\ meddled = {}
  BY DEF SessionTasksInit, CallPlace
<1>4. doc \in [Name -> Docs] /\ box \in [Box -> Boxes] /\ guest \in [Box -> Guests]
  BY <1>1, <1>2 DEF SessionTasksInit
<1>5. SessionTasksTypeOK
  BY <1>3, <1>4 DEF SessionTasksTypeOK, CallPlace, Docs, Boxes, Guests, GuestPlace
<1>6. CallsRight
  BY DEF SessionTasksInit, CallsRight
<1>7. \A b \in Box : BoxRight(b)
  BY DEF SessionTasksInit, BoxRight
<1>8. NoCredentialLeft
  BY DEF SessionTasksInit, NoCredentialLeft
<1>9. QED
  BY <1>5, <1>6, <1>7, <1>8 DEF TasksInv

LEMMA TasksStep == TasksInv /\ [SessionTasksNext]_taskVars => TasksInv'
<1> SUFFICES ASSUME TasksInv, [SessionTasksNext]_taskVars
             PROVE  TasksInv'
  OBVIOUS
<1>1. ASSUME NEW c \in Create, NEW r \in Request,
             RefusesContinue(c, r) \/ Registers(c, r) \/ TakesPlain(c, r)
      PROVE  TasksInv'
  BY <1>1, RequestKeeps
<1>2. ASSUME NEW c \in Create, PipelineStep(c)
      PROVE  TasksInv'
  BY <1>2, StoreKeeps, ProvisionKeeps, EntersKeeps, ConfigureKeeps, StartKeeps DEF PipelineStep
<1>3. ASSUME NEW c \in Create, Expires(c) \/ HealthCheck(c)
      PROVE  TasksInv'
  BY <1>3, LapsesKeep
<1>4. ASSUME NEW c \in Create, Finalizes(c)
      PROVE  TasksInv'
  <2>1. PICK n : n = NameOf(c)
    OBVIOUS
  <2>2. Recycled(n) /\ UNCHANGED <<calls, task, doc>> /\ ending' = ending \ {c} /\ token' = Revoked(c)
    BY <1>4, <2>1 DEF Finalizes
  <2>3. QED
    BY <2>2, RecycleKeeps
<1>5. ASSUME NEW n \in Name, Refreshes(n)
      PROVE  TasksInv'
  BY <1>5, RefreshKeeps
<1>6. ASSUME NEW n \in Name, Deletes(n)
      PROVE  TasksInv'
  <2>1. Recycled(n) /\ UNCHANGED <<calls, task, doc, token, ending>>
    BY <1>6 DEF Deletes
  <2>2. QED
    BY <2>1, RecycleKeeps
<1>7. ASSUME NEW b \in Box, Fetches(b) \/ FallsBack(b) \/ ReportStep(b) \/ HandsOff(b)
      PROVE  TasksInv'
  BY <1>7, GuestKeeps DEF ReportStep
<1>8. CASE UNCHANGED taskVars
  BY <1>8 DEF TasksInv, SessionTasksTypeOK, CallsRight, BoxRight, Serves, NoCredentialLeft,
             taskVars, calls, hub, guests
<1>9. QED
  BY <1>1, <1>2, <1>3, <1>4, <1>5, <1>6, <1>7, <1>8 DEF SessionTasksNext

LEMMA TasksAreServed == TasksInv => TasksFollowSessions
<1> SUFFICES ASSUME TasksInv
             PROVE  TasksFollowSessions
  OBVIOUS
<1>1. ASSUME NEW b \in Box, b \notin meddled
      PROVE  /\ guest[b].on # None => guest[b].on = box[b].of
             /\ Is(b, "done") => task[box[b].of] # "running"
             /\ Is(b, "refused") => doc[b[2]].task # box[b].of
  <2>1. CASE box[b] = NoBox /\ guest[b] = Off
    BY <2>1 DEF Off, Is
  <2>2. CASE Serves(b, box[b], guest[b])
    BY <2>2 DEF Serves, Is
  <2>3. QED
    BY <1>1, <2>1, <2>2 DEF TasksInv, BoxRight
<1>2. QED
  BY <1>1 DEF TasksInv, TasksFollowSessions, GuestsReport, OwnTask, ReportsCount

\* Tasks and the containers that work on them agree: a guest works on the task of
\* the create call its container was made for, a report of it that arrived has ended
\* that task and is refused only where a later create has taken the session's row,
\* whoever took the name and whatever lapsed, unless another call configured or
\* started the container; and a task that was finalised has no valid token left.
THEOREM TasksDoFollowSessions == SessionTasksSpec => [](SessionTasksTypeOK /\ TasksFollowSessions)
<1>1. SessionTasksInit => TasksInv
  BY TasksStart
<1>2. TasksInv /\ [SessionTasksNext]_taskVars => TasksInv'
  BY TasksStep
<1>3. TasksInv => SessionTasksTypeOK /\ TasksFollowSessions
  BY TasksAreServed DEF TasksInv
<1>4. QED
  BY <1>1, <1>2, <1>3, PTL DEF SessionTasksSpec

-----------------------------------------------------------------------------
(***************************************************************************)
(* The relay of a terminal                                                 *)
(***************************************************************************)

Frame == [kind : Data \cup {"ping", "close"}, n : Nat]
Frames == Seq(Frame)

Browsers == [open : BOOLEAN, typed : Nat, inbox : Seq(Nat), saw : Seq(Seq(Nat))]
Ttys == [up : BOOLEAN, open : BOOLEAN, queue : Frames, sent : Seq(Seq(Nat)), part : Seq(Nat),
         got : Seq(Nat)]
Relays == [pc : {"none", "connecting", "relaying", "ended"}, tries : Nat, up : BOOLEAN, down : BOOLEAN,
           buffer : Seq(Nat)]

RelayTyped == browser \in Browsers /\ tty \in Ttys /\ relay \in Relays /\ emitted \in Nat

\* what a frame makes of the messages so far, m, and of the one that is begun, b
FrameRead(f, m, b, m2, b2) ==
    \/ f.kind \in {"ping", "close"} /\ m2 = m /\ b2 = b
    \/ f.kind = "first" /\ m2 = m /\ b2 = <<f.n>>
    \/ f.kind = "more" /\ m2 = m /\ b2 = Append(b, f.n)
    \/ f.kind = "last" /\ m2 = Append(m, Append(b, f.n)) /\ b2 = <<>>
    \/ f.kind = "only" /\ m2 = Append(m, <<f.n>>) /\ b2 = <<>>

\* The frames on their way lead from what the browser saw and the relay has of
\* a message to what ttyd sent: ms and bs are what is read frame by frame.
Leads(ms, bs) ==
    LET n == Len(tty.queue) IN
    /\ ms \in [0..n -> Seq(Seq(Nat))] /\ bs \in [0..n -> Seq(Nat)]
    /\ ms[0] = browser.saw /\ bs[0] = relay.buffer
    /\ ms[n] = tty.sent /\ bs[n] = tty.part
    /\ \A i \in 1..n : FrameRead(tty.queue[i], ms[i - 1], bs[i - 1], ms[i], bs[i])
    /\ \A i \in 0..n : IsPrefix(ms[i], tty.sent)

\* before the handshake nothing has been said
NothingSaid ==
    /\ browser.inbox = <<>> /\ browser.saw = <<>> /\ browser.typed = 0 /\ relay.buffer = <<>>
    /\ tty.queue = <<>> /\ tty.sent = <<>> /\ tty.part = <<>> /\ tty.got = <<>> /\ ~tty.open

Downwards ==
    /\ IsPrefix(browser.saw, tty.sent)
    /\ relay.pc = "relaying" /\ relay.down /\ browser.open => \E ms, bs : Leads(ms, bs)

Upwards ==
    /\ \A i \in 1..Len(tty.got) : tty.got[i] = i
    /\ relay.pc = "relaying" /\ tty.open =>
          /\ browser.typed = Len(tty.got) + Len(browser.inbox)
          /\ \A j \in 1..Len(browser.inbox) : browser.inbox[j] = Len(tty.got) + j

Spoken ==
    /\ relay.pc \in {"none", "connecting"} => NothingSaid
    /\ relay.pc = "ended" => nc = 0 /\ ~tty.open

RelayInv == RelayTyped /\ Downwards /\ Upwards /\ Spoken

LEMMA PrefixGrows ==
  ASSUME NEW T, NEW s \in Seq(T), NEW t \in Seq(T), NEW e \in T, IsPrefix(s, t)
  PROVE  IsPrefix(s, Append(t, e)) /\ IsPrefix(t, Append(t, e)) /\ IsPrefix(t, t)
         /\ IsPrefix(Append(t, e), Append(t, e))
  BY DEF IsPrefix

LEMMA AppendIn ==
  ASSUME NEW T, NEW s \in Seq(T), NEW e \in T
  PROVE  Append(s, e) \in Seq(T) /\ <<e>> \in Seq(T) /\ <<>> \in Seq(T)
         /\ (s = <<>> => Append(s, e) = <<e>>)
<1>1. Append(s, e) \in Seq(T) /\ <<e>> \in Seq(T) /\ <<>> \in Seq(T)
  OBVIOUS
<1>2. ASSUME s = <<>> PROVE Append(s, e) = <<e>>
  BY <1>2
<1>3. QED
  BY <1>1, <1>2

LEMMA EmptyPrefix ==
  ASSUME NEW T, NEW t \in Seq(T)
  PROVE  IsPrefix(<<>>, t) /\ IsPrefix(t, t)
  BY DEF IsPrefix

LEMMA FrameOnce ==
  ASSUME NEW f, NEW m, NEW b, NEW m2, NEW b2, NEW m3, NEW b3,
         FrameRead(f, m, b, m2, b2), FrameRead(f, m, b, m3, b3)
  PROVE  m2 = m3 /\ b2 = b3
  BY DEF FrameRead

\* a frame joins the queue
LEMMA FrameJoins ==
  ASSUME NEW ms, NEW bs, RelayTyped, Leads(ms, bs), NEW f \in Frame, tty' \in Ttys,
         tty'.queue = Append(tty.queue, f), FrameRead(f, tty.sent, tty.part, tty'.sent, tty'.part),
         tty'.sent = tty.sent \/ \E e \in Seq(Nat) : tty'.sent = Append(tty.sent, e),
         browser'.saw = browser.saw, relay'.buffer = relay.buffer
  PROVE  \E ms2, bs2 : Leads(ms2, bs2)'
<1>1. PICK n \in Nat : n = Len(tty.queue)
  BY DEF RelayTyped, Ttys, Frames
<1>2. tty.queue \in Seq(Frame) /\ tty.sent \in Seq(Seq(Nat)) /\ tty.part \in Seq(Nat)
      /\ tty'.sent \in Seq(Seq(Nat)) /\ tty'.part \in Seq(Nat)
  BY DEF RelayTyped, Ttys, Frames
<1>3. /\ Len(tty'.queue) = n + 1 /\ tty'.queue[n + 1] = f
      /\ \A i \in 1..n : tty'.queue[i] = tty.queue[i]
  BY <1>1, <1>2
<1>4. /\ ms \in [0..n -> Seq(Seq(Nat))] /\ bs \in [0..n -> Seq(Nat)]
      /\ ms[0] = browser.saw /\ bs[0] = relay.buffer /\ ms[n] = tty.sent /\ bs[n] = tty.part
      /\ \A i \in 1..n : FrameRead(tty.queue[i], ms[i - 1], bs[i - 1], ms[i], bs[i])
      /\ \A i \in 0..n : IsPrefix(ms[i], tty.sent)
  BY <1>1 DEF Leads
<1>5. PICK sent, part : sent = tty'.sent /\ part = tty'.part
  OBVIOUS
<1>6. PICK ms2 : ms2 = [i \in 0..(n + 1) |-> IF i = n + 1 THEN sent ELSE ms[i]]
  OBVIOUS
<1>7. PICK bs2 : bs2 = [i \in 0..(n + 1) |-> IF i = n + 1 THEN part ELSE bs[i]]
  OBVIOUS
<1>8. /\ ms2[n + 1] = sent /\ bs2[n + 1] = part
      /\ \A i \in 0..n : ms2[i] = ms[i] /\ bs2[i] = bs[i]
      /\ ms2 \in [0..(n + 1) -> Seq(Seq(Nat))] /\ bs2 \in [0..(n + 1) -> Seq(Nat)]
  BY <1>1, <1>2, <1>4, <1>5, <1>6, <1>7
<1>9. \A i \in 1..(n + 1) : FrameRead(tty'.queue[i], ms2[i - 1], bs2[i - 1], ms2[i], bs2[i])
  <2>1. ASSUME NEW i \in 1..n PROVE FrameRead(tty'.queue[i], ms2[i - 1], bs2[i - 1], ms2[i], bs2[i])
    <3>1. i - 1 \in 0..n /\ i \in 0..n
      BY <1>1
    <3>2. tty'.queue[i] = tty.queue[i]
      BY <1>3
    <3>3. ms2[i - 1] = ms[i - 1] /\ ms2[i] = ms[i] /\ bs2[i - 1] = bs[i - 1] /\ bs2[i] = bs[i]
      BY <1>8, <3>1
    <3>4. FrameRead(tty.queue[i], ms[i - 1], bs[i - 1], ms[i], bs[i])
      BY <1>4
    <3>5. QED
      BY <3>2, <3>3, <3>4
  <2>2. FrameRead(tty'.queue[n + 1], ms2[n], bs2[n], ms2[n + 1], bs2[n + 1])
    <3>1. n \in 0..n
      BY <1>1
    <3>2. ms2[n] = tty.sent /\ bs2[n] = tty.part /\ ms2[n + 1] = tty'.sent /\ bs2[n + 1] = tty'.part
      BY <1>4, <1>5, <1>8, <3>1
    <3>3. QED
      BY <1>3, <3>2
  <2>3. ASSUME NEW i \in 1..(n + 1)
        PROVE  FrameRead(tty'.queue[i], ms2[i - 1], bs2[i - 1], ms2[i], bs2[i])
    <3>1. CASE i \in 1..n
      BY <2>1, <3>1
    <3>2. CASE i = n + 1
      <4>1. i - 1 = n
        BY <1>1, <3>2
      <4>2. QED
        BY <2>2, <3>2, <4>1
    <3>3. QED
      BY <1>1, <3>1, <3>2
  <2>4. QED
    BY <2>3
<1>10. \A i \in 0..(n + 1) : IsPrefix(ms2[i], tty'.sent)
  <2>1. ASSUME NEW i \in 0..n PROVE IsPrefix(ms2[i], tty'.sent)
    <3>1. ms2[i] = ms[i] /\ ms[i] \in Seq(Seq(Nat)) /\ IsPrefix(ms[i], tty.sent)
      BY <1>4, <1>8
    <3>2. QED
      BY <1>2, <3>1, PrefixGrows
  <2>2. IsPrefix(ms2[n + 1], tty'.sent)
    BY <1>2, <1>5, <1>8, EmptyPrefix
  <2>3. \A i \in 0..(n + 1) : i \in 0..n \/ i = n + 1
    BY <1>1
  <2>4. QED
    BY <2>1, <2>2, <2>3
<1>11. ms2[0] = browser'.saw /\ bs2[0] = relay'.buffer
  BY <1>1, <1>4, <1>8
<1>12. Leads(ms2, bs2)'
  BY <1>3, <1>5, <1>8, <1>9, <1>10, <1>11 DEF Leads
<1>13. QED
  BY <1>12

\* a frame is read
LEMMA FrameLeaves ==
  ASSUME NEW ms, NEW bs, RelayTyped, Leads(ms, bs), tty.queue # <<>>,
         tty'.queue = Tail(tty.queue), tty'.sent = tty.sent, tty'.part = tty.part,
         FrameRead(Head(tty.queue), browser.saw, relay.buffer, browser'.saw, relay'.buffer)
  PROVE  (\E ms2, bs2 : Leads(ms2, bs2)') /\ IsPrefix(browser'.saw, tty.sent)
<1>1. PICK n \in Nat : n = Len(tty.queue)
  BY DEF RelayTyped, Ttys, Frames
<1>2. tty.queue \in Seq(Frame)
  BY DEF RelayTyped, Ttys, Frames
<1>3. /\ n >= 1 /\ Len(tty'.queue) = n - 1 /\ Head(tty.queue) = tty.queue[1]
      /\ \A i \in 1..(n - 1) : tty'.queue[i] = tty.queue[i + 1]
  BY <1>1, <1>2
<1>4. /\ ms \in [0..n -> Seq(Seq(Nat))] /\ bs \in [0..n -> Seq(Nat)]
      /\ ms[0] = browser.saw /\ bs[0] = relay.buffer /\ ms[n] = tty.sent /\ bs[n] = tty.part
      /\ \A i \in 1..n : FrameRead(tty.queue[i], ms[i - 1], bs[i - 1], ms[i], bs[i])
      /\ \A i \in 0..n : IsPrefix(ms[i], tty.sent)
  BY <1>1 DEF Leads
<1>5. browser'.saw = ms[1] /\ relay'.buffer = bs[1]
  <2>1. 1 \in 1..n /\ 1 - 1 = 0
    BY <1>3
  <2>2. FrameRead(tty.queue[1], ms[0], bs[0], ms[1], bs[1])
    BY <1>4, <2>1
  <2>3. QED
    BY <1>3, <1>4, <2>2, FrameOnce
<1>6. PICK ms2 : ms2 = [i \in 0..(n - 1) |-> ms[i + 1]]
  OBVIOUS
<1>7. PICK bs2 : bs2 = [i \in 0..(n - 1) |-> bs[i + 1]]
  OBVIOUS
<1>8. \A i \in 0..(n - 1) : i + 1 \in 0..n /\ ms2[i] = ms[i + 1] /\ bs2[i] = bs[i + 1]
  BY <1>1, <1>6, <1>7
<1>9. ms2 \in [0..(n - 1) -> Seq(Seq(Nat))] /\ bs2 \in [0..(n - 1) -> Seq(Nat)]
  BY <1>4, <1>6, <1>7, <1>8
<1>10. ASSUME NEW i \in 1..(n - 1)
       PROVE  FrameRead(tty'.queue[i], ms2[i - 1], bs2[i - 1], ms2[i], bs2[i])
  <2>1. i - 1 \in 0..(n - 1) /\ i \in 0..(n - 1) /\ (i - 1) + 1 = i /\ i + 1 \in 1..n
        /\ (i + 1) - 1 = i
    BY <1>1
  <2>2. ms2[i - 1] = ms[i] /\ bs2[i - 1] = bs[i] /\ ms2[i] = ms[i + 1] /\ bs2[i] = bs[i + 1]
    BY <1>8, <2>1
  <2>3. FrameRead(tty.queue[i + 1], ms[(i + 1) - 1], bs[(i + 1) - 1], ms[i + 1], bs[i + 1])
    BY <1>4, <2>1
  <2>4. QED
    BY <1>3, <2>1, <2>2, <2>3
<1>11. \A i \in 0..(n - 1) : IsPrefix(ms2[i], tty'.sent)
  BY <1>4, <1>8
<1>12. ms2[0] = browser'.saw /\ bs2[0] = relay'.buffer
       /\ ms2[n - 1] = tty'.sent /\ bs2[n - 1] = tty'.part
  <2>1. 0 \in 0..(n - 1) /\ n - 1 \in 0..(n - 1) /\ 0 + 1 = 1 /\ (n - 1) + 1 = n
    BY <1>3
  <2>2. ms2[0] = ms[0 + 1] /\ bs2[0] = bs[0 + 1] /\ ms2[n - 1] = ms[(n - 1) + 1]
        /\ bs2[n - 1] = bs[(n - 1) + 1]
    BY <1>8, <2>1
  <2>3. QED
    BY <1>4, <1>5, <2>1, <2>2
<1>13. Leads(ms2, bs2)'
  BY <1>3, <1>9, <1>10, <1>11, <1>12 DEF Leads
<1>14. IsPrefix(browser'.saw, tty.sent)
  <2>1. 1 \in 0..n
    BY <1>3
  <2>2. QED
    BY <1>4, <1>5, <2>1
<1>15. QED
  BY <1>13, <1>14
-----------------------------------------------------------------------------
(* Its steps *)

LEMMA InitRelayInv == RelayInit => RelayInv
<1> SUFFICES ASSUME RelayInit PROVE RelayInv
  OBVIOUS
<1>1. browser \in Browsers /\ browser.inbox = <<>> /\ browser.saw = <<>> /\ browser.typed = 0
  BY DEF RelayInit, Browsers
<1>2. tty \in Ttys /\ tty.queue = <<>> /\ tty.sent = <<>> /\ tty.part = <<>> /\ tty.got = <<>> /\ ~tty.open
  <2>1. PICK up \in BOOLEAN : tty.up = up
    BY DEF RelayInit
  <2>2. <<>> \in Seq(Frame) /\ <<>> \in Seq(Nat) /\ <<>> \in Seq(Seq(Nat))
    OBVIOUS
  <2>3. tty = [up |-> up, open |-> FALSE, queue |-> <<>>, sent |-> <<>>, part |-> <<>>, got |-> <<>>]
    BY <2>1 DEF RelayInit
  <2>4. QED
    BY <2>2, <2>3 DEF Ttys, Frames
<1>3. relay \in Relays /\ relay.pc = "none" /\ relay.buffer = <<>>
  BY DEF RelayInit, Relays
<1>4. RelayTyped
  BY <1>1, <1>2, <1>3 DEF RelayInit, RelayTyped
<1>5. IsPrefix(browser.saw, tty.sent)
  BY <1>1, <1>2 DEF IsPrefix
<1>6. QED
  BY <1>1, <1>2, <1>3, <1>4, <1>5 DEF RelayInv, Downwards, Upwards, Spoken, NothingSaid

\* a step that adds nothing to either direction
LEMMA RelayQuiet ==
  ASSUME RelayInv, browser' \in Browsers, tty' \in Ttys, relay' \in Relays, emitted' \in Nat,
         browser'.saw = browser.saw, browser'.inbox = browser.inbox, browser'.typed = browser.typed,
         browser'.open => browser.open,
         tty'.queue = tty.queue, tty'.sent = tty.sent, tty'.part = tty.part, tty'.got = tty.got,
         tty'.open => tty.open, relay'.buffer = relay.buffer,
         relay'.pc = "relaying" => relay.pc = "relaying" /\ (relay'.down => relay.down),
         relay'.pc \in {"none", "connecting"} => relay.pc \in {"none", "connecting"},
         relay'.pc = "ended" => nc' = 0 /\ ~tty'.open
  PROVE  RelayInv'
<1>1. RelayTyped'
  BY DEF RelayTyped
<1>2. IsPrefix(browser'.saw, tty'.sent)
  BY DEF RelayInv, Downwards
<1>3. ASSUME relay'.pc = "relaying", relay'.down, browser'.open PROVE \E ms, bs : Leads(ms, bs)'
  <2>1. PICK ms, bs : Leads(ms, bs)
    BY <1>3 DEF RelayInv, Downwards
  <2>2. Leads(ms, bs)'
    BY <2>1 DEF Leads
  <2>3. QED
    BY <2>2
<1>4. Downwards'
  BY <1>2, <1>3 DEF Downwards
<1>5. Upwards'
  BY DEF RelayInv, Upwards
<1>6. Spoken'
  BY DEF RelayInv, Spoken, NothingSaid
<1>7. QED
  BY <1>1, <1>4, <1>5, <1>6 DEF RelayInv

LEMMA RelayStates ==
  ASSUME RelayInv
  PROVE  browser \in Browsers /\ tty \in Ttys /\ relay \in Relays /\ emitted \in Nat
  BY DEF RelayInv, RelayTyped

LEMMA TypesKeeps ==
  ASSUME RelayInv, Types
  PROVE  RelayInv'
<1>1. browser \in Browsers /\ tty \in Ttys /\ relay \in Relays /\ emitted \in Nat
  BY RelayStates
<1>2. relay.pc = "relaying" /\ UNCHANGED <<tty, relay, nc, emitted>>
  BY DEF Types
<1>3. PICK n \in Nat : n = browser.typed + 1
  BY <1>1 DEF Browsers
<1>4. PICK inbox : inbox = Append(browser.inbox, n)
  OBVIOUS
<1>5. browser.inbox \in Seq(Nat) /\ tty.got \in Seq(Nat)
  BY <1>1 DEF Browsers, Ttys
<1>6. /\ inbox \in Seq(Nat) /\ Len(inbox) = Len(browser.inbox) + 1 /\ inbox[Len(browser.inbox) + 1] = n
      /\ \A j \in 1..Len(browser.inbox) : inbox[j] = browser.inbox[j]
      /\ Len(browser.inbox) \in Nat /\ Len(tty.got) \in Nat
  BY <1>3, <1>4, <1>5
<1>7. browser' = [browser EXCEPT !.typed = n, !.inbox = inbox]
  BY <1>1, <1>3, <1>4 DEF Types, Browsers
<1>8. browser' \in Browsers /\ browser'.typed = n /\ browser'.inbox = inbox /\ browser'.saw = browser.saw
      /\ browser'.open = browser.open
  BY <1>1, <1>6, <1>7 DEF Browsers
<1>9. RelayTyped'
  BY <1>1, <1>2, <1>8 DEF RelayTyped
<1>10. Downwards'
  <2>1. ASSUME NEW ms, NEW bs, Leads(ms, bs) PROVE Leads(ms, bs)'
    BY <1>2, <1>8, <2>1 DEF Leads
  <2>2. QED
    BY <1>2, <1>8, <2>1 DEF RelayInv, Downwards
<1>11. Upwards'
  <2>0. PICK l \in Nat, g \in Nat : l = Len(browser.inbox) /\ g = Len(tty.got)
    BY <1>6
  <2>1. ASSUME tty.open PROVE n = g + (l + 1)
    <3>1. browser.typed = g + l /\ browser.typed \in Nat
      BY <1>1, <1>2, <2>0, <2>1 DEF RelayInv, Upwards, Browsers
    <3>2. (g + l) + 1 = g + (l + 1)
      OBVIOUS
    <3>3. QED
      BY <1>3, <3>1, <3>2
  <2>2. ASSUME tty.open, NEW j \in 1..(l + 1) PROVE inbox[j] = g + j
    <3>1. \A i \in 1..l : browser.inbox[i] = g + i
      BY <1>2, <2>0, <2>2 DEF RelayInv, Upwards
    <3>2. CASE j \in 1..l
      BY <1>6, <2>0, <3>1, <3>2
    <3>3. CASE j = l + 1
      BY <1>6, <2>0, <2>1, <2>2, <3>3
    <3>4. QED
      BY <2>0, <3>2, <3>3
  <2>3. Len(inbox) = l + 1
    BY <1>6, <2>0
  <2>4. QED
    BY <1>2, <1>8, <2>0, <2>1, <2>2, <2>3 DEF RelayInv, Upwards
<1>12. Spoken'
  BY <1>2 DEF RelayInv, Spoken
<1>13. QED
  BY <1>9, <1>10, <1>11, <1>12 DEF RelayInv

\* a frame of ttyd
LEMMA EmitKeeps ==
  ASSUME RelayInv, NEW f \in Frame, tty.open, tty' \in Ttys, tty'.queue = Append(tty.queue, f),
         FrameRead(f, tty.sent, tty.part, tty'.sent, tty'.part),
         tty'.sent = tty.sent \/ \E e \in Seq(Nat) : tty'.sent = Append(tty.sent, e),
         tty'.got = tty.got, UNCHANGED <<browser, relay, nc>>, emitted' \in Nat
  PROVE  RelayInv'
<1>1. RelayTyped'
  BY RelayStates DEF RelayTyped
<1>2. relay.pc = "relaying"
  BY RelayStates DEF RelayInv, Spoken, NothingSaid, Relays
<1>3. Upwards'
  BY <1>2 DEF RelayInv, Upwards
<1>4. Spoken'
  BY <1>2 DEF Spoken
<1>5. IsPrefix(browser.saw, tty'.sent)
  <2>1. browser.saw \in Seq(Seq(Nat)) /\ tty.sent \in Seq(Seq(Nat)) /\ IsPrefix(browser.saw, tty.sent)
    BY RelayStates DEF RelayInv, Downwards, Browsers, Ttys
  <2>2. CASE tty'.sent = tty.sent
    BY <2>1, <2>2
  <2>3. CASE \E e \in Seq(Nat) : tty'.sent = Append(tty.sent, e)
    BY <2>1, <2>3, PrefixGrows
  <2>4. QED
    BY <2>2, <2>3
<1>6. ASSUME NEW ms, NEW bs, Leads(ms, bs) PROVE \E ms2, bs2 : Leads(ms2, bs2)'
  BY <1>6, FrameJoins DEF RelayInv
<1>7. Downwards'
  BY <1>5, <1>6 DEF RelayInv, Downwards
<1>8. QED
  BY <1>1, <1>3, <1>4, <1>7 DEF RelayInv

LEMMA EmitsKeep ==
  ASSUME RelayInv, NEW fin \in BOOLEAN, EmitsData(fin)
  PROVE  RelayInv'
<1>1. browser \in Browsers /\ tty \in Ttys /\ relay \in Relays /\ emitted \in Nat
  BY RelayStates
<1>2. PICK n \in Nat : n = emitted + 1
  BY <1>1
<1>3. PICK message : message = Append(tty.part, n)
  OBVIOUS
<1>4. message \in Seq(Nat) /\ (tty.part = <<>> => message = <<n>>)
  <2>1. tty.part \in Seq(Nat)
    BY <1>1 DEF Ttys
  <2>2. QED
    BY <1>2, <1>3, <2>1, AppendIn
<1>5. PICK kind \in Data :
        kind = IF tty.part = <<>> THEN IF fin THEN "only" ELSE "first" ELSE IF fin THEN "last" ELSE "more"
  BY DEF Data
<1>6. PICK f : f = [n |-> n, kind |-> kind]
  OBVIOUS
<1>7. f \in Frame /\ f.n = n /\ f.kind = kind
  BY <1>2, <1>5, <1>6 DEF Frame
<1>8. PICK sent : sent = IF fin THEN Append(tty.sent, message) ELSE tty.sent
  OBVIOUS
<1>9. PICK part : part = IF fin THEN <<>> ELSE message
  OBVIOUS
<1>10. PICK queue : queue = Append(tty.queue, f)
  OBVIOUS
<1>11. sent \in Seq(Seq(Nat)) /\ part \in Seq(Nat) /\ queue \in Frames
  BY <1>1, <1>4, <1>7, <1>8, <1>9, <1>10 DEF Ttys, Frames
<1>12. tty' = [tty EXCEPT !.queue = queue, !.part = part, !.sent = sent]
  BY <1>1, <1>2, <1>3, <1>5, <1>6, <1>8, <1>9, <1>10 DEF EmitsData, Ttys
<1>13. tty' \in Ttys /\ tty'.queue = queue /\ tty'.part = part /\ tty'.sent = sent /\ tty'.got = tty.got
  BY <1>1, <1>11, <1>12 DEF Ttys
<1>14. FrameRead(f, tty.sent, tty.part, sent, part)
  BY <1>3, <1>4, <1>5, <1>7, <1>8, <1>9 DEF FrameRead
<1>15. tty.open /\ UNCHANGED <<browser, relay, nc>> /\ emitted' \in Nat
  BY <1>1 DEF EmitsData
<1>16. tty'.sent = tty.sent \/ \E e \in Seq(Nat) : tty'.sent = Append(tty.sent, e)
  BY <1>4, <1>8, <1>13
<1>17. QED
  BY <1>7, <1>10, <1>13, <1>14, <1>15, <1>16, EmitKeeps

\* a frame that says nothing: a ping, or the close that ttyd sends last
LEMMA ControlKeeps ==
  ASSUME RelayInv, EmitsPing \/ \E kind \in {"close", "eof"} : TtyCloses(kind)
  PROVE  RelayInv'
<1>1. browser \in Browsers /\ tty \in Ttys /\ relay \in Relays /\ emitted \in Nat
  BY RelayStates
<1>2. CASE EmitsPing
  <2>1. PICK n \in Nat : n = emitted + 1
    BY <1>1
  <2>2. PICK f : f = [kind |-> "ping", n |-> n]
    OBVIOUS
  <2>3. f \in Frame /\ f.kind = "ping"
    BY <2>1, <2>2 DEF Frame
  <2>4. PICK queue \in Frames : queue = Append(tty.queue, f)
    <3>1. tty.queue \in Seq(Frame)
      BY <1>1 DEF Ttys, Frames
    <3>2. QED
      BY <2>3, <3>1, AppendIn DEF Frames
  <2>5. tty' = [tty EXCEPT !.queue = queue] /\ tty.open /\ UNCHANGED <<browser, relay, nc>>
        /\ emitted' \in Nat
    BY <1>1, <1>2, <2>1, <2>2, <2>4 DEF EmitsPing, TtyEmits, Ttys
  <2>6. tty' \in Ttys /\ tty'.queue = queue /\ tty'.part = tty.part /\ tty'.sent = tty.sent
        /\ tty'.got = tty.got
    BY <1>1, <2>4, <2>5 DEF Ttys
  <2>7. FrameRead(f, tty.sent, tty.part, tty'.sent, tty'.part)
    BY <2>3, <2>6 DEF FrameRead
  <2>8. QED
    BY <2>3, <2>4, <2>5, <2>6, <2>7, EmitKeeps
<1>3. CASE \E kind \in {"close", "eof"} : TtyCloses(kind)
  <2>1. UNCHANGED <<browser, relay, nc, emitted>>
    BY <1>3 DEF TtyCloses
  <2>2. CASE tty' = [tty EXCEPT !.up = FALSE, !.open = FALSE, !.queue = tty.queue]
    <3>1. tty' \in Ttys /\ tty'.queue = tty.queue /\ tty'.part = tty.part /\ tty'.sent = tty.sent
          /\ tty'.got = tty.got /\ ~tty'.open
      BY <1>1, <2>2 DEF Ttys
    <3>2. relay.pc = "ended" => nc = 0
      BY DEF RelayInv, Spoken
    <3>3. QED
      BY <1>1, <2>1, <3>1, <3>2, RelayQuiet
  <2>3. PICK f : f = [kind |-> "close", n |-> 0]
    OBVIOUS
  <2>4. f \in Frame /\ f.kind = "close"
    BY <2>3 DEF Frame
  <2>5. PICK queue \in Frames : queue = Append(tty.queue, f)
    <3>1. tty.queue \in Seq(Frame)
      BY <1>1 DEF Ttys, Frames
    <3>2. QED
      BY <2>4, <3>1, AppendIn DEF Frames
  <2>6. CASE tty.open /\ tty' = [tty EXCEPT !.up = FALSE, !.open = FALSE, !.queue = queue]
    <3>1. tty' \in Ttys /\ tty'.queue = queue /\ tty'.part = tty.part /\ tty'.sent = tty.sent
          /\ tty'.got = tty.got
      BY <1>1, <2>5, <2>6 DEF Ttys
    <3>2. FrameRead(f, tty.sent, tty.part, tty'.sent, tty'.part)
      BY <2>4, <3>1 DEF FrameRead
    <3>3. QED
      BY <1>1, <2>1, <2>4, <2>5, <2>6, <3>1, <3>2, EmitKeeps
  <2>7. QED
    BY <1>1, <1>3, <2>2, <2>3, <2>5, <2>6 DEF TtyCloses, Ttys
<1>4. QED
  BY <1>2, <1>3

\* the handler comes, tries the paths, and goes
LEMMA HandlerKeeps ==
  ASSUME RelayInv, Arrives \/ ConnectFails \/ UpEnds \/ DownEnds \/ Closes \/ BrowserLeaves \/ TtyStarts
  PROVE  RelayInv'
<1>1. browser \in Browsers /\ tty \in Ttys /\ relay \in Relays /\ emitted \in Nat
      /\ (relay.pc = "ended" => nc = 0 /\ ~tty.open)
      /\ (relay.pc \in {"none", "connecting"} => ~tty.open)
  BY RelayStates DEF RelayInv, Spoken, NothingSaid
<1>2. CASE Arrives
  <2>1. /\ relay' = [relay EXCEPT !.pc = "connecting"] /\ relay.pc = "none"
        /\ UNCHANGED <<browser, tty, emitted>>
    BY <1>2 DEF Arrives
  <2>2. relay' \in Relays /\ relay'.pc = "connecting" /\ relay'.buffer = relay.buffer
    BY <1>1, <2>1 DEF Relays
  <2>3. QED
    BY <1>1, <2>1, <2>2, RelayQuiet
<1>3. CASE ConnectFails
  <2>1. PICK n \in Nat : n = relay.tries + 1
    BY <1>1 DEF Relays
  <2>2. CASE relay' = [relay EXCEPT !.tries = n] /\ UNCHANGED <<browser, nc>>
    <3>1. relay' \in Relays /\ relay'.pc = relay.pc /\ relay'.buffer = relay.buffer
          /\ relay'.down = relay.down /\ UNCHANGED <<tty, emitted>>
      BY <1>1, <1>3, <2>2 DEF Relays, ConnectFails
    <3>2. QED
      BY <1>1, <2>2, <3>1, RelayQuiet
  <2>3. CASE /\ relay' = [relay EXCEPT !.pc = "ended", !.tries = n]
             /\ browser' = [browser EXCEPT !.open = FALSE] /\ nc' = 0
    <3>1. relay' \in Relays /\ relay'.pc = "ended" /\ relay'.buffer = relay.buffer
          /\ UNCHANGED <<tty, emitted>> /\ relay.pc = "connecting"
      BY <1>1, <1>3, <2>3 DEF Relays, ConnectFails
    <3>2. browser' \in Browsers /\ browser'.saw = browser.saw /\ browser'.inbox = browser.inbox
          /\ browser'.typed = browser.typed /\ browser'.open = FALSE
      BY <1>1, <2>3 DEF Browsers
    <3>3. QED
      BY <1>1, <2>3, <3>1, <3>2, RelayQuiet
  <2>4. QED
    BY <1>1, <1>3, <2>1, <2>2, <2>3 DEF ConnectFails, Relays
<1>4. CASE UpEnds \/ DownEnds
  <2>1. /\ relay.pc = "relaying" /\ UNCHANGED <<browser, tty, nc, emitted>>
        /\ \/ relay' = [relay EXCEPT !.up = FALSE]
           \/ relay' = [relay EXCEPT !.down = FALSE]
    BY <1>4 DEF UpEnds, DownEnds
  <2>2. relay' \in Relays /\ relay'.pc = relay.pc /\ relay'.buffer = relay.buffer
        /\ (relay'.down => relay.down)
    BY <1>1, <2>1 DEF Relays
  <2>3. QED
    BY <1>1, <2>1, <2>2, RelayQuiet
<1>5. CASE Closes
  <2>1. /\ relay' = [relay EXCEPT !.pc = "ended"] /\ nc' = 0 /\ tty' = [tty EXCEPT !.open = FALSE]
        /\ browser' = [browser EXCEPT !.open = FALSE] /\ UNCHANGED emitted /\ relay.pc = "relaying"
    BY <1>5 DEF Closes
  <2>2. relay' \in Relays /\ relay'.pc = "ended" /\ relay'.buffer = relay.buffer
    BY <1>1, <2>1 DEF Relays
  <2>3. tty' \in Ttys /\ tty'.queue = tty.queue /\ tty'.sent = tty.sent /\ tty'.part = tty.part
        /\ tty'.got = tty.got /\ tty'.open = FALSE
    BY <1>1, <2>1 DEF Ttys
  <2>4. browser' \in Browsers /\ browser'.saw = browser.saw /\ browser'.inbox = browser.inbox
        /\ browser'.typed = browser.typed /\ browser'.open = FALSE
    BY <1>1, <2>1 DEF Browsers
  <2>5. QED
    BY <1>1, <2>1, <2>2, <2>3, <2>4, RelayQuiet
<1>6. CASE BrowserLeaves
  <2>1. browser' = [browser EXCEPT !.open = FALSE] /\ UNCHANGED <<tty, relay, nc, emitted>>
    BY <1>6 DEF BrowserLeaves
  <2>2. browser' \in Browsers /\ browser'.saw = browser.saw /\ browser'.inbox = browser.inbox
        /\ browser'.typed = browser.typed /\ browser'.open = FALSE
    BY <1>1, <2>1 DEF Browsers
  <2>3. QED
    BY <1>1, <2>1, <2>2, RelayQuiet
<1>7. CASE TtyStarts
  <2>1. tty' = [tty EXCEPT !.up = TRUE] /\ UNCHANGED <<browser, relay, nc, emitted>>
    BY <1>7 DEF TtyStarts
  <2>2. tty' \in Ttys /\ tty'.queue = tty.queue /\ tty'.sent = tty.sent /\ tty'.part = tty.part
        /\ tty'.got = tty.got /\ tty'.open = tty.open
    BY <1>1, <2>1 DEF Ttys
  <2>3. QED
    BY <1>1, <2>1, <2>2, RelayQuiet
<1>8. QED
  BY <1>2, <1>3, <1>4, <1>5, <1>6, <1>7

\* the handshake succeeds, and nothing has been said yet
LEMMA ConnectedKeeps ==
  ASSUME RelayInv, Connected
  PROVE  RelayInv'
<1>1. browser \in Browsers /\ tty \in Ttys /\ relay \in Relays /\ emitted \in Nat
  BY RelayStates
<1>2. NothingSaid /\ UNCHANGED <<browser, nc, emitted>>
  BY DEF RelayInv, Spoken, Connected
<1>3. relay' \in Relays /\ relay'.pc = "relaying" /\ relay'.buffer = <<>>
  BY <1>1, <1>2 DEF Connected, Relays, NothingSaid
<1>4. tty' \in Ttys /\ tty'.queue = <<>> /\ tty'.sent = <<>> /\ tty'.part = <<>> /\ tty'.got = <<>>
  BY <1>1, <1>2 DEF Connected, Ttys, NothingSaid
<1>5. RelayTyped'
  BY <1>1, <1>2, <1>3, <1>4 DEF RelayTyped
<1>6. PICK ms : ms = [i \in 0..0 |-> <<>>]
  OBVIOUS
<1>7. ms[0] = <<>> /\ ms \in [0..0 -> Seq(Seq(Nat))] /\ ms \in [0..0 -> Seq(Nat)] /\ IsPrefix(<<>>, <<>>)
  BY <1>6, EmptyPrefix
<1>8. Len(tty'.queue) = 0
  BY <1>4
<1>9. Leads(ms, ms)'
  BY <1>2, <1>3, <1>4, <1>7, <1>8 DEF Leads, NothingSaid
<1>10. Downwards'
  BY <1>2, <1>4, <1>7, <1>9 DEF Downwards, NothingSaid
<1>11. Upwards'
  BY <1>2, <1>4 DEF Upwards, NothingSaid
<1>12. Spoken'
  BY <1>3 DEF Spoken
<1>13. QED
  BY <1>5, <1>10, <1>11, <1>12 DEF RelayInv

LEMMA PumpsUpKeeps ==
  ASSUME RelayInv, PumpsUp
  PROVE  RelayInv'
<1>1. browser \in Browsers /\ tty \in Ttys /\ relay \in Relays /\ emitted \in Nat
  BY RelayStates
<1>2. relay.pc = "relaying" /\ browser.inbox # <<>> /\ UNCHANGED <<nc, emitted>>
      /\ browser' = [browser EXCEPT !.inbox = Tail(@)]
  BY DEF PumpsUp
<1>3. browser.inbox \in Seq(Nat) /\ tty.got \in Seq(Nat)
  BY <1>1 DEF Browsers, Ttys
<1>4. PICK rest : rest = Tail(browser.inbox)
  OBVIOUS
<1>5. PICK head : head = Head(browser.inbox)
  OBVIOUS
<1>6. /\ rest \in Seq(Nat) /\ Len(rest) = Len(browser.inbox) - 1 /\ Len(browser.inbox) \in Nat
      /\ Len(browser.inbox) >= 1 /\ head = browser.inbox[1] /\ head \in Nat
      /\ \A j \in 1..Len(rest) : rest[j] = browser.inbox[j + 1]
  BY <1>2, <1>3, <1>4, <1>5
<1>7. browser' \in Browsers /\ browser'.inbox = rest /\ browser'.saw = browser.saw
      /\ browser'.typed = browser.typed /\ browser'.open = browser.open
  BY <1>1, <1>2, <1>4, <1>6 DEF Browsers
<1>8. CASE tty.open
  <2>1. PICK got : got = Append(tty.got, head)
    OBVIOUS
  <2>2. got \in Seq(Nat) /\ Len(got) = Len(tty.got) + 1 /\ got[Len(tty.got) + 1] = head
        /\ (\A j \in 1..Len(tty.got) : got[j] = tty.got[j]) /\ Len(tty.got) \in Nat
    BY <1>3, <1>6, <2>1
  <2>3. tty' = [tty EXCEPT !.got = got] /\ UNCHANGED relay
    BY <1>1, <1>5, <1>8, <2>1 DEF PumpsUp, Ttys
  <2>4. tty' \in Ttys /\ tty'.queue = tty.queue /\ tty'.sent = tty.sent /\ tty'.part = tty.part
        /\ tty'.got = got /\ tty'.open = tty.open
    BY <1>1, <2>2, <2>3 DEF Ttys
  <2>5. RelayTyped'
    BY <1>1, <1>2, <1>7, <2>3, <2>4 DEF RelayTyped
  <2>6. Downwards'
    <3>1. ASSUME NEW ms, NEW bs, Leads(ms, bs) PROVE Leads(ms, bs)'
      BY <1>7, <2>3, <2>4, <3>1 DEF Leads
    <3>2. QED
      BY <1>7, <2>3, <2>4, <3>1 DEF RelayInv, Downwards
  <2>7. /\ browser.typed = Len(tty.got) + Len(browser.inbox)
        /\ \A j \in 1..Len(browser.inbox) : browser.inbox[j] = Len(tty.got) + j
        /\ \A i \in 1..Len(tty.got) : tty.got[i] = i
    BY <1>2, <1>8 DEF RelayInv, Upwards
  <2>8. ASSUME NEW i \in 1..Len(got) PROVE got[i] = i
    <3>1. 1 \in 1..Len(browser.inbox)
      BY <1>6
    <3>2. head = Len(tty.got) + 1
      BY <1>6, <2>7, <3>1
    <3>3. i \in 1..Len(tty.got) \/ i = Len(tty.got) + 1
      BY <2>2
    <3>4. QED
      BY <2>2, <2>7, <3>2, <3>3
  <2>9. ASSUME NEW j \in 1..Len(rest) PROVE rest[j] = Len(got) + j
    <3>1. j + 1 \in 1..Len(browser.inbox)
      BY <1>6
    <3>2. rest[j] = Len(tty.got) + (j + 1)
      BY <1>6, <2>7, <3>1
    <3>3. PICK g \in Nat : g = Len(tty.got)
      BY <2>2
    <3>4. j \in Nat /\ Len(got) = g + 1 /\ rest[j] = g + (j + 1)
      BY <1>6, <2>2, <3>2, <3>3
    <3>5. g + (j + 1) = (g + 1) + j
      BY <3>4
    <3>6. QED
      BY <3>4, <3>5
  <2>10. browser.typed = Len(got) + Len(rest)
    <3>1. PICK g \in Nat, l \in Nat : g = Len(tty.got) /\ l = Len(browser.inbox)
      BY <1>6, <2>2
    <3>2. browser.typed = g + l /\ Len(got) = g + 1 /\ Len(rest) = l - 1
      BY <1>6, <2>2, <2>7, <3>1
    <3>3. g + l = (g + 1) + (l - 1)
      OBVIOUS
    <3>4. QED
      BY <3>2, <3>3
  <2>11. Upwards'
    BY <1>7, <2>4, <2>8, <2>9, <2>10 DEF Upwards
  <2>12. Spoken'
    BY <1>2, <2>3 DEF Spoken
  <2>13. QED
    BY <2>5, <2>6, <2>11, <2>12 DEF RelayInv
<1>9. CASE ~tty.open
  <2>1. UNCHANGED tty /\ relay' \in {relay, [relay EXCEPT !.up = FALSE]}
    BY <1>9 DEF PumpsUp
  <2>2. relay' \in Relays /\ relay'.pc = relay.pc /\ relay'.down = relay.down
        /\ relay'.buffer = relay.buffer
    BY <1>1, <2>1 DEF Relays
  <2>3. RelayTyped'
    BY <1>1, <1>2, <1>7, <2>1, <2>2 DEF RelayTyped
  <2>4. Downwards'
    <3>1. ASSUME NEW ms, NEW bs, Leads(ms, bs) PROVE Leads(ms, bs)'
      BY <1>7, <2>1, <2>2, <3>1 DEF Leads
    <3>2. QED
      BY <1>7, <2>1, <2>2, <3>1 DEF RelayInv, Downwards
  <2>5. Upwards' /\ Spoken'
    BY <1>2, <1>9, <2>1, <2>2 DEF RelayInv, Upwards, Spoken
  <2>6. QED
    BY <2>3, <2>4, <2>5 DEF RelayInv
<1>10. QED
  BY <1>8, <1>9

LEMMA PumpsDownKeeps ==
  ASSUME RelayInv, PumpsDown
  PROVE  RelayInv'
<1>1. browser \in Browsers /\ tty \in Ttys /\ relay \in Relays /\ emitted \in Nat
  BY RelayStates
<1>2. /\ relay.pc = "relaying" /\ relay.down /\ tty.queue # <<>> /\ UNCHANGED <<nc, emitted>>
      /\ tty' = [tty EXCEPT !.queue = Tail(@)]
  BY DEF PumpsDown
<1>3. PICK f : f = Head(tty.queue)
  OBVIOUS
<1>4. f \in Frame /\ Tail(tty.queue) \in Frames
  BY <1>1, <1>2, <1>3 DEF Ttys, Frames
<1>5. tty' \in Ttys /\ tty'.queue = Tail(tty.queue) /\ tty'.sent = tty.sent /\ tty'.part = tty.part
      /\ tty'.got = tty.got /\ tty'.open = tty.open
  BY <1>1, <1>2, <1>4 DEF Ttys
<1>6. PICK longer \in Seq(Nat) : longer = Append(relay.buffer, f.n)
  <2>1. relay.buffer \in Seq(Nat) /\ f.n \in Nat
    BY <1>1, <1>4 DEF Relays, Frame
  <2>2. QED
    BY <2>1, AppendIn
<1>7. PICK alone \in Seq(Nat) : alone = <<f.n>>
  <2>1. relay.buffer \in Seq(Nat) /\ f.n \in Nat
    BY <1>1, <1>4 DEF Relays, Frame
  <2>2. QED
    BY <2>1, AppendIn
<1>8. \/ f.kind = "ping" /\ UNCHANGED browser
         /\ relay' \in {[relay EXCEPT !.buffer = relay.buffer], [relay EXCEPT !.down = FALSE]}
      \/ f.kind = "close" /\ relay' = [relay EXCEPT !.down = FALSE] /\ UNCHANGED browser
      \/ f.kind = "first" /\ relay' = [relay EXCEPT !.buffer = alone] /\ UNCHANGED browser
      \/ f.kind = "more" /\ relay' = [relay EXCEPT !.buffer = longer] /\ UNCHANGED browser
      \/ f.kind = "last" /\ Received(longer)
      \/ f.kind = "only" /\ Received(alone)
  <2>1. AfterPing = relay.buffer /\ [relay EXCEPT !.buffer = Append(@, f.n)] = [relay EXCEPT !.buffer = longer]
    BY <1>1, <1>6 DEF AfterPing, Relays
  <2>2. QED
    BY <1>3, <1>6, <1>7, <2>1 DEF PumpsDown
<1>9. /\ browser' \in Browsers /\ relay' \in Relays
      /\ browser'.inbox = browser.inbox /\ browser'.typed = browser.typed /\ browser'.open = browser.open
      /\ relay'.pc = "relaying"
      /\ \/ ~relay'.down /\ browser'.saw = browser.saw
         \/ ~browser.open /\ browser'.saw = browser.saw
         \/ FrameRead(f, browser.saw, relay.buffer, browser'.saw, relay'.buffer)
  <2>1. ASSUME UNCHANGED browser, relay' = [relay EXCEPT !.down = FALSE] PROVE
          relay' \in Relays /\ relay'.pc = "relaying" /\ ~relay'.down
    BY <1>1, <1>2, <2>1 DEF Relays
  <2>2. ASSUME NEW b \in Seq(Nat), relay' = [relay EXCEPT !.buffer = b] PROVE
          relay' \in Relays /\ relay'.pc = "relaying" /\ relay'.buffer = b
    BY <1>1, <1>2, <2>2 DEF Relays
  <2>3. relay.buffer \in Seq(Nat)
    BY <1>1 DEF Relays
  <2>4. CASE f.kind \in {"ping", "close", "first", "more"}
    BY <1>1, <1>6, <1>7, <1>8, <2>1, <2>2, <2>3, <2>4 DEF FrameRead
  <2>5. ASSUME NEW m \in Seq(Nat), Received(m), browser.open PROVE
          /\ browser' \in Browsers /\ relay' \in Relays /\ relay'.pc = "relaying"
          /\ browser'.inbox = browser.inbox /\ browser'.typed = browser.typed
          /\ browser'.open = browser.open
          /\ browser'.saw = Append(browser.saw, m) /\ relay'.buffer = <<>>
    <3>1. PICK saw \in Seq(Seq(Nat)) : saw = Append(browser.saw, m)
      <4>1. browser.saw \in Seq(Seq(Nat)) /\ m \in Seq(Nat)
        BY <1>1, <2>5 DEF Browsers
      <4>2. QED
        BY <4>1, AppendIn
    <3>2. browser' = [browser EXCEPT !.saw = saw] /\ relay' = [relay EXCEPT !.buffer = <<>>]
      BY <1>1, <2>5, <3>1 DEF Received, Browsers
    <3>3. <<>> \in Seq(Nat)
      OBVIOUS
    <3>4. QED
      BY <1>1, <1>2, <3>1, <3>2, <3>3 DEF Browsers, Relays
  <2>6. CASE f.kind \in {"last", "only"} /\ browser.open
    <3>1. CASE f.kind = "last"
      BY <1>6, <1>8, <2>5, <2>6, <3>1 DEF FrameRead
    <3>2. CASE f.kind = "only"
      BY <1>7, <1>8, <2>5, <2>6, <3>2 DEF FrameRead
    <3>3. QED
      BY <2>6, <3>1, <3>2
  <2>7. CASE f.kind \in {"last", "only"} /\ ~browser.open
    <3>1. UNCHANGED browser /\ relay' = [relay EXCEPT !.down = FALSE]
      BY <1>8, <2>7 DEF Received
    <3>2. QED
      BY <1>1, <2>1, <3>1
  <2>8. QED
    BY <1>4, <2>4, <2>6, <2>7 DEF Frame, Data
<1>10. RelayTyped'
  BY <1>1, <1>2, <1>5, <1>9 DEF RelayTyped
<1>11. Upwards' /\ Spoken'
  BY <1>2, <1>5, <1>9 DEF RelayInv, Upwards, Spoken
<1>12. IsPrefix(browser.saw, tty.sent)
  BY DEF RelayInv, Downwards
<1>13. CASE FrameRead(f, browser.saw, relay.buffer, browser'.saw, relay'.buffer) /\ browser.open
  <2>1. PICK ms, bs : Leads(ms, bs)
    BY <1>2, <1>13 DEF RelayInv, Downwards
  <2>2. (\E ms2, bs2 : Leads(ms2, bs2)') /\ IsPrefix(browser'.saw, tty.sent)
    BY <1>2, <1>3, <1>5, <1>13, <2>1, FrameLeaves DEF RelayInv
  <2>3. Downwards'
    BY <1>5, <2>2 DEF Downwards
  <2>4. QED
    BY <1>10, <1>11, <2>3 DEF RelayInv
<1>14. CASE ~browser.open \/ (~relay'.down /\ browser'.saw = browser.saw)
  <2>1. browser'.saw = browser.saw
    BY <1>8, <1>14 DEF Received
  <2>2. Downwards'
    BY <1>5, <1>9, <1>12, <1>14, <2>1 DEF Downwards
  <2>3. QED
    BY <1>10, <1>11, <2>2 DEF RelayInv
<1>15. QED
  BY <1>9, <1>13, <1>14

LEMMA RelayKeeps == RelayInv /\ [RelayNext]_relayVars => RelayInv'
<1> SUFFICES ASSUME RelayInv, [RelayNext]_relayVars PROVE RelayInv'
  OBVIOUS
<1>1. CASE UNCHANGED relayVars
  <2>1. UNCHANGED <<browser, tty, relay, nc, emitted>>
    BY <1>1 DEF relayVars
  <2>2. relay.pc = "ended" => nc = 0 /\ ~tty.open
    BY DEF RelayInv, Spoken
  <2>3. QED
    BY <2>1, <2>2, RelayStates, RelayQuiet
<1>2. CASE RelayNext
  BY <1>2, TypesKeeps, EmitsKeep, ControlKeeps, HandlerKeeps, ConnectedKeeps, PumpsUpKeeps,
     PumpsDownKeeps DEF RelayNext, HandlerStep
<1>3. QED
  BY <1>1, <1>2

\* Whatever messages of whatever fragments with pings in between are sent, and
\* whichever side goes at any point: the browser has seen ttyd's messages whole
\* and in order, ttyd has got the browser's, and no nc is left of a relay that
\* ended (_relay_ttyd, to_backend, to_browser, recv).
THEOREM RelayIsFaithful == RelaySpec => []RelaysFaithfully
<1>1. RelayInit => RelayInv
  BY InitRelayInv
<1>2. RelayInv /\ [RelayNext]_relayVars => RelayInv'
  BY RelayKeeps
<1>3. RelayInv => RelaysFaithfully
  BY DEF RelayInv, Downwards, Upwards, Spoken, RelaysFaithfully
<1>4. QED
  BY <1>1, <1>2, <1>3, PTL DEF RelaySpec

-----------------------------------------------------------------------------
(***************************************************************************)
(* The outbox.  A row that no fault has touched is sent once, after all     *)
(* that were sent before it: what is under way at the hub beside the POST   *)
(* the loop waits for was given up, so that its rows are unconfirmed.       *)
(***************************************************************************)

Logged == {stored[i] : i \in 1..Len(stored)}
Current(p) == flusher.pc = "sending" /\ p.no = flusher.no
Sending == IF flusher.pc \in {"sending", "sent"} THEN flusher.batch ELSE {}

OutboxTyped ==
  /\ OutboxTypeOK
  /\ \A p, q \in posts : p.no = q.no => p = q

\* what the loop has in hands
BatchHeld ==
  /\ flusher.pc \in {"sending", "sent", "failed"} => flusher.batch \subseteq rows \ resting
  /\ flusher.pc = "sent" => flusher.batch \subseteq Logged
  /\ flusher.pc = "failed" => flusher.batch \subseteq unconfirmed
  /\ resting \subseteq unconfirmed

\* what the hub has in hands
PostSound(p) ==
  IF Current(p) THEN p.left \subseteq flusher.batch /\ flusher.batch \ p.left \subseteq Logged
  ELSE p.left \subseteq unconfirmed

\* the row comes after what the hub has got or will get by these POSTs
After(k, through) ==
  /\ \A m \in Logged : m < k
  /\ \A q \in through : \A m \in q.left : m < k
FreshInOrder ==
  /\ \A k \in (rows \ unconfirmed) \ Sending : After(k, posts)
  /\ \A p \in posts : Current(p) => \A k \in p.left \ unconfirmed : After(k, posts \ {p})

OutboxInv ==
  /\ OutboxTyped /\ BatchHeld
  /\ \A p \in posts : PostSound(p)
  /\ FreshInOrder
  /\ DeliveredOrKept /\ OnlyRetriesLag

LEMMA OutboxFacts ==
  ASSUME OutboxTypeOK
  PROVE  /\ appended \in Nat /\ MaxRows \in Nat /\ MaxFaults \in Nat
         /\ \A n \in 1..appended : n \in Nat
         /\ rows \subseteq 1..appended /\ flusher.batch \subseteq 1..appended
         /\ Logged \subseteq 1..appended
         /\ \A p \in posts : p.left \subseteq 1..appended /\ p.no \in Nat /\ p.no <= flusher.no
         /\ flusher.no \in Nat /\ Len(stored) \in Nat
<1>1. MaxRows \in Nat /\ MaxFaults \in Nat /\ appended \in Nat
  BY OutboxAssumption DEF OutboxTypeOK
<1>2. Logged \subseteq 1..appended /\ Len(stored) \in Nat
  BY DEF Logged, OutboxTypeOK
<1>3. flusher.no \in Nat /\ flusher.batch \subseteq 1..appended
  BY DEF OutboxTypeOK
<1>4. \A p \in posts : p.left \subseteq 1..appended /\ p.no \in 1..flusher.no
  BY DEF OutboxTypeOK
<1>5. QED
  BY <1>1, <1>2, <1>3, <1>4 DEF OutboxTypeOK

\* a batch holds the first of the rows that are due
LEMMA DueAreFirst ==
  ASSUME OutboxTypeOK
  PROVE  /\ DueRows \subseteq rows \ resting
         /\ \A m \in DueRows, k \in (rows \ resting) \ DueRows : m < k
<1> DEFINE due == rows \ resting
           UpTo(n) == {k \in due : k <= n}
<1>1. MaxBatch \in Nat /\ appended \in Nat /\ due \subseteq 1..appended
  BY OutboxAssumption, OutboxFacts
<1>2. IsFiniteSet(1..appended)
  BY <1>1, FS_Interval
<1>3. \A n \in due : IsFiniteSet(UpTo(n)) /\ Cardinality(UpTo(n)) \in Nat
  BY <1>1, <1>2, FS_Subset, FS_CardinalityType
<1>4. DueRows = {n \in due : Cardinality(UpTo(n)) <= MaxBatch}
  BY DEF DueRows
<1>5. ASSUME NEW m \in DueRows, NEW k \in due \ DueRows, ~(m < k) PROVE FALSE
  <2>1. m \in due /\ k <= m /\ k \in Nat /\ m \in Nat
    BY <1>1, <1>4, <1>5
  <2>2. UpTo(k) \subseteq UpTo(m)
    BY <1>1, <2>1
  <2>3. Cardinality(UpTo(k)) <= Cardinality(UpTo(m))
    BY <1>3, <2>1, <2>2, FS_Subset
  <2>4. Cardinality(UpTo(m)) <= MaxBatch /\ ~(Cardinality(UpTo(k)) <= MaxBatch)
    BY <1>4
  <2>5. QED
    BY <1>1, <1>3, <2>1, <2>3, <2>4
<1>6. QED
  BY <1>4, <1>5

LEMMA OutboxStarts == OutboxInit => OutboxInv
<1> SUFFICES ASSUME OutboxInit PROVE OutboxInv
  OBVIOUS
<1>1. Len(stored) = 0 /\ stored = <<>> /\ 0 \in Nat /\ Logged = {}
  BY DEF OutboxInit, Logged
<1>2. OutboxTyped
  BY <1>1, OutboxAssumption DEF OutboxInit, OutboxTyped, OutboxTypeOK
<1>3. QED
  BY <1>1, <1>2 DEF OutboxInit, OutboxInv, BatchHeld, FreshInOrder, DeliveredOrKept, OnlyRetriesLag

\* what is said of rows, POSTs and the log stays said while these stay
LEMMA OutboxLogKept ==
  ASSUME UNCHANGED stored
  PROVE  Logged' = Logged
BY DEF Logged

LEMMA LagKept ==
  ASSUME OnlyRetriesLag, UNCHANGED stored, unconfirmed \subseteq unconfirmed'
  PROVE  OnlyRetriesLag'
BY DEF OnlyRetriesLag

LEMMA KeptByLog == OutboxTypeOK => (DeliveredOrKept <=> \A n \in 1..appended : n \in rows \cup Logged)
BY DEF DeliveredOrKept, Logged

\* the number of faults and the place of the loop alone
LEMMA FaultTyped == ASSUME faults \in 0..MaxFaults, Faulty \/ UNCHANGED faults PROVE faults' \in 0..MaxFaults
BY OutboxAssumption DEF Faulty

LEMMA AppendKeeps ==
  ASSUME OutboxInv, AppendEnvelope
  PROVE  OutboxInv'
<1>1. OutboxTypeOK
  BY DEF OutboxInv, OutboxTyped
<1>2. /\ appended' = appended + 1 /\ rows' = rows \cup {appended + 1} /\ appended < MaxRows
      /\ UNCHANGED <<resting, flusher, posts, stored, unconfirmed, faults>>
  BY DEF AppendEnvelope
<1>3. 1..appended \subseteq 1..appended' /\ appended' \in 0..MaxRows /\ appended' \in 1..appended'
  BY <1>1, <1>2, OutboxFacts
<1>4. OutboxTyped'
  <2>1. stored' \in Seq(1..appended') /\ flusher' \in [pc : {"off", "idle", "sending", "sent", "failed"},
                                                    batch : SUBSET (1..appended'), no : Nat]
    BY <1>1, <1>2, <1>3 DEF OutboxTypeOK
  <2>2. posts' \subseteq [no : 1..flusher'.no, left : SUBSET (1..appended')]
    BY <1>1, <1>2, <1>3 DEF OutboxTypeOK
  <2>3. QED
    BY <1>1, <1>2, <1>3, <2>1, <2>2 DEF OutboxTypeOK, OutboxTyped, OutboxInv
<1>5. Logged' = Logged /\ Sending' = Sending /\ (\A p : Current(p)' <=> Current(p))
  BY <1>2 DEF Logged, Sending, Current
<1>6. BatchHeld' /\ \A p \in posts' : PostSound(p)'
  BY <1>2, <1>5 DEF OutboxInv, BatchHeld, PostSound
<1>7. \A k : /\ After(k, posts)' <=> After(k, posts)
            /\ \A p : After(k, posts \ {p})' <=> After(k, posts \ {p})
  BY <1>2, <1>5 DEF After
<1>8. FreshInOrder'
  <2>1. \A m \in 1..appended : m < appended + 1
    BY <1>1, OutboxFacts
  <2>2. After(appended + 1, posts)
    BY <1>1, <2>1, OutboxFacts DEF After
  <2>3. QED
    BY <1>2, <1>5, <1>7, <2>2 DEF OutboxInv, FreshInOrder
<1>9. DeliveredOrKept'
  <2>1. \A n \in 1..appended' : n \in 1..appended \/ n = appended'
    BY <1>1, <1>2, OutboxFacts
  <2>2. QED
    BY <1>1, <1>2, <1>4, <1>5, <2>1, KeptByLog DEF OutboxInv, OutboxTyped, DeliveredOrKept
<1>10. OnlyRetriesLag'
  BY <1>2, LagKept DEF OutboxInv
<1>11. QED
  BY <1>4, <1>6, <1>8, <1>9, <1>10 DEF OutboxInv

\* the loop moves, and deletes or delays rows of its batch
LEMMA FlusherKeeps ==
  ASSUME OutboxInv, OutboxTyped', UNCHANGED <<appended, stored>>, posts' \subseteq posts,
         rows' \subseteq rows, rows \ rows' \subseteq Logged,
         unconfirmed \subseteq unconfirmed', BatchHeld',
         \A p \in posts' : PostSound(p)',
         \A p \in posts' : Current(p)' => Current(p),
         (rows' \ unconfirmed') \ Sending' \subseteq (rows \ unconfirmed) \ Sending
  PROVE  OutboxInv'
<1>1. OutboxTypeOK /\ OutboxTypeOK'
  BY DEF OutboxInv, OutboxTyped
<1>2. Logged' = Logged
  BY OutboxLogKept
<1>3. \A k : /\ After(k, posts) => After(k, posts)'
            /\ \A p : After(k, posts \ {p}) => After(k, posts \ {p})'
  BY <1>2 DEF After
<1>4. FreshInOrder'
  BY <1>3 DEF OutboxInv, FreshInOrder
<1>5. DeliveredOrKept'
  BY <1>1, <1>2, KeptByLog DEF OutboxInv, DeliveredOrKept, Logged
<1>6. QED
  BY <1>4, <1>5, LagKept DEF OutboxInv

\* the types of a step that gives out no row and no POST
LEMMA QuietTyping ==
  ASSUME OutboxTyped, appended' = appended, rows' \subseteq rows, resting' \subseteq rows',
         unconfirmed' \subseteq unconfirmed \cup flusher.batch, posts' \subseteq posts, stored' = stored,
         Faulty \/ UNCHANGED faults,
         flusher' = flusher \/ \E place \in {"off", "idle", "sending", "sent", "failed"} : FlusherIs(place)
  PROVE  OutboxTyped' /\ flusher'.batch = flusher.batch /\ flusher'.no = flusher.no
<1>1. OutboxTypeOK
  BY DEF OutboxTyped
<1>2. /\ flusher' \in [pc : {"off", "idle", "sending", "sent", "failed"}, batch : SUBSET (1..appended), no : Nat]
      /\ flusher'.batch = flusher.batch /\ flusher'.no = flusher.no
  BY <1>1 DEF FlusherIs, OutboxTypeOK
<1>3. faults' \in 0..MaxFaults
  BY <1>1, FaultTyped DEF OutboxTypeOK
<1>4. unconfirmed' \subseteq 1..appended
  BY <1>1, OutboxFacts DEF OutboxTypeOK
<1>5. OutboxTypeOK'
  BY <1>1, <1>2, <1>3, <1>4 DEF OutboxTypeOK
<1>6. QED
  BY <1>2, <1>5 DEF OutboxTyped

LEMMA FlusherMoves ==
  ASSUME OutboxTypeOK, NEW place, FlusherIs(place)
  PROVE  flusher'.pc = place
BY DEF FlusherIs, OutboxTypeOK

LEMMA AnsweredKeeps ==
  ASSUME OutboxInv, Answered
  PROVE  OutboxInv'
<1>1. OutboxTyped /\ OutboxTypeOK
  BY DEF OutboxInv, OutboxTyped
<1>2. PICK done : done = [no |-> flusher.no, left |-> {}]
  OBVIOUS
<1>3. /\ flusher.pc = "sending" /\ done \in posts /\ posts' = posts \ {done} /\ FlusherIs("sent")
      /\ UNCHANGED <<appended, rows, resting, stored, unconfirmed, faults>>
      /\ done.no = flusher.no /\ done.left = {}
  BY <1>2 DEF Answered
<1>4. OutboxTyped' /\ flusher'.pc = "sent" /\ flusher'.batch = flusher.batch /\ flusher'.no = flusher.no
  BY <1>1, <1>3, QuietTyping, FlusherMoves DEF OutboxTypeOK
<1>5. Logged' = Logged /\ Sending' = Sending /\ \A p : ~Current(p)'
  BY <1>3, <1>4 DEF Logged, Sending, Current
<1>6. flusher.batch \subseteq Logged
  <2>1. PostSound(done) /\ Current(done)
    BY <1>3 DEF OutboxInv, Current
  <2>2. flusher.batch \ done.left \subseteq Logged
    BY <2>1 DEF PostSound
  <2>3. QED
    BY <1>3, <2>2
<1>7. BatchHeld'
  BY <1>3, <1>4, <1>5, <1>6 DEF OutboxInv, BatchHeld
<1>8. \A p \in posts' : PostSound(p)'
  <2>1. ASSUME NEW p \in posts' PROVE p.left \subseteq unconfirmed
    <3>1. p \in posts /\ p # done /\ p.no # flusher.no
      BY <1>1, <1>3, <2>1 DEF OutboxTyped
    <3>2. QED
      BY <3>1 DEF OutboxInv, PostSound, Current
  <2>2. QED
    BY <1>3, <1>5, <2>1 DEF PostSound
<1>9. QED
  BY <1>3, <1>4, <1>5, <1>7, <1>8, FlusherKeeps

\* the loop does not wait for its POST any more, and the batch is unconfirmed
LEMMA GivenUpKeeps ==
  ASSUME OutboxInv, flusher.pc \in {"sending", "sent", "failed"},
         UNCHANGED <<appended, stored, posts>>, Faulty \/ UNCHANGED faults,
         NEW place \in {"off", "idle", "failed"}, FlusherIs(place),
         NEW gone \in SUBSET (flusher.batch \cap Logged), rows' = rows \ gone,
         resting' \subseteq resting \cup flusher.batch, resting' \subseteq rows',
         place = "failed" => gone = {} /\ resting' = resting,
         unconfirmed' = unconfirmed \cup flusher.batch
  PROVE  OutboxInv'
<1>1. OutboxTyped /\ OutboxTypeOK
  BY DEF OutboxInv, OutboxTyped
<1>2. OutboxTyped' /\ flusher'.pc = place /\ flusher'.batch = flusher.batch /\ flusher'.no = flusher.no
  BY <1>1, QuietTyping, FlusherMoves DEF OutboxTypeOK
<1>3. Logged' = Logged /\ Sending' = {} /\ \A p : ~Current(p)'
  BY <1>2 DEF Logged, Sending, Current
<1>4. BatchHeld'
  BY <1>2, <1>3 DEF OutboxInv, BatchHeld
<1>5. \A p \in posts' : PostSound(p)'
  BY <1>3 DEF OutboxInv, PostSound
<1>6. (rows' \ unconfirmed') \ Sending' \subseteq (rows \ unconfirmed) \ Sending
  BY DEF Sending
<1>7. QED
  BY <1>2, <1>3, <1>4, <1>5, <1>6, FlusherKeeps

\* the loop comes to rest with nothing under way, ends or begins
LEMMA IdleKeeps ==
  ASSUME OutboxInv, UNCHANGED <<appended, stored, posts, resting, unconfirmed>>, Faulty \/ UNCHANGED faults,
         \/ /\ flusher.pc = "sent" /\ FlusherIs("idle") /\ rows' = rows \ flusher.batch
         \/ /\ flusher.pc \in {"idle", "off"} /\ (FlusherIs("off") \/ FlusherIs("idle")) /\ rows' = rows
  PROVE  OutboxInv'
<1>1. OutboxTyped /\ OutboxTypeOK
  BY DEF OutboxInv, OutboxTyped
<1>2. resting' \subseteq rows' /\ rows' \subseteq rows /\ rows \ rows' \subseteq Logged
  BY <1>1 DEF OutboxInv, BatchHeld, OutboxTypeOK
<1>3. /\ OutboxTyped' /\ flusher'.batch = flusher.batch /\ flusher'.no = flusher.no
      /\ flusher'.pc \in {"idle", "off"} /\ flusher.pc # "sending"
  BY <1>1, <1>2, QuietTyping, FlusherMoves
<1>4. Logged' = Logged /\ Sending' = {} /\ (\A p : ~Current(p) /\ ~Current(p)')
  BY <1>3 DEF Logged, Sending, Current
<1>5. BatchHeld' /\ \A p \in posts' : PostSound(p)'
  BY <1>3, <1>4 DEF OutboxInv, BatchHeld, PostSound
<1>6. (rows' \ unconfirmed') \ Sending' \subseteq (rows \ unconfirmed) \ Sending
  BY DEF Sending
<1>7. QED
  BY <1>2, <1>3, <1>4, <1>5, <1>6, FlusherKeeps

\* time passes over a row's rest, or a POST ends at the hub
LEMMA AsideKeeps ==
  ASSUME OutboxInv, UNCHANGED <<appended, rows, stored, flusher, unconfirmed>>, Faulty \/ UNCHANGED faults,
         resting' \subseteq resting, posts' \subseteq posts
  PROVE  OutboxInv'
<1>1. OutboxTyped /\ OutboxTypeOK
  BY DEF OutboxInv, OutboxTyped
<1>2. OutboxTyped'
  BY <1>1, QuietTyping DEF OutboxTypeOK
<1>3. Logged' = Logged /\ Sending' = Sending /\ \A p : Current(p)' <=> Current(p)
  BY DEF Logged, Sending, Current
<1>4. BatchHeld' /\ \A p \in posts' : PostSound(p)'
  BY <1>3 DEF OutboxInv, BatchHeld, PostSound
<1>5. QED
  BY <1>2, <1>3, <1>4, FlusherKeeps

LEMMA PostKeeps ==
  ASSUME OutboxInv, Post
  PROVE  OutboxInv'
<1>1. OutboxTyped /\ OutboxTypeOK /\ OutboxTyped /\ flusher.no \in Nat
  BY OutboxFacts DEF OutboxInv, OutboxTyped
<1>2. PICK batch : batch = DueRows
  OBVIOUS
<1>3. batch \subseteq rows \ resting /\ \A m \in batch, k \in (rows \ resting) \ batch : m < k
  BY <1>1, <1>2, DueAreFirst
<1>4. PICK new : new = [no |-> flusher.no + 1, left |-> batch]
  OBVIOUS
<1>5. /\ flusher.pc = "idle" /\ posts' = posts \cup {new}
      /\ flusher' = [pc |-> "sending", batch |-> batch, no |-> flusher.no + 1]
      /\ UNCHANGED <<appended, rows, resting, stored, unconfirmed, faults>>
  BY <1>2, <1>4 DEF Post
<1>6. /\ flusher'.pc = "sending" /\ flusher'.batch = batch /\ flusher'.no = flusher.no + 1
      /\ new.no = flusher.no + 1 /\ new.left = batch /\ batch \subseteq 1..appended
  BY <1>1, <1>3, <1>4, <1>5, OutboxFacts
<1>7. \A p \in posts : p.no \in Nat /\ p.no < flusher.no + 1
  BY <1>1, OutboxFacts
<1>8. OutboxTyped'
  <2>1. flusher' \in [pc : {"off", "idle", "sending", "sent", "failed"}, batch : SUBSET (1..appended), no : Nat]
    BY <1>1, <1>5, <1>6
  <2>2. 1..flusher.no \subseteq 1..(flusher.no + 1) /\ flusher.no + 1 \in 1..(flusher.no + 1)
    BY <1>1
  <2>3. posts' \subseteq [no : 1..flusher'.no, left : SUBSET (1..appended)]
    BY <1>1, <1>4, <1>5, <1>6, <2>2 DEF OutboxTypeOK
  <2>4. OutboxTypeOK'
    BY <1>1, <1>5, <2>1, <2>3 DEF OutboxTypeOK
  <2>5. \A p, q \in posts' : p.no = q.no => p = q
    BY <1>1, <1>5, <1>6, <1>7 DEF OutboxTyped
  <2>6. QED
    BY <2>4, <2>5 DEF OutboxTyped
<1>9. Logged' = Logged /\ Sending = {} /\ Sending' = batch
  BY <1>5, <1>6 DEF Logged, Sending
<1>10. \A p \in posts : ~Current(p) /\ ~Current(p)' /\ p.left \subseteq unconfirmed
  BY <1>5, <1>6, <1>7 DEF OutboxInv, PostSound, Current
<1>11. BatchHeld'
  BY <1>3, <1>5, <1>6 DEF OutboxInv, BatchHeld
<1>12. \A p \in posts' : PostSound(p)'
  <2>1. PostSound(new)'
    BY <1>6 DEF PostSound, Current
  <2>2. \A p \in posts : PostSound(p)'
    BY <1>5, <1>10 DEF PostSound
  <2>3. QED
    BY <1>5, <2>1, <2>2
<1>13. FreshInOrder'
  <2>1. \A k \in rows \ unconfirmed : After(k, posts)
    BY <1>9 DEF OutboxInv, FreshInOrder
  <2>2. ASSUME NEW k \in (rows' \ unconfirmed') \ Sending' PROVE After(k, posts)'
    <3>1. k \in (rows \ resting) \ batch
      BY <1>5, <1>9, <2>2 DEF OutboxInv, BatchHeld
    <3>2. After(k, posts) /\ \A m \in new.left : m < k
      BY <1>3, <1>5, <1>6, <2>1, <2>2, <3>1
    <3>3. QED
      BY <1>5, <1>9, <3>2 DEF After
  <2>3. ASSUME NEW p \in posts', Current(p)', NEW k \in p.left \ unconfirmed' PROVE After(k, posts \ {p})'
    <3>1. p = new /\ posts' \ {p} \subseteq posts
      BY <1>5, <1>10, <2>3
    <3>2. k \in rows \ unconfirmed
      BY <1>3, <1>5, <1>6, <2>3, <3>1
    <3>3. QED
      BY <1>9, <2>1, <3>1, <3>2 DEF After
  <2>4. QED
    BY <2>2, <2>3 DEF FreshInOrder
<1>14. DeliveredOrKept' /\ OnlyRetriesLag'
  BY <1>5, LagKept DEF OutboxInv, DeliveredOrKept
<1>15. QED
  BY <1>8, <1>11, <1>12, <1>13, <1>14 DEF OutboxInv

\* the hub stores the first row that is left of a POST
LEMMA IngestKeeps ==
  ASSUME OutboxInv, NEW p \in posts, IngestOne(p)
  PROVE  OutboxInv'
<1>1. OutboxTyped /\ OutboxTypeOK
  BY DEF OutboxInv, OutboxTyped
<1>2. PICK n \in p.left : /\ \A k \in p.left : n <= k
                          /\ stored' = Append(stored, n)
                          /\ posts' = (posts \ {p}) \cup {[p EXCEPT !.left = @ \ {n}]}
                          /\ UNCHANGED <<appended, rows, resting, flusher, unconfirmed, faults>>
  BY DEF IngestOne
<1>3. PICK rest : rest = [p EXCEPT !.left = @ \ {n}]
  OBVIOUS
<1>4. p \in [no : 1..flusher.no, left : SUBSET (1..appended)] /\ n \in 1..appended
  BY <1>1, <1>2 DEF OutboxTypeOK
<1>5. /\ rest \in [no : 1..flusher.no, left : SUBSET (1..appended)]
      /\ rest.no = p.no /\ rest.left = p.left \ {n} /\ posts' = (posts \ {p}) \cup {rest}
  BY <1>2, <1>3, <1>4
<1>6. OutboxTyped'
  <2>1. OutboxTypeOK'
    BY <1>1, <1>2, <1>4, <1>5 DEF OutboxTypeOK
  <2>2. \A q, r \in posts' : q.no = r.no => q = r
    BY <1>1, <1>5 DEF OutboxTyped
  <2>3. QED
    BY <2>1, <2>2 DEF OutboxTyped
<1>7. Logged' = Logged \cup {n}
  BY <1>1, <1>2 DEF Logged, OutboxTypeOK
<1>8. Sending' = Sending /\ (\A q : Current(q)' <=> Current(q)) /\ (Current(rest) <=> Current(p))
  BY <1>2, <1>5 DEF Sending, Current
<1>9. BatchHeld'
  BY <1>2, <1>7 DEF OutboxInv, BatchHeld
<1>10. \A q \in posts' : PostSound(q)'
  <2>1. PostSound(p) /\ \A q \in posts : PostSound(q)
    BY DEF OutboxInv
  <2>2. PostSound(rest)'
    BY <1>2, <1>5, <1>7, <1>8, <2>1 DEF PostSound
  <2>3. ASSUME NEW q \in posts PROVE PostSound(q)'
    BY <1>2, <1>7, <1>8, <2>1 DEF PostSound
  <2>4. QED
    BY <1>5, <2>2, <2>3
<1>11. FreshInOrder'
  <2>1. ASSUME NEW k \in (rows' \ unconfirmed') \ Sending' PROVE After(k, posts)'
    <3>1. After(k, posts)
      BY <1>2, <1>8, <2>1 DEF OutboxInv, FreshInOrder
    <3>2. QED
      BY <1>2, <1>5, <1>7, <3>1 DEF After
  <2>2. ASSUME NEW q \in posts', Current(q)', NEW k \in q.left \ unconfirmed' PROVE After(k, posts \ {q})'
    <3>1. CASE q = rest
      <4>1. k \in p.left \ unconfirmed /\ k # n /\ Current(p)
        BY <1>2, <1>5, <1>8, <2>2, <3>1
      <4>2. After(k, posts \ {p}) /\ n < k
        BY <1>2, <1>4, <4>1 DEF OutboxInv, FreshInOrder
      <4>3. posts' \ {q} \subseteq posts \ {p}
        BY <1>5, <3>1
      <4>4. QED
        BY <1>7, <4>2, <4>3 DEF After
    <3>2. CASE q # rest
      <4>1. q \in posts /\ q # p /\ Current(q)
        BY <1>5, <1>8, <2>2, <3>2
      <4>2. After(k, posts \ {q})
        BY <1>2, <2>2, <4>1 DEF OutboxInv, FreshInOrder
      <4>3. QED
        BY <1>2, <1>5, <1>7, <4>1, <4>2 DEF After
    <3>3. QED
      BY <3>1, <3>2
  <2>3. QED
    BY <2>1, <2>2 DEF FreshInOrder
<1>12. DeliveredOrKept'
  BY <1>1, <1>2, <1>6, <1>7, KeptByLog DEF OutboxInv, OutboxTyped, DeliveredOrKept
<1>13. n \in unconfirmed \/ \A m \in Logged : m < n
  BY DEF OutboxInv, PostSound, FreshInOrder, After
<1>14. OnlyRetriesLag'
  <2>1. /\ Len(stored') = Len(stored) + 1 /\ stored'[Len(stored) + 1] = n
        /\ \A i \in 1..Len(stored) : stored'[i] = stored[i] /\ stored[i] \in 1..appended
    BY <1>1, <1>2, <1>4 DEF OutboxTypeOK
  <2>2. ASSUME NEW i \in 1..Len(stored'), NEW j \in 1..Len(stored'), i < j, stored'[i] >= stored'[j]
        PROVE  stored'[j] \in unconfirmed
    <3>1. i \in 1..Len(stored)
      BY <1>1, <2>1, <2>2, OutboxFacts
    <3>2. CASE j \in 1..Len(stored)
      BY <2>1, <2>2, <3>1, <3>2 DEF OutboxInv, OnlyRetriesLag
    <3>3. CASE j = Len(stored) + 1
      <4>1. stored[i] \in Logged /\ stored[i] \in Nat /\ n \in Nat /\ stored[i] >= n
        BY <1>1, <1>4, <2>1, <2>2, <3>1, <3>3 DEF Logged
      <4>2. n \in unconfirmed
        BY <1>13, <4>1
      <4>3. QED
        BY <2>1, <3>3, <4>2
    <3>4. QED
      BY <1>1, <2>1, <3>2, <3>3, OutboxFacts
  <2>3. QED
    BY <1>2, <2>2 DEF OnlyRetriesLag
<1>15. QED
  BY <1>6, <1>9, <1>10, <1>11, <1>12, <1>14 DEF OutboxInv

LEMMA OutboxStep ==
  ASSUME OutboxInv, [OutboxNext]_outboxVars
  PROVE  OutboxInv'
<1>1. OutboxTypeOK /\ BatchHeld
  BY DEF OutboxInv, OutboxTyped
<1>2. CASE DeliverFails
  <2>1. rows' = rows \ {} /\ resting' = resting
    BY <1>2 DEF DeliverFails
  <2>2. QED
    BY <1>1, <1>2, <2>1, GivenUpKeeps DEF DeliverFails, OutboxTypeOK
<1>3. ASSUME NEW gone \in SUBSET flusher.batch, DeleteRows(gone) PROVE OutboxInv'
  <2>1. CASE gone = flusher.batch
    BY <1>3, <2>1, IdleKeeps DEF DeleteRows
  <2>2. CASE gone # flusher.batch
    <3>1. gone \in SUBSET (flusher.batch \cap Logged) /\ resting' \subseteq rows'
      BY <1>1, <1>3 DEF DeleteRows, BatchHeld, OutboxTypeOK
    <3>2. QED
      BY <1>3, <2>2, <3>1, GivenUpKeeps DEF DeleteRows
  <2>3. QED
    BY <2>1, <2>2
<1>4. ASSUME NEW bumped \in SUBSET flusher.batch, BumpFailures(bumped) PROVE OutboxInv'
  <2>1. /\ rows' = rows \ {} /\ resting' \subseteq resting \cup flusher.batch /\ resting' \subseteq rows'
        /\ unconfirmed' = unconfirmed \cup flusher.batch
    BY <1>1, <1>4 DEF BumpFailures, BatchHeld, OutboxTypeOK
  <2>2. QED
    BY <1>4, <2>1, GivenUpKeeps DEF BumpFailures
<1>5. CASE AppQuits
  <2>1. CASE flusher.pc = "idle"
    BY <1>5, <2>1, IdleKeeps DEF AppQuits
  <2>2. CASE flusher.pc # "idle"
    <3>1. flusher.pc \in {"sending", "sent", "failed"} /\ rows' = rows \ {} /\ resting' \subseteq rows'
      BY <1>1, <1>5, <2>2 DEF AppQuits, OutboxTypeOK
    <3>2. QED
      BY <1>5, <2>2, <3>1, GivenUpKeeps DEF AppQuits
  <2>3. QED
    BY <2>1, <2>2
<1>6. CASE AppStarts
  BY <1>6, IdleKeeps DEF AppStarts
<1>7. ASSUME NEW n \in rows, RetryComes(n) PROVE OutboxInv'
  BY <1>7, AsideKeeps DEF RetryComes
<1>8. ASSUME NEW p \in posts, PostEnds(p) PROVE OutboxInv'
  BY <1>8, AsideKeeps DEF PostEnds
<1>9. CASE UNCHANGED outboxVars
  BY <1>9, AsideKeeps DEF outboxVars
<1>10. CASE FlushStep
  BY <1>2, <1>3, <1>4, <1>10, PostKeeps, AnsweredKeeps DEF FlushStep
<1>11. QED
  BY <1>5, <1>6, <1>7, <1>8, <1>9, <1>10, AppendKeeps, IngestKeeps DEF OutboxNext

(* For any batches, envelopes, timeouts, failing statements and restarts of   *)
(* the app or the hub: an envelope is in the outbox until the hub has it, and *)
(* the hub stores the envelopes in their order and once each, but for those   *)
(* whose delivery, or what follows it, went wrong.                            *)
THEOREM EnvelopesAreKept == OutboxSpec => [](OutboxTypeOK /\ EnvelopesAccounted)
<1>1. OutboxInv => OutboxTypeOK /\ EnvelopesAccounted
  BY DEF OutboxInv, OutboxTyped, EnvelopesAccounted
<1>2. QED
  BY <1>1, OutboxStarts, OutboxStep, PTL DEF OutboxSpec

=============================================================================
