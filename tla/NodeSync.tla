------------------------------- MODULE NodeSync -------------------------------
(***************************************************************************)
(* Peer sync: each node pulls its peers' event log by a ULID cursor, and   *)
(* their runner rows by an updated_at cursor, and merges them into its own *)
(* store: union for the events, last writer wins for the rows.             *)
(*                                                                         *)
(* A ULID or an updated_at is drawn from the clock of one process, some    *)
(* time before the statement that writes it commits, beside other threads  *)
(* and on nodes whose clocks differ.  So no order ties the stamps to the   *)
(* commits: what a commit makes visible has any stamp, also one behind     *)
(* what is there already.                                                  *)
(***************************************************************************)
EXTENDS Integers, FiniteSets

CONSTANTS
    Node,
    RunnerName,    \* keys of the runners table, the one owner-keyed table
    Peers,         \* node -> the peers it pulls from
    MaxUlid,       \* bound: ULIDs, in their order
    MaxClock,      \* bound: times of a row's updated_at
    Batch,         \* settings.sync.batch_limit
    MaxWrites,     \* bound: registrations and removals
    MaxFailures    \* bound: pulls that fail

ASSUME SyncAssumption ==
    /\ Peers \in [Node -> SUBSET Node]
    /\ {MaxClock, Batch} \subseteq Nat \ {0} /\ {MaxUlid, MaxWrites, MaxFailures} \subseteq Nat

VARIABLES
    events,        \* node -> the ULIDs in its agent_events
    eventCursor,   \* node -> peer -> sync_cursors row of the events, 0 if none
    runner,        \* node -> name -> its runners row
    rowCursor,     \* node -> peer -> sync_cursors row of the owner rows
    pull,          \* node -> the pull of its tick in flight
    written,       \* registrations and removals so far
    failures,      \* pulls that failed so far
    \* what became of the stamps, kept to state the properties:
    lateEvents,    \* node -> ULIDs that came behind what a reader had taken
    lateRows,      \* node -> names whose row came behind what a reader had taken
    undone,        \* node -> names whose row gave way to an older one
    stamps,        \* name -> the times of its writes
    tied           \* names written twice at one time

eventVars == <<events, eventCursor, lateEvents>>
rowVars == <<runner, rowCursor, written, lateRows, undone, stamps, tied>>
syncVars == <<eventVars, rowVars, pull, failures>>

Ulid == 1..MaxUlid
Time == 1..MaxClock
NoRow == [at |-> 0, deleted |-> FALSE]
Row == [at : Time, deleted : BOOLEAN] \cup {NoRow}
NoRowItem == [name |-> "none", row |-> NoRow]
RowItem == [name : RunnerName, row : Row]
NoPull == [pc |-> "idle", peer |-> "none", ulids |-> {}, rows |-> {}, todo |-> {},
           item |-> NoRowItem, seen |-> 0]
Pulling == [pc : {"idle", "events", "fetchRows", "merge", "apply"}, peer : Node \cup {"none"},
            ulids : SUBSET Ulid, rows : SUBSET RowItem, todo : SUBSET RowItem,
            item : RowItem \cup {NoRowItem}, seen : 0..MaxClock]

SyncTypeOK ==
    /\ events \in [Node -> SUBSET Ulid] /\ lateEvents \in [Node -> SUBSET Ulid]
    /\ eventCursor \in [Node -> [Node -> 0..MaxUlid]]
    /\ runner \in [Node -> [RunnerName -> Row]]
    /\ rowCursor \in [Node -> [Node -> 0..MaxClock]]
    /\ pull \in [Node -> Pulling]
    /\ written \in 0..MaxWrites /\ failures \in 0..MaxFailures
    /\ {lateRows, undone} \subseteq [Node -> SUBSET RunnerName]
    /\ stamps \in [RunnerName -> SUBSET Time] /\ tied \subseteq RunnerName

SyncInit ==
    /\ events = [n \in Node |-> {}] /\ lateEvents = events
    /\ eventCursor = [n \in Node |-> [p \in Node |-> 0]] /\ rowCursor = eventCursor
    /\ runner = [n \in Node |-> [r \in RunnerName |-> NoRow]]
    /\ pull = [n \in Node |-> NoPull]
    /\ written = 0 /\ failures = 0
    /\ lateRows = [n \in Node |-> {}] /\ undone = lateRows
    /\ stamps = [r \in RunnerName |-> {}] /\ tied = {}
-----------------------------------------------------------------------------
(* The node's own writes.                                                  *)

Readers(p) == {n \in Node : p \in Peers[n]}
Fetching(n, p) == pull[n].pc # "idle" /\ pull[n].peer = p

\* A reader of p has, or has in its hands, events of p above u.
EventPassed(p, u) == \E n \in Readers(p) :
    u < eventCursor[n][p] \/ (Fetching(n, p) /\ \E v \in pull[n].ulids : u < v)
RowPassed(p, t) == \E n \in Readers(p) :
    t < rowCursor[n][p] \/ (Fetching(n, p) /\ \E i \in pull[n].rows : t < i.row.at)

EventLands(n, u) ==
    /\ events' = [events EXCEPT ![n] = @ \cup {u}]
    /\ lateEvents' = [lateEvents EXCEPT ![n] = IF EventPassed(n, u) THEN @ \cup {u} ELSE @]

RowLands(n, r, row, t) ==
    /\ runner' = [runner EXCEPT ![n][r] = row]
    /\ lateRows' = [lateRows EXCEPT ![n] = IF RowPassed(n, t) THEN @ \cup {r} ELSE @ \ {r}]

\* agent_store.ingest commits an event under the ULID it drew.
CreateEvent(n, u) ==
    /\ u \notin UNION {events[m] : m \in Node}
    /\ EventLands(n, u)
    /\ UNCHANGED <<rowVars, eventCursor, pull, failures>>

\* A write of r with stamp t commits at n: it asks for no newer row there.
Write(n, r, row, t) ==
    /\ written < MaxWrites /\ written' = written + 1
    /\ RowLands(n, r, row, t)
    /\ undone' = [undone EXCEPT ![n] =
           IF t < runner[n][r].at THEN @ \cup {r}
           ELSE IF \A s \in stamps[r] : s <= t THEN @ \ {r} ELSE @]
    /\ stamps' = [stamps EXCEPT ![r] = @ \cup {t}]
    /\ tied' = IF t \in stamps[r] THEN tied \cup {r} ELSE tied
    /\ UNCHANGED <<eventVars, rowCursor, pull, failures>>

DeleteRunner_Hard(n, r, t) ==    \* mutant: no tombstone
    runner[n][r] # NoRow /\ Write(n, r, NoRow, t)

\* store.upsert_runner and store.delete_runner, the latter a tombstone.
UpsertRunner(n, r, t) == Write(n, r, [at |-> t, deleted |-> FALSE], t)
DeleteRunner(n, r, t) == runner[n][r] # NoRow /\ Write(n, r, [at |-> t, deleted |-> TRUE], t)
-----------------------------------------------------------------------------
(* The pull loop of a node: events of a peer, then its rows.               *)

\* ORDER BY time LIMIT Batch: within one time the order is the database's.
Batches(due, time) ==
    {b \in SUBSET due :
        /\ Cardinality(b) = IF Cardinality(due) < Batch THEN Cardinality(due) ELSE Batch
        /\ \A x \in b, y \in due \ b : time[x] <= time[y]}

ExportEvents(p, since) ==
    LET due == {u \in events[p] : u > since} IN Batches(due, [u \in due |-> u])

\* export_owner_rows: changed at or after the cursor, tombstones included.
ExportRows(p, since) ==
    LET due == {r \in RunnerName : runner[p][r] # NoRow /\ runner[p][r].at >= since}
    IN  {{[name |-> r, row |-> runner[p][r]] : r \in b} :
            b \in Batches(due, [r \in due |-> runner[p][r].at])}

Stops(n) == pull' = [pull EXCEPT ![n] = NoPull]

\* After an empty answer the pull goes on with the owner rows, and so it does
\* when the peer does not answer this request (_get_rows).
Begins(n, p, batch) == pull' = [pull EXCEPT ![n] = [NoPull EXCEPT
    !.pc = IF batch = {} THEN "fetchRows" ELSE "events", !.peer = p, !.ulids = batch]]

PullEvents(n, p) ==
    /\ pull[n].pc = "idle" /\ p \in Peers[n]
    /\ \/ UNCHANGED failures /\ \E batch \in ExportEvents(p, eventCursor[n][p]) : Begins(n, p, batch)
       \/ failures < MaxFailures /\ failures' = failures + 1 /\ Begins(n, p, {})
    /\ UNCHANGED <<eventVars, rowVars>>

\* import_events commits row by row, in the order of the batch.
ImportEvent(n) ==
    /\ pull[n].pc = "events"
    /\ \E u \in pull[n].ulids \ events[n] :
         /\ \A v \in pull[n].ulids \ events[n] : u <= v
         /\ EventLands(n, u)
    /\ UNCHANGED <<rowVars, eventCursor, pull, failures>>

\* The cursor is saved after the import, in a transaction of its own.
SaveEventCursor(n) ==
    /\ pull[n].pc = "events" /\ pull[n].ulids \subseteq events[n]
    /\ \E u \in pull[n].ulids :
         /\ \A v \in pull[n].ulids : v <= u
         /\ eventCursor' = [eventCursor EXCEPT ![n][pull[n].peer] = u]
    /\ pull' = [pull EXCEPT ![n].pc = "fetchRows", ![n].ulids = {}]
    /\ UNCHANGED <<rowVars, events, lateEvents, failures>>

PullRows(n) ==
    /\ pull[n].pc = "fetchRows"
    /\ \E batch \in ExportRows(pull[n].peer, rowCursor[n][pull[n].peer]) :
         IF batch = {} THEN Stops(n)
         ELSE pull' = [pull EXCEPT ![n].pc = "merge", ![n].rows = batch, ![n].todo = batch]
    /\ UNCHANGED <<eventVars, rowVars, failures>>

\* merge_owner_row, first its SELECT: the remote row is to be written if it is
\* newer; on a tie the local one stays.
CompareRow(n) ==
    /\ pull[n].pc = "merge"
    /\ \E i \in pull[n].todo :
         /\ \A j \in pull[n].todo : i.row.at <= j.row.at
         /\ LET local == runner[n][i.name].at IN
            pull' = [pull EXCEPT ![n] = IF i.row.at > local
                THEN [pull[n] EXCEPT !.pc = "apply", !.item = i, !.seen = local]
                ELSE [pull[n] EXCEPT !.todo = pull[n].todo \ {i}]]
    /\ UNCHANGED <<eventVars, rowVars, failures>>

\* Then its upsert: by then a write of the node may have come in between.
ApplyRow(n) ==
    /\ pull[n].pc = "apply"
    /\ LET i == pull[n].item
           r == i.name
       IN  /\ RowLands(n, r, i.row, i.row.at)
           /\ undone' = [undone EXCEPT ![n] =
                  IF i.row.at < runner[n][r].at /\ runner[n][r].at # pull[n].seen THEN @ \cup {r}
                  ELSE IF \A s \in stamps[r] : s <= i.row.at THEN @ \ {r} ELSE @]
           /\ pull' = [pull EXCEPT ![n] = [pull[n] EXCEPT
                  !.pc = "merge", !.todo = pull[n].todo \ {i}, !.item = NoRowItem, !.seen = 0]]
    /\ UNCHANGED <<eventVars, rowCursor, written, stamps, tied, failures>>

SaveRowCursor(n) ==
    /\ pull[n].pc = "merge" /\ pull[n].todo = {}
    /\ \E i \in pull[n].rows :
         /\ \A j \in pull[n].rows : j.row.at <= i.row.at
         /\ rowCursor' = [rowCursor EXCEPT ![n][pull[n].peer] = i.row.at]
    /\ Stops(n)
    /\ UNCHANGED <<eventVars, runner, written, lateRows, undone, stamps, tied, failures>>

\* The node or the connection fails at any point of a pull: what was imported
\* and merged stays, and a cursor not saved yet is not.
PullFails(n) ==
    /\ pull[n].pc # "idle" /\ failures < MaxFailures /\ failures' = failures + 1
    /\ Stops(n)
    /\ UNCHANGED <<eventVars, rowVars>>

PullFails_Saves(n) ==    \* mutant: the cursor is saved in a finally clause
    /\ pull[n].pc # "idle" /\ failures < MaxFailures /\ failures' = failures + 1
    /\ IF pull[n].ulids = {} THEN UNCHANGED eventCursor
       ELSE \E u \in pull[n].ulids :
              /\ \A v \in pull[n].ulids : v <= u
              /\ eventCursor' = [eventCursor EXCEPT ![n][pull[n].peer] = u]
    /\ Stops(n)
    /\ UNCHANGED <<rowVars, events, lateEvents>>

PullStep(n) ==
    \/ ImportEvent(n) \/ SaveEventCursor(n)
    \/ PullRows(n) \/ CompareRow(n) \/ ApplyRow(n) \/ SaveRowCursor(n)

SyncNext ==
    \E n \in Node :
        \/ \E u \in Ulid : CreateEvent(n, u)
        \/ \E r \in RunnerName, t \in Time : UpsertRunner(n, r, t) \/ DeleteRunner(n, r, t)
        \/ \E p \in Node : PullEvents(n, p)
        \/ PullStep(n) \/ PullFails(n)

SyncSpec == SyncInit /\ [][SyncNext]_syncVars

\* Every node keeps ticking and pulls one peer after the other.
SyncFairness == \A n \in Node :
    WF_syncVars(PullStep(n)) /\ \A p \in Peers[n] : SF_syncVars(PullEvents(n, p))
-----------------------------------------------------------------------------
\* A cursor passes over no event of its peer, but for those that became visible
\* there behind others that a reader had already taken.
CursorSkipsNothing == \A n \in Node : \A p \in Peers[n] : \A u \in events[p] \ events[n] :
    u <= eventCursor[n][p] => u \in lateEvents[p]

\* The same of the rows, of all names together: a row behind the cursor that is
\* newer than the node's own came late, or the node's own had been that new and
\* gave way to a write with an older stamp.
RowCursorSkipsNothing == \A n \in Node : \A p \in Peers[n] : \A r \in RunnerName :
    runner[n][r].at < runner[p][r].at /\ runner[p][r].at < rowCursor[n][p] =>
        r \in lateRows[p] \cup undone[n]

\* No write of a name is lost before a newer one is there: some node keeps a row at
\* least as new as each, be it a tombstone, unless one let its row give way to an
\* older write; and rows of one time are copies of one row, wherever they are.
LastWriteStands == \A r \in RunnerName :
    /\ \A t \in stamps[r] : \E n \in Node : runner[n][r].at >= t \/ r \in undone[n]
    /\ r \notin tied => \A n, m \in Node : runner[n][r].at = runner[m][r].at => runner[n][r] = runner[m][r]

\* A pull leaves out no event, and no row's last word.
PullsLoseNothing == CursorSkipsNothing /\ RowCursorSkipsNothing /\ LastWriteStands

\* ">=" under a LIMIT stands still: with a batch of rows of one time, no row after
\* them is ever sent.
Jammed(p) == \E t \in Time :
    /\ Cardinality({r \in RunnerName : runner[p][r].at = t}) >= Batch
    /\ Cardinality({r \in RunnerName : runner[p][r].at >= t}) > Batch

\* A runner's row ends up everywhere as its last write left it: a removal is not
\* undone by a node that has not heard of it, nor a registration by an older
\* removal.  Left out are names of which a row came behind a reader's cursor, gave
\* way to an older write or shares its time with another write, and all of them once
\* a peer's export is jammed.
RowsConverge == <>[]((\E p \in Node : Jammed(p)) \/ \A r \in RunnerName :
    \/ r \in tied \/ \E n \in Node : r \in lateRows[n] \cup undone[n]
    \/ \A n, m \in Node : runner[n][r] = runner[m][r] /\ \A t \in stamps[r] : runner[n][r].at >= t)
=============================================================================
