------------------------------- MODULE Outbox -------------------------------
(***************************************************************************)
(* The outbox of the desktop app: envelopes of the agent event bus wait in *)
(* an SQLite table, a flush loop posts them in batches to the hub, which   *)
(* appends each to agent_events and upserts agent_state.  The number of a  *)
(* row stands for its envelope.  The wake channel and its coalescing only  *)
(* hasten what the heartbeat does anyway; the counter for the UI is left   *)
(* out.                                                                    *)
(***************************************************************************)
EXTENDS Integers, Sequences, FiniteSets

CONSTANTS
    MaxBatch,      \* Options.BatchSize
    MaxRows,       \* bound: envelopes appended
    MaxFaults      \* bound: deliveries, statements and processes that fail

ASSUME OutboxAssumption == MaxBatch \in Nat \ {0} /\ {MaxRows, MaxFaults} \subseteq Nat

VARIABLES
    appended,      \* the last rowid that AUTOINCREMENT gave out
    rows,          \* the rowids in outbox_events
    resting,       \* those whose next_attempt_at lies ahead
    flusher,       \* the flush loop: the batch in its hands, the number of its POST
    posts,         \* the POSTs the hub has not answered, what each has yet to ingest
    stored,           \* agent_events: the row that each entry came from
    unconfirmed,   \* rows of which a delivery, or what follows it, went wrong
    faults

outboxVars == <<appended, rows, resting, flusher, posts, stored, unconfirmed, faults>>

RowId == 1..MaxRows

OutboxTypeOK ==
    /\ appended \in 0..MaxRows
    /\ rows \subseteq 1..appended /\ resting \subseteq rows /\ unconfirmed \subseteq 1..appended
    /\ flusher \in [pc : {"off", "idle", "sending", "sent", "failed"}, batch : SUBSET (1..appended), no : Nat]
    /\ posts \subseteq [no : 1..flusher.no, left : SUBSET (1..appended)]
    /\ stored \in Seq(1..appended) /\ faults \in 0..MaxFaults

OutboxInit ==
    /\ appended = 0 /\ rows = {} /\ resting = {} /\ unconfirmed = {} /\ faults = 0
    /\ flusher = [pc |-> "idle", batch |-> {}, no |-> 0]
    /\ posts = {} /\ stored = <<>>

Faulty == faults < MaxFaults /\ faults' = faults + 1
FlusherIs(pc) == flusher' = [flusher EXCEPT !.pc = pc]
-----------------------------------------------------------------------------
(* The app.                                                                *)

AppendEnvelope ==
    /\ flusher.pc # "off" /\ appended < MaxRows
    /\ appended' = appended + 1 /\ rows' = rows \cup {appended + 1}
    /\ UNCHANGED <<resting, flusher, posts, stored, unconfirmed, faults>>

\* fetchEligible: the first rows that are due.  (What Append marshals parses again,
\* so that no row is dropped as corrupt.)
DueRows ==
    LET due == rows \ resting IN {n \in due : Cardinality({k \in due : k <= n}) <= MaxBatch}

\* drainEligible posts them as one batch.
Post ==
    /\ flusher.pc = "idle" /\ rows \ resting # {}
    /\ flusher' = [pc |-> "sending", batch |-> DueRows, no |-> flusher.no + 1]
    /\ posts' = posts \cup {[no |-> flusher.no + 1, left |-> DueRows]}
    /\ UNCHANGED <<appended, rows, resting, stored, unconfirmed, faults>>

Answered ==
    /\ flusher.pc = "sending" /\ [no |-> flusher.no, left |-> {}] \in posts
    /\ posts' = posts \ {[no |-> flusher.no, left |-> {}]}
    /\ FlusherIs("sent")
    /\ UNCHANGED <<appended, rows, resting, stored, unconfirmed, faults>>

\* The hub answered with an error or went away; or 15 s have passed, and it may
\* go on with what it was sent.
DeliverFails ==
    /\ flusher.pc = "sending"
    /\ \/ (\A p \in posts : p.no # flusher.no) /\ UNCHANGED faults
       \/ Faulty
    /\ FlusherIs("failed") /\ unconfirmed' = unconfirmed \cup flusher.batch
    /\ UNCHANGED <<appended, rows, resting, posts, stored>>

DeleteRows_Early(gone) ==    \* mutant: a batch is deleted however its delivery went
    /\ flusher.pc \in {"sent", "failed"} /\ gone = flusher.batch
    /\ rows' = rows \ gone /\ FlusherIs("idle")
    /\ UNCHANGED <<appended, resting, posts, stored, unconfirmed, faults>>

\* deleteRows; its transaction, or a statement of it, may fail unnoticed.
DeleteRows(gone) ==
    /\ flusher.pc = "sent" /\ gone \subseteq flusher.batch
    /\ IF gone = flusher.batch THEN UNCHANGED <<unconfirmed, faults>>
       ELSE Faulty /\ unconfirmed' = unconfirmed \cup flusher.batch
    /\ rows' = rows \ gone /\ FlusherIs("idle")
    /\ UNCHANGED <<appended, resting, posts, stored>>

BumpFailures_Dead(bumped) ==    \* mutant: no way back from a failed batch
    /\ flusher.pc = "failed" /\ bumped = {} /\ UNCHANGED outboxVars

\* bumpFailures, likewise: the rows wait for their next attempt.
BumpFailures(bumped) ==
    /\ flusher.pc = "failed" /\ bumped \subseteq flusher.batch
    /\ IF bumped = flusher.batch THEN UNCHANGED faults ELSE Faulty
    /\ resting' = resting \cup bumped /\ FlusherIs("idle")
    /\ UNCHANGED <<appended, rows, posts, stored, unconfirmed>>

RetryComes(n) ==
    /\ n \in resting /\ resting' = resting \ {n}
    /\ UNCHANGED <<appended, rows, flusher, posts, stored, unconfirmed, faults>>

\* Stop waits 2 s for the flush loop, a crash not at all.
AppQuits ==
    /\ flusher.pc # "off" /\ Faulty /\ FlusherIs("off")
    /\ unconfirmed' = IF flusher.pc = "idle" THEN unconfirmed ELSE unconfirmed \cup flusher.batch
    /\ UNCHANGED <<appended, rows, resting, posts, stored>>

AppStarts ==
    /\ flusher.pc = "off" /\ FlusherIs("idle")
    /\ UNCHANGED <<appended, rows, resting, posts, stored, unconfirmed, faults>>
-----------------------------------------------------------------------------
(* The hub.                                                                *)

\* agent_events_ingest stores one envelope after the other, each in a transaction.
IngestOne(p) ==
    /\ p \in posts /\ p.left # {}
    /\ \E n \in p.left :
        /\ \A k \in p.left : n <= k
        /\ stored' = Append(stored, n)
        /\ posts' = (posts \ {p}) \cup {[p EXCEPT !.left = @ \ {n}]}
    /\ UNCHANGED <<appended, rows, resting, flusher, unconfirmed, faults>>

\* It refuses the batch, fails at an envelope, or ends; so does one that nobody
\* waits for any more.
PostEnds(p) ==
    /\ p \in posts /\ posts' = posts \ {p}
    /\ IF p.no = flusher.no /\ flusher.pc = "sending" THEN Faulty ELSE UNCHANGED faults
    /\ UNCHANGED <<appended, rows, resting, flusher, stored, unconfirmed>>

FlushStep ==
    \/ Post \/ Answered \/ DeliverFails
    \/ \E some \in SUBSET flusher.batch : DeleteRows(some) \/ BumpFailures(some)

OutboxNext ==
    \/ AppendEnvelope \/ FlushStep \/ AppQuits \/ AppStarts
    \/ \E n \in rows : RetryComes(n)
    \/ \E p \in posts : IngestOne(p) \/ PostEnds(p)

OutboxSpec == OutboxInit /\ [][OutboxNext]_outboxVars

\* The loop wakes every 5 s, time passes, and the hub works on what it was sent.
OutboxFairness ==
    /\ WF_outboxVars(FlushStep)
    /\ WF_outboxVars(\E p \in posts : p.no = flusher.no /\ IngestOne(p))
    /\ \A n \in RowId : WF_outboxVars(RetryComes(n))
FairOutboxSpec == OutboxSpec /\ OutboxFairness
-----------------------------------------------------------------------------
\* What Append has committed is in the outbox until the hub has it: no timeout,
\* failing statement, refusal or restart of either side loses an envelope.
DeliveredOrKept == \A n \in 1..appended : n \in rows \/ \E i \in 1..Len(stored) : stored[i] = n

\* The hub gets the envelopes in their order and once, but for those that a failed
\* or unconfirmed delivery brought again or late: only such a one is ever stored
\* after a later envelope (and then shows an older state than that one did).
OnlyRetriesLag == \A i, j \in 1..Len(stored) : i < j /\ stored[i] >= stored[j] => stored[j] \in unconfirmed

\* Once, in order, without a loss, unless a delivery goes wrong, and then without one.
EnvelopesAccounted == DeliveredOrKept /\ OnlyRetriesLag

\* An envelope leaves the outbox as long as the app runs and faults come to an end.
OutboxDrains == \A n \in RowId : n \in rows ~> (n \notin rows \/ flusher.pc = "off")

\* "Brainbox dedups by envelope.id, so at-least-once is safe": an envelope that is
\* delivered again is not stored again.
StoredOnce == \A i, j \in 1..Len(stored) : stored[i] = stored[j] => i = j
=============================================================================
