-------------------------------- MODULE OsSink --------------------------------
(***************************************************************************)
(* The OpenSearch sink: a second reader of the event log with a durable    *)
(* cursor of its own.  It indexes batches under the seq as document id and *)
(* saves the cursor afterwards; a document the mapping rejects is indexed  *)
(* in a reduced form or dropped, a cluster that does not answer stalls it. *)
(***************************************************************************)
EXTENDS EventLog

CONSTANTS
    SinkBatch,     \* settings.opensearch.batch_size
    SinkCrashes    \* bound: deaths of the hub

ASSUME SinkAssumption == SinkBatch \in Nat \ {0} /\ SinkCrashes \in Nat

VARIABLES
    sinkCursor,    \* the row of event_rule_cursor, 0 before the first boot
    sink,          \* the sink coroutine: pc, its cursor in memory
    index,         \* seq -> the document the index has for it
    dropped,       \* the rows whose reduced document was rejected as well
    sinkCrashes

sinkVars == <<sinkCursor, sink, index, dropped, sinkCrashes>>

Document == {"none", "full", "fallback"}
SinkDown == [pc |-> "down", at |-> 0]

SinkTypeOK ==
    /\ LogTypeOK
    /\ sinkCursor \in Nat
    /\ sink \in [pc : {"down", "draining", "saving"}, at : Nat]
    /\ index \in [1..MaxEvents -> Document]
    /\ dropped \subseteq Seqs
    /\ sinkCrashes \in 0..SinkCrashes

SinkInit ==
    /\ sinkCursor = 0 /\ sink = SinkDown
    /\ index = [s \in 1..MaxEvents |-> "none"]
    /\ dropped = {} /\ sinkCrashes = 0

SinkIngest ==
    /\ sink.pc # "down" /\ Insert(Rule, 0) /\ UNCHANGED sinkVars

AppendEnds(s, phase) == EndInsert(s, phase) /\ UNCHANGED sinkVars

\* start: the cursor is read, or created at 0.
SinkBoot ==
    /\ sink.pc = "down" /\ sink' = [pc |-> "draining", at |-> sinkCursor]
    /\ UNCHANGED <<log, sinkCursor, index, dropped, sinkCrashes>>

\* A bulk request writes, for each row of its set, the given form.
Indexed(rows, form) == [s \in 1..MaxEvents |-> IF s \in rows THEN form ELSE index[s]]

\* _index_batch answered: rejected rows have the reduced form, or none.
IndexBatch ==
    /\ sink.pc = "draining"
    /\ \E rows \in {FetchAfter(sink.at, SinkBatch)} :
        /\ rows # {}
        /\ \E rejected \in SUBSET rows : \E lost \in SUBSET rejected :
            /\ index' = [s \in 1..MaxEvents |->
                            IF s \in rows \ rejected THEN "full"
                            ELSE IF s \in rejected \ lost THEN "fallback" ELSE index[s]]
            /\ dropped' = dropped \cup lost
        /\ sink' = [pc |-> "saving", at |-> CHOOSE s \in rows : \A t \in rows : t <= s]
    /\ UNCHANGED <<log, sinkCursor, sinkCrashes>>

\* The cluster does not answer, to the first request or to the second: part of
\* the batch may be indexed, the cursor stays.
IndexBatchRaises ==
    /\ sink.pc = "draining"
    /\ \E full \in SUBSET FetchAfter(sink.at, SinkBatch) :
        full # {} /\ index' = Indexed(full, "full")
    /\ UNCHANGED <<log, sinkCursor, sink, dropped, sinkCrashes>>

\* The cursor in memory is advanced already: a failed save is made good by the
\* save of a later batch.
SaveCursor ==
    /\ sink.pc = "saving" /\ sink' = [sink EXCEPT !.pc = "draining"]
    /\ sinkCursor' \in {sink.at, sinkCursor}
    /\ UNCHANGED <<log, index, dropped, sinkCrashes>>

SinkCrash ==
    /\ sink.pc # "down" /\ sinkCrashes < SinkCrashes
    /\ sinkCrashes' = sinkCrashes + 1 /\ sink' = SinkDown
    /\ AbortOpen
    /\ UNCHANGED <<sinkCursor, index, dropped>>

SinkNext ==
    \/ SinkIngest \/ \E s \in 1..MaxEvents, p \in Phase : AppendEnds(s, p)
    \/ SinkBoot \/ IndexBatch \/ IndexBatchRaises \/ SaveCursor \/ SinkCrash

\* The sink is a coroutine of a running loop, and the cluster answers again.
SinkFairness == WF_<<log, sinkVars>>(IndexBatch) /\ WF_<<log, sinkVars>>(SaveCursor)
-----------------------------------------------------------------------------
\* Full history is searchable: whatever the sink has passed, on disk or in
\* memory, has a document or was given up on after its second rejection.
SinkSkipsNothing == \A s \in Visible :
    s <= sinkCursor \/ s <= sink.at => index[s] # "none" \/ s \in dropped

\* A visible event gets there while the hub stays up.
SinkCatchesUp == \A s \in 1..MaxEvents :
    (s \in Visible /\ sink.pc # "down") ~> (sink.at >= s \/ sink.pc = "down")
=============================================================================
