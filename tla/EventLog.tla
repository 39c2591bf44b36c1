------------------------------- MODULE EventLog -------------------------------
(***************************************************************************)
(* The agent event log: the table agent_events that agent_store.ingest     *)
(* appends to, and that the rules consumer and the OpenSearch sink walk by *)
(* seq.  ingest runs in worker threads over a connection pool: the IDENTITY*)
(* column hands out the seq when the row is inserted, the row is visible   *)
(* to other connections when the transaction commits.                      *)
(***************************************************************************)
EXTENDS Integers, FiniteSets, Sequences

CONSTANTS
    Rule,          \* the event rules
    MaxEvents,     \* bound: rows the log may get
    Writers        \* bound: ingest transactions open at a time

ASSUME LogAssumption == MaxEvents \in Nat /\ Writers \in Nat

VARIABLE log       \* the rows by seq: which rules their envelope matches, the
                   \* rule_chain_depth it carries, the state of its transaction

Phase == {"open", "visible", "aborted"}
Event == [match : SUBSET Rule, depth : Nat, phase : Phase]

LogTypeOK == log \in Seq(Event)

Seqs == 1..Len(log)
Visible == {s \in Seqs : log[s].phase = "visible"}

\* fetch_events_after: the first n visible rows after a seq, in the order of seq.
FetchAfter(seq, n) ==
    {s \in Visible : s > seq /\ Cardinality({t \in Visible : seq < t /\ t <= s}) <= n}

\* ingest inserts the row of an envelope.
Insert(m, d) ==
    /\ Len(log) < MaxEvents
    /\ Cardinality({s \in Seqs : log[s].phase = "open"}) < Writers
    /\ log' = Append(log, [match |-> m, depth |-> d, phase |-> "open"])

\* The transaction ends: the row appears, or its seq stays unused for ever.
EndInsert(s, phase) ==
    /\ s \in Seqs /\ log[s].phase = "open"
    /\ phase \in {"visible", "aborted"}
    /\ log' = [log EXCEPT ![s].phase = phase]

\* The hub dies: the database rolls back what its threads had open.
AbortOpen ==
    log' = [s \in Seqs |-> IF log[s].phase = "open"
                           THEN [log[s] EXCEPT !.phase = "aborted"] ELSE log[s]]
=============================================================================
