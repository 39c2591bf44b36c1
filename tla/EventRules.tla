------------------------------ MODULE EventRules ------------------------------
(***************************************************************************)
(* The event rules engine: a consumer walks the event log with a durable   *)
(* cursor, matches each envelope against the enabled rules and enqueues an *)
(* execution row per action; workers run the rows and record the outcome;  *)
(* the hub may die at any point and start again.                           *)
(***************************************************************************)
EXTENDS EventLog

CONSTANTS
    Actions,       \* rule -> the sequence of the types of its actions
    MaxDepth,      \* settings.rules.max_chain_depth
    MaxAttempts,   \* settings.rules.max_attempts
    RateLimit,     \* settings.rules.rate_limit_per_minute
    BatchSize,     \* settings.rules.batch_size
    MaxConcurrency,\* settings.rules.max_concurrency
    MaxCrashes,    \* bound: deaths of the hub
    MaxRuns        \* bound: an operator requeues a row until it was queued so often

ActionType == {"submit_task", "start_loop", "webhook", "run_script"}
Retryable == {"webhook", "run_script"}

ASSUME RulesAssumption ==
    /\ Actions \in [Rule -> Seq(ActionType)]
    /\ MaxDepth \in Nat /\ RateLimit \in Nat /\ MaxCrashes \in Nat /\ MaxRuns \in Nat
    /\ {MaxAttempts, BatchSize, MaxConcurrency} \subseteq Nat \ {0}

Key == {k \in Rule \X (1..MaxEvents) \X (1..10) : k[3] <= Len(Actions[k[1]])}
TypeOf(k) == Actions[k[1]][k[3]]
Budget(k) == IF TypeOf(k) \in Retryable THEN MaxAttempts ELSE 1

VARIABLES
    rules,         \* rule -> on (enabled), off, gone (deleted)
    cursor,        \* the row of event_rule_cursor; -1 before the first boot
    row,           \* key -> status of its execution row
    consumer,      \* the consumer coroutine and its local variables
    window,        \* _rate_window: rule -> fires of the last minute
    worker,        \* key -> the _run_execution of its row
    emitting,      \* key -> terminal envelopes of it still to be ingested
    effects,       \* key -> how often its action took effect outside
    runs,          \* key -> how often its row was put in the queue
    seen,          \* the events whose match was committed
    origin,        \* where the cursor started
    crashes

rulesVars == <<rules, cursor, row, consumer, window, worker, emitting, effects, runs,
               seen, origin, crashes>>
vars == <<log, rulesVars>>

Status == {"none", "queued", "running", "ok", "throttled", "dead"}
Idle == [pc |-> "idle", tries |-> 0]
Stopped(pc) == [pc |-> pc, at |-> 0, plan |-> {}, batch |-> {}, claimed |-> {}]
NoFires == [r \in Rule |-> 0]

Up == consumer.pc \notin {"down", "failed"}
InSema == {k \in Key : worker[k].pc \in {"acting", "acted", "dying"} \/ emitting[k] > 0}
Running(k) == worker[k].pc # "idle" \/ k \in consumer.claimed

TypeOK ==
    /\ LogTypeOK
    /\ rules \in [Rule -> {"on", "off", "gone"}]
    /\ cursor \in Nat \cup {-1}
    /\ row \in [Key -> Status]
    /\ consumer.pc \in {"down", "failed", "draining", "committing", "starting"}
    /\ consumer.at \in Nat
    /\ consumer.plan \subseteq Key \X {"queued", "throttled"}
    /\ consumer.batch \subseteq Seqs
    /\ consumer.claimed \subseteq Key
    /\ window \in [Rule -> 0..RateLimit]
    /\ worker \in [Key -> [pc : {"idle", "claimed", "acting", "acted", "dying"},
                           tries : 0..MaxAttempts]]
    /\ emitting \in [Key -> Nat]
    /\ effects \in [Key -> Nat] /\ runs \in [Key -> Nat]
    /\ seen \subseteq Seqs /\ origin \in Nat /\ crashes \in 0..MaxCrashes

Init ==
    /\ log = <<>>
    /\ rules = [r \in Rule |-> "on"]
    /\ cursor = -1
    /\ row = [k \in Key |-> "none"]
    /\ consumer = Stopped("down")
    /\ window = NoFires
    /\ worker = [k \in Key |-> Idle]
    /\ emitting = [k \in Key |-> 0]
    /\ effects = [k \in Key |-> 0] /\ runs = [k \in Key |-> 0]
    /\ seen = {} /\ origin = 0 /\ crashes = 0
-----------------------------------------------------------------------------
(* The log grows by what others send and by what the rules' own work emits. *)

Depths == {0} \cup {log[k[2]].depth + 1 : k \in {j \in Key : effects[j] > 0}}

Ingest(m, d) ==
    /\ Up /\ d \in Depths
    /\ Insert(m, d)
    /\ UNCHANGED rulesVars

IngestEnds(s, phase) == EndInsert(s, phase) /\ UNCHANGED rulesVars

-----------------------------------------------------------------------------
(* The operator. *)

\* PUT, enable, disable; a deleted rule does not come back under its id.
SetRule(r, v) ==
    /\ rules[r] # "gone" /\ rules' = [rules EXCEPT ![r] = v]
    /\ UNCHANGED <<log, cursor, row, consumer, window, worker, emitting, effects, runs,
                   seen, origin, crashes>>

\* requeue_execution: only a terminal row that is not ok.
Requeue(k) ==
    /\ Up /\ row[k] \in {"dead", "throttled"} /\ runs[k] < MaxRuns
    /\ row' = [row EXCEPT ![k] = "queued"]
    /\ runs' = [runs EXCEPT ![k] = @ + 1]
    /\ UNCHANGED <<log, rules, cursor, consumer, window, worker, emitting, effects, seen,
                   origin, crashes>>
-----------------------------------------------------------------------------
(* The consumer. *)

\* start: rows left running for longer than stuck_running_ms are queued again,
\* and the cursor is created at the head of the log if it does not exist.
Boot(stuck) ==
    /\ ~Up
    /\ stuck \subseteq {k \in Key : row[k] = "running"}
    /\ row' = [k \in Key |-> IF k \in stuck THEN "queued" ELSE row[k]]
    /\ runs' = [k \in Key |-> IF k \in stuck THEN runs[k] + 1 ELSE runs[k]]
    /\ \E head \in Visible \cup {0} :
        /\ \A s \in Visible : s <= head
        /\ cursor' = IF cursor = -1 THEN head ELSE cursor
        /\ origin' = IF cursor = -1 THEN head ELSE origin
    /\ consumer' = [Stopped("draining") EXCEPT !.at = cursor']
    /\ UNCHANGED <<log, rules, window, worker, emitting, effects, seen, crashes>>

\* The first two statements of _consumer_loop are outside its try.
BootFails ==
    /\ consumer.pc = "down" /\ consumer' = Stopped("failed")
    /\ UNCHANGED <<log, rules, cursor, row, window, worker, emitting, effects, runs, seen,
                   origin, crashes>>

Fires(r, batch) ==
    {s \in batch : rules[r] = "on" /\ r \in log[s].match /\ log[s].depth < MaxDepth}

\* The fires of a rule take what is left of its window in the order of the log.
InLimit(r, s, batch) ==
    window[r] + Cardinality({t \in Fires(r, batch) : t <= s}) <= RateLimit

Plan(batch) ==
    {p \in Key \X {"queued", "throttled"} :
        /\ p[1][2] \in Fires(p[1][1], batch)
        /\ p[2] = IF InLimit(p[1][1], p[1][2], batch) THEN "queued" ELSE "throttled"}

Charged(r, batch) == window[r] + Cardinality({s \in Fires(r, batch) : InLimit(r, s, batch)})

\* fetch_events_after and the matching of _match_events.
Match ==
    /\ consumer.pc = "draining"
    /\ \E batch \in {FetchAfter(consumer.at, BatchSize)} :
        /\ batch # {}
        /\ consumer' = [consumer EXCEPT !.pc = "committing", !.plan = Plan(batch), !.batch = batch]
        /\ window' = [r \in Rule |-> Charged(r, batch)]
    /\ UNCHANGED <<log, rules, cursor, row, worker, emitting, effects, runs, seen, origin,
                   crashes>>

\* _commit_batch: rows, rule statistics and cursor in one transaction; a row
\* that exists already stays as it is.
CommitBatch ==
    LET last == CHOOSE s \in consumer.batch : \A t \in consumer.batch : t <= s
        new == {p \in consumer.plan : row[p[1]] = "none"} IN
    /\ row' = [k \in Key |-> IF <<k, "queued">> \in new THEN "queued"
                             ELSE IF <<k, "throttled">> \in new THEN "throttled" ELSE row[k]]
    /\ runs' = [k \in Key |-> IF <<k, "queued">> \in new THEN 1 ELSE runs[k]]
    /\ cursor' = last
    /\ seen' = seen \cup consumer.batch

BackToDraining(at) == consumer' = [Stopped("draining") EXCEPT !.at = at]

Commit ==
    /\ consumer.pc = "committing"
    /\ CommitBatch
    /\ BackToDraining(cursor')
    /\ UNCHANGED <<log, rules, window, worker, emitting, effects, origin, crashes>>

CommitRaises_Moves ==    \* mutant: the cursor in memory moves all the same
    /\ consumer.pc = "committing"
    /\ UNCHANGED <<row, runs, cursor, seen>>
    /\ \E last \in consumer.batch : (\A t \in consumer.batch : t <= last) /\ BackToDraining(last)
    /\ UNCHANGED <<log, rules, window, worker, emitting, effects, origin, crashes>>

\* The statement failed, or it committed and the answer was lost: the consumer
\* keeps its place and reads the same events again.
CommitRaises ==
    /\ consumer.pc = "committing"
    /\ \/ CommitBatch
       \/ UNCHANGED <<row, runs, cursor, seen>>
    /\ BackToDraining(consumer.at)
    /\ UNCHANGED <<log, rules, window, worker, emitting, effects, origin, crashes>>

Older(j, k) == j[2] < k[2] \/ (j[1] = k[1] /\ j[2] = k[2] /\ j[3] < k[3])

\* claim_queued_executions: the oldest rows, up to its limit.
Claimable(ks) ==
    LET queued == {k \in Key : row[k] = "queued"} IN
    /\ ks \subseteq queued /\ Cardinality(ks) <= 2 * MaxConcurrency
    /\ \A k \in ks, j \in queued : Older(j, k) => j \in ks
    /\ Cardinality(ks) = 2 * MaxConcurrency \/ ks = queued

Claim_Enabled(ks) ==    \* mutant: only of rules that are enabled
    /\ consumer.pc = "draining" /\ FetchAfter(consumer.at, BatchSize) = {}
    /\ ks # {} /\ Claimable(ks) /\ \A k \in ks : rules[k[1]] = "on"
    /\ row' = [k \in Key |-> IF k \in ks THEN "running" ELSE row[k]]
    /\ consumer' = [consumer EXCEPT !.pc = "starting", !.claimed = ks]
    /\ UNCHANGED <<log, rules, cursor, window, worker, emitting, effects, runs, seen, origin,
                   crashes>>

Claim(ks) ==
    /\ consumer.pc = "draining" /\ FetchAfter(consumer.at, BatchSize) = {}
    /\ ks # {} /\ Claimable(ks)
    /\ row' = [k \in Key |-> IF k \in ks THEN "running" ELSE row[k]]
    /\ consumer' = [consumer EXCEPT !.pc = "starting", !.claimed = ks]
    /\ UNCHANGED <<log, rules, cursor, window, worker, emitting, effects, runs, seen, origin,
                   crashes>>

StartWorkers ==
    /\ consumer.pc = "starting"
    /\ worker' = [k \in Key |-> IF k \in consumer.claimed
                                THEN [pc |-> "claimed", tries |-> 0] ELSE worker[k]]
    /\ BackToDraining(consumer.at)
    /\ UNCHANGED <<log, rules, cursor, row, window, emitting, effects, runs, seen, origin,
                   crashes>>

\* The claim committed and its answer was lost: its rows are nobody's.
ClaimLost ==
    /\ consumer.pc = "starting"
    /\ BackToDraining(consumer.at)
    /\ UNCHANGED <<log, rules, cursor, row, window, worker, emitting, effects, runs, seen,
                   origin, crashes>>

\* Fires leave the window as time passes.
WindowSlides(r) ==
    /\ window[r] > 0 /\ window' = [window EXCEPT ![r] = @ - 1]
    /\ UNCHANGED <<log, rules, cursor, row, consumer, worker, emitting, effects, runs, seen,
                   origin, crashes>>
-----------------------------------------------------------------------------
(* _run_execution: one worker per claimed row, MaxConcurrency at a time.   *)

Goto(k, pc) == worker' = [worker EXCEPT ![k].pc = pc]

Enter_FromZero(k) ==    \* mutant: the attempts are counted from zero
    /\ worker[k].pc = "claimed" /\ Cardinality(InSema) < MaxConcurrency
    /\ worker' = [worker EXCEPT ![k] = [pc |-> "acting", tries |-> 0]]
    /\ UNCHANGED <<log, rules, cursor, row, consumer, window, emitting, effects, runs, seen,
                   origin, crashes>>

\* The worker gets the semaphore and reads the rule and the event; if one is
\* missing, or the read raises, the row goes to the dead letters without an attempt.
Enter(k) ==
    /\ worker[k].pc = "claimed" /\ Cardinality(InSema) < MaxConcurrency
    /\ \/ /\ rules[k[1]] # "gone"
          /\ worker' = [worker EXCEPT ![k] = [pc |-> "acting", tries |-> 1]]
       \/ Goto(k, "dying")
    /\ UNCHANGED <<log, rules, cursor, row, consumer, window, emitting, effects, runs, seen,
                   origin, crashes>>

\* _execute_action returns.
Acts(k) ==
    /\ worker[k].pc = "acting" /\ Goto(k, "acted")
    /\ effects' = [effects EXCEPT ![k] = @ + 1]
    /\ UNCHANGED <<log, rules, cursor, row, consumer, window, emitting, runs, seen, origin,
                   crashes>>

\* The except branch: another attempt, or the dead letters.
RetryOrDie(k, permanent) ==
    IF TypeOf(k) \in Retryable /\ ~permanent /\ worker[k].tries < MaxAttempts
    THEN worker' = [worker EXCEPT ![k] = [pc |-> "acting", tries |-> @.tries + 1]]
    ELSE Goto(k, "dying")

\* It raises or times out, before or after the effect it is for.
ActionRaises(k) ==
    /\ worker[k].pc = "acting"
    /\ \E permanent \in BOOLEAN : RetryOrDie(k, permanent)
    /\ \E n \in 0..1 : effects' = [effects EXCEPT ![k] = @ + n]
    /\ UNCHANGED <<log, rules, cursor, row, consumer, window, emitting, runs, seen, origin,
                   crashes>>

\* finish_execution; an execution whose rule or event is missing has no envelope.
Recorded(k, status) ==
    /\ row' = [row EXCEPT ![k] = status]
    /\ worker' = [worker EXCEPT ![k] = Idle]
    /\ emitting' = IF worker[k].tries = 0 THEN emitting ELSE [emitting EXCEPT ![k] = @ + 1]

RecordOk(k) ==
    /\ worker[k].pc = "acted" /\ Recorded(k, "ok")
    /\ UNCHANGED <<log, rules, cursor, consumer, window, effects, runs, seen, origin, crashes>>

\* finish_execution is inside the try of the attempt: when it raises, the
\* action that had succeeded is taken for failed.
RecordOkRaises(k) ==
    /\ worker[k].pc = "acted" /\ RetryOrDie(k, FALSE)
    /\ UNCHANGED <<log, rules, cursor, row, consumer, window, emitting, effects, runs, seen,
                   origin, crashes>>

RecordDead(k) ==
    /\ worker[k].pc = "dying" /\ Recorded(k, "dead")
    /\ UNCHANGED <<log, rules, cursor, consumer, window, effects, runs, seen, origin, crashes>>

\* Both tries at recording it raise: the row stays running without a worker.
RecordDeadRaises(k) ==
    /\ worker[k].pc = "dying" /\ worker' = [worker EXCEPT ![k] = Idle]
    /\ UNCHANGED <<log, rules, cursor, row, consumer, window, emitting, effects, runs, seen,
                   origin, crashes>>

\* _emit_terminal_envelope: on the log one level deeper, or lost (it never raises).
Emit(k) ==
    /\ emitting[k] > 0 /\ emitting' = [emitting EXCEPT ![k] = @ - 1]
    /\ \/ \E m \in SUBSET Rule : Insert(m, log[k[2]].depth + 1)
       \/ UNCHANGED log
    /\ UNCHANGED <<rules, cursor, row, consumer, window, worker, effects, runs, seen, origin,
                   crashes>>
-----------------------------------------------------------------------------
\* The hub dies, or stop() cancels the consumer and gives up on the workers.
Crash ==
    /\ consumer.pc # "down" /\ crashes < MaxCrashes
    /\ crashes' = crashes + 1
    /\ consumer' = Stopped("down")
    /\ worker' = [k \in Key |-> Idle]
    /\ emitting' = [k \in Key |-> 0]
    /\ window' = NoFires
    /\ AbortOpen
    /\ UNCHANGED <<rules, cursor, row, effects, runs, seen, origin>>

ConsumerStep == Match \/ Commit \/ (\E ks \in SUBSET Key : Claim(ks)) \/ StartWorkers
WorkerStep(k) == Enter(k) \/ Acts(k) \/ ActionRaises(k) \/ RecordOk(k) \/ RecordOkRaises(k)
                 \/ RecordDead(k) \/ RecordDeadRaises(k)

Next ==
    \/ \E m \in SUBSET Rule, d \in 0..MaxDepth + 1 : Ingest(m, d)
    \/ \E s \in 1..MaxEvents, p \in Phase : IngestEnds(s, p)
    \/ \E r \in Rule, v \in {"on", "off", "gone"} : SetRule(r, v)
    \/ \E r \in Rule : WindowSlides(r)
    \/ \E k \in Key : Requeue(k) \/ WorkerStep(k) \/ Emit(k)
    \/ ConsumerStep \/ CommitRaises \/ ClaimLost
    \/ \E ks \in SUBSET Key : Boot(ks)
    \/ BootFails \/ Crash

Spec == Init /\ [][Next]_vars

\* The consumer and the workers are coroutines of a running loop; every wait of
\* theirs has a timeout, and the database does not fail for ever.
Fairness == SF_vars(Commit) /\ WF_vars(ConsumerStep)
            /\ \A k \in Key : WF_vars(WorkerStep(k)) /\ WF_vars(Emit(k))
FairSpec == Spec /\ Fairness
-----------------------------------------------------------------------------
\* The consumer passes over no event: every row that is visible behind the
\* cursor was in a batch whose executions were committed ("nothing is skipped").
NothingSkipped ==
    cursor # -1 => \A s \in Visible : origin < s /\ s <= cursor => s \in seen

\* An execution row costs at most one effect (max_attempts for webhooks and
\* scripts) each time it is queued: by its match, by a requeue, by a recovery.
EffectsBounded == \A k \in Key : effects[k] <= runs[k] * Budget(k)

\* While the hub stays up, a visible event is passed by the cursor,
EventsMatched == \A s \in 1..MaxEvents :
    (s \in Visible /\ Up) ~> (cursor >= s \/ ~Up)
\* and a queued execution gets a worker.
QueuedRuns == \A k \in Key : (row[k] = "queued" /\ Up) ~> (row[k] # "queued" \/ ~Up)
=============================================================================
