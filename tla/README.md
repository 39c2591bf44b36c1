# TLA+ models of the phantom-ink hub

phantom-ink is a hub that runs coding agents. *brainbox* (Python, one asyncio
process and its worker threads, `src/brainbox/src/brainbox`) accepts tasks, starts a
container, a virtual machine or a session on a remote *runner* for each, hands the
agent a token, listens to what it reports and cleans up. Around this core it judges
loops of tasks, hosts rooms in which agents talk, puts MCP servers behind a gateway
with a residency policy, matches rules against an event log, and replicates a few
tables between nodes. A desktop application (Go, `src/app`) is one runner; the inbox
scripts (`src/scripts/inbox`) file captured documents through it.

These modules model the control of that system: who may change a status, a token, a
session, a cursor or a file, in which order, and what happens when two of them do it
at once, when a step fails, or when the hub dies between two steps.

## Inventory

| component | state | operations | hard part |
|---|---|---|---|
| task router `router.py` | `_tasks`: status, token, session and runner names, attempts, suspension | submit, complete, fail, cancel, suspend, resume, health check, restart of persistent agents | finalisation awaits; the check's pass awaits in the middle |
| scheduler `scheduler.py` | none of its own | wake, expire, select, dispatch, retry | awaits a pipeline for minutes and then writes the status |
| agent registry, tokens `registry.py` | `_agents`, `_tokens`, files, rows | issue, validate, revoke; create, update, delete, load | who revokes which token; files written one by one |
| session lifecycle `lifecycle.py`, `monitor.py` | `_sessions`, monitors, the sessions table | provision, configure, start, monitor, recycle, recover | keyed by name, so an old recycle meets a new session |
| runner registry `runners.py` | runners, queues, events, items, pairing tickets | register, deregister and reroute, enqueue, long-poll, result, claim | lost wakeups, timeouts against results |
| loop runner and judge `loop_runner.py`, `loop_judge.py` | loop instances, child map; one session per verdict | start, advance, cancel, judge | judges are awaited for minutes without looking again |
| hub `hub.py`, `store.py` | snapshot file, database rows | flush every 30 s, final flush, restore | two stores written at different times, one `.tmp` |
| event rules `event_rules.py`, `event_match.py` | executions, cursor, rate windows | match, claim, execute, retry, requeue, recover | once-only effects across crashes |
| OpenSearch sink `os_sink.py` | cursor | index, save the cursor | a crash in between |
| conversations `conversation_*.py` | messages, links of promoted sessions | chains of turns, promote, report, dismiss, archive | history read before an await, used after it |
| MCP gateway `gateway_*.py`, `trust_zones.py` | connections, negative cache, bundle cache, policy | call, connect, evict, sync, decide | an edit of credentials while connections are in use |
| messages `messages.py` | `_pending` | route, get | a restart with an older snapshot |
| node sync `node_sync*.py` | replicated rows, cursors | pull events and owner rows | stamps in another order than the commits, one cursor for all rows, failing pulls |
| daemon `daemon.py` | one pid file | start, stop, status, restart | commands are separate processes |
| LLM calls `llm/`, `ollama_pool.py` | pool instances, in-flight counts, meters | complete with fallbacks, health checks | instances are replaced under a call |
| backends `backends/` | containers, virtual machines, ports, address files | provision, start, remove | names, ports and MAC addresses are shared |
| HTTP API `api.py` | none | create, stop, query, relay, rooms, results | awaits between a check and the act |
| inbox `scripts/inbox` | Drive folders, spool, ledger | drain, requeue, extract, apply | a kill between any two of three stores |
| desktop outbox `app/internal/outbox`, `agent_store.py` | one SQLite table; `agent_events` of the hub | append, post a batch, delete or back off; ingest | an answer that comes late or never, a kill after the delivery |
| frontend, shell-profiler, images | | presentation, I/O, build | |

How they interact: the API calls the router; the scheduler loop takes PENDING tasks,
issues a token and awaits `run_pipeline`, which works in the hub's own process or
enqueues a work item for a runner and awaits its future; a guest fetches its task
document and reports with its token; the router emits events, to which the loop
runner, the conversation bridge and the event log listen; the periodic check walks all
tasks and fails or restarts those whose session is gone. Most of the core has no
threads: everything interleaves at `await`s, and only at those that really suspend.
Threads appear where files are written (the flush, the bundle cache) and in the
database calls; there a step is one file or database operation.

What makes each part correct is in the table of runs; `PROJECT.json` lists the hazards
line by line.

## Modules

Each component has a module of its own with its variables, an `Init`, one action per
handler or per segment between two awaits, and its properties at the end. The `MC`
modules give the constants of TLC values and put components that share no state side by
side: a variable `part` says whose steps a behaviour has, so the states of
the parts add up instead of multiplying. A component that interacts with another one
EXTENDS it: `Gateway` the pool and the policy, `TaskHub` has router, scheduler,
registry and lifecycle in one, `SessionTasks` API, router, registry and guests.

| module | code | state and actions |
|---|---|---|
| `TaskHub` | router, scheduler, tokens, pipeline, recycle | see below |
| `TaskLifecycle` | abstract | what the hub promises about a status: an edge of the diagram, a launch, a landing, the end of a loop |
| `LoopRunner` | `loop_runner.py` | `loop`, `iteration`, `current`, `listed` (`_child_to_loop`), `parent`; a `bridge` is a coroutine the event listener started, standing before a judge or before the write that precedes the next iteration |
| `LoopVerdict` | `loop_judge.py` | one verdict: objective entries over an envelope, then a throw-away session that is created, awaited, asked and cleaned up, each step of which may fail |
| `RunnerRegistry` | `runners.py` | `pending`, `event`, `known`, `fut` as in the code; `poll` are the long-polls the server holds, `leaving` a queue `deregister` has popped and not yet rerouted, `dropped` what it held when its database write failed |
| `WorkHandoff` | abstract | what the registry promises callers and runners |
| `AgentCatalog` | `registry.py`, agent routes | `definition` and `role` are the files, `agents` and `prompts` the memory; a call writes file by file and may tear one, fail or be cut by a restart |
| `Bearers` | `auth.py`, room routes of `api.py`, pairing in `runners.py` | a request is checked, widened, scoped and then acts; profile and task tokens come and go between the checks; tickets are issued, swept and claimed |
| `HubState` | `hub.py`, `messages.py`, token and loop rows of `store.py` | the snapshot down to inodes: two flushes (periodic, final) open, write and rename one `.tmp`; rows change at once; crash, stop, start |
| `SessionPorts` | port selection in `lifecycle.py`, docker backend, `_session_endpoint` | `_sessions` entries and containers with their ports; creates, recycles, restarts |
| `Sessions` | `lifecycle.py`, `monitor.py`, sessions table | one name, local and remote pipelines, stops with their row write, which may fail, and the direct way out of that, monitors, TTL, restarts with recovery from docker, if it can be asked, and then from the table |
| `SessionTasks` | `api_create_session`, task documents, identity and report routes, `configure`, the guest's scripts | creates of one name, tokens, task rows, boxes and guests, reports over two paths, health check, finalisation |
| `SessionQuery` | `api_query_session`, `loop_assist.py` | a terminal pane, queries that type, poll and return; an assist session with its output file |
| `TerminalRelay` | the WebSocket relay of `api.py` | two pumps between browser and terminal; frames, pings, closes, netcat per path |
| `UtmBackend` | `backends/utm` | machines with MAC, mode and port; the address files; sessions configured through them |
| `Completions` | `llm/core.py`, `llm/backends.py`, `ollama_pool.py` | calls along their fallback chain, metering, sessions made for one answer, pool instances that are replaced |
| `EventLog`, `EventRules` | `event_rules.py`, `agent_store.py` | log rows become visible at commit; `consumer`, `cursor`, `window`, `row` (executions), workers, retries, dead letters, crash and boot |
| `EventMatch` | `event_match.py` | `matches` and `validate_pattern` as functions on tagged values; what `_element_matches` asks of a nested pattern is the parameter `beneath`, tied to itself by the recursive functions `matched` and `validated` |
| `OsSink` | `os_sink.py` | cursor, index requests with partial failures, crash |
| `Conversation` | `conversation_orchestrator.py`, `conversation_runtime.py` | chains started by posts, each with the history it read; replies, cooldown, streak, budget, roster edits |
| `RoomSessions` | `conversation_session.py`, `conversation_promote.py` | promotion, link, reports, dismissal, closers with a note |
| `TrustPolicy` | `trust_zones.py`, `step_spec.py`, gateway policy routes | rules, zones, ceilings, overrides, choice of a provider |
| `GatewayPool` | `gateway_pool.py` | callers, connections with their queue and owner task, negative cache, lock, evictions after edits |
| `GatewayCalls` | abstract | what the pool promises of a call: on one wire, once, refused before or lost with its connection |
| `Gateway` | `gateway_server.py`, `gateway_secrets.py` | extends the two: admission of a call, its ceiling, then the pool's first step |
| `BundleCache` | `gateway_bundle.py` | workers that HEAD, fetch, wipe, extract file by file and write manifest and etag; edits and their cleanup |
| `NodeSync` | `node_sync.py`, `node_sync_client.py` | ULID cursors of events, owner rows with tombstones and one cursor for all of them, pulls that fail. A commit makes a row visible under any stamp, behind what is there as well as ahead of it: clocks, threads and skew are all in this |
| `Outbox` | `outbox.go`, its deliverer in `app.go`, `ingest` | `rows` and those `resting` until their next attempt, the `flusher` with the batch in its hands, `posts` at the hub, which outlive the 15 s the app waits for them, `log` (`agent_events`) |
| `Daemon` | `daemon.py` | commands as processes over one pid file, daemon processes over one port |
| `InboxPipeline` | `scripts/inbox` | Drive folders, spool, ledger with torn lines; drain, requeue, extract and apply as processes that are killed |
| `TaskHubProofs`, `ControlProofs`, `EventBusProofs`, `GatewayProofs`, `ServicesProofs`, `RoomsProofs`, `RecoveryProofs`, `NumberLemmas` | | theorems and their lemmas, see Proofs |

### TaskHub

`status`, `attempts`, `wait`, `named` (has a session name), `remote` (has a runner
name) and `token` are the fields of a `Task`; `valid` is the token store, `session` is
`_sessions`, `box` says where a container really exists, `owed` which runner still
works on something the hub has given up on. Three program counters stand for the
coroutines: `sch` is the scheduler (idle, selecting, or awaiting a pipeline for one
task with the token it issued), `chk` the periodic check (including the restart and
finalisation it may be awaiting, and `dead` after an uncaught exception), and `fin`
the set of `recycle` calls in flight.

`SubmitTask` to `CancelTask` are the handlers of the router; `BeginRecycle`,
`RecycleBackend`, `RecyclePop` and `RecycleDone` the four segments of
`_finalize_task`/`recycle`; `SchedulerTick` is `_wake_resumable` and the deadline
walk; `BeginDispatch` to `RemoteRaised` are `_dispatch_pending` with the segments of
`run_pipeline`; `CheckFails` to `CheckPassEnds` are `check_running_tasks`. Outside the
program: `ContainerDies`, `LateResult`, and the passing of time.

### What is abstracted, module by module

These are the places where a model says less than the code, so that nobody reads more
into a property than it says.

- `TaskHub`: turns of the loops that find nothing to do; the 12 h expiry of tokens; ids,
  texts, backoff lengths (an elapsed backoff is an event); capacity figures of runners.
- `LoopRunner`: the cost budget, since `iter_cost` is always 0.0. `LoopVerdict`: envelope
  values are numbers, texts or missing; the dotted walk is abstracted.
- `EventMatch`: the universes of values and elements are constants; no array holds an array,
  and patterns nest once in the run. `EventRules`: the workers' column `attempts` is
  always 0 at a claim and left out; an outcome write that fails never commits (only the
  batch commit and the claim may commit with a lost answer); the two tries at recording
  a dead letter are one; a rule's actions do not change; wakeups are polls.
- `GatewayPool`: an env is the version of the credentials read at `Spawn`; a dead
  transport's connection stays cached until an eviction. `Gateway`: the operator's lock is
  open, admission and the first pool step are one step, and only a server's own declared
  destinations are modelled: at the spawn the env of the profile is laid over the whole of
  the server's (`gateway_pool.py:210-215`), so a variable of the profile that bears the name
  of a catalog literal replaces what `resolve_env_def` classified as written
  (`mcp_zones.py:32-47`), and of that the model says nothing. The filter of a listing's tools
  by scope is left out; the servers it contacts are not filtered by scope in the code either. `TrustPolicy`: one profile; hosts and the cover of globs in
  place of host parsing; `prefers` is a set. `BundleCache`: the etag is the version,
  audience and blocklist filtering are in `File`; a GET may fail at any time.
- `Conversation`: the ULID of a post and its insert are one step, as are a reply's status
  check and its history; archiving is atomic (its closers are in `RoomSessions`); the
  roster's read-modify-write and a hub crash are not modelled.
- `Sessions`: one name; the monitor's sleep is merged with its turn; a history write that
  fails after the row was written is one with it (`MarkFails`). `SessionPorts`: make
  and entry are one step, the cosign check and pull are `Refused`, docker only.
  `SessionTasks`: transient roles, docker, not hardened; recycle is atomic here (`Sessions`
  has its steps). `UtmBackend`: a boot with a taken port fails; a delete, which
  the code does not check, may leave the machine, stopped or not, and UTM is taken to refuse a
  clone under a name that is there; bridged machines are reached by a reported address or by
  name.
- `SessionQuery`: `MaxRest = 1` is an assumption on the environment: a screen rests at most
  one poll while an agent works. `TerminalRelay`: framing and masking are frames; which
  endpoint is asked is `SessionPorts`.
- `Completions`: the paid gate of `complete()` is merged with the strategy's; `codex` is
  never registered, as shipped.
- `HubState`: a loop's start and its row are one step, with one child per loop; the
  capability check of a sender is its token's validity; the runners' state and the audit
  log are left out. `lapses` counts crashes and final flushes that failed or met a
  periodic one.
- `AgentCatalog`: file names equal agent names, as shipped. `Bearers`: one room per profile,
  ids never reused; the key's rooms are unrestricted.
- `NodeSync`: a ULID or an `updated_at` is a number, of which only the order matters, and
  runners are the one table. `RunnerRegistry`: a deregistration's write fails as a whole.
  `Daemon`: one port, pids are
  not reused. `Outbox`: an envelope is the number of its row; the wake channel only hastens
  the heartbeat; a row that does not parse is left out, since `Append` writes none.
- `InboxPipeline`: one run of each job at a time; kinds, frontmatter and the validation of
  verdicts are `Vague` and `Refused`; dry runs, `--init` and notes are left out.

## Runs

A run puts components that share no state side by side (`part` in the `MC` modules).
What a run asks of one component is often the conjunction of several properties, so that
there is one question per component:

`TasksMoveOn` is `QueuedTaskMoves`, `LostSessionNoticed` and `JoinAnswered`; `LoopIsWhole` is
`OneActiveIteration`, `LoopIsAttended` and `ParentMatchesLoop`; `SessionsTracked` is `SessionsKnown`
(`MonitorAlive`, `SurvivesRestarts`) and `StoppedStaysStopped`; `TasksFollowSessions` is
`GuestsReport` (`OwnTask`, `ReportsCount`) and `NoCredentialLeft`; `ReadersSkipNothing` is
`NothingSkipped` and `SinkSkipsNothing`; `EventsGetThrough` is `EventsMatched`, `QueuedRuns`,
`SinkCatchesUp` and `OutboxDrains`; `EnvelopesAccounted` is `DeliveredOrKept` and `OnlyRetriesLag`;
`CallsAttended` is `NothingBehindStop` and `WaitersAttended`; `PullsLoseNothing` is
`CursorSkipsNothing`, `RowCursorSkipsNothing` and `LastWriteStands`; `EndsAreOutlived` is `TokensSurvive` (`RevokedGone`,
`GatewayLasts`) and `MessagesOnce`; `ItemsAccounted`
is `NothingLost` and `FiledOnce`; `ItemsReachRunners` is `NoLostWakeup` and
`NothingForgotten`; `CompletionsAccounted` is `FlightsCounted`, `MeteredOnce` and
`NoSessionLeft`; `RoomTurns` is `AgentTurnsBounded` and `OneVoicePerWindow`; `BearersKept`
is `RoomsAreOwn` and `TicketsOnce`; `PolicyIsRight` is `MostSpecificWins` and
`PlansComply`. Every module also states a type invariant.

| run | states | question |
|---|---|---|
| `hub_one` (`TaskHub`, `TaskHubOne.cfg`) | 52 k | one task with a deadline on utm or a runner, three attempts, four tokens, two recycles at once: no token is usable without a task that runs or is being finalised (`NoIdleCredential`); an ended task stays ended once no dispatch is open on it (`TerminalIsFinalOnceSettled`) |
| `hub_pair` (`TaskHub`, `TaskHubPair.cfg`) | 1 058 k | two tasks of different priority, one persistent and restarted by the check: the hub implements `TaskLifecycle` (`ImplementsLifecycle`) |
| `hub_live` (`TaskHub`, `TaskHubLive.cfg`) | 123 k | a queued task is taken up, a vanished session noticed, a join answered (`TasksMoveOn`) |
| `control` (`MCControl`, `Control.cfg`) | 505 k | what starts and judges work: a loop of four iterations with late judges and cancellation (`LoopIsWhole`, `SettledLoopIsOver`, `IterationAnswered`); agent definitions written file by file (`CatalogLasts`); ports of concurrent creates (`AddressIsOwn`); the laws of event patterns (`MatchingLaws`); one verdict (`VerdictIsEarned`); bearers in rooms and pairing (`BearersKept`) |
| `event_bus` (`MCEventBus`, `EventBus.cfg`) | 205 k | rules and sink with crashes: nothing is skipped (`ReadersSkipNothing`), an execution has no more effects than its attempts allow (`EffectsBounded`); the outbox with lost answers, refusals, failing statements, requests that outlive their timeout, and restarts of the app: no envelope is lost, only what was delivered again is stored behind a later one (`EnvelopesAccounted`); both readers catch up and the outbox empties (`EventsGetThrough`) |
| `services` (`MCServices`, `Services.cfg`) | 304 k | the pool with evictions, cancelled starts and failing transports (`CallsAttended`, `ImplementsCalls`, `CallAnswered`); the pull of events and rows between two nodes whose stamps come in any order, with rows of several names behind one cursor (`PullsLoseNothing`, `RowsConverge`) |
| `rooms` (`MCRooms`, `Rooms.cfg`) | 2 071 k | two overlapping chains of agent turns (`RoomTurns`), promoted sessions (`DismissalDetaches`), sessions of one name with row writes that fail (`SessionsTracked`), virtual machines (`ReachesOwnVm`), completions over a pool (`CompletionsAccounted`), two queries typed into one terminal (`AnswersAreOwn`) |
| `recovery` (`MCRecovery`, `Recovery.cfg`) | 684 k | the inbox with processes killed between any two steps and files that are none of its own (`ItemsAccounted`, `CaptureSettles`); snapshot and rows of the hub with crashes, stops and failing writes (`EndsAreOutlived`) |
| `gateway` (`MCGateway`, `Gateway.cfg`) | 1 551 k | every set of rules and ceilings of a small instance (`PolicyIsRight`), calls while env, tokens and policy change (`ResidencyKept`), the bundle (`WholeBundle`), the runner registry (`ItemsReachRunners`, `ImplementsHandoff`), the daemon (`DaemonIsFound`) |
| `workspace` (`MCWorkspace`, `Workspace.cfg`) | 489 k | two creates of one session name with guests, reports and recycling in every order (`TasksFollowSessions`, `TasksSettle`); the relay of a terminal (`RelaysFaithfully`, `RelayEnds`) |
| `rules_skip` (`MCEventBus`, `VRulesSkip.cfg`) | | expects a violation, see below |
| `agents_reload` (`AgentCatalog`, `VAgentsReload.cfg`) | | expects a violation, see below |

`CHECK_DEADLOCK FALSE` is said everywhere: tasks, calls, frames and edits of an instance
may be used up, and what is left then really stops.

### Bounds, and why they are enough

Bounds are named in the modules (`Max…`, `…Cap`, `Tries`) and are conjuncts of guards;
the theorems hold for every value of them.

- `TaskHub`: three or four tokens let a task be cancelled during a dispatch, be revived by
  that dispatch, run again and be cancelled again; two recycles let an old finaliser meet
  a new one; a second task is the bystander whose state must stay right.
- `LoopRunner`: four iterations are two complete rounds and the cap.
- `AgentCatalog`: three calls are a create, an update that is torn and a third that meets
  what is left; `AddressIsOwn` has three creates of two names, so that a port freed by one
  may be taken by another and given back.
- `EventBus`: two events, a batch and a row limit that hold both or one, two attempts, one
  crash of each reader at any of its steps. In the outbox two envelopes make one batch or
  two; two faults let a retry fail, or a lost answer meet a restart.
- `services`: two callers and three connections, so that an evicted, a cancelled and a new
  one coexist; two edits overlap. Two nodes pull from each other. Three ULIDs let one land
  between two that were taken. Three names against a batch of two cross the LIMIT, with a
  cursor shared by rows of other names and a jam of two rows of one time; three writes are a
  registration, its removal and a third with a stamp before, between or after theirs.
- `rooms`: two personas and two posts give two chains that see each other's replies;
  `MaxInstances = 3` replaces an instance twice under a call. A machine is made in any of the
  modes nat, bridged and script.
- `recovery`: three files, of contents that are clear or not; a drain lists two, so that the
  third may wait behind two that are no captures; one fault before which and after
  which everything is tried.
- `gateway`: one server with three destinations, patterns that tie, one edit and two
  connections, so that a request meets an older connection; two workers and two edits of a
  bundle of two files; two runners of which one is opt-in, two items, two polls; three
  commands of the daemon.
- `workspace`: two creates of one name, for one role or two; two keystrokes, three frames.

### Fairness

Each liveness property is checked under the fairness its code's scheduling gives, and no
more: clients, agents, guests, runners, operators and crashes are never fair.

- `TaskHub!Fairness`: the scheduler and the check are loops on timers, the await of a
  pipeline ends (backends and the runner's timeout), each recycle ends, timers elapse. Each
  is one weakly fair coroutine, not one fair action per outcome: nothing obliges a dispatch
  to succeed.
- `LoopRunner!Fairness` (in `MCControl`; the other parts of that run are not owed anything):
  asyncio runs each bridge it was given, a judge session ends by its own timeout, a router
  event is emitted when the recycling ends. Children need not end.
- `EventRules`, `OsSink`: consumer, workers and sink are loops that run while the hub is up.
- `PoolFairness`: coroutines of a running loop, strongly fair `Acquire`, because
  `asyncio.Lock` wakes its waiters in order. `MCServices!PartsFairness` owes pulls only in
  behaviours in which nodes pull, with strong fairness of a pull that fails finitely often.
- `InboxFairness`: drain and apply, which timers start again and again. `requeue` is a command
  somebody runs (`scripts/inbox/README.md:109,121`; ADR-006 has two scheduled jobs, `:132`): its
  start is not owed, only that a run goes on once it is there. So `CaptureSettles` lets a file
  rest in processing where nobody runs requeue any more. The hub's part of the run is owed nothing.
- `SessionTasksFairness`: requests of the hub end, its check and finalisation run.
  `RelayFairness`: both pumps run; neither end need ever close.
- `OutboxFairness`: the flush loop wakes every 5 s while the app runs, a row's next attempt
  comes, and the hub works on the request the app waits for. Faults are bounded: an envelope
  the hub refuses every time (`agent_events_ingest` is all or nothing) would come back for
  ever, its batch-mates with it. A late request, and the app's next start, are not owed.

## Where the code differs from what it says

Two runs expect a counterexample; `PROJECT.json` quotes the sentence each contradicts.

1. `rules_skip`: `seq` is drawn at insert and visible at commit, so with two ingests in
   flight the consumer's cursor may pass a row that is not there yet
   (`event_rules.py:1002`, against `:1008-1009`).
2. `agents_reload`: a create or an update is answered with success for a definition that
   `load_agents` skips or refuses at the next start (`registry.py:81`, against `:159`).

Stated in the modules, not kept by the code, and therefore in no passing run: `TtlEnds`
(an expired TTL ends nothing), `ParkedStays`, `LoopIsFollowed` (a rehydrated loop has
nothing at work), `PortIsAvailable` (the utm port scan looks up a wrong key), `StoredOnce`
(`outbox.go:5` says that brainbox dedups by the envelope's id, so at-least-once is safe; but
`ingest` upserts `agent_state` and appends to `agent_events` whatever the id, `agent_store.py:247`,
so an envelope that is delivered again is stored, and matched by the rules, again).

Seen while modelling; the models do what the code does, and the properties say what is
left:

- *Tasks.* The strict diagram of `docs/brainbox/hub.md` is not kept: a dispatch that
  raises writes over a task that was cancelled or completed meanwhile. A failed dispatch
  leaves container and session. The check fails an in-process task in the window before its
  session is registered, and the parent of a running loop, which never has one. A restart
  that raises raises a second time, out of the check's loop, which never runs again. A join
  on a cancelled child is never answered. The deadline described as the dispatch's also
  cancels tasks that have been running for long. Deleting a runner moves its pending work,
  although the route says it is cancelled; and when the database write in between raises
  (`runners.py:205`) the work is neither "rerouted" nor "cancelled" (`:196-197`): its callers
  wait for their timeouts (`DeregisterFails`). `hub.md:198` says less is restored than
  `router.restore_state` keeps.
- *Loops.* A loop cancelled while a judge is awaited converges, escalates or starts an
  iteration afterwards; the docstring of `loop_assist` promises more fields than
  `create_body` sends. `loop_judge.py:7-8` says "If any entry is satisfied, the loop converges
  immediately"; `eval_objective` asks for every entry, and says why at its own head
  (`loop_judge.py:109-115`). The model follows the code, and the mutant of `VerdictIsEarned`
  is the other reading.
- *Sessions.* `recycle` is to "GUARANTEE the store/memory bookkeeping" (`lifecycle.py:1325`),
  but when the write of the row raises (`:1367`), after the entry was popped, the handlers go to
  docker directly and answer success (`api.py:1906-1951`, `:1989-2036`), and the session, its
  row still active, is back at the next start, which is what `api.py:1884-1887` means to
  prevent: `StoppedStaysStopped` excepts it by name (`unmarked`). When docker cannot be asked
  at a start, nothing is recovered from it (`lifecycle.py:1649-1651`), and the running local
  sessions are unknown until the next (`blind`). Three failed health checks only count. `_port_lock` covers the scan and not
  the bind; an image may be pulled again between the cosign check and the create. A custom
  port that docker lists first makes a recovered address wrong (`CustomFirst`). Of two
  creates of one name, configure and start of the first act on the second's container, and
  the first identity stays, because `.agent-token` is not writable; a create that fails
  after provision leaves entry, container and RUNNING task; a lost report is never retried;
  a refused `continue_from` leaves its token valid. Clones in utm's plain mode share the
  MAC of their template.
- *Events and rooms.* Of two equal rules the order decides; a room's history is its oldest 500 posts, so a
  streak is not the room's there; a reader that asks with `since_id` misses replies whose id
  is older than their insert; a room may get its closing note and
  stay open when the archiving that follows fails (`api.py:3771-3772` says never). A github webhook that is redelivered is
  a new event.
- *Gateway.* The step ceiling never reaches a session's token (`step_spec.py:10-13` against
  `a2a.py:271`). A token that lapses between `verify_token` and `_identity_from_auth` loses
  its ceiling (`gateway_server.py:150`), and a connection started before an edit of the env
  serves requests checked after it: `ResidencyKept` names both. A cached connection whose
  transport died stays cached until an eviction, and one in flight is not evicted. The
  bundle cache is torn when a wipe meets an extraction.
- *Nodes.* A ULID and an `updated_at` are drawn before their statement commits, so rows become
  visible behind a cursor that has passed them, from a concurrent writer, a slower clock, or a
  third node whose events are relayed; the reader never sees them, tombstones and all, against
  "a stable, resumable cursor" (`node_sync.py:54`) and "so deletions propagate to peers"
  (`:210`). A merge's SELECT and upsert are not atomic, "which is fine" (`:116`), but the node's
  own writes do come in between, and a newer row is then undone by an older; so is one that the
  node itself writes with a slower clock. The `>=` of the export, which "closes the
  lost-update-at-tie gap" (`:215`), stands still for good once a whole batch has one
  millisecond and more follows. A tie keeps either node's own row. The properties name each of
  these: `lateEvents`, `lateRows`, `undone`, `Jammed`, `tied`.
- *Daemon, inbox.* Overlapping
  commands of the daemon may lose the live one. `drive_drain.py:245` is outside the `try`
  that its siblings are in; an unparseable old file makes requeue repeat itself. The drain asks for the oldest `cap`
  files and leaves furniture where it is (`drive.py:309-325`), so a capture behind that many
  files which are none is never drained (`Starves`).

## Proofs

TLC decides each invariant on a small instance; the theorems below hold for every value
of the constants that satisfies the named assumptions. Each one comes from an inductive
invariant (named in the table), shown to hold initially and to be preserved by each action
in a lemma of its own; the last step combines the three facts with `PTL`.

| theorem | property | inductive invariant, and why it is needed |
|---|---|---|
| **`TaskHubProofs`** | | |
| `TypeCorrect` | `TypeOK` | an open dispatch or restart names a task and the token issued for it |
| `HubImplementsLifecycle`, `TerminalIsFinal` | `ImplementsLifecycle`, `TerminalIsFinalOnceSettled` | `TypeOK` and `HumanWaits` (a task that needs action has a human's wait, so the scheduler never resumes it) |
| `RetryBudgetHolds` | `RetryBudget` | `RetryInv`: a task that may fail again has a failure left, though it be over |
| `CredentialsEnd` | `NoIdleCredential` | what each actor relies on: a waiting task has no valid token, the open dispatch holds the one the record names, a finished task with a valid token is being finalised. For `SuspendKinds = {}`: as deployed nothing calls `suspend_task` |
| **`ControlProofs`** | | |
| `LoopTypeCorrect`, `CapHolds`, `ParentFollowsLoop`, `LoopStaysWhole`, `SettledLoopStays` | `LoopIsWhole`, `SettledLoopIsOver` and their parts | `LoopInv`; its core `BelowCap`: a bridge past the escalation judge carries an iteration below the cap, whatever has happened to the instance since |
| `VerdictsAreEarned` | `VerdictIsEarned` | `JudgeInv`: what the steps so far, and the session they made, have established |
| `AnsweredLasts` | `CatalogLasts` | `CatalogInv`: files and memory agree except where a call is under way or has failed half way. For `Setting \subseteq Loadable`, which the code does not see to (finding 2) |
| `AddressesAreOwn` | `AddressIsOwn` | `PortsInv`: the container an entry is about, running or not, has the entry's port. For `~CustomFirst` |
| `LoopStaysAttended` | `LoopIsAttended` (in `LoopIsWhole`) | `HeardInv`: the running loop's current iteration is its last, its child is listed or gone, and somebody has it; on top of `TurnInv`, by which one bridge or event at a time takes the loop on |
| `PatternsMatchByLaw` | `MatchingLaws` | no state; the laws follow from what one element does, whatever `matched` is on nested patterns, so no induction is needed |
| `BearersAreKept` | `BearersKept` | `BearersInv`: what a request has been found to be by the time it stands at each check; a claimed ticket is gone and never started again |
| **`EventBusProofs`** | | |
| `EffectsAreBounded` | `EffectsBounded` | `RulesInv` counts the effects of a row with those its worker may still have |
| `CursorsPassNothing` | `ReadersSkipNothing` | `ReaderInv`, `SinkInv`: a row that is not yet visible is ahead of every cursor, and a batch leaves no visible row out. For `Writers = 1` (finding 1) |
| **`GatewayProofs`** | | |
| `NoneBehindStop` | `NothingBehindStop` (in `CallsAttended`) | `PoolInv`: queues are ordered, whoever is about to make a connection has been counted |
| `CallsAreAttended`, `PoolImplementsCalls` | `CallsAttended`, `ImplementsCalls` | `CallsInv`: besides `PoolInv`, the lock is held by the caller that connects, and a caller that waits stands at a connection that serves, once; each step of caller, owner and editor maps to one step of `GatewayCalls` or a stutter |
| `ResidencyHolds` | `ResidencyKept` | `GatewayInv`: a caller in a queue waits at that connection and stands there once; what is in the cache is fresh or an eviction has still to take it out; a request that is checked remembers the credentials it was checked with, and its servers are cleared under them |
| `PolicyDecides` | `PolicyIsRight` | typing alone; the work is in the lemmas: the best-rule loop yields the last of the most specific rules that match, the ranking its least key |
| `BundleIsWhole` | `WholeBundle` | `BundleInv`: who writes to a cache that is not torn wiped it and is alone since; a marker stands on a whole bundle nobody writes to |
| **`ServicesProofs`** | | |
| `ItemsDoReachRunners`, `RegistryImplementsHandoff` | `ItemsReachRunners`, `ImplementsHandoff` | `RegistryInv`: queues are apart, hold an item once, and hold only items that nobody has and that wait; each step maps to a step of `WorkHandoff` or a stutter |
| `CursorsSkipNothing` | `CursorSkipsNothing` | `EventsInv`: a cursor is an event of the peer, and the batch of a pull leaves out nothing of the peer between the cursor and what it holds but what came late (`Dense`). For any nodes, whoever pulls from whom |
| `RowCursorsSkipNothing`, `LastWritesStand`, `PullsAreSound` | `RowCursorSkipsNothing`, `LastWriteStands`, `PullsLoseNothing` | `RowsInv`: each row, wherever it is or is under way, is a copy of one write; some node has each write or a newer one; what a node lacks below the top of its batch is still to be merged, unless it came late or gave way |
| `EnvelopesAreKept` | `EnvelopesAccounted` | `OutboxInv`: of the request the loop waits for, what is not left is in the log; every other request has only unconfirmed rows; a confirmed row outside the batch comes after all the hub has or is still working on |
| `LiveDaemonIsFound` | `DaemonIsFound` | `DaemonInv`: one command at a time, which knows the one live daemon at each of its steps, until one is disturbed |
| `TasksDoFollowSessions` | `TasksFollowSessions` | `TasksInv`: what a container holds, and how far its guest is, while nobody meddles with it |
| `RelayIsFaithful` | `RelaysFaithfully` | `RelayInv`: the frames under way lead, read one by one, from what the browser saw to what ttyd sent; keystrokes likewise |
| **`RoomsProofs`** | | |
| `DismissedIsDetached` | `DismissalDetaches` | `LinksHeard`: who may still post looked its link up before |
| `SessionsAreTracked` | `SessionsTracked` | `SessionsInv`: how far a session nobody else touched is, in memory and in its row; what a stop knows of what it found |
| `OwnAnswersRead` | `AnswersAreOwn` | `ScreenInv`, `AssistInv`: a query that met no other has the screen to itself, and the agent has rested as often as was counted. For `MaxRest <= 1` |
| `OwnVmIsReached` | `ReachesOwnVm` | `UtmInv`: an address that a session, a machine or an ip file has is not drawn again, and whoever else has it has the same name. For `"plain" \notin Mode` |
| `CallsAreAccounted` | `CompletionsAccounted` | `CompletionsInv`: the load of an instance is the number of calls that hold it |
| `TurnsAreBounded` | `RoomTurns` | `ConvInv`: of what the personas said last on their own, at most `Limit - 1` replies are none of the rounds that ran last, which are at most `Cap` for a chain; whom a round lets speak has all it said in its chain landed, and cooled down unless it spoke later. For `LogIsRead`: the log is not longer than the `HistoryLimit` posts that a round reads |
| **`RecoveryProofs`** | | |
| `TokensDoSurvive`, `HubOutlivesItsEnds` | `TokensSurvive`, `EndsAreOutlived` | `HubInv`: a flush under way, and every file that may become the snapshot in place, brings a revoked token back only where its row is left |
| `MessagesArriveOnce` | `MessagesOnce` | `MessageInv`: how often a message was handed over, with what is queued or in the snapshot; a final flush that is alone writes what the hub has |
| `ItemsAreAccounted` | `ItemsAccounted` | `InboxInv`: a write is in the ledger, about to be, or counted as in doubt; what stands in the ledger was filed |

`NumberLemmas` has the facts about numbers and finite sets they share: a bounded set of
naturals has a greatest element, a nonempty one a least.

A hypothesis on a constant (`Setting \subseteq Loadable`, `~CustomFirst`, `Writers = 1`,
`MaxRest <= 1`, `"plain" \notin Mode`, `SuspendKinds = {}`; that no event has an array of arrays, in
`MatchAssumed`), like `LogIsRead`, says under which
circumstances the property is true of the code; without it the code has the
behaviours listed in the section before.

Only model-checked:

- All liveness, since the prover handles neither fairness nor `ENABLED`.
- What `matched` and `validated` compute on patterns nested in patterns: a recursion's value
  for every input is out of the prover's reach, and the theorem leaves it open.
- The type invariants of the modules but `TaskHub`, `LoopRunner` and `Outbox`, as far as the inductive
  invariants do not contain them.

## Not modelled

The desktop application but for its outbox and its role as a runner, the frontend,
shell-profiler, packages and images; what `configure.py` writes
into containers and machines; templates, renderings of loops and summaries; the
`agent_state` projection, `session_store.py`, `supervisor.py` and the two `mcp_server.py`
(clients of the HTTP API or single rows); the audit log; `--init`, dry runs and notes of
the inbox scripts. `PROJECT.json` gives the reason for each component.

## Running

    tlc -config TaskHubOne.cfg TaskHub
    tlc -config Gateway.cfg MCGateway
    tlapm GatewayProofs.tla

and likewise for the other rows of the table of runs and the other `*Proofs` modules.
