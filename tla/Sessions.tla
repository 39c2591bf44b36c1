------------------------------ MODULE Sessions ------------------------------
(***************************************************************************)
(* One session name of the hub.  Pipelines build a session under it, on    *)
(* the local docker daemon or by asking a runner; stops tear down whatever *)
(* the name stands for; the monitor's loop checks what start_monitoring    *)
(* gave it; the hub goes down and restores the name from docker's labels   *)
(* and the sessions table.  Everything works by name, with an await        *)
(* between any two steps.                                                  *)
(***************************************************************************)
EXTENDS Naturals

CONSTANTS
    Local, Afar,   \* pipelines that use the local docker daemon, or a runner
    Stop,          \* calls that stop or delete the session
    Found,         \* the context rebuilt from a container's labels
    None,
    MaxDowns       \* bound: crashes of the hub

ASSUME SessionsAssumption ==
    /\ Local \cap Afar = {} /\ Found \notin Local \cup Afar
    /\ None \notin Local \cup Afar \cup {Found}
    /\ MaxDowns \in Nat

Pipeline == Local \cup Afar
Context == Pipeline \cup {Found}

VARIABLES
    up,            \* the hub runs
    downs,
    entry,         \* _sessions[name]
    tracked,       \* monitor._tracked[name]
    monitor,       \* monitor._task, and the context it checks
    overdue,       \* contexts the monitor found to be over their TTL
    box,           \* the container of that name on the local daemon
    row,           \* the row of the sessions table
    pipe,          \* where each pipeline is
    stop,          \* where each stop is, and the context it resolved
    blind,         \* GHOST: docker could not be asked when the hub last started
    before,        \* GHOST: stop -> the sessions in place when it began
    stopped,       \* GHOST: the sessions a stop that succeeded found in place
    unmarked       \* GHOST: those whose row a stop failed to write

memory == <<entry, tracked, monitor>>
ghosts == <<before, stopped, unmarked>>
stops == <<stop, ghosts>>
sessionVars == <<up, downs, blind, memory, overdue, box, row, pipe, stops>>

NoBox == [of |-> None, runs |-> FALSE]

SessionsTypeOK ==
    /\ up \in BOOLEAN /\ downs \in 0..MaxDowns /\ blind \in BOOLEAN
    /\ entry \in Context \cup {None} /\ tracked \in Local \cup {None}
    /\ monitor \in [task : {"none", "runs", "over"}, at : Local \cup {None}]
    /\ overdue \subseteq Local
    /\ box \in [of : Local \cup {None}, runs : BOOLEAN]
    /\ row \in [of : Afar \cup {None}, active : BOOLEAN]
    /\ pipe \in [Pipeline -> {"idle", "cleared", "created", "entered", "configured",
                              "asked", "late", "upserting", "done", "failed"}]
    /\ stop \in [Stop -> [pc : {"idle", "asked", "answered", "again", "stopping", "removing", "popping",
                                "marking", "direct", "done"}, ctx : Context \cup {None}]]
    /\ before \in [Stop -> SUBSET Pipeline] /\ stopped \subseteq Pipeline /\ unmarked \subseteq Pipeline

SessionsInit ==
    /\ up = TRUE /\ downs = 0 /\ blind = FALSE
    /\ entry = None /\ tracked = None /\ monitor = [task |-> "none", at |-> None]
    /\ overdue = {}
    /\ box = NoBox
    /\ row = [of |-> None, active |-> FALSE]
    /\ pipe = [p \in Pipeline |-> "idle"]
    /\ stop = [s \in Stop |-> [pc |-> "idle", ctx |-> None]]
    /\ before = [s \in Stop |-> {}] /\ stopped = {} /\ unmarked = {}

Moves(p, from, to) == up /\ pipe[p] = from /\ pipe' = [pipe EXCEPT ![p] = to]

-----------------------------------------------------------------------------
(* A pipeline on the local daemon: provision, configure, start, monitor.   *)

\* provision removes a container of the name by force
ClearsName(p) ==
    /\ Moves(p, "idle", "cleared")
    /\ box' = NoBox
    /\ UNCHANGED <<up, downs, blind, memory, overdue, row, stops>>

\* and creates its own: the name is taken if another pipeline was faster
Creates(p) ==
    /\ box = NoBox
    /\ Moves(p, "cleared", "created")
    /\ box' = [of |-> p, runs |-> FALSE]
    /\ UNCHANGED <<up, downs, blind, memory, overdue, row, stops>>

Enters(p) ==
    /\ Moves(p, "created", "entered")
    /\ entry' = p
    /\ UNCHANGED <<up, downs, blind, tracked, monitor, overdue, box, row, stops>>

\* the container of the name is started, whoever created it
Configures(p) ==
    /\ box # NoBox
    /\ Moves(p, "entered", "configured")
    /\ box' = [box EXCEPT !.runs = TRUE]
    /\ UNCHANGED <<up, downs, blind, memory, overdue, row, stops>>

Restarted(m) == IF m.task = "runs" THEN m ELSE [task |-> "runs", at |-> None]

\* start, then monitor with no await between: a loop that ended is started anew
StartsMonitored(p) ==
    /\ box # NoBox
    /\ Moves(p, "configured", "done")
    /\ box' = [box EXCEPT !.runs = TRUE]
    /\ tracked' = p
    /\ monitor' = Restarted(monitor)
    /\ UNCHANGED <<up, downs, blind, entry, overdue, row, stops>>

\* an exception ends the pipeline where it is; what it made stays
PipelineFails(p) ==
    /\ \E at \in {"cleared", "entered", "configured"} : Moves(p, at, "failed")
    /\ UNCHANGED <<up, downs, blind, memory, overdue, box, row, stops>>

-----------------------------------------------------------------------------
(* A pipeline on a runner: enqueue, await the context, register it.        *)

Asks(p) ==
    /\ Moves(p, "idle", "asked")
    /\ UNCHANGED <<up, downs, blind, memory, overdue, box, row, stops>>

AskFails(p) ==
    /\ Moves(p, "asked", "failed")
    /\ UNCHANGED <<up, downs, blind, memory, overdue, box, row, stops>>

AskTimesOut(p) ==
    /\ Moves(p, "asked", "late")
    /\ UNCHANGED <<up, downs, blind, memory, overdue, box, row, stops>>

Answered(p) ==
    /\ Moves(p, "asked", "upserting")
    /\ entry' = p
    /\ UNCHANGED <<up, downs, blind, tracked, monitor, overdue, box, row, stops>>

\* the result of a work item nobody waits for any more
AnsweredLate(p) ==
    /\ Moves(p, "late", "upserting")
    /\ entry' = IF entry = None THEN p ELSE entry
    /\ UNCHANGED <<up, downs, blind, tracked, monitor, overdue, box, row, stops>>

RowOf(p) == [of |-> p, active |-> TRUE]

Upserts(p) ==
    /\ Moves(p, "upserting", "done")
    /\ row' = RowOf(p)
    /\ UNCHANGED <<up, downs, blind, memory, overdue, box, stops>>

\* the pipeline raises, or the late delivery is logged
UpsertFails(p) ==
    /\ Moves(p, "upserting", "failed")
    /\ UNCHANGED <<up, downs, blind, memory, overdue, box, row, stops>>

-----------------------------------------------------------------------------
(* Stops: recycle, and the stop and delete handlers before it.             *)

StopMoves(s, from, to, c) ==
    /\ up /\ stop[s].pc = from
    /\ stop' = [stop EXCEPT ![s] = [pc |-> to, ctx |-> c]]

\* finished sessions the name stands for, in memory or in the table
InPlace == {p \in Pipeline : pipe[p] = "done" /\ (entry = p \/ (row.active /\ row.of = p))}

\* a runner's session is first asked of the runner
AsksRunner(s) ==
    /\ entry \in Afar
    /\ StopMoves(s, "idle", "asked", entry)
    /\ before' = [before EXCEPT ![s] = InPlace]
    /\ UNCHANGED <<up, downs, blind, memory, overdue, box, row, pipe, stopped, unmarked>>

RunnerStopped(s) ==
    /\ StopMoves(s, "asked", "answered", stop[s].ctx)
    /\ entry' = None
    /\ UNCHANGED <<up, downs, blind, tracked, monitor, overdue, box, row, pipe, ghosts>>

AfterResolve(c) == IF c = None THEN "popping" ELSE "stopping"

\* recycle, called with the name, or after the runner's way has raised
Recycles(s) ==
    /\ \E from \in {"idle", "asked", "again"} :
          /\ StopMoves(s, from, AfterResolve(entry), entry)
          /\ before' = IF from = "idle" THEN [before EXCEPT ![s] = InPlace] ELSE before
    /\ tracked' = None
    /\ UNCHANGED <<up, downs, blind, entry, monitor, overdue, box, row, pipe, stopped, unmarked>>

\* the backend swallows every error, and no local container stands for a runner's session
StopsBox(s) ==
    /\ StopMoves(s, "stopping", "removing", stop[s].ctx)
    /\ box' \in {box} \cup
          (IF stop[s].ctx \in Afar THEN {} ELSE {[box EXCEPT !.runs = FALSE]})
    /\ UNCHANGED <<up, downs, blind, memory, overdue, row, pipe, ghosts>>

\* remove is not forced: a container that runs (again) stays
RemovesBox(s) ==
    /\ StopMoves(s, "removing", "popping", stop[s].ctx)
    /\ box' \in {box} \cup (IF stop[s].ctx \in Afar \/ box.runs THEN {} ELSE {NoBox})
    /\ UNCHANGED <<up, downs, blind, memory, overdue, row, pipe, ghosts>>

Pops(s) ==
    /\ StopMoves(s, "popping", "marking", stop[s].ctx)
    /\ entry' = None
    /\ UNCHANGED <<up, downs, blind, tracked, monitor, overdue, box, row, pipe, ghosts>>

Marked_Kept(r) == r    \* mutant: the row is left active
Marked(r) == [r EXCEPT !.active = FALSE]

MarksRow(s) == row' = Marked(row) /\ unmarked' = unmarked \ before[s]

\* the row and then the history are written: the stop succeeds
MarksInactive(s) ==
    /\ \E from \in {"answered", "marking"} : StopMoves(s, from, "done", stop[s].ctx)
    /\ MarksRow(s)
    /\ stopped' = stopped \cup before[s]
    /\ UNCHANGED <<up, downs, blind, memory, overdue, box, pipe, before>>

\* one of the two writes raises.  After the runner's answer that means recycle,
\* after recycle the handlers' direct way to docker.
MarkFails(s) ==
    /\ \/ StopMoves(s, "answered", "again", stop[s].ctx)
       \/ StopMoves(s, "marking", "direct", stop[s].ctx)
    /\ \/ MarksRow(s)
       \/ UNCHANGED row /\ unmarked' = unmarked \cup before[s]
    /\ UNCHANGED <<up, downs, blind, memory, overdue, box, pipe, before, stopped>>

\* The container of the name is removed by force, and the handlers answer success:
\* they do not come back to the row.  Or docker fails, or stop finds no container,
\* and the call fails; a task's recycle has no such way and only fails.
GoesDirect(s) ==
    /\ StopMoves(s, "direct", "done", stop[s].ctx)
    /\ box' \in {box, [box EXCEPT !.runs = FALSE], NoBox}
    /\ stopped' \in {stopped, stopped \cup before[s]}
    /\ UNCHANGED <<up, downs, blind, memory, overdue, row, pipe, before, unmarked>>

-----------------------------------------------------------------------------
(* The monitor's loop                                                      *)

\* the test of the while loop, at the start and after each sleep
LoopTurns ==
    /\ up /\ monitor.task = "runs" /\ monitor.at = None
    /\ monitor' = [task |-> IF tracked = None THEN "over" ELSE "runs", at |-> tracked]
    /\ UNCHANGED <<up, downs, blind, entry, tracked, overdue, box, row, pipe, stops>>

\* a check ends: healthy, unhealthy or timed out
CheckEnds ==
    /\ up /\ monitor.at # None
    /\ monitor' = [monitor EXCEPT !.at = None]
    /\ \/ UNCHANGED <<tracked, overdue>>
       \/ /\ box.runs    \* healthy, and over its TTL
          /\ overdue' = overdue \cup {monitor.at}
          /\ UNCHANGED tracked
       \/ /\ box = NoBox    \* container not found
          /\ tracked' = None
          /\ UNCHANGED overdue
    /\ UNCHANGED <<up, downs, blind, entry, box, row, pipe, stops>>

-----------------------------------------------------------------------------
(* The hub goes down and comes back                                        *)

\* what was asked of a runner goes on without the hub
AfterCrash(at) == CASE at = "asked" -> "late" [] at \in {"idle", "late", "done"} -> at
                    [] OTHER -> "failed"

GoesDown ==
    /\ up /\ downs < MaxDowns
    /\ up' = FALSE /\ downs' = downs + 1
    /\ entry' = None /\ tracked' = None /\ monitor' = [task |-> "none", at |-> None]
    /\ pipe' = [p \in Pipeline |-> AfterCrash(pipe[p])]
    /\ stop' = [s \in Stop |-> IF stop[s].pc = "idle" THEN stop[s]
                               ELSE [stop[s] EXCEPT !.pc = "done"]]
    /\ UNCHANGED <<blind, overdue, box, row, ghosts>>

\* recover_sessions_from_docker, which finds nothing when docker cannot be asked,
\* then load_runner_sessions_from_db
Restored(sees) == IF sees /\ box.runs THEN Found ELSE IF row.active THEN row.of ELSE None

\* a stopped session whose row was left active is no longer stopped
ComesBack ==
    /\ ~up
    /\ up' = TRUE
    /\ \E sees \in BOOLEAN :
          /\ blind' = ~sees
          /\ entry' = Restored(sees)
          /\ stopped' = stopped \ (unmarked \cap {Restored(sees)})
    /\ UNCHANGED <<downs, tracked, monitor, overdue, box, row, pipe, stop, before, unmarked>>

-----------------------------------------------------------------------------
LocalStep(p) == Creates(p) \/ Enters(p) \/ Configures(p) \/ StartsMonitored(p) \/ PipelineFails(p)
AfarStep(p) == AskFails(p) \/ AskTimesOut(p) \/ Answered(p) \/ Upserts(p) \/ UpsertFails(p)
StopGoesOn(s) == RunnerStopped(s) \/ StopsBox(s) \/ RemovesBox(s) \/ Pops(s)
                  \/ MarksInactive(s) \/ MarkFails(s) \/ GoesDirect(s)
StopStep(s) == StopGoesOn(s) \/ (stop[s].pc # "idle" /\ Recycles(s))

SessionsNext ==
    \/ \E p \in Local : ClearsName(p) \/ LocalStep(p)
    \/ \E p \in Afar : Asks(p) \/ AnsweredLate(p) \/ AfarStep(p)
    \/ \E s \in Stop : AsksRunner(s) \/ Recycles(s) \/ StopGoesOn(s)
    \/ LoopTurns \/ CheckEnds \/ GoesDown \/ ComesBack

SessionsSpec == SessionsInit /\ [][SessionsNext]_sessionVars

\* coroutines and threads of the hub that have started run on
SessionsFairness ==
    /\ \A p \in Local : WF_sessionVars(LocalStep(p))
    /\ \A p \in Afar : WF_sessionVars(AfarStep(p))
    /\ \A s \in Stop : WF_sessionVars(StopStep(s))
    /\ WF_sessionVars(LoopTurns) /\ WF_sessionVars(CheckEnds)
    /\ WF_sessionVars(ComesBack)

FairSessionsSpec == SessionsSpec /\ SessionsFairness

-----------------------------------------------------------------------------
(* A session in place when a stop of it began does not come back once the  *)
(* stop has succeeded: not from another call of the name, and not from the *)
(* table at a later restart (recycle's guarantee; the stop handler's       *)
(* comment).  The one exception is the code's: where the row could not be  *)
(* written the handlers may answer success all the same, and the row is    *)
(* read at the next start; until then the session is gone.                 *)
StoppedStaysStopped ==
    \A p \in stopped :
        entry # p /\ tracked # p /\ (row.active /\ row.of = p => p \in unmarked)

(* As long as something is tracked the monitor's task lives: a session put *)
(* under monitoring just as the loop ends is still checked.                *)
MonitorAlive == tracked # None => monitor.task = "runs"

(* A session nobody touched since its pipeline returned is known to the    *)
(* hub whenever the hub is up, over every restart; one on the local daemon *)
(* unless docker could not be asked at the last start.                     *)
Untouched(p) == /\ pipe[p] = "done"
                /\ \A q \in Pipeline \ {p} : pipe[q] = "idle"
                /\ \A s \in Stop : stop[s].pc = "idle"
SurvivesRestarts ==
    \A p \in Pipeline : up /\ Untouched(p) => entry \in {p, Found} \/ (p \in Local /\ blind)

(* A session the monitor found over its TTL is torn down in the end, as     *)
(* docs/brainbox/lifecycle.md has it.  The code does not: no run checks it. *)
TtlEnds == \A p \in Local : p \in overdue ~> entry # p

\* The hub knows the sessions that run, and watches them.
SessionsKnown == MonitorAlive /\ SurvivesRestarts

\* A session is known and watched while it runs, and gone once it is stopped.
SessionsTracked == SessionsKnown /\ StoppedStaysStopped
=============================================================================
