---------------------------- MODULE SessionTasks ----------------------------
(***************************************************************************)
(* How a created session gets its task and reports on it.  A create call   *)
(* issues a token, registers a running task, stores the task's document    *)
(* under the session's name, and then makes a container for a role and     *)
(* that name, configures and starts it.  The guest inside fetches its task *)
(* with the token it finds, works and reports once.  Everything after the  *)
(* token works by name: the container, the entry of the session, the       *)
(* document, and the recycling of a task that ended.  Registered transient *)
(* roles, local docker, sessions that are not hardened.                    *)
(***************************************************************************)
EXTENDS Naturals, FiniteSets

CONSTANTS Create, Name, Role, None

ASSUME SessionTasksAssumption == None \notin Create \cup Name

Box == Role \X Name    \* a container's name: the role's prefix and the session's

VARIABLES
    request,    \* what each create call asks for
    pc,         \* where each create call is
    task,       \* router._tasks, by the create call that registered it
    token,      \* the session token of each call, in registry._tokens
    doc,        \* the rows of the session store, by session name
    entry,      \* _sessions
    box,        \* the containers
    guest,      \* what runs in them
    ending,     \* tasks that ended and are still to be finalised
    lost,       \* ghost: guests whose report reached nobody
    meddled     \* ghost: boxes another create call configured or started

calls == <<request, pc>>
hub == <<task, token, doc, entry, ending>>
guests == <<box, guest, lost, meddled>>
taskVars == <<calls, hub, guests>>

Request == [name : Name, role : Role, kind : {"plain", "task", "continue"}]
NoBox == [of |-> None, id |-> None, env |-> None, file |-> None, dressed |-> FALSE]
Off == [pc |-> "off", on |-> None]

BoxOf(c) == <<request[c].role, request[c].name>>
NameOf(c) == request[c].name
HasTask(c) == request[c].kind # "plain"
Ended == {"completed", "failed"}

SessionTasksTypeOK ==
    /\ request \in [Create -> Request \cup {None}]
    /\ pc \in [Create -> {"idle", "refused", "storing", "provisioning", "entering",
                          "configuring", "starting", "up", "failed"}]
    /\ task \in [Create -> {"none", "running"} \cup Ended]
    /\ token \in [Create -> {"none", "valid", "gone"}]
    /\ doc \in [Name -> [task : Create \cup {None}, result : Create \cup {None},
                         handoff : Create \cup {None}]]
    /\ entry \in [Name -> Create \cup {None}]
    /\ box \in [Box -> [of : Create \cup {None}, id : Create \cup {None},
                        env : Create \cup {None}, file : Create \cup {None},
                        dressed : BOOLEAN]]
    /\ guest \in [Box -> [pc : {"off", "booted", "idle", "working", "retrying",
                                "refused", "lost", "done"}, on : Create \cup {None}]]
    /\ ending \subseteq Create /\ lost \subseteq Box /\ meddled \subseteq Box

SessionTasksInit ==
    /\ request = [c \in Create |-> None] /\ pc = [c \in Create |-> "idle"]
    /\ task = [c \in Create |-> "none"] /\ token = [c \in Create |-> "none"]
    /\ doc = [n \in Name |-> [task |-> None, result |-> None, handoff |-> None]]
    /\ entry = [n \in Name |-> None]
    /\ box = [b \in Box |-> NoBox] /\ guest = [b \in Box |-> Off]
    /\ ending = {} /\ lost = {} /\ meddled = {}

Moves(c, from, to) == pc[c] = from /\ pc' = [pc EXCEPT ![c] = to]

-----------------------------------------------------------------------------
(* POST /api/create, and the pipeline it runs.                             *)

\* the token is issued before anything is checked
Requested(c, r) == request[c] = None /\ request' = [request EXCEPT ![c] = r]
Issues(c) == token' = [token EXCEPT ![c] = "valid"]

RefusesContinue(c, r) ==
    /\ Requested(c, r) /\ Moves(c, "idle", "refused") /\ Issues(c)
    /\ r.kind = "continue" /\ \E n \in Name : doc[n].handoff = None
    /\ UNCHANGED <<task, doc, entry, ending, guests>>

Registers(c, r) ==
    /\ Requested(c, r) /\ Moves(c, "idle", "storing") /\ Issues(c)
    /\ r.kind = "task" \/ (r.kind = "continue" /\ \E n \in Name : doc[n].handoff # None)
    /\ task' = [task EXCEPT ![c] = "running"]
    /\ UNCHANGED <<doc, entry, ending, guests>>

TakesPlain(c, r) ==
    /\ Requested(c, r) /\ Moves(c, "idle", "provisioning") /\ Issues(c)
    /\ r.kind = "plain"
    /\ UNCHANGED <<task, doc, entry, ending, guests>>

\* upsert by session name and key: a later create of the name takes the row
Stored(d, c) == [d EXCEPT !.task = c]

Stores(c) ==
    /\ Moves(c, "storing", "provisioning")
    /\ doc' = [doc EXCEPT ![NameOf(c)] = Stored(@, c)]
    /\ UNCHANGED <<request, task, token, entry, ending, guests>>

\* a container of the name is removed by force, another is created in its place
Replaced(b, new) ==
    /\ box' = [box EXCEPT ![b] = new]
    /\ guest' = [guest EXCEPT ![b] = Off]
    /\ lost' = lost \ {b} /\ meddled' = meddled \ {b}

Provisions(c) ==
    /\ Moves(c, "provisioning", "entering")
    /\ Replaced(BoxOf(c), [NoBox EXCEPT !.of = c])
    /\ UNCHANGED <<request, hub>>

Enters(c) ==
    /\ Moves(c, "entering", "configuring")
    /\ entry' = [entry EXCEPT ![NameOf(c)] = c]
    /\ UNCHANGED <<request, task, token, doc, ending, guests>>

\* ~/.env is written anew; ~/.agent-token is read-only once it is there
WithIdentity(x, c) == [x EXCEPT !.env = c, !.id = IF @ = None THEN c ELSE @]
\* the writes of the agent's settings and of the task's file may fail unnoticed
Dressed(x) == [x EXCEPT !.dressed = TRUE]
WithTask(x, c) == IF HasTask(c) THEN [x EXCEPT !.file = c] ELSE x
Injected(x, c) ==
    LET y == WithIdentity(x, c) IN {y, Dressed(y), WithTask(Dressed(y), c)}

Touched(c) == meddled' = IF box[BoxOf(c)].of = c THEN meddled ELSE meddled \cup {BoxOf(c)}

Configures(c) ==
    /\ Moves(c, "configuring", "starting")
    /\ box[BoxOf(c)] # NoBox
    /\ \E x \in Injected(box[BoxOf(c)], c) : box' = [box EXCEPT ![BoxOf(c)] = x]
    /\ Touched(c)
    /\ UNCHANGED <<request, hub, guest, lost>>

\* the wrapper that finds a tmux session attaches to it
Starts(c) ==
    /\ Moves(c, "starting", "up")
    /\ box[BoxOf(c)] # NoBox
    /\ guest' = [guest EXCEPT ![BoxOf(c)] = IF @ = Off THEN [Off EXCEPT !.pc = "booted"] ELSE @]
    /\ Touched(c)
    /\ UNCHANGED <<request, hub, box, lost>>

\* what was made stays, and the task is left as it is
CreateFails(c) ==
    /\ \E at \in {"storing", "provisioning", "configuring", "starting"} : Moves(c, at, "failed")
    /\ UNCHANGED <<request, hub, guests>>

\* the secrets of a session are injected once more
Refreshes(n) ==
    /\ entry[n] # None /\ box[BoxOf(entry[n])] # NoBox
    /\ \E x \in Injected(box[BoxOf(entry[n])], entry[n]) :
           box' = [box EXCEPT ![BoxOf(entry[n])] = x]
    /\ Touched(entry[n])
    /\ UNCHANGED <<calls, hub, guest, lost>>

-----------------------------------------------------------------------------
(* The guest: ttyd-wrapper.sh, brainbox-complete, and what the hub answers.*)

Is(b, at) == guest[b].pc = at
Goes(b, at, on) == guest' = [guest EXCEPT ![b] = [pc |-> at, on |-> on]]

\* the row of the task the token was issued for
RowOf_ByName(b) == doc[b[2]].task    \* mutant: the row is looked up by the session's name
RowOf(b) == IF \E n \in Name : doc[n].task = box[b].id THEN box[b].id ELSE None

Fetches(b) ==
    /\ Is(b, "booted") /\ box[b].dressed
    /\ box[b].id # None /\ token[box[b].id] = "valid"
    /\ RowOf(b) # None
    /\ Goes(b, "working", RowOf(b))
    /\ UNCHANGED <<calls, hub, box, lost, meddled>>

\* no identity, a refusal, or three tries in vain: the injected file, if there is one;
\* an agent without its settings stays at its first dialogue
FallsBack(b) ==
    /\ Is(b, "booted")
    /\ IF box[b].file = None \/ ~box[b].dressed THEN Goes(b, "idle", None) ELSE Goes(b, "working", box[b].file)
    /\ UNCHANGED <<calls, hub, box, lost, meddled>>

\* a token that lapsed still names the row it was stamped on
Writer(b) == IF box[b].id # None THEN RowOf(b) ELSE None

Completed(c) ==
    IF task[c] = "running"
    THEN task' = [task EXCEPT ![c] = "completed"] /\ ending' = ending \cup {c}
    ELSE UNCHANGED <<task, ending>>

\* the result is stored whether or not the task can still be completed;
\* the answer may not come back, for the container is being stopped
Reports(b) ==
    /\ Is(b, "working") /\ Writer(b) # None
    /\ doc' = [doc EXCEPT ![NameOf(Writer(b))].result = Writer(b)]
    /\ Completed(Writer(b))
    /\ \E at \in {"done", "retrying"} : Goes(b, at, guest[b].on)
    /\ UNCHANGED <<calls, token, entry, box, lost, meddled>>

\* the legacy sink: the API key that came with the injected file, the id in ~/.env
ReportsByKey(b) ==
    /\ Is(b, "retrying") \/ (Is(b, "working") /\ Writer(b) = None)
    /\ box[b].file # None /\ box[b].env # None
    /\ Completed(box[b].env)
    /\ Goes(b, "done", guest[b].on)
    /\ UNCHANGED <<calls, token, doc, entry, box, lost, meddled>>

ReportRefused(b) ==
    /\ box[b].file = None
    /\ \/ Is(b, "working") /\ Writer(b) = None /\ Goes(b, "refused", guest[b].on)
       \/ Is(b, "retrying") /\ Goes(b, "done", guest[b].on)
    /\ UNCHANGED <<calls, hub, box, lost, meddled>>

\* the hub is out of reach: brainbox-complete gives up, and nothing tries again
ReportLost(b) ==
    /\ Is(b, "working")
    /\ Goes(b, "lost", guest[b].on) /\ lost' = lost \cup {b}
    /\ UNCHANGED <<calls, hub, box, meddled>>

HandsOff(b) ==
    /\ Is(b, "working") /\ Writer(b) # None
    /\ doc' = [doc EXCEPT ![NameOf(Writer(b))].handoff = Writer(b)]
    /\ UNCHANGED <<calls, task, token, entry, ending, guests>>

-----------------------------------------------------------------------------
(* The hub's side of the task's end.                                       *)

Expires(c) ==
    /\ token[c] = "valid" /\ token' = [token EXCEPT ![c] = "gone"]
    /\ UNCHANGED <<calls, task, doc, entry, ending, guests>>

\* check_running_tasks: a running task whose session is not in memory failed
HealthCheck_Valid(c) ==    \* mutant: only tasks whose token is still valid are looked at
    /\ task[c] = "running" /\ entry[NameOf(c)] = None /\ token[c] = "valid"
    /\ task' = [task EXCEPT ![c] = "failed"] /\ ending' = ending \cup {c}
    /\ UNCHANGED <<calls, token, doc, entry, guests>>
HealthCheck(c) ==
    /\ task[c] = "running" /\ entry[NameOf(c)] = None
    /\ task' = [task EXCEPT ![c] = "failed"] /\ ending' = ending \cup {c}
    /\ UNCHANGED <<calls, token, doc, entry, guests>>

\* recycle: the container of the session in memory under that name, and the entry
Recycled(n) ==
    /\ entry' = [entry EXCEPT ![n] = None]
    /\ IF entry[n] = None THEN UNCHANGED guests ELSE Replaced(BoxOf(entry[n]), NoBox)

Revoked(c) == [token EXCEPT ![c] = "gone"]

Finalizes(c) ==
    /\ c \in ending /\ ending' = ending \ {c}
    /\ Recycled(NameOf(c))
    /\ token' = Revoked(c)
    /\ UNCHANGED <<calls, task, doc>>

\* an operator deletes the session
Deletes(n) ==
    /\ entry[n] # None
    /\ Recycled(n)
    /\ UNCHANGED <<calls, task, token, doc, ending>>

-----------------------------------------------------------------------------
PipelineStep(c) ==
    Stores(c) \/ Provisions(c) \/ Enters(c) \/ Configures(c) \/ Starts(c) \/ CreateFails(c)
ReportStep(b) == Reports(b) \/ ReportsByKey(b) \/ ReportRefused(b) \/ ReportLost(b)

SessionTasksNext ==
    \/ \E c \in Create, r \in Request : RefusesContinue(c, r) \/ Registers(c, r) \/ TakesPlain(c, r)
    \/ \E c \in Create : PipelineStep(c) \/ Expires(c) \/ HealthCheck(c) \/ Finalizes(c)
    \/ \E n \in Name : Refreshes(n) \/ Deletes(n)
    \/ \E b \in Box : Fetches(b) \/ FallsBack(b) \/ ReportStep(b) \/ HandsOff(b)

SessionTasksSpec == SessionTasksInit /\ [][SessionTasksNext]_taskVars

\* pipelines run on, guests work on, the scheduler checks again and again
SessionTasksFairness ==
    /\ \A c \in Create : /\ WF_taskVars(PipelineStep(c)) /\ WF_taskVars(HealthCheck(c))
                         /\ WF_taskVars(Finalizes(c))
    /\ \A b \in Box : WF_taskVars(Fetches(b) \/ FallsBack(b)) /\ WF_taskVars(ReportStep(b))

\* A guest works on the task its container was made for, whoever took the name
\* of its session in the meantime and however the task reached it, unless
\* another call configured or started that container.
OwnTask ==
    \A b \in Box : guest[b].on # None /\ b \notin meddled => guest[b].on = box[b].of

\* A report that arrived has ended the guest's task, and one is refused only to
\* a session whose document a later create of the name has taken, and that was
\* given no API key: the lapse of its token does not matter.
ReportsCount ==
    \A b \in Box : b \notin meddled =>
        /\ Is(b, "done") => task[box[b].of] # "running"
        /\ Is(b, "refused") => doc[b[2]].task # box[b].of

\* A task that has ended and been finalised leaves no valid token behind.
NoCredentialLeft ==
    \A c \in Create : task[c] \in Ended /\ c \notin ending => token[c] # "valid"

\* What keeps a session from ever ending: its creation failed after the entry was
\* made, its guest has no task, could not report or is another call's, or its own
\* task has ended without it: failed by the health check before the entry was made.
Silent(e) ==
    \/ pc[e] = "failed"
    \/ task[e] # "running" /\ e \notin ending
    \/ BoxOf(e) \in meddled \/ guest[BoxOf(e)].pc \in {"off", "idle", "refused", "lost"}
    \/ box[BoxOf(e)].of # e

\* The task of a creation that ended, well or badly, ends; or a session of its
\* name is in place that will never end by itself.
TasksSettle ==
    \A c \in Create : pc[c] \in {"failed", "up"} ~>
        \/ task[c] # "running"
        \/ entry[NameOf(c)] # None /\ Silent(entry[NameOf(c)])

\* A guest works on its own task, and its reports count.
GuestsReport == OwnTask /\ ReportsCount
\* Tasks and the containers that work on them agree on who works on what.
TasksFollowSessions == GuestsReport /\ NoCredentialLeft
=============================================================================
