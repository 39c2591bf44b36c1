----------------------------- MODULE RoomSessions -----------------------------
(***************************************************************************)
(* Sessions in a conversation room.  A message is promoted: a task is      *)
(* submitted, its session put on the roster and linked to the room, and    *)
(* the router's events of the task are posted there until it ends or the   *)
(* participant is dismissed.  Closers archive the room with a note.        *)
(***************************************************************************)
EXTENDS Integers, FiniteSets

CONSTANTS
    Job,           \* promotions
    Closer         \* archive requests with a reason

Event == {"suspended", "resumed", "ended"}

VARIABLES
    status,        \* of the room
    notes,         \* closing notes in its log
    closer,        \* the archive handlers
    promotion,     \* promote_to_session
    listed,        \* the jobs whose session is on the roster
    dismissal,     \* the DELETE /participants handlers
    task,          \* the hub's task of the promotion
    links,         \* _links: the jobs with a link
    report,        \* job -> event -> the on_task_event_async task for it
    heard          \* job -> what may still be said about it

handlers == <<closer, promotion, dismissal>>
sessVars == <<status, notes, handlers, listed, task, links, report, heard>>

SessTypeOK ==
    /\ status \in {"active", "archived"}
    /\ notes \in 0..Cardinality(Closer)
    /\ closer \in [Closer -> {"idle", "noting", "archiving", "done"}]
    /\ promotion \in [Job -> {"idle", "adding", "linking", "done"}]
    /\ dismissal \in [Job -> {"idle", "unlinking", "done"}]
    /\ listed \subseteq Job /\ links \subseteq Job
    /\ task \in [Job -> {"none", "running", "suspended", "ended"}]
    /\ report \in [Job -> [Event -> {"none", "dropped", "scheduled", "posting", "posted"}]]
    /\ heard \in [Job -> SUBSET Event]

SessInit ==
    /\ status = "active" /\ notes = 0 /\ listed = {} /\ links = {}
    /\ closer = [a \in Closer |-> "idle"]
    /\ promotion = [j \in Job |-> "idle"]
    /\ dismissal = [j \in Job |-> "idle"]
    /\ task = [j \in Job |-> "none"]
    /\ report = [j \in Job |-> [e \in Event |-> "none"]]
    /\ heard = [j \in Job |-> Event]
-----------------------------------------------------------------------------
(* promote_to_session. *)

\* submit_task returned: the task is dispatched, and may end, from here on.
Submit(j) ==
    /\ promotion[j] = "idle"
    /\ promotion' = [promotion EXCEPT ![j] = "adding"]
    /\ task' = [task EXCEPT ![j] = "running"]
    /\ UNCHANGED <<status, notes, closer, dismissal, listed, links, report, heard>>

\* add_participant; if it raises, the task runs on without a link.
AddParticipant(j) ==
    /\ promotion[j] = "adding"
    /\ \/ /\ promotion' = [promotion EXCEPT ![j] = "linking"]
          /\ listed' = listed \cup {j}
       \/ /\ promotion' = [promotion EXCEPT ![j] = "done"]
          /\ UNCHANGED listed
    /\ UNCHANGED <<status, notes, closer, dismissal, task, links, report, heard>>

\* register_link, then the announcement.
RegisterLink(j) ==
    /\ promotion[j] = "linking"
    /\ promotion' = [promotion EXCEPT ![j] = "done"]
    /\ links' = links \cup {j}
    /\ heard' = [heard EXCEPT ![j] = Event]
    /\ UNCHANGED <<status, notes, closer, dismissal, listed, task, report>>
-----------------------------------------------------------------------------
(* Task events. *)

\* The router's event: on_task_event drops it unless the task has a link.
Happens(j, e) ==
    /\ \/ e = "suspended" /\ task[j] = "running" /\ report[j][e] = "none"
          /\ task' = [task EXCEPT ![j] = "suspended"]
       \/ e = "resumed" /\ task[j] = "suspended" /\ task' = [task EXCEPT ![j] = "running"]
       \/ e = "ended" /\ task[j] \in {"running", "suspended"}
          /\ task' = [task EXCEPT ![j] = "ended"]
    /\ report' = [report EXCEPT ![j][e] = IF j \in links THEN "scheduled" ELSE "dropped"]
    /\ UNCHANGED <<status, notes, handlers, listed, links, heard>>

ReportBegins_KeepsLink(j, e) ==    \* mutant: the link of on_task_event is handed over
    /\ report[j][e] = "scheduled"
    /\ report' = [report EXCEPT ![j][e] = "posting"]
    /\ UNCHANGED <<status, notes, handlers, listed, task, links, heard>>

\* on_task_event_async looks the link up again, and keeps it over its awaits.
ReportBegins(j, e) ==
    /\ report[j][e] = "scheduled"
    /\ report' = [report EXCEPT ![j][e] = IF j \in links THEN "posting" ELSE "dropped"]
    /\ UNCHANGED <<status, notes, handlers, listed, task, links, heard>>

\* post_session_message posts or gives up; after the last event the link goes.
ReportEnds(j, e, outcome) ==
    /\ report[j][e] = "posting"
    /\ outcome \in {"posted", "dropped"}
    /\ report' = [report EXCEPT ![j][e] = outcome]
    /\ links' = IF e = "ended" THEN links \ {j} ELSE links
    /\ UNCHANGED <<status, notes, handlers, listed, task, heard>>
-----------------------------------------------------------------------------
(* DELETE /participants/{name}, the dismissal of a session. *)

RemoveParticipant(j) ==
    /\ dismissal[j] = "idle" /\ j \in listed
    /\ dismissal' = [dismissal EXCEPT ![j] = "unlinking"]
    /\ listed' = listed \ {j}
    /\ UNCHANGED <<status, notes, closer, promotion, task, links, report, heard>>

\* unlink_participant; the reports that have their link already still arrive.
Unlink(j) ==
    /\ dismissal[j] = "unlinking"
    /\ dismissal' = [dismissal EXCEPT ![j] = "done"]
    /\ links' = links \ {j}
    /\ heard' = [heard EXCEPT ![j] = {e \in Event : report[j][e] \in {"posting", "posted"}}]
    /\ UNCHANGED <<status, notes, closer, promotion, listed, task, report>>
-----------------------------------------------------------------------------
(* POST /archive with a reason: the note first, then the room. *)

CloserReads(a) ==
    /\ closer[a] = "idle"
    /\ closer' = [closer EXCEPT ![a] = IF status = "active" THEN "noting" ELSE "done"]
    /\ UNCHANGED <<status, notes, promotion, dismissal, listed, task, links, report, heard>>

CloserNotes(a) ==
    /\ closer[a] = "noting"
    /\ closer' = [closer EXCEPT ![a] = "archiving"]
    /\ notes' = notes + 1
    /\ UNCHANGED <<status, promotion, dismissal, listed, task, links, report, heard>>

CloserArchives(a) ==
    /\ closer[a] = "archiving"
    /\ closer' = [closer EXCEPT ![a] = "done"]
    /\ status' = "archived"
    /\ UNCHANGED <<notes, promotion, dismissal, listed, task, links, report, heard>>

\* A statement raises.
CloserFails(a) ==
    /\ closer[a] \in {"noting", "archiving"}
    /\ closer' = [closer EXCEPT ![a] = "done"]
    /\ UNCHANGED <<status, notes, promotion, dismissal, listed, task, links, report, heard>>

ReportStep(j) ==
    \E e \in Event : ReportBegins(j, e) \/ \E o \in {"posted", "dropped"} : ReportEnds(j, e, o)

SessNext ==
    \/ \E j \in Job :
        \/ Submit(j) \/ AddParticipant(j) \/ RegisterLink(j)
        \/ \E e \in Event : Happens(j, e)
        \/ ReportStep(j)
        \/ RemoveParticipant(j) \/ Unlink(j)
    \/ \E a \in Closer : CloserReads(a) \/ CloserNotes(a) \/ CloserArchives(a) \/ CloserFails(a)

SessSpec == SessInit /\ [][SessNext]_sessVars
-----------------------------------------------------------------------------
\* Dismissal detaches: what the bridge says about a job afterwards was under way
\* when its link was dropped, unless the promotion links it after all.
DismissalDetaches == \A j \in Job : \A e \in Event :
    report[j][e] = "posted" => e \in heard[j]
=============================================================================
