------------------------------ MODULE HubState ------------------------------
(***************************************************************************)
(* What the hub remembers across restarts, in two stores that are written  *)
(* at different times: the snapshot hub-state.json (tokens, tasks, pending *)
(* messages) is replaced every flush_interval and at a graceful stop; the  *)
(* rows of Postgres (gateway tokens, loop instances) at every change.      *)
(*                                                                         *)
(* _flush_state takes the snapshot at once and writes it in worker         *)
(* threads: one opens hub-state.tmp and writes it, one renames it.  A      *)
(* shutdown cancels the periodic flush, not the thread it waits for, and   *)
(* flushes itself, through the same .tmp.  Files are modelled down to      *)
(* their inodes: who has opened one writes to it after it is renamed.      *)
(***************************************************************************)
EXTENDS Integers, FiniteSets

CONSTANTS
    Gateway,      \* gateway tokens, kept in a table of their own
    Session,      \* tokens of one agent's tasks and sessions, in the snapshot only
    Message,
    Loop,         \* loops, with one iteration child each
    MaxStarts,    \* bounds restarts, not in the code
    MaxFailures   \* bounds failing writes, not in the code

ASSUME HubStateAssumption == MaxStarts \in Nat /\ MaxFailures \in Nat /\ Gateway \intersect Session = {}

Credential == Gateway \union Session

VARIABLES
    hub,          \* "up", "stopping", "exiting", "down"
    live,         \* registry._tokens
    expired,      \* tokens whose expiry has passed
    issued, revoked,
    rows,         \* gateway_tokens
    queue,        \* messages._pending
    sent,         \* [to, msg] that route has queued
    got,          \* how often get_messages has returned them
    task,         \* router._tasks: the child of each loop
    loopRow,      \* loop_instances.status
    bridge,       \* children whose bridge has not persisted the loop
    disk,         \* inodes of hub-state.json and hub-state.tmp
    data,         \* what an inode holds
    periodic, final,   \* the two _flush_state calls there can be
    sealed,       \* revocations that a snapshot in place reflects
    lapses,       \* crashes, final flushes that failed or met a periodic one
    starts, failures

tokenVars == <<live, expired, issued, revoked, rows>>
messageVars == <<queue, sent, got>>
loopVars == <<task, loopRow, bridge>>
flushVars == <<disk, data, periodic, final, sealed>>
boundVars == <<lapses, starts, failures>>
hubStateVars == <<hub, tokenVars, messageVars, loopVars, flushVars, boundVars>>

Inode == 1..4    \* json, tmp, and one that each flush may still have open
Snapshot == [live : SUBSET Credential, queue : [Credential -> SUBSET Message],
             task : [Loop -> {"none", "PENDING", "RUNNING", "DONE"}], gone : SUBSET Credential]
NoMessages == [t \in Credential |-> {}]
Nothing == [live |-> {}, queue |-> NoMessages, task |-> [l \in Loop |-> "none"], gone |-> {}]
Quiet == [pc |-> "idle", cancelled |-> FALSE, inode |-> 0, snap |-> Nothing]
Empty == [as |-> "empty", snap |-> Nothing]
Garbled == [as |-> "garbled", snap |-> Nothing]
Whole(snap) == [as |-> "whole", snap |-> snap]

HubStateInit ==
    /\ hub = "up" /\ live = {} /\ expired = {} /\ issued = {} /\ revoked = {} /\ rows = {}
    /\ queue = NoMessages /\ sent = {} /\ got = [t \in Credential |-> [m \in Message |-> 0]]
    /\ task = [l \in Loop |-> "none"] /\ loopRow = [l \in Loop |-> "none"] /\ bridge = {}
    /\ disk = [json |-> 0, tmp |-> 0] /\ data = [i \in Inode |-> Empty]
    /\ periodic = Quiet /\ final = Quiet /\ sealed = {}
    /\ lapses = 0 /\ starts = 0 /\ failures = 0

Fails == failures < MaxFailures /\ failures' = failures + 1    \* a bound, not code
Works == hub \in {"up", "stopping"}    \* background work goes on until the loop is closed
Valid(t) == t \in live /\ t \notin expired

-----------------------------------------------------------------------------
(* Tokens *)

Tokens == UNCHANGED <<hub, messageVars, loopVars, flushVars, lapses, starts>>

\* A row that cannot be saved is only logged.
Issue(t) ==
    /\ hub = "up" /\ t \notin issued
    /\ issued' = issued \union {t} /\ live' = live \union {t}
    /\ \/ rows' = rows \union ({t} \intersect Gateway) /\ UNCHANGED failures
       \/ t \in Gateway /\ UNCHANGED rows /\ Fails
    /\ UNCHANGED <<expired, revoked>> /\ Tokens

Revoke_KeepsRow(t) ==    \* mutant: forgets the token in memory only
    /\ Works /\ t \in issued \ revoked
    /\ revoked' = revoked \union {t} /\ live' = live \ {t}
    /\ UNCHANGED <<expired, issued, rows, failures>> /\ Tokens

\* A row that cannot be deleted is passed over: the token comes back with it.
Revoke(t) ==
    /\ Works /\ t \in issued \ revoked
    /\ revoked' = revoked \union {t} /\ live' = live \ {t}
    /\ \/ rows' = rows \ {t} /\ UNCHANGED failures
       \/ t \in rows /\ UNCHANGED rows /\ Fails
    /\ UNCHANGED <<expired, issued>> /\ Tokens

Expires(t) ==
    /\ t \in issued \ expired /\ expired' = expired \union {t}
    /\ UNCHANGED <<live, issued, revoked, rows, failures>> /\ Tokens

\* validate_token and list_tokens drop what has expired.
Sweep(t) ==
    /\ hub = "up" /\ t \in live \intersect expired /\ live' = live \ {t}
    /\ UNCHANGED <<expired, issued, revoked, rows, failures>> /\ Tokens

-----------------------------------------------------------------------------
(* Messages *)

Messages == UNCHANGED <<hub, tokenVars, loopVars, flushVars, boundVars>>

\* To an agent is to each of its tokens, expired ones that are not swept included.
Route(from, m) ==
    /\ hub = "up" /\ from \in Session /\ Valid(from) /\ \A s \in sent : s.msg # m
    /\ LET to == live \intersect Session IN
         /\ queue' = [t \in Credential |-> IF t \in to THEN queue[t] \union {m} ELSE queue[t]]
         /\ sent' = sent \union [to : to, msg : {m}]
    /\ UNCHANGED got /\ Messages

GetMessages(t) ==
    /\ hub = "up" /\ Valid(t) /\ queue[t] # {}
    /\ queue' = [queue EXCEPT ![t] = {}]
    /\ got' = [got EXCEPT ![t] = [m \in Message |-> IF m \in queue[t] THEN @[m] + 1 ELSE @[m]]]
    /\ UNCHANGED sent /\ Messages

-----------------------------------------------------------------------------
(* Loops and the tasks of their children *)

Loops == UNCHANGED <<hub, tokenVars, messageVars, flushVars, boundVars>>

StartLoop(l) ==
    /\ hub = "up" /\ task[l] = "none" /\ loopRow[l] = "none"
    /\ task' = [task EXCEPT ![l] = "PENDING"] /\ loopRow' = [loopRow EXCEPT ![l] = "RUNNING"]
    /\ UNCHANGED bridge /\ Loops

DispatchChild(l) ==
    /\ hub = "up" /\ task[l] = "PENDING" /\ task' = [task EXCEPT ![l] = "RUNNING"]
    /\ UNCHANGED <<loopRow, bridge>> /\ Loops

\* Its completion, or its failure at the health check; a listed child is bridged.
ChildEnds(l) ==
    /\ Works /\ task[l] = "RUNNING" /\ task' = [task EXCEPT ![l] = "DONE"]
    /\ bridge' = bridge \union {x \in {l} : loopRow[x] = "RUNNING"}
    /\ UNCHANGED loopRow /\ Loops

BridgePersists(l) ==
    /\ Works /\ l \in bridge
    /\ loopRow' = [loopRow EXCEPT ![l] = "over"] /\ bridge' = bridge \ {l}
    /\ UNCHANGED task /\ Loops

-----------------------------------------------------------------------------
(* _flush_state in its threads: f is the periodic or the final call, f2 what *)
(* it becomes and other the other one.                                      *)

TheRest == UNCHANGED <<hub, tokenVars, messageVars, loopVars, starts>>

Taken(f) == [f EXCEPT !.pc = "opening",
                !.snap = [live |-> live, queue |-> queue, task |-> task, gone |-> revoked \ live]]
FreeInode == CHOOSE i \in Inode : i \notin {disk.json, disk.tmp, periodic.inode, final.inode}

OpensTmp(f, f2) ==
    /\ f.pc = "opening"
    /\ LET i == IF disk.tmp = 0 THEN FreeInode ELSE disk.tmp IN
         /\ disk' = [disk EXCEPT !.tmp = i] /\ data' = [data EXCEPT ![i] = Empty]
         /\ f2 = [f EXCEPT !.pc = "writing", !.inode = i]
    /\ UNCHANGED <<sealed, failures>>

\* Two who write the same inode leave the longer one's end behind the shorter.
WritesTmp(f, f2) ==
    /\ f.pc = "writing"
    /\ \E now \in {Whole(f.snap)} \union (IF data[f.inode] = Empty THEN {} ELSE {Garbled}) :
         data' = [data EXCEPT ![f.inode] = now]
    /\ f2 = IF f.cancelled THEN Quiet ELSE [f EXCEPT !.pc = "renaming"]
    /\ UNCHANGED <<disk, sealed, failures>>

Ended(f) == [Quiet EXCEPT !.pc = "ended", !.snap = f.snap]

RenamesTmp(f, f2, other, rest) ==
    /\ f.pc = "renaming" /\ f2 = rest
    /\ disk' = IF disk.tmp = 0 THEN disk ELSE [json |-> disk.tmp, tmp |-> 0]
    /\ sealed' = IF disk.tmp # 0 /\ data[disk.tmp] = Whole(f.snap) /\ other.pc \in {"idle", "ended"}
                 THEN sealed \union f.snap.gone ELSE sealed
    /\ UNCHANGED <<data, failures>>

FlushFails(f, f2, rest) ==
    /\ f.pc \in {"opening", "writing", "renaming"} /\ Fails /\ f2 = rest
    /\ UNCHANGED <<disk, data, sealed>>

PeriodicBegins ==
    /\ hub = "up" /\ periodic.pc = "idle" /\ periodic' = Taken(periodic)
    /\ UNCHANGED <<disk, data, sealed, final, failures, lapses>> /\ TheRest

PeriodicStep ==
    /\ \/ OpensTmp(periodic, periodic') \/ WritesTmp(periodic, periodic')
       \/ RenamesTmp(periodic, periodic', final, Quiet) \/ FlushFails(periodic, periodic', Quiet)
    /\ UNCHANGED <<final, lapses>> /\ TheRest

FinalStep ==
    /\ \/ OpensTmp(final, final') \/ WritesTmp(final, final')
       \/ RenamesTmp(final, final', periodic, Ended(final)) \/ FlushFails(final, final', Ended(final))
    /\ lapses' = lapses + failures' - failures
    /\ UNCHANGED periodic /\ TheRest

-----------------------------------------------------------------------------
(* The hub's life *)

Restarting == UNCHANGED <<expired, issued, revoked, sent, got, loopRow, disk, data, sealed, failures>>

\* A call that no thread has begun is withdrawn with its future; the others go on.
ShutdownBegins ==
    /\ hub = "up" /\ hub' = "stopping"
    /\ periodic' \in IF periodic.pc \in {"opening", "renaming"}
                     THEN {Quiet, [periodic EXCEPT !.cancelled = TRUE]}
                     ELSE {IF periodic.pc = "idle" THEN Quiet ELSE [periodic EXCEPT !.cancelled = TRUE]}
    /\ lapses' = IF periodic.pc = "idle" THEN lapses ELSE lapses + 1
    /\ UNCHANGED <<live, rows, queue, task, bridge, final, starts>> /\ Restarting

FinalBegins_Skipped ==    \* mutant: relies on the last periodic flush
    /\ hub = "stopping" /\ hub' = "exiting" /\ final' = [Taken(final) EXCEPT !.pc = "ended"]
    /\ UNCHANGED <<live, rows, queue, task, bridge, periodic, lapses, starts>> /\ Restarting

FinalBegins ==
    /\ hub = "stopping" /\ hub' = "exiting" /\ final' = Taken(final)
    /\ UNCHANGED <<live, rows, queue, task, bridge, periodic, lapses, starts>> /\ Restarting

Forgotten ==
    /\ live' = {} /\ queue' = NoMessages /\ task' = [l \in Loop |-> "none"] /\ bridge' = {}
    /\ periodic' = Quiet /\ final' = Quiet

\* The process ends when its threads have.
Exit ==
    /\ hub = "exiting" /\ final.pc = "ended" /\ periodic.pc = "idle" /\ hub' = "down"
    /\ Forgotten /\ UNCHANGED <<rows, lapses, starts>> /\ Restarting

HubCrash ==
    /\ hub # "down" /\ hub' = "down" /\ lapses' = lapses + 1
    /\ Forgotten /\ UNCHANGED <<rows, starts>> /\ Restarting

\* json.loads refuses what is not whole, and the hub starts with nothing.
Read == IF disk.json = 0 THEN Nothing ELSE data[disk.json].snap

\* load_persisted_gateway_tokens, then restore_state over it
RestoredTokens == (rows \union Read.live) \ expired

HubStarts ==
    /\ hub = "down" /\ starts < MaxStarts /\ starts' = starts + 1 /\ hub' = "up"
    /\ rows' = rows \ expired
    /\ live' = RestoredTokens
    /\ queue' = [t \in Credential |-> IF t \in RestoredTokens THEN Read.queue[t] ELSE {}]
    /\ task' = Read.task
    /\ UNCHANGED <<bridge, periodic, final, lapses>> /\ Restarting

-----------------------------------------------------------------------------
HubStateNext ==
    \/ \E t \in Credential : Issue(t) \/ Revoke(t) \/ Expires(t) \/ Sweep(t) \/ GetMessages(t)
    \/ \E t \in Credential, m \in Message : Route(t, m)
    \/ \E l \in Loop : StartLoop(l) \/ DispatchChild(l) \/ ChildEnds(l) \/ BridgePersists(l)
    \/ PeriodicBegins \/ PeriodicStep \/ FinalStep
    \/ ShutdownBegins \/ FinalBegins \/ Exit \/ HubCrash \/ HubStarts

HubStateSpec == HubStateInit /\ [][HubStateNext]_hubStateVars

-----------------------------------------------------------------------------
(* Properties *)

Flush == [pc : {"idle", "opening", "writing", "renaming", "ended"}, cancelled : BOOLEAN,
          inode : {0} \union Inode, snap : Snapshot]

HubStateTypeOK ==
    /\ hub \in {"up", "stopping", "exiting", "down"}
    /\ live \subseteq issued /\ expired \subseteq issued /\ revoked \subseteq issued
    /\ issued \subseteq Credential /\ rows \subseteq issued \intersect Gateway
    /\ queue \in [Credential -> SUBSET Message] /\ sent \subseteq [to : Session, msg : Message]
    /\ got \in [Credential -> [Message -> Nat]]
    /\ task \in [Loop -> {"none", "PENDING", "RUNNING", "DONE"}]
    /\ loopRow \in [Loop -> {"none", "RUNNING", "over"}] /\ bridge \subseteq Loop
    /\ disk \in [json : {0} \union Inode, tmp : {0} \union Inode]
    /\ data \in [Inode -> [as : {"empty", "garbled", "whole"}, snap : Snapshot]]
    /\ periodic \in Flush /\ final \in Flush
    /\ lapses \in Nat /\ starts \in 0..MaxStarts /\ failures \in 0..MaxFailures

(* A token that is revoked stays so, whatever the hub restores, once a      *)
(* snapshot taken after the revocation is in place; only a row whose        *)
(* deletion failed brings it back.                                          *)
RevokedGone == \A t \in sealed : t \in live => t \in rows /\ failures > 0

(* A gateway token is written into the .mcp.json of containers: as long as  *)
(* it has neither been revoked nor expired, every restart, after a crash as *)
(* after a stop, brings it back (unless its row could not be saved).        *)
GatewayLasts ==
    hub = "up" => \A t \in issued \intersect Gateway :
        t \in live \union revoked \union expired \/ (t \notin rows /\ failures > 0)

\* A token that was revoked stays so, and a gateway token that was not lasts.
TokensSurvive == RevokedGone /\ GatewayLasts

(* A message is handed to a token once, and once more at most for every end *)
(* of the hub without a final flush of its own; without such an end it is   *)
(* handed over or still queued as long as the token is valid.               *)
MessagesOnce ==
    \A s \in sent :
        /\ got[s.to][s.msg] <= 1 + lapses
        /\ (hub = "up" /\ lapses = 0 /\ s.to \notin revoked \union expired)
               => s.msg \in queue[s.to] \/ got[s.to][s.msg] = 1

(* Nothing that the hub owes anyone is lost or comes back with its ends.    *)
EndsAreOutlived == TokensSurvive /\ MessagesOnce

(* store.py: "so a restart doesn't lose track of in-flight loops": a loop   *)
(* that runs has a child that will end, or a bridge for one that has.  A    *)
(* child that ended while the hub was down breaks it: no run checks it.     *)
LoopIsFollowed ==
    hub = "up" => \A l \in Loop : loopRow[l] = "RUNNING" => task[l] \in {"PENDING", "RUNNING"} \/ l \in bridge
=============================================================================
