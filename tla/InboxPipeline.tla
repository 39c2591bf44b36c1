--------------------------- MODULE InboxPipeline ----------------------------
(***************************************************************************)
(* The Drive inbox of src/scripts/inbox: three jobs that are processes of  *)
(* their own and meet only in a Drive folder tree, a spool directory and   *)
(* an append-only ledger.  The drain moves captures from inbox/ into the   *)
(* spool and processing/, apply extracts and files what is in the spool,   *)
(* and the requeue job returns what has been left in processing/.  Any of  *)
(* them may be killed between two steps (collect jobs end after 60 s), and *)
(* any call to Drive, to the model or to a vault may fail or lose its      *)
(* answer.  One run of each job at a time, as the collect scheduler has it *)
(* for drain and apply; requeue is run by hand, if at all.                 *)
(***************************************************************************)
EXTENDS Integers, FiniteSets

CONSTANTS
    NumFiles,     \* files the author captures, numbered by createdTime
    Item,         \* contents: item_id_for hashes the body
    Author,       \* what the author may capture, and with which credentials
    Vague,        \* contents no verdict can be made of
    DrainCap,     \* DRAIN_CAP
    ApplyCap,     \* APPLY_CAP
    MaxFaults     \* bounds failed calls and killed jobs, not in the code

File == 1..NumFiles

ASSUME InboxAssumption ==
    /\ NumFiles \in Nat /\ DrainCap \in Nat \ {0} /\ ApplyCap \in Nat \ {0} /\ MaxFaults \in Nat
    /\ Author \subseteq [owner : BOOLEAN, item : [File -> Item], refused : SUBSET File, furniture : SUBSET File]
    /\ Vague \subseteq Item

VARIABLES
    author,       \* what he captures: chosen once, in the initial state
    place,        \* the folder of each file
    trashed,      \* files in Drive's trash
    old,          \* files whose modifiedTime is an hour ago
    spool,        \* the records of pending/<item>.json
    older,        \* the order of their times: pairs of items, the older file first
    ledger,       \* item ids that ledger_ids finds
    torn,         \* ledger.jsonl ends in an unfinished line
    filed,        \* how often an item was written to its vault or list
    doubt,        \* how often such a write was not recorded
    drain, requeue, apply,
    faults

inboxVars == <<author, place, trashed, old, spool, older, ledger, torn, filed, doubt, drain, requeue, apply, faults>>

Folder == {"author", "inbox", "processing", "quarantine", "rejected", "complete"}
Record == [item : Item, file : File]
Resting == [pc |-> "idle", known |-> {}, todo |-> {}]
NoBatch == [pc |-> "idle", batch |-> {}, bad |-> {}, good |-> {}, at |-> {}]

InboxInit ==
    /\ author \in Author
    /\ place = [f \in File |-> "author"] /\ trashed = {} /\ old = {}
    /\ spool = {} /\ older = {} /\ ledger = {} /\ torn = FALSE
    /\ filed = [i \in Item |-> 0] /\ doubt = [i \in Item |-> 0]
    /\ drain = Resting /\ requeue = Resting /\ apply = NoBatch /\ faults = 0

Fault == faults < MaxFaults /\ faults' = faults + 1    \* a bound, not code
driveVars == <<place, trashed>>
spoolVars == <<spool, older>>
ledgerVars == <<ledger, torn, filed, doubt>>
Env == <<author, old>>
ItemOf == author.item              \* the content of each file
Refused == author.refused          \* files a gate of the drain refuses
Furniture == author.furniture      \* files that are no captures (README.md, CLAUDE.md, ...)

Pending(i) == {r \in spool : r.item = i}
OlderIn(S) == {p \in older : \A n \in {1, 2} : \E r \in S : r.item = p[n]}
Leaves(S) == spool' = S /\ older' = OlderIn(S)
DropSpool(i) == Leaves(spool \ Pending(i))

\* the file of the item is written, or takes the place of the one there is
WriteSpool(i, f) ==
    LET rest == spool \ Pending(i) IN
    /\ spool' = rest \union {[item |-> i, file |-> f]}
    /\ older' = OlderIn(rest) \union {<<r.item, i>> : r \in rest}

\* A move names the folder it takes the file from and fails if it is elsewhere.
Move(f, from, to) == place[f] = from /\ place' = [place EXCEPT ![f] = to] /\ UNCHANGED trashed
Dispose(f) ==
    IF author.owner THEN trashed' = trashed \union {f} /\ UNCHANGED place
             ELSE place' = [place EXCEPT ![f] = "complete"] /\ UNCHANGED trashed

---------------------------------------------------------------------------
(* The author, and time *)

Capture(f) ==
    /\ place[f] = "author" /\ (f > 1 => place[f - 1] # "author")
    /\ place' = [place EXCEPT ![f] = "inbox"]
    /\ UNCHANGED <<Env, trashed, spoolVars, ledgerVars, drain, requeue, apply, faults>>

\* an hour passes: only of the files in processing/ does anybody ask
Ages(f) ==
    /\ place[f] = "processing" /\ f \notin old
    /\ old' = old \union {f}
    /\ UNCHANGED <<author, driveVars, spoolVars, ledgerVars, drain, requeue, apply, faults>>

---------------------------------------------------------------------------
(* Stage A: drain, and its --requeue-stale *)

Listed(folder) == {f \in File : place[f] = folder /\ f \notin trashed}
Oldest(S) == CHOOSE f \in S : \A g \in S : f <= g
Page(S) == {f \in S : Cardinality({g \in S : g < f}) < DrainCap}

DrainStarts ==
    /\ drain.pc = "idle"
    /\ drain' = [drain EXCEPT !.pc = "listing", !.known = ledger]
    /\ UNCHANGED <<Env, driveVars, spoolVars, ledgerVars, requeue, apply, faults>>

DrainLists ==
    /\ drain.pc = "listing"
    /\ drain' = [drain EXCEPT !.pc = "files", !.todo = Page(Listed("inbox"))]
    /\ UNCHANGED <<Env, driveVars, spoolVars, ledgerVars, requeue, apply, faults>>

DrainNext(f, pc) == drain' = [drain EXCEPT !.pc = pc, !.todo = @ \ {f}]
AtFile(f) == drain.pc = "files" /\ drain.todo # {} /\ f = Oldest(drain.todo)

\* Furniture, a file that cannot be read, a refused file that cannot be moved.
DrainSkips(f) ==
    /\ AtFile(f) /\ DrainNext(f, "files")
    /\ \/ f \in Furniture /\ UNCHANGED faults
       \/ f \notin Furniture /\ Fault
    /\ UNCHANGED <<Env, driveVars, spoolVars, ledgerVars, requeue, apply>>

DrainRejects(f) ==
    /\ AtFile(f) /\ f \in Refused \ Furniture /\ DrainNext(f, "files")
    /\ Move(f, "inbox", "rejected")
    /\ UNCHANGED <<Env, spoolVars, ledgerVars, requeue, apply, faults>>

Drainable(f) == AtFile(f) /\ f \notin Refused \union Furniture

DrainDisposes(f) ==
    /\ Drainable(f) /\ ItemOf[f] \in drain.known
    /\ Dispose(f) /\ DrainNext(f, "files")
    /\ UNCHANGED <<Env, spoolVars, ledgerVars, requeue, apply, faults>>

DrainSpools(f) ==
    /\ Drainable(f) /\ ItemOf[f] \notin drain.known
    /\ WriteSpool(ItemOf[f], f)
    /\ drain' = [drain EXCEPT !.pc = "moving"]
    /\ UNCHANGED <<Env, driveVars, ledgerVars, requeue, apply, faults>>

DrainMoves ==
    /\ drain.pc = "moving"
    /\ LET f == Oldest(drain.todo) IN
         \/ Move(f, "inbox", "processing") /\ DrainNext(f, "files")
         \/ place[f] # "inbox" /\ drain' = Resting /\ UNCHANGED driveVars
    /\ UNCHANGED <<Env, spoolVars, ledgerVars, requeue, apply, faults>>

DrainEnds ==
    /\ drain.pc = "files" /\ drain.todo = {}
    /\ drain' = Resting
    /\ UNCHANGED <<Env, driveVars, spoolVars, ledgerVars, requeue, apply, faults>>

\* Killed, or a listing, a disposal or a move has raised: neither is caught per file.
DrainDies ==
    /\ drain.pc # "idle" /\ Fault
    /\ drain' = Resting
    /\ UNCHANGED <<Env, driveVars, spoolVars, ledgerVars, requeue, apply>>

RequeueStarts ==
    /\ requeue.pc = "idle"
    /\ requeue' = [requeue EXCEPT !.pc = "listing", !.known = ledger]
    /\ UNCHANGED <<Env, driveVars, spoolVars, ledgerVars, drain, apply, faults>>

RequeueLists_OfInbox ==    \* mutant: looks for stale files in the inbox
    /\ requeue.pc = "listing"
    /\ LET stale == Listed("inbox") \intersect old IN
         requeue' = IF stale = {} THEN Resting ELSE [requeue EXCEPT !.pc = "files", !.todo = stale]
    /\ UNCHANGED <<Env, driveVars, spoolVars, ledgerVars, drain, apply, faults>>

RequeueLists ==
    /\ requeue.pc = "listing"
    /\ LET stale == Listed("processing") \intersect old IN
         requeue' = IF stale = {} THEN Resting ELSE [requeue EXCEPT !.pc = "files", !.todo = stale]
    /\ UNCHANGED <<Env, driveVars, spoolVars, ledgerVars, drain, apply, faults>>

RequeueNext(f) == requeue' = IF requeue.todo = {f} THEN Resting ELSE [requeue EXCEPT !.todo = @ \ {f}]

RequeueSkips(f) ==
    /\ f \in requeue.todo /\ Fault /\ RequeueNext(f)
    /\ UNCHANGED <<Env, driveVars, spoolVars, ledgerVars, drain, apply>>

Requeues(f) ==
    /\ f \in requeue.todo
    /\ \/ ItemOf[f] \in requeue.known /\ Dispose(f) /\ RequeueNext(f)
       \/ ItemOf[f] \notin requeue.known /\ Move(f, "processing", "inbox") /\ RequeueNext(f)
       \/ ItemOf[f] \notin requeue.known /\ place[f] # "processing" /\ requeue' = Resting /\ UNCHANGED driveVars
    /\ UNCHANGED <<Env, spoolVars, ledgerVars, drain, apply, faults>>

RequeueDies ==
    /\ requeue.pc # "idle" /\ Fault
    /\ requeue' = Resting
    /\ UNCHANGED <<Env, driveVars, spoolVars, ledgerVars, drain, apply>>

---------------------------------------------------------------------------
(* Stages B and C: extract and apply *)

FirstRecords == {r \in spool : Cardinality({p \in older : p[2] = r.item}) < ApplyCap}
Fresh == {r \in FirstRecords : r.item \notin ledger}

ApplyStarts ==
    /\ apply.pc = "idle" /\ spool # {}
    /\ Leaves({r \in spool : r \notin FirstRecords \/ r.item \notin ledger})
    /\ apply' = IF Fresh = {} THEN NoBatch ELSE [NoBatch EXCEPT !.pc = "extract", !.batch = Fresh]
    /\ UNCHANGED <<Env, driveVars, ledgerVars, drain, requeue, faults>>

Items == {r.item : r \in apply.batch}
FileOf(i) == (CHOOSE r \in apply.batch : r.item = i).file

\* Every item of the batch ends among the verdicts (the model gave a valid one)
\* or in quarantine (it gave an invalid one, or none).
Extracted(valid, invalid) ==
    apply' = [apply EXCEPT !.pc = "items", !.good = valid, !.bad = invalid \union (Items \ valid)]

\* The model is free to answer twice for an item, and to answer wrongly.
Extract ==
    /\ apply.pc = "extract"
    /\ \/ Extracted(Items \ Vague, {}) /\ UNCHANGED faults
       \/ \E valid, invalid \in SUBSET Items :
            Extracted(valid \ Vague, invalid) /\ Fault
    /\ UNCHANGED <<Env, driveVars, spoolVars, ledgerVars, drain, requeue>>

QuarantineMoves(i) ==
    /\ apply.pc = "items" /\ i \in apply.bad
    /\ apply' = [apply EXCEPT !.pc = "drop", !.at = {i}]
    /\ \/ Move(FileOf(i), "processing", "quarantine") /\ UNCHANGED faults
       \/ place[FileOf(i)] # "processing" /\ UNCHANGED <<driveVars, faults>>
       \/ Fault /\ UNCHANGED driveVars
    /\ UNCHANGED <<Env, spoolVars, ledgerVars, drain, requeue>>

QuarantineDrops(i) ==
    /\ apply.pc = "drop" /\ i \in apply.at
    /\ DropSpool(i)
    /\ apply' = [apply EXCEPT !.pc = "items", !.at = {}, !.bad = @ \ {i}]
    /\ UNCHANGED <<Env, driveVars, ledgerVars, drain, requeue, faults>>

Filing(i) == apply.pc = "items" /\ apply.bad = {} /\ i \in apply.good
Written(i) == filed' = [filed EXCEPT ![i] = @ + 1]
Doubted(I) == doubt' = [i \in Item |-> IF i \in I THEN doubt[i] + 1 ELSE doubt[i]]

Files(i) ==
    /\ Filing(i) /\ Written(i)
    /\ apply' = [apply EXCEPT !.pc = "ledger", !.at = {i}]
    /\ UNCHANGED <<Env, driveVars, spoolVars, ledger, torn, doubt, drain, requeue, faults>>

FilingFails_GoesOn(i) ==    \* mutant: a refusal of the target is taken for its answer
    /\ Filing(i) /\ Fault
    /\ apply' = [apply EXCEPT !.pc = "ledger", !.at = {i}]
    /\ UNCHANGED <<Env, driveVars, spoolVars, ledgerVars, drain, requeue>>

\* ApplyError: the target refused, or a write that happened was not confirmed.
FilingFails(i) ==
    /\ Filing(i) /\ Fault
    /\ apply' = [apply EXCEPT !.good = @ \ {i}]
    /\ \/ UNCHANGED <<filed, doubt>>
       \/ Written(i) /\ Doubted({i})
    /\ UNCHANGED <<Env, driveVars, spoolVars, ledger, torn, drain, requeue>>

\* A line appended behind a torn one is torn with it: json.loads fails for both.
AppendsLedger(i) ==
    /\ apply.pc = "ledger" /\ i \in apply.at
    /\ torn' = FALSE
    /\ \/ ~torn /\ ledger' = ledger \union {i} /\ UNCHANGED doubt
       \/ torn /\ Doubted({i}) /\ UNCHANGED ledger
    /\ apply' = [apply EXCEPT !.pc = "unspool"]
    /\ UNCHANGED <<Env, driveVars, spoolVars, filed, drain, requeue, faults>>

Unspools(i) ==
    /\ apply.pc = "unspool" /\ i \in apply.at
    /\ DropSpool(i)
    /\ apply' = [apply EXCEPT !.pc = "dispose"]
    /\ UNCHANGED <<Env, driveVars, ledgerVars, drain, requeue, faults>>

Disposes(i) ==
    /\ apply.pc = "dispose" /\ i \in apply.at
    /\ \/ Dispose(FileOf(i)) /\ UNCHANGED faults
       \/ Fault /\ UNCHANGED driveVars
    /\ apply' = [apply EXCEPT !.pc = "items", !.at = {}, !.good = @ \ {i}]
    /\ UNCHANGED <<Env, spoolVars, ledgerVars, drain, requeue>>

ApplyEnds ==
    /\ apply.pc = "items" /\ apply.bad = {} /\ apply.good = {}
    /\ apply' = NoBatch
    /\ UNCHANGED <<Env, driveVars, spoolVars, ledgerVars, drain, requeue, faults>>

\* Killed (or the ledger's disk is full); in the middle of an append the line is torn.
ApplyDies ==
    /\ apply.pc # "idle" /\ Fault
    /\ apply' = NoBatch
    /\ \/ apply.pc = "ledger" /\ torn' \in {torn, TRUE} /\ Doubted(apply.at)
       \/ apply.pc # "ledger" /\ UNCHANGED <<torn, doubt>>
    /\ UNCHANGED <<Env, driveVars, spoolVars, ledger, filed, drain, requeue>>

---------------------------------------------------------------------------
DrainStep ==
    \/ DrainStarts \/ DrainLists \/ DrainMoves \/ DrainEnds \/ DrainDies
    \/ \E f \in File : DrainSkips(f) \/ DrainRejects(f) \/ DrainDisposes(f) \/ DrainSpools(f)
RequeueGoesOn == RequeueLists \/ RequeueDies \/ \E f \in File : RequeueSkips(f) \/ Requeues(f)
RequeueStep == RequeueStarts \/ RequeueGoesOn
ApplyStep ==
    \/ ApplyStarts \/ Extract \/ ApplyEnds \/ ApplyDies
    \/ \E i \in Item :
         \/ QuarantineMoves(i) \/ QuarantineDrops(i) \/ Files(i) \/ FilingFails(i)
         \/ AppendsLedger(i) \/ Unspools(i) \/ Disposes(i)

InboxNext ==
    \/ \E f \in File : Capture(f) \/ Ages(f)
    \/ DrainStep \/ RequeueStep \/ ApplyStep

InboxSpec == InboxInit /\ [][InboxNext]_inboxVars

\* Drain and apply are scheduled again and again, and time passes.  Nothing
\* starts requeue: it only goes on once somebody has.
InboxFairness ==
    /\ WF_inboxVars(DrainStep) /\ WF_inboxVars(ApplyStep) /\ WF_inboxVars(RequeueGoesOn)
    /\ \A f \in File : WF_inboxVars(Ages(f))
FairInboxSpec == InboxSpec /\ InboxFairness

---------------------------------------------------------------------------
(* Properties *)

Run == [pc : {"idle", "listing", "files", "moving"}, known : SUBSET Item, todo : SUBSET File]

InboxTypeOK ==
    /\ author \in Author /\ torn \in BOOLEAN /\ faults \in 0..MaxFaults
    /\ place \in [File -> Folder] /\ trashed \subseteq File /\ old \subseteq File
    /\ spool \subseteq Record /\ older \subseteq Item \X Item /\ ledger \subseteq Item
    /\ filed \in [Item -> Nat] /\ doubt \in [Item -> Nat]
    /\ drain \in Run /\ requeue \in Run
    /\ apply \in [pc : {"idle", "extract", "items", "drop", "ledger", "unspool", "dispose"},
                  batch : SUBSET Record, bad : SUBSET Item, good : SUBSET Item, at : SUBSET Item]
    /\ \A q, r \in spool : q.item = r.item => q = r

(* Drive is transit: a capture leaves it (to the trash, or to complete/)   *)
(* only when its content has reached its vault or list, whichever job      *)
(* disposes of it and however old the ledger that job has read.            *)
NothingLost ==
    \A f \in File : (f \in trashed \/ place[f] = "complete") => filed[ItemOf[f]] > 0

(* Content is filed once, however many files hold it and whatever is       *)
(* drained, requeued and replayed; but for the writes that were not        *)
(* confirmed, or whose ledger line is lost or unreadable.                  *)
FiledOnce == \A i \in Item : filed[i] <= 1 + doubt[i]

\* Furniture stays in the inbox, and the drain sees no more than the oldest files.
Starves(f) == Cardinality({g \in Furniture : g < f}) >= DrainCap
Captured(f) ==
    place[f] = "inbox" /\ f \notin Refused \union Furniture /\ ItemOf[f] \notin Vague /\ ~Starves(f)
Settled(f) == f \in trashed \/ place[f] \in {"complete", "quarantine"}

\* In processing/, and no record of the spool or of a batch stands for its content.
Stranded(f) ==
    place[f] = "processing" /\ f \notin trashed /\ \A r \in spool \union apply.batch : r.item # ItemOf[f]

(* A capture that can be filed, and is not behind as much furniture as the *)
(* drain lists, leaves the inbox in the end, disposed of or put in          *)
(* quarantine, or it stays in processing/ where nobody runs requeue any     *)
(* more: where requeue is run now and again, no kill, lost answer or race   *)
(* of the jobs strands it for good, and where it is not, nothing but        *)
(* requeue is what the file lacks.                                          *)
CaptureSettles ==
    \A f \in File :
        Captured(f) ~> (Settled(f) \/ [](Stranded(f) /\ requeue.pc # "listing"))

(* README.md: "files in them are never deleted", of rejected/ and          *)
(* quarantine/.  An item answered twice by the model, once validly, breaks  *)
(* it: no run checks it.                                                    *)
ParkedStays ==
    [][\A f \in File : place[f] \in {"quarantine", "rejected"} /\ f \notin trashed
         => place'[f] = place[f] /\ f \notin trashed']_inboxVars

\* Every capture is somewhere, and in the knowledge base at most once.
ItemsAccounted == NothingLost /\ FiledOnce
=============================================================================
