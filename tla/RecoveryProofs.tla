--------------------------- MODULE RecoveryProofs ---------------------------
(***************************************************************************)
(* Theorems about what survives crashes: the tokens and the messages of    *)
(* the hub, and the items of the inbox, for any number of them and any     *)
(* number of restarts, crashes and failing writes.                         *)
(***************************************************************************)
EXTENDS HubState, InboxPipeline, TLAPS

-----------------------------------------------------------------------------
(***************************************************************************)
(* Tokens                                                                  *)
(***************************************************************************)

(* The inductive invariant *)

\* what may bring a sealed token back: its row, unless it has expired
Kept == rows \union expired

\* A flush under way neither has nor will bring back what it calls gone, and
\* the sealed tokens in its snapshot have rows.
Fine(f, alive, over, shut, kept) ==
    /\ f \in Flush
    /\ f.pc \in {"idle", "ended"} => f.inode = 0
    /\ f.pc \notin {"idle", "ended"} =>
          /\ f.snap.gone \subseteq over \ alive
          /\ f.snap.gone \intersect f.snap.live = {}
          /\ f.snap.live \intersect shut \subseteq kept

FlushesFine ==
    /\ Fine(periodic, live, revoked, sealed, Kept) /\ Fine(final, live, revoked, sealed, Kept)
    /\ hub = "down" => periodic = Quiet /\ final = Quiet

Reachable == {disk.json, disk.tmp, periodic.inode, final.inode} \intersect Inode

\* so have those in every file that may be, or become, the snapshot in place
DataFine == \A i \in Reachable : data[i].snap.live \intersect sealed \subseteq Kept

Stored ==
    /\ queue \in [Credential -> SUBSET Message]
    /\ task \in [Loop -> {"none", "PENDING", "RUNNING", "DONE"}]
    /\ disk \in [json : {0} \union Inode, tmp : {0} \union Inode]
    /\ data \in [Inode -> [as : {"empty", "garbled", "whole"}, snap : Snapshot]]

TokensFine ==
    /\ live \subseteq Credential /\ issued \subseteq Credential /\ rows \subseteq Credential
    /\ revoked \subseteq issued /\ sealed \subseteq revoked /\ failures \in Nat
    /\ live \intersect sealed \subseteq rows
    /\ rows \intersect revoked # {} => failures > 0
    /\ \A t \in (issued \intersect Gateway) \ (revoked \union expired) :
          /\ t \in rows \/ failures > 0
          /\ hub = "up" => t \in live \/ (t \notin rows /\ failures > 0)

HubInv == TokensFine /\ FlushesFine /\ DataFine /\ Stored

-----------------------------------------------------------------------------
(* The flushes and their files *)

LEMMA NothingIs ==
  /\ Nothing \in Snapshot /\ Nothing.live = {}
  /\ Empty \in [as : {"empty", "garbled", "whole"}, snap : Snapshot] /\ Empty.snap = Nothing
  /\ Garbled \in [as : {"empty", "garbled", "whole"}, snap : Snapshot] /\ Garbled.snap = Nothing
  /\ Quiet \in Flush /\ Quiet.pc = "idle" /\ Quiet.inode = 0
<1>1. NoMessages \in [Credential -> SUBSET Message]
  BY DEF NoMessages
<1>2. Nothing \in Snapshot /\ Nothing.live = {}
  BY <1>1 DEF Nothing, Snapshot
<1>3. QED
  BY <1>2 DEF Empty, Garbled, Quiet, Flush

LEMMA WholeIs ==
  ASSUME NEW snap \in Snapshot
  PROVE  Whole(snap) \in [as : {"empty", "garbled", "whole"}, snap : Snapshot]
         /\ Whole(snap).snap = snap
  BY DEF Whole

LEMMA QuietIsFine ==
  ASSUME NEW alive, NEW over, NEW shut, NEW kept
  PROVE  Fine(Quiet, alive, over, shut, kept)
  BY NothingIs DEF Fine

\* revoking more, bringing none of the revoked back and sealing no more is fine
LEMMA StaysFine ==
  ASSUME NEW f, NEW alive, NEW over, NEW shut, NEW kept, Fine(f, alive, over, shut, kept),
         NEW alive2, NEW over2, NEW kept2, over \subseteq over2,
         alive2 \intersect over \subseteq alive, kept \intersect shut \subseteq kept2
  PROVE  Fine(f, alive2, over2, shut, kept2)
  BY DEF Fine

\* a step that leaves the flushes and the disk alone, and hub at most between
\* states in which the flushes go on
LEMMA DiskKeeps ==
  ASSUME HubInv, UNCHANGED <<disk, data, periodic, final, sealed>>,
         hub' = "down" => hub = "down",
         revoked \subseteq revoked', live' \intersect revoked \subseteq live,
         Kept \intersect sealed \subseteq Kept'
  PROVE  FlushesFine' /\ DataFine'
<1>1. Fine(periodic, live', revoked', sealed, Kept') /\ Fine(final, live', revoked', sealed, Kept')
  BY StaysFine DEF HubInv, FlushesFine
<1>2. FlushesFine'
  BY <1>1 DEF HubInv, FlushesFine
<1>3. Reachable' = Reachable
  BY DEF Reachable
<1>4. DataFine'
  BY <1>3 DEF HubInv, DataFine
<1>5. QED
  BY <1>2, <1>4

LEMMA OtherKeeps ==
  ASSUME HubInv, UNCHANGED <<disk, data, periodic, final, sealed, live, revoked, rows, expired, hub>>,
         UNCHANGED <<issued, failures>>,
         queue' \in [Credential -> SUBSET Message],
         task' \in [Loop -> {"none", "PENDING", "RUNNING", "DONE"}]
  PROVE  HubInv'
<1>1. Kept' = Kept
  BY DEF Kept
<1>2. FlushesFine' /\ DataFine'
  BY <1>1, DiskKeeps
<1>3. TokensFine' /\ Stored'
  BY DEF HubInv, TokensFine, Stored
<1>4. QED
  BY <1>2, <1>3 DEF HubInv

-----------------------------------------------------------------------------
(* Init, tokens, messages, loops *)

LEMMA InitHubInv == HubStateInit => HubInv
<1> SUFFICES ASSUME HubStateInit PROVE HubInv
  OBVIOUS
<1>1. TokensFine
  BY DEF HubStateInit, TokensFine
<1>2. FlushesFine
  BY QuietIsFine DEF HubStateInit, FlushesFine
<1>3. Reachable = {}
  BY NothingIs DEF HubStateInit, Reachable, Inode
<1>4. DataFine
  BY <1>3 DEF DataFine
<1>5. Stored
  BY NothingIs DEF HubStateInit, Stored, NoMessages
<1>6. QED
  BY <1>1, <1>2, <1>4, <1>5 DEF HubInv

LEMMA IssueKeeps ==
  ASSUME HubInv, NEW t \in Credential, Issue(t)
  PROVE  HubInv'
<1>1. /\ hub = "up" /\ t \notin issued /\ issued' = issued \union {t} /\ live' = live \union {t}
      /\ UNCHANGED <<hub, queue, task, disk, data, periodic, final, sealed, expired, revoked>>
      /\ \/ rows' = rows \union ({t} \intersect Gateway) /\ failures' = failures
         \/ rows' = rows /\ failures' = failures + 1
  BY DEF Issue, Tokens, Fails, messageVars, loopVars, flushVars
<1>2. t \notin revoked
  BY <1>1 DEF HubInv, TokensFine
<1>3. TokensFine'
  BY <1>1, <1>2 DEF HubInv, TokensFine
<1>4. Kept \subseteq Kept'
  BY <1>1 DEF Kept
<1>5. FlushesFine' /\ DataFine'
  BY <1>1, <1>2, <1>4, DiskKeeps
<1>6. Stored'
  BY <1>1 DEF HubInv, Stored
<1>7. QED
  BY <1>3, <1>5, <1>6 DEF HubInv

LEMMA RevokeKeeps ==
  ASSUME HubInv, NEW t \in Credential, Revoke(t)
  PROVE  HubInv'
<1>1. /\ t \in issued \ revoked /\ revoked' = revoked \union {t} /\ live' = live \ {t}
      /\ UNCHANGED <<hub, queue, task, disk, data, periodic, final, sealed, expired, issued>>
      /\ \/ rows' = rows \ {t} /\ failures' = failures
         \/ rows' = rows /\ failures' = failures + 1
  BY DEF Revoke, Tokens, Fails, messageVars, loopVars, flushVars
<1>2. t \notin sealed
  BY <1>1 DEF HubInv, TokensFine
<1>3. TokensFine'
  BY <1>1, <1>2 DEF HubInv, TokensFine
<1>4. Kept \intersect sealed \subseteq Kept'
  BY <1>1, <1>2 DEF Kept
<1>5. FlushesFine' /\ DataFine'
  BY <1>1, <1>4, DiskKeeps
<1>6. Stored'
  BY <1>1 DEF HubInv, Stored
<1>7. QED
  BY <1>3, <1>5, <1>6 DEF HubInv

LEMMA ExpiryKeeps ==
  ASSUME HubInv, NEW t \in Credential, Expires(t) \/ Sweep(t)
  PROVE  HubInv'
<1>1. /\ UNCHANGED <<hub, queue, task, disk, data, periodic, final, sealed, issued, revoked, rows, failures>>
      /\ \/ expired' = expired \union {t} /\ live' = live
         \/ t \in expired /\ live' = live \ {t} /\ expired' = expired
  BY DEF Expires, Sweep, Tokens, messageVars, loopVars, flushVars
<1>2. TokensFine'
  BY <1>1 DEF HubInv, TokensFine
<1>3. Kept \subseteq Kept'
  BY <1>1 DEF Kept
<1>4. FlushesFine' /\ DataFine'
  BY <1>1, <1>3, DiskKeeps
<1>5. Stored'
  BY <1>1 DEF HubInv, Stored
<1>6. QED
  BY <1>2, <1>4, <1>5 DEF HubInv

LEMMA MessagesKeep ==
  ASSUME HubInv, NEW t \in Credential, GetMessages(t) \/ \E m \in Message : Route(t, m)
  PROVE  HubInv'
<1>1. UNCHANGED <<disk, data, periodic, final, sealed, live, revoked, rows, expired, hub, issued, failures>>
      /\ task' = task
  BY DEF Route, GetMessages, Messages, tokenVars, loopVars, flushVars, boundVars
<1>2. ASSUME NEW m \in Message, Route(t, m) PROVE queue' \in [Credential -> SUBSET Message]
  <2>1. PICK to : queue' = [c \in Credential |-> IF c \in to THEN queue[c] \union {m} ELSE queue[c]]
    BY <1>2 DEF Route
  <2>2. QED
    BY <2>1 DEF HubInv, Stored
<1>3. ASSUME GetMessages(t) PROVE queue' \in [Credential -> SUBSET Message]
  BY <1>3 DEF GetMessages, HubInv, Stored
<1>4. queue' \in [Credential -> SUBSET Message]
  BY <1>2, <1>3
<1>5. QED
  BY <1>1, <1>4, OtherKeeps DEF HubInv, Stored

LEMMA LoopsKeep ==
  ASSUME HubInv, NEW l \in Loop, StartLoop(l) \/ DispatchChild(l) \/ ChildEnds(l) \/ BridgePersists(l)
  PROVE  HubInv'
<1>1. UNCHANGED <<disk, data, periodic, final, sealed, live, revoked, rows, expired, hub, issued, failures>>
      /\ queue' = queue
  BY DEF StartLoop, DispatchChild, ChildEnds, BridgePersists, Loops, tokenVars, messageVars,
         flushVars, boundVars
<1>2. task' \in [Loop -> {"none", "PENDING", "RUNNING", "DONE"}]
  BY DEF StartLoop, DispatchChild, ChildEnds, BridgePersists, HubInv, Stored
<1>3. QED
  BY <1>1, <1>2, OtherKeeps DEF HubInv, Stored

-----------------------------------------------------------------------------
(* The steps of a flush: f becomes f2, other is the other one *)

\* what every step of a flush leaves alone
FlushStep == UNCHANGED <<hub, live, issued, revoked, rows, expired, queue, task>>

\* The tokens, when at most failures goes up and what is sealed has no other way back.
LEMMA FlushTokens ==
  ASSUME HubInv, FlushStep, failures' \in {failures, failures + 1},
         sealed \subseteq sealed', sealed' \subseteq sealed \union (revoked \ live)
  PROVE  TokensFine'
  BY DEF HubInv, TokensFine, FlushStep

LEMMA TakenIs ==
  ASSUME HubInv, NEW f \in Flush
  PROVE  /\ Taken(f) \in Flush /\ Taken(f).pc = "opening"
         /\ Taken(f).snap.live = live /\ Taken(f).snap.gone = revoked \ live
         /\ Taken(f).inode = f.inode /\ Taken(f).cancelled = f.cancelled
<1>1. PICK snap : snap = [live |-> live, queue |-> queue, task |-> task, gone |-> revoked \ live]
  OBVIOUS
<1>2. snap \in Snapshot /\ snap.live = live /\ snap.gone = revoked \ live
  BY <1>1 DEF HubInv, TokensFine, Stored, Snapshot
<1>3. Taken(f) = [f EXCEPT !.pc = "opening", !.snap = snap]
  BY <1>1 DEF Taken
<1>4. QED
  BY <1>2, <1>3 DEF Flush

\* a snapshot that is taken now
LEMMA TakenIsFine ==
  ASSUME HubInv, NEW f \in Flush
  PROVE  Fine(Taken(f), live, revoked, sealed, Kept)
<1>1. live \intersect sealed \subseteq Kept
  BY DEF HubInv, TokensFine, Kept
<1>2. QED
  BY <1>1, TakenIs DEF Fine

\* f with another pc, and perhaps another inode, that is still under way
LEMMA GoesOnFine ==
  ASSUME NEW f, NEW alive, NEW over, NEW shut, NEW kept, Fine(f, alive, over, shut, kept),
         f.pc \notin {"idle", "ended"},
         NEW f2 \in Flush, f2.snap = f.snap, f2.pc \notin {"idle", "ended"}
  PROVE  Fine(f2, alive, over, shut, kept)
  BY DEF Fine

LEMMA EndedIs ==
  ASSUME NEW f \in Flush
  PROVE  Ended(f) \in Flush /\ Ended(f).pc = "ended" /\ Ended(f).inode = 0
<1>1. Ended(f) = [Quiet EXCEPT !.pc = "ended", !.snap = f.snap] /\ f.snap \in Snapshot
  BY DEF Ended, Flush
<1>2. QED
  BY <1>1, NothingIs DEF Flush, Quiet

LEMMA EndedIsFine ==
  ASSUME NEW f \in Flush, NEW alive, NEW over, NEW shut, NEW kept
  PROVE  Fine(Ended(f), alive, over, shut, kept)
  BY EndedIs DEF Fine

\* An inode that none of the three others has.
LEMMA FreeIs ==
  ASSUME HubInv, disk.tmp = 0
  PROVE  FreeInode \in Inode
<1>1. /\ disk.json \in 0..4 /\ periodic.inode \in 0..4 /\ final.inode \in 0..4
  BY DEF HubInv, Stored, FlushesFine, Fine, Flush, Inode
<1>2. \E i \in Inode : i \notin {disk.json, disk.tmp, periodic.inode, final.inode}
  BY <1>1 DEF Inode
<1>3. QED
  BY <1>2 DEF FreeInode

LEMMA OpensTmpGives ==
  ASSUME HubInv, NEW f, Fine(f, live, revoked, sealed, Kept), NEW f2, OpensTmp(f, f2)
  PROVE  /\ Fine(f2, live, revoked, sealed, Kept)
         /\ \E i \in Inode : /\ f2.inode = i /\ disk' = [disk EXCEPT !.tmp = i]
                             /\ data' = [data EXCEPT ![i] = Empty]
         /\ f2.pc \notin {"idle", "ended"} /\ f.pc \notin {"idle", "ended"}
         /\ UNCHANGED <<sealed, failures>>
<1>1. PICK i : /\ i = IF disk.tmp = 0 THEN FreeInode ELSE disk.tmp
               /\ disk' = [disk EXCEPT !.tmp = i] /\ data' = [data EXCEPT ![i] = Empty]
               /\ f2 = [f EXCEPT !.pc = "writing", !.inode = i]
  BY DEF OpensTmp
<1>2. i \in Inode
  BY <1>1, FreeIs DEF HubInv, Stored
<1>3. f \in Flush /\ f.pc = "opening"
  BY DEF Fine, OpensTmp
<1>4. f2 \in Flush /\ f2.snap = f.snap /\ f2.pc = "writing" /\ f2.inode = i
  BY <1>1, <1>2, <1>3 DEF Flush
<1>5. Fine(f2, live, revoked, sealed, Kept)
  BY <1>3, <1>4, GoesOnFine
<1>6. QED
  BY <1>1, <1>2, <1>3, <1>4, <1>5 DEF OpensTmp

LEMMA WritesTmpGives ==
  ASSUME HubInv, NEW f, Fine(f, live, revoked, sealed, Kept), NEW f2, WritesTmp(f, f2)
  PROVE  /\ Fine(f2, live, revoked, sealed, Kept)
         /\ f2.inode \in {0, f.inode}
         /\ \E now \in [as : {"empty", "garbled", "whole"}, snap : Snapshot] :
               /\ now.snap.live \intersect sealed \subseteq Kept
               /\ data' = [data EXCEPT ![f.inode] = now]
         /\ f.pc \notin {"idle", "ended"}
         /\ UNCHANGED <<disk, sealed, failures>>
<1>1. f \in Flush /\ f.pc = "writing" /\ f.snap \in Snapshot
  BY DEF Fine, WritesTmp, Flush
<1>2. f.snap.live \intersect sealed \subseteq Kept
  BY <1>1 DEF Fine
<1>3. PICK now \in {Whole(f.snap), Garbled} : data' = [data EXCEPT ![f.inode] = now]
  BY DEF WritesTmp
<1>4. /\ now \in [as : {"empty", "garbled", "whole"}, snap : Snapshot]
      /\ now.snap.live \intersect sealed \subseteq Kept
  BY <1>1, <1>2, <1>3, WholeIs, NothingIs
<1>5. Fine(f2, live, revoked, sealed, Kept) /\ f2.inode \in {0, f.inode}
  <2>1. CASE f.cancelled
    BY <2>1, QuietIsFine, NothingIs DEF WritesTmp
  <2>2. CASE ~f.cancelled
    <3>1. f2 = [f EXCEPT !.pc = "renaming"]
      BY <2>2 DEF WritesTmp
    <3>2. f2 \in Flush /\ f2.snap = f.snap /\ f2.pc = "renaming" /\ f2.inode = f.inode
      BY <1>1, <3>1 DEF Flush
    <3>3. QED
      BY <1>1, <3>2, GoesOnFine
  <2>3. QED
    BY <2>1, <2>2
<1>6. QED
  BY <1>1, <1>3, <1>4, <1>5 DEF WritesTmp

-----------------------------------------------------------------------------
(* Renaming seals what the snapshot calls gone, when the other flush is over *)

LEMMA RenamesTmpGives ==
  ASSUME HubInv, NEW f, Fine(f, live, revoked, sealed, Kept),
         NEW other, Fine(other, live, revoked, sealed, Kept),
         other.inode \in {periodic.inode, final.inode},
         NEW rest, rest \in Flush, rest.pc \in {"idle", "ended"}, rest.inode = 0,
         NEW f2, RenamesTmp(f, f2, other, rest)
  PROVE  /\ f2 = rest /\ UNCHANGED <<data, failures>> /\ f.pc \notin {"idle", "ended"}
         /\ disk' \in [json : {0} \union Inode, tmp : {0} \union Inode]
         /\ Fine(f2, live, revoked, sealed', Kept) /\ Fine(other, live, revoked, sealed', Kept)
         /\ sealed \subseteq sealed' /\ sealed' \subseteq sealed \union (revoked \ live)
         /\ \A i \in {disk'.json, disk'.tmp, f2.inode, other.inode} \intersect Inode :
               data[i].snap.live \intersect sealed' \subseteq Kept
<1>1. /\ f2 = rest /\ f.pc = "renaming" /\ UNCHANGED <<data, failures>>
      /\ disk' = IF disk.tmp = 0 THEN disk ELSE [json |-> disk.tmp, tmp |-> 0]
  BY DEF RenamesTmp
<1>2. f \in Flush /\ f.snap \in Snapshot /\ f.snap.gone \subseteq revoked \ live
      /\ f.snap.gone \intersect f.snap.live = {} /\ f.snap.live \intersect sealed \subseteq Kept
  BY <1>1 DEF Fine, Flush
<1>3. Fine(f2, live, revoked, sealed', Kept)
  BY <1>1 DEF Fine
<1>4. disk \in [json : {0} \union Inode, tmp : {0} \union Inode]
  BY DEF HubInv, Stored
<1>5. disk' \in [json : {0} \union Inode, tmp : {0} \union Inode]
  BY <1>1, <1>4
<1>6. {disk'.json, disk'.tmp, f2.inode, other.inode} \intersect Inode \subseteq Reachable
  BY <1>1, <1>4 DEF Reachable, Inode
<1>7. CASE disk.tmp # 0 /\ data[disk.tmp] = Whole(f.snap) /\ other.pc \in {"idle", "ended"}
  <2>1. sealed' = sealed \union f.snap.gone
    BY <1>7 DEF RenamesTmp
  <2>2. Fine(other, live, revoked, sealed', Kept)
    BY <1>7 DEF Fine
  <2>3. data[disk.tmp].snap.live \intersect sealed' \subseteq Kept
    BY <1>2, <1>7, <2>1, WholeIs
  <2>4. disk'.json = disk.tmp /\ disk'.tmp = 0 /\ other.inode = 0 /\ f2.inode = 0
    BY <1>1, <1>7 DEF Fine
  <2>5. \A i \in {disk'.json, disk'.tmp, f2.inode, other.inode} \intersect Inode :
           data[i].snap.live \intersect sealed' \subseteq Kept
    BY <2>3, <2>4 DEF Inode
  <2>6. QED
    BY <1>1, <1>2, <1>3, <1>5, <2>1, <2>2, <2>5
<1>8. CASE ~(disk.tmp # 0 /\ data[disk.tmp] = Whole(f.snap) /\ other.pc \in {"idle", "ended"})
  <2>1. sealed' = sealed
    BY <1>8 DEF RenamesTmp
  <2>2. \A i \in Reachable : data[i].snap.live \intersect sealed \subseteq Kept
    BY DEF HubInv, DataFine
  <2>3. QED
    BY <1>1, <1>3, <1>5, <1>6, <2>1, <2>2
<1>9. QED
  BY <1>7, <1>8

\* One flush goes on; the invariant follows from what the four lemmas give.
LEMMA FlushKeeps ==
  ASSUME HubInv, FlushStep, hub # "down",
         sealed \subseteq sealed', sealed' \subseteq sealed \union (revoked \ live),
         failures' \in {failures, failures + 1},
         Fine(periodic', live, revoked, sealed', Kept), Fine(final', live, revoked, sealed', Kept),
         disk' \in [json : {0} \union Inode, tmp : {0} \union Inode],
         data' \in [Inode -> [as : {"empty", "garbled", "whole"}, snap : Snapshot]],
         \A i \in {disk'.json, disk'.tmp, periodic'.inode, final'.inode} \intersect Inode :
            data'[i].snap.live \intersect sealed' \subseteq Kept
  PROVE  HubInv'
<1>1. TokensFine'
  BY FlushTokens
<1>2. Kept' = Kept /\ live' = live /\ revoked' = revoked /\ hub' # "down"
  BY DEF FlushStep, Kept
<1>3. FlushesFine'
  BY <1>2 DEF FlushesFine
<1>4. DataFine'
  BY <1>2 DEF DataFine, Reachable
<1>5. Stored'
  BY DEF FlushStep, Stored, HubInv
<1>6. QED
  BY <1>1, <1>3, <1>4, <1>5 DEF HubInv

\* the same for either flush, the other one staying as it is
LEMMA OneFlushKeeps ==
  ASSUME HubInv, FlushStep,
         NEW f, NEW f2, NEW other, NEW rest,
         Fine(f, live, revoked, sealed, Kept), Fine(other, live, revoked, sealed, Kept),
         {f.inode, other.inode} = {periodic.inode, final.inode},
         rest \in Flush, rest.pc \in {"idle", "ended"}, rest.inode = 0,
         OpensTmp(f, f2) \/ WritesTmp(f, f2) \/ RenamesTmp(f, f2, other, rest) \/ FlushFails(f, f2, rest)
  PROVE  /\ f.pc \notin {"idle", "ended"}
         /\ sealed \subseteq sealed' /\ sealed' \subseteq sealed \union (revoked \ live)
         /\ failures' \in {failures, failures + 1}
         /\ Fine(f2, live, revoked, sealed', Kept) /\ Fine(other, live, revoked, sealed', Kept)
         /\ disk' \in [json : {0} \union Inode, tmp : {0} \union Inode]
         /\ data' \in [Inode -> [as : {"empty", "garbled", "whole"}, snap : Snapshot]]
         /\ \A i \in {disk'.json, disk'.tmp, f2.inode, other.inode} \intersect Inode :
               data'[i].snap.live \intersect sealed' \subseteq Kept
<1>1. /\ disk \in [json : {0} \union Inode, tmp : {0} \union Inode]
      /\ data \in [Inode -> [as : {"empty", "garbled", "whole"}, snap : Snapshot]]
  BY DEF HubInv, Stored
<1>2. \A i \in {disk.json, disk.tmp, f.inode, other.inode} \intersect Inode :
         data[i].snap.live \intersect sealed \subseteq Kept
  BY DEF HubInv, DataFine, Reachable
<1>3. CASE OpensTmp(f, f2)
  <2>1. PICK i \in Inode : /\ f2.inode = i /\ disk' = [disk EXCEPT !.tmp = i]
                           /\ data' = [data EXCEPT ![i] = Empty]
    BY <1>3, OpensTmpGives
  <2>2. /\ Fine(f2, live, revoked, sealed, Kept) /\ f.pc \notin {"idle", "ended"}
        /\ UNCHANGED <<sealed, failures>>
    BY <1>3, OpensTmpGives
  <2>3. /\ disk' \in [json : {0} \union Inode, tmp : {0} \union Inode]
        /\ disk'.json = disk.json /\ disk'.tmp = i
    BY <1>1, <2>1
  <2>4. /\ data' \in [Inode -> [as : {"empty", "garbled", "whole"}, snap : Snapshot]]
        /\ data'[i].snap.live = {} /\ \A j \in Inode : j # i => data'[j] = data[j]
    BY <1>1, <2>1, NothingIs
  <2>5. \A j \in {disk'.json, disk'.tmp, f2.inode, other.inode} \intersect Inode :
           data'[j].snap.live \intersect sealed \subseteq Kept
    BY <1>2, <2>1, <2>3, <2>4
  <2>6. QED
    BY <2>2, <2>3, <2>4, <2>5
<1>4. CASE WritesTmp(f, f2)
  <2>1. PICK now \in [as : {"empty", "garbled", "whole"}, snap : Snapshot] :
           now.snap.live \intersect sealed \subseteq Kept /\ data' = [data EXCEPT ![f.inode] = now]
    BY <1>4, WritesTmpGives
  <2>2. /\ Fine(f2, live, revoked, sealed, Kept) /\ f.pc \notin {"idle", "ended"}
        /\ f2.inode \in {0, f.inode} /\ UNCHANGED <<disk, sealed, failures>>
    BY <1>4, WritesTmpGives
  <2>3. /\ data' \in [Inode -> [as : {"empty", "garbled", "whole"}, snap : Snapshot]]
        /\ \A j \in Inode : data'[j] = now \/ data'[j] = data[j]
    BY <1>1, <2>1
  <2>4. \A j \in {disk'.json, disk'.tmp, f2.inode, other.inode} \intersect Inode :
           data'[j].snap.live \intersect sealed \subseteq Kept
    BY <1>2, <2>1, <2>2, <2>3 DEF Inode
  <2>5. QED
    BY <1>1, <2>2, <2>3, <2>4
<1>5. CASE RenamesTmp(f, f2, other, rest)
  <2>1. other.inode \in {periodic.inode, final.inode}
    OBVIOUS
  <2>2. QED
    BY <1>1, <1>5, <2>1, RenamesTmpGives
<1>6. CASE FlushFails(f, f2, rest)
  <2>1. /\ f2 = rest /\ failures' = failures + 1 /\ f.pc \notin {"idle", "ended"}
        /\ UNCHANGED <<disk, data, sealed>>
    BY <1>6 DEF FlushFails, Fails
  <2>2. Fine(f2, live, revoked, sealed, Kept)
    BY <2>1 DEF Fine
  <2>3. \A i \in {disk.json, disk.tmp, f2.inode, other.inode} \intersect Inode :
           data[i].snap.live \intersect sealed \subseteq Kept
    BY <1>2, <2>1 DEF Inode
  <2>4. QED
    BY <1>1, <2>1, <2>2, <2>3
<1>7. QED
  BY <1>3, <1>4, <1>5, <1>6

LEMMA PeriodicStepKeeps ==
  ASSUME HubInv, PeriodicStep
  PROVE  HubInv'
<1>1. FlushStep /\ final' = final
  BY DEF PeriodicStep, TheRest, tokenVars, messageVars, loopVars, FlushStep
<1>2. Fine(periodic, live, revoked, sealed, Kept) /\ Fine(final, live, revoked, sealed, Kept)
      /\ (hub = "down" => periodic.pc = "idle")
  BY NothingIs DEF HubInv, FlushesFine
<1>3. OpensTmp(periodic, periodic') \/ WritesTmp(periodic, periodic')
      \/ RenamesTmp(periodic, periodic', final, Quiet) \/ FlushFails(periodic, periodic', Quiet)
  BY DEF PeriodicStep
<1>4. /\ periodic.pc \notin {"idle", "ended"}
      /\ sealed \subseteq sealed' /\ sealed' \subseteq sealed \union (revoked \ live)
      /\ failures' \in {failures, failures + 1}
      /\ Fine(periodic', live, revoked, sealed', Kept) /\ Fine(final, live, revoked, sealed', Kept)
      /\ disk' \in [json : {0} \union Inode, tmp : {0} \union Inode]
      /\ data' \in [Inode -> [as : {"empty", "garbled", "whole"}, snap : Snapshot]]
      /\ \A i \in {disk'.json, disk'.tmp, periodic'.inode, final.inode} \intersect Inode :
            data'[i].snap.live \intersect sealed' \subseteq Kept
  BY <1>1, <1>2, <1>3, NothingIs, OneFlushKeeps
<1>5. QED
  BY <1>1, <1>2, <1>4, FlushKeeps

LEMMA FinalStepKeeps ==
  ASSUME HubInv, FinalStep
  PROVE  HubInv'
<1>1. FlushStep /\ periodic' = periodic
  BY DEF FinalStep, TheRest, tokenVars, messageVars, loopVars, FlushStep
<1>2. Fine(periodic, live, revoked, sealed, Kept) /\ Fine(final, live, revoked, sealed, Kept)
      /\ (hub = "down" => final.pc = "idle") /\ final \in Flush
  BY NothingIs DEF HubInv, FlushesFine, Fine
<1>3. OpensTmp(final, final') \/ WritesTmp(final, final')
      \/ RenamesTmp(final, final', periodic, Ended(final)) \/ FlushFails(final, final', Ended(final))
  BY DEF FinalStep
<1>4. Ended(final) \in Flush /\ Ended(final).pc = "ended" /\ Ended(final).inode = 0
  BY <1>2, EndedIs
<1>5. /\ final.pc \notin {"idle", "ended"}
      /\ sealed \subseteq sealed' /\ sealed' \subseteq sealed \union (revoked \ live)
      /\ failures' \in {failures, failures + 1}
      /\ Fine(final', live, revoked, sealed', Kept) /\ Fine(periodic, live, revoked, sealed', Kept)
      /\ disk' \in [json : {0} \union Inode, tmp : {0} \union Inode]
      /\ data' \in [Inode -> [as : {"empty", "garbled", "whole"}, snap : Snapshot]]
      /\ \A i \in {disk'.json, disk'.tmp, final'.inode, periodic.inode} \intersect Inode :
            data'[i].snap.live \intersect sealed' \subseteq Kept
  BY <1>1, <1>2, <1>3, <1>4, OneFlushKeeps
<1>6. \A i \in {disk'.json, disk'.tmp, periodic'.inode, final'.inode} \intersect Inode :
         data'[i].snap.live \intersect sealed' \subseteq Kept
  BY <1>1, <1>5
<1>7. QED
  BY <1>1, <1>2, <1>5, <1>6, FlushKeeps

-----------------------------------------------------------------------------
(* The hub's life *)

\* the tokens, when the hub neither starts nor changes them
LEMMA LifeTokens ==
  ASSUME HubInv, UNCHANGED <<issued, revoked, expired, sealed, rows, failures>>,
         live' \in {live, {}}, hub' # "up" \/ UNCHANGED <<hub, live>>
  PROVE  TokensFine'
  BY DEF HubInv, TokensFine

LEMMA PeriodicBeginsKeeps ==
  ASSUME HubInv, PeriodicBegins
  PROVE  HubInv'
<1>1. /\ FlushStep /\ hub = "up" /\ periodic.pc = "idle" /\ periodic' = Taken(periodic)
      /\ UNCHANGED <<disk, data, sealed, final, failures>>
  BY DEF PeriodicBegins, TheRest, tokenVars, messageVars, loopVars, FlushStep
<1>2. periodic \in Flush /\ periodic.inode = 0 /\ Fine(final, live, revoked, sealed, Kept)
  BY <1>1 DEF HubInv, FlushesFine, Fine
<1>3. Fine(periodic', live, revoked, sealed, Kept) /\ periodic'.inode = 0
  BY <1>1, <1>2, TakenIsFine, TakenIs
<1>4. \A i \in {disk'.json, disk'.tmp, periodic'.inode, final'.inode} \intersect Inode :
         data'[i].snap.live \intersect sealed' \subseteq Kept
  BY <1>1, <1>3 DEF HubInv, DataFine, Reachable, Inode
<1>5. QED
  BY <1>1, <1>2, <1>3, <1>4, FlushKeeps DEF HubInv, Stored

\* a flush that is cancelled or withdrawn, or the final one that begins
LEMMA ChangesFlush ==
  ASSUME HubInv, NEW f \in Flush, Fine(f, live, revoked, sealed, Kept),
         NEW f2, f2 = Quiet \/ f2 = [f EXCEPT !.cancelled = TRUE] \/ f2 = f
  PROVE  Fine(f2, live, revoked, sealed, Kept) /\ f2.inode \in {0, f.inode}
<1>1. CASE f2 = Quiet
  BY <1>1, QuietIsFine, NothingIs
<1>2. CASE f2 = [f EXCEPT !.cancelled = TRUE]
  BY <1>2 DEF Fine, Flush
<1>3. QED
  BY <1>1, <1>2

LEMMA ShutdownBeginsKeeps ==
  ASSUME HubInv, ShutdownBegins
  PROVE  HubInv'
<1>1. /\ UNCHANGED <<live, rows, queue, task, final, expired, issued, revoked, disk, data, sealed, failures>>
      /\ hub' = "stopping"
  BY DEF ShutdownBegins, Restarting
<1>2. periodic' = Quiet \/ periodic' = [periodic EXCEPT !.cancelled = TRUE]
  BY DEF ShutdownBegins
<1>3. /\ periodic \in Flush /\ Fine(periodic, live, revoked, sealed, Kept)
      /\ Fine(final, live, revoked, sealed, Kept)
  BY DEF HubInv, FlushesFine, Fine
<1>4. Fine(periodic', live, revoked, sealed, Kept) /\ periodic'.inode \in {0, periodic.inode}
  BY <1>2, <1>3, ChangesFlush
<1>5. Kept' = Kept
  BY <1>1 DEF Kept
<1>6. TokensFine'
  BY <1>1, LifeTokens
<1>7. FlushesFine' /\ Stored'
  BY <1>1, <1>3, <1>4, <1>5 DEF FlushesFine, HubInv, Stored
<1>8. Reachable' \subseteq Reachable
  BY <1>1, <1>4 DEF Reachable, Inode
<1>9. DataFine'
  BY <1>1, <1>5, <1>8 DEF HubInv, DataFine
<1>10. QED
  BY <1>6, <1>7, <1>9 DEF HubInv

LEMMA FinalBeginsKeeps ==
  ASSUME HubInv, FinalBegins
  PROVE  HubInv'
<1>1. /\ UNCHANGED <<live, rows, queue, task, periodic, expired, issued, revoked, disk, data, sealed, failures>>
      /\ hub' = "exiting" /\ final' = Taken(final)
  BY DEF FinalBegins, Restarting
<1>2. final \in Flush /\ Fine(periodic, live, revoked, sealed, Kept)
  BY DEF HubInv, FlushesFine, Fine
<1>3. Fine(final', live, revoked, sealed, Kept) /\ final'.inode = final.inode
  BY <1>1, <1>2, TakenIsFine, TakenIs
<1>4. Kept' = Kept
  BY <1>1 DEF Kept
<1>5. TokensFine'
  BY <1>1, LifeTokens
<1>6. FlushesFine' /\ Stored'
  BY <1>1, <1>2, <1>3, <1>4 DEF FlushesFine, HubInv, Stored
<1>7. Reachable' \subseteq Reachable
  BY <1>1, <1>3 DEF Reachable, Inode
<1>8. DataFine'
  BY <1>1, <1>4, <1>7 DEF HubInv, DataFine
<1>9. QED
  BY <1>5, <1>6, <1>8 DEF HubInv

LEMMA EndKeeps ==
  ASSUME HubInv, Exit \/ HubCrash
  PROVE  HubInv'
<1>1. /\ UNCHANGED <<rows, expired, issued, revoked, disk, data, sealed, failures>> /\ hub' = "down"
      /\ live' = {} /\ queue' = NoMessages /\ task' = [l \in Loop |-> "none"]
      /\ periodic' = Quiet /\ final' = Quiet
  BY DEF Exit, HubCrash, Forgotten, Restarting
<1>2. Kept' = Kept
  BY <1>1 DEF Kept
<1>3. TokensFine'
  BY <1>1, LifeTokens
<1>4. FlushesFine'
  BY <1>1, QuietIsFine DEF FlushesFine
<1>5. Stored'
  BY <1>1 DEF HubInv, Stored, NoMessages
<1>6. Reachable' \subseteq Reachable
  BY <1>1, NothingIs DEF Reachable, Inode
<1>7. DataFine'
  BY <1>1, <1>2, <1>6 DEF HubInv, DataFine
<1>8. QED
  BY <1>3, <1>4, <1>5, <1>7 DEF HubInv

LEMMA ReadIs ==
  ASSUME HubInv
  PROVE  Read \in Snapshot /\ Read.live \intersect sealed \subseteq Kept
<1>1. CASE disk.json = 0
  BY <1>1, NothingIs DEF Read
<1>2. CASE disk.json # 0
  <2>1. disk.json \in Inode
    BY <1>2 DEF HubInv, Stored
  <2>2. disk.json \in Reachable
    BY <2>1 DEF Reachable
  <2>3. Read = data[disk.json].snap
    BY <1>2 DEF Read
  <2>4. QED
    BY <2>1, <2>2, <2>3 DEF HubInv, Stored, DataFine
<1>3. QED
  BY <1>1, <1>2

LEMMA HubStartsKeeps ==
  ASSUME HubInv, HubStarts
  PROVE  HubInv'
<1>1. /\ UNCHANGED <<expired, issued, revoked, disk, data, sealed, failures, periodic, final>>
      /\ hub = "down" /\ hub' = "up" /\ rows' = rows \ expired /\ live' = RestoredTokens
      /\ queue' = [t \in Credential |-> IF t \in RestoredTokens THEN Read.queue[t] ELSE {}]
      /\ task' = Read.task
  BY DEF HubStarts, Restarting
<1>2. /\ Read.live \subseteq Credential /\ Read.live \intersect sealed \subseteq Kept
      /\ Read.queue \in [Credential -> SUBSET Message]
      /\ Read.task \in [Loop -> {"none", "PENDING", "RUNNING", "DONE"}]
  BY ReadIs DEF Snapshot
<1>3. live' = (rows \union Read.live) \ expired
  BY <1>1 DEF RestoredTokens
<1>4. Kept' = Kept
  BY <1>1 DEF Kept
<1>5. live' \intersect sealed \subseteq rows'
  BY <1>1, <1>2, <1>3 DEF Kept
<1>6. TokensFine'
  BY <1>1, <1>2, <1>3, <1>5 DEF HubInv, TokensFine
<1>7. FlushesFine'
  BY <1>1, QuietIsFine DEF HubInv, FlushesFine
<1>8. Stored'
  BY <1>1, <1>2 DEF HubInv, Stored
<1>9. DataFine'
  BY <1>1, <1>4 DEF HubInv, DataFine, Reachable
<1>10. QED
  BY <1>6, <1>7, <1>8, <1>9 DEF HubInv

-----------------------------------------------------------------------------
LEMMA NextKeepsHubInv == HubInv /\ [HubStateNext]_hubStateVars => HubInv'
<1> SUFFICES ASSUME HubInv, [HubStateNext]_hubStateVars PROVE HubInv'
  OBVIOUS
<1>1. CASE UNCHANGED hubStateVars
  BY <1>1, OtherKeeps DEF hubStateVars, tokenVars, messageVars, loopVars, flushVars, boundVars,
     HubInv, Stored
<1>2. ASSUME NEW t \in Credential, Issue(t) PROVE HubInv'
  BY <1>2, IssueKeeps
<1>3. ASSUME NEW t \in Credential, Revoke(t) PROVE HubInv'
  BY <1>3, RevokeKeeps
<1>4. ASSUME NEW t \in Credential, Expires(t) \/ Sweep(t) PROVE HubInv'
  BY <1>4, ExpiryKeeps
<1>5. ASSUME NEW t \in Credential, GetMessages(t) PROVE HubInv'
  BY <1>5, MessagesKeep
<1>6. ASSUME NEW t \in Credential, NEW m \in Message, Route(t, m) PROVE HubInv'
  BY <1>6, MessagesKeep
<1>7. ASSUME NEW l \in Loop, StartLoop(l) \/ DispatchChild(l) \/ ChildEnds(l) \/ BridgePersists(l)
      PROVE HubInv'
  BY <1>7, LoopsKeep
<1>8. CASE PeriodicBegins \/ PeriodicStep \/ FinalStep
  BY <1>8, PeriodicBeginsKeeps, PeriodicStepKeeps, FinalStepKeeps
<1>9. CASE ShutdownBegins \/ FinalBegins \/ Exit \/ HubCrash \/ HubStarts
  BY <1>9, ShutdownBeginsKeeps, FinalBeginsKeeps, EndKeeps, HubStartsKeeps
<1>10. QED
  BY <1>1, <1>2, <1>3, <1>4, <1>5, <1>6, <1>7, <1>8, <1>9 DEF HubStateNext

\* Whatever crashes, restarts, overlapping flushes and failing writes there
\* are, a revocation that a snapshot in place reflects holds for good unless its
\* row could not be deleted, and every restart brings back the gateway tokens
\* that were neither revoked nor expired unless their row could not be saved.
THEOREM TokensDoSurvive == HubStateSpec => []TokensSurvive
<1>1. HubStateInit => HubInv
  BY InitHubInv
<1>2. HubInv /\ [HubStateNext]_hubStateVars => HubInv'
  BY NextKeepsHubInv
<1>3. HubInv => TokensSurvive
  <2>1. HubInv => RevokedGone
    BY DEF HubInv, TokensFine, RevokedGone
  <2>2. HubInv => GatewayLasts
    BY DEF HubInv, TokensFine, GatewayLasts
  <2>3. QED
    BY <2>1, <2>2 DEF TokensSurvive
<1>4. QED
  BY <1>1, <1>2, <1>3, PTL DEF HubStateSpec

-----------------------------------------------------------------------------
(***************************************************************************)
(* Messages                                                                *)
(***************************************************************************)

(* The messages: the inductive invariant *)

MessagesTyped ==
  /\ hub \in {"up", "stopping", "exiting", "down"} /\ lapses \in Nat
  /\ sent \subseteq [to : Session, msg : Message]
  /\ got \in [Credential -> [Message -> Nat]]

\* only what was sent is handed over, queued or in a snapshot
Known(q) == \A t \in Credential : \A m \in q[t] : [to |-> t, msg |-> m] \in sent
OnlySent ==
  /\ Known(queue) /\ Known(periodic.snap.queue) /\ Known(final.snap.queue)
  /\ \A i \in Inode : Known(data[i].snap.queue)
  /\ \A t \in Credential, m \in Message : got[t][m] > 0 => [to |-> t, msg |-> m] \in sent

\* no message is handed over more than n times, what is in q included
AtMost(n, q) ==
  \A t \in Credential, m \in Message : got[t][m] <= n /\ (m \in q[t] => got[t][m] < n)

\* what was sent to a token in alive is in q or was handed over
Due(s) == s.to \notin revoked \union expired
AllThere(q, alive) ==
  \A s \in sent : Due(s) => s.to \in alive /\ (s.msg \in q[s.to] \/ got[s.to][s.msg] = 1)

\* an end of the hub without a flush of its own is on its way, or has been
Excused == lapses > 0 /\ AtMost(lapses, queue)

\* the final flush is alone with its files, and they become what it took
FinalAlone ==
  /\ periodic.pc = "idle" /\ ~final.cancelled
  /\ final.snap.queue = queue /\ final.snap.live = live
  /\ \/ final.pc = "opening"
     \/ final.pc = "writing" /\ final.inode = disk.tmp /\ disk.tmp # 0 /\ data[disk.tmp] = Empty
     \/ final.pc = "renaming" /\ disk.tmp # 0 /\ data[disk.tmp] = Whole(final.snap)
     \/ final.pc = "ended" /\ disk.json # 0 /\ data[disk.json] = Whole(final.snap)

Phase ==
  /\ hub \in {"up", "stopping"} => final = Quiet
  /\ hub = "stopping" => periodic.pc = "idle" \/ Excused
  /\ hub = "exiting" => FinalAlone \/ Excused
  /\ hub # "down" => AtMost(1 + lapses, queue) /\ (lapses = 0 => AllThere(queue, live))
  /\ hub = "down" => AtMost(1 + lapses, Read.queue) /\ (lapses = 0 => AllThere(Read.queue, Read.live))

MessageInv == MessagesTyped /\ OnlySent /\ Phase

LEMMA NothingIsKnown ==
  /\ Known(NoMessages) /\ Known(Nothing.queue) /\ Known(Empty.snap.queue) /\ Known(Garbled.snap.queue)
  /\ Known(Quiet.snap.queue)
  /\ Quiet.pc = "idle" /\ ~Quiet.cancelled
<1>1. \A t \in Credential : NoMessages[t] = {}
  BY DEF NoMessages
<1>2. /\ Nothing.queue = NoMessages /\ Empty.snap.queue = NoMessages /\ Garbled.snap.queue = NoMessages
      /\ Quiet.snap.queue = NoMessages /\ Quiet.pc = "idle" /\ ~Quiet.cancelled
  BY DEF Nothing, Empty, Garbled, Quiet
<1>3. QED
  BY <1>1, <1>2 DEF Known

LEMMA InitMessageInv == HubStateInit => MessageInv
<1> SUFFICES ASSUME HubStateInit PROVE MessageInv
  OBVIOUS
<1>1. MessagesTyped
  BY DEF HubStateInit, MessagesTyped
<1>2. OnlySent
  BY NothingIsKnown DEF HubStateInit, OnlySent
<1>3. Phase
  BY DEF HubStateInit, Phase, AtMost, AllThere, NoMessages
<1>4. QED
  BY <1>1, <1>2, <1>3 DEF MessageInv

\* steps that hand over and queue nothing, and drop no token but revoked and
\* expired ones
LEMMA TokenStepKeeps ==
  ASSUME MessageInv, UNCHANGED <<hub, messageVars, disk, data, periodic, final, lapses>>,
         revoked \subseteq revoked', expired \subseteq expired',
         hub = "exiting" => live' = live, \A t \in live \ live' : t \in revoked' \union expired'
  PROVE  MessageInv'
<1> USE DEF messageVars
<1>1. MessagesTyped' /\ OnlySent'
  BY DEF MessageInv, MessagesTyped, OnlySent, Known
<1>2. Read' = Read
  BY DEF Read
<1>3. (hub = "exiting" => (FinalAlone' <=> FinalAlone)) /\ (Excused' <=> Excused)
  BY DEF FinalAlone, Excused, AtMost
<1>4. /\ AllThere(queue, live) => AllThere(queue, live)'
      /\ AllThere(Read.queue, Read.live) => AllThere(Read.queue, Read.live)'
  BY <1>2 DEF AllThere, Due
<1>5. AtMost(1 + lapses, queue)' = AtMost(1 + lapses, queue)
      /\ AtMost(1 + lapses, Read.queue)' = AtMost(1 + lapses, Read.queue)
  BY <1>2 DEF AtMost
<1>6. Phase'
  BY <1>3, <1>4, <1>5 DEF MessageInv, Phase
<1>7. QED
  BY <1>1, <1>6 DEF MessageInv

LEMMA RouteKeeps ==
  ASSUME HubInv, MessageInv, NEW from \in Credential, NEW m \in Message, Route(from, m)
  PROVE  MessageInv'
<1>1. PICK to \in SUBSET Session :
        /\ to = live \intersect Session
        /\ queue' = [t \in Credential |-> IF t \in to THEN queue[t] \union {m} ELSE queue[t]]
        /\ sent' = sent \union [to : to, msg : {m}]
  BY DEF Route
<1>2. /\ hub = "up" /\ (\A s \in sent : s.msg # m) /\ UNCHANGED got
      /\ UNCHANGED <<hub, revoked, expired, live, disk, data, periodic, final, lapses>>
  BY DEF Route, Messages, tokenVars, flushVars, boundVars
<1>3. \A t \in Credential : m \notin queue[t] /\ got[t][m] = 0
  <2>1. \A t \in Credential : [to |-> t, msg |-> m] \notin sent
    BY <1>2
  <2>2. ASSUME NEW t \in Credential PROVE got[t][m] \in Nat
    BY DEF MessageInv, MessagesTyped
  <2>3. ASSUME NEW t \in Credential PROVE ~(got[t][m] > 0) /\ m \notin queue[t]
    BY <2>1 DEF MessageInv, OnlySent, Known
  <2>4. QED
    BY <2>2, <2>3
<1>4. MessagesTyped'
  BY <1>1, <1>2 DEF MessageInv, MessagesTyped
<1>5. OnlySent'
  <2>1. sent \subseteq sent'
    BY <1>1
  <2>2. Known(queue)'
    <3> SUFFICES ASSUME NEW t \in Credential, NEW x \in queue'[t] PROVE [to |-> t, msg |-> x] \in sent'
      BY DEF Known
    <3>1. CASE x \in queue[t]
      BY <2>1, <3>1 DEF MessageInv, OnlySent, Known
    <3>2. CASE x \notin queue[t]
      BY <1>1, <3>2
    <3>3. QED
      BY <3>1, <3>2
  <2>3. QED
    BY <1>2, <2>1, <2>2 DEF MessageInv, OnlySent, Known
<1>6. AtMost(1 + lapses, queue)'
  <2> SUFFICES ASSUME NEW t \in Credential, NEW x \in Message
               PROVE  got[t][x] <= 1 + lapses /\ (x \in queue'[t] => got[t][x] < 1 + lapses)
    BY <1>2 DEF AtMost
  <2>1. got[t][x] <= 1 + lapses /\ (x \in queue[t] => got[t][x] < 1 + lapses) /\ lapses \in Nat
    BY <1>2 DEF MessageInv, MessagesTyped, Phase, AtMost
  <2>2. CASE x \in queue'[t] \ queue[t]
    <3>1. x = m
      BY <1>1, <2>2
    <3>2. QED
      BY <1>3, <2>1, <3>1
  <2>3. QED
    BY <2>1, <2>2
<1>7. lapses = 0 => AllThere(queue, live)'
  <2> SUFFICES ASSUME lapses = 0, NEW s \in sent', Due(s)
               PROVE  s.to \in live /\ (s.msg \in queue'[s.to] \/ got[s.to][s.msg] = 1)
    BY <1>2 DEF AllThere, Due
  <2>1. CASE s \in sent
    <3>1. s.to \in Session /\ s.to \in Credential
      BY <2>1 DEF MessageInv, MessagesTyped, Credential
    <3>2. s.to \in live /\ (s.msg \in queue[s.to] \/ got[s.to][s.msg] = 1)
      BY <1>2, <2>1 DEF MessageInv, Phase, AllThere
    <3>3. QED
      BY <1>1, <3>1, <3>2
  <2>2. CASE s \notin sent
    <3>1. s.to \in to /\ s.msg = m /\ s.to \in Credential
      BY <1>1, <2>2 DEF Credential
    <3>2. QED
      BY <1>1, <3>1
  <2>3. QED
    BY <2>1, <2>2
<1>8. QED
  BY <1>2, <1>4, <1>5, <1>6, <1>7 DEF MessageInv, Phase

LEMMA GetMessagesKeeps ==
  ASSUME HubInv, MessageInv, NEW t \in Credential, GetMessages(t)
  PROVE  MessageInv'
<1>1. /\ hub = "up" /\ queue' = [queue EXCEPT ![t] = {}] /\ queue \in [Credential -> SUBSET Message]
      /\ got' = [got EXCEPT ![t] = [m \in Message |-> IF m \in queue[t] THEN got[t][m] + 1 ELSE got[t][m]]]
      /\ UNCHANGED <<hub, sent, revoked, expired, live, disk, data, periodic, final, lapses>>
  BY DEF GetMessages, Messages, tokenVars, flushVars, boundVars, HubInv, Stored
<1>2. \A c \in Credential, m \in Message : got[c][m] \in Nat
  BY DEF MessageInv, MessagesTyped
<1>3. \A c \in Credential, m \in Message :
        /\ got'[c][m] = IF c = t /\ m \in queue[t] THEN got[c][m] + 1 ELSE got[c][m]
        /\ queue'[c] = IF c = t THEN {} ELSE queue[c]
  BY <1>1 DEF MessageInv, MessagesTyped
<1>4. MessagesTyped'
  <2>1. [m \in Message |-> IF m \in queue[t] THEN got[t][m] + 1 ELSE got[t][m]] \in [Message -> Nat]
    BY <1>2
  <2>2. QED
    BY <1>1, <2>1 DEF MessageInv, MessagesTyped
<1>5. OnlySent'
  <2>1. Known(queue)'
    BY <1>1 DEF MessageInv, OnlySent, Known
  <2>2. ASSUME NEW c \in Credential, NEW m \in Message, got'[c][m] > 0 PROVE [to |-> c, msg |-> m] \in sent
    <3>1. CASE c = t /\ m \in queue[t]
      BY <3>1 DEF MessageInv, OnlySent, Known
    <3>2. CASE ~(c = t /\ m \in queue[t])
      BY <1>3, <2>2, <3>2 DEF MessageInv, OnlySent
    <3>3. QED
      BY <3>1, <3>2
  <2>3. QED
    BY <1>1, <2>1, <2>2 DEF MessageInv, OnlySent, Known
<1>6. AtMost(1 + lapses, queue)'
  <2> SUFFICES ASSUME NEW c \in Credential, NEW m \in Message
               PROVE  got'[c][m] <= 1 + lapses /\ (m \in queue'[c] => got'[c][m] < 1 + lapses)
    BY <1>1 DEF AtMost
  <2>1. got[c][m] <= 1 + lapses /\ (m \in queue[c] => got[c][m] < 1 + lapses) /\ lapses \in Nat
    BY <1>1 DEF MessageInv, MessagesTyped, Phase, AtMost
  <2>2. QED
    BY <1>2, <1>3, <2>1
<1>7. lapses = 0 => AllThere(queue, live)'
  <2> SUFFICES ASSUME lapses = 0, NEW s \in sent, Due(s)
               PROVE  s.to \in live /\ (s.msg \in queue'[s.to] \/ got'[s.to][s.msg] = 1)
    BY <1>1 DEF AllThere, Due
  <2>1. s.to \in Credential /\ s.msg \in Message
    BY DEF MessageInv, MessagesTyped, Credential
  <2>2. s.to \in live /\ (s.msg \in queue[s.to] \/ got[s.to][s.msg] = 1)
    BY <1>1 DEF MessageInv, Phase, AllThere
  <2>3. s.msg \in queue[s.to] => got[s.to][s.msg] < 1 + 0
    BY <1>1, <2>1 DEF MessageInv, Phase, AtMost
  <2>4. CASE s.to = t /\ s.msg \in queue[t]
    BY <1>2, <1>3, <2>1, <2>2, <2>3, <2>4
  <2>5. CASE ~(s.to = t /\ s.msg \in queue[t])
    BY <1>3, <2>1, <2>2, <2>5
  <2>6. QED
    BY <2>4, <2>5
<1>8. QED
  BY <1>1, <1>4, <1>5, <1>6, <1>7 DEF MessageInv, Phase

-----------------------------------------------------------------------------
(* The messages and the flushes *)

\* no step of a flush brings a snapshot that was not there
LEMMA SnapshotsComeFrom ==
  ASSUME HubInv, NEW f \in Flush, NEW f2, NEW other, NEW rest \in {Quiet, Ended(f)},
         OpensTmp(f, f2) \/ WritesTmp(f, f2) \/ RenamesTmp(f, f2, other, rest) \/ FlushFails(f, f2, rest)
  PROVE  /\ f2.snap \in {f.snap, Nothing}
         /\ \A i \in Inode : data'[i].snap \in {data[i].snap, f.snap, Nothing}
         /\ f.pc \in {"opening", "writing", "renaming"}
<1>1. Quiet.snap = Nothing /\ Ended(f).snap = f.snap
  <2>1. Quiet.snap = Nothing
    BY DEF Quiet
  <2>2. Ended(f).snap = f.snap
    BY DEF Ended, Quiet
  <2>3. QED
    BY <2>1, <2>2
<1>2. Empty.snap = Nothing /\ Garbled.snap = Nothing /\ Whole(f.snap).snap = f.snap
  BY DEF Empty, Garbled, Whole
<1>3. DOMAIN data = Inode
  BY DEF HubInv, Stored
<1>4. CASE OpensTmp(f, f2)
  <2>1. PICK i : f2 = [f EXCEPT !.pc = "writing", !.inode = i] /\ data' = [data EXCEPT ![i] = Empty]
    BY <1>4 DEF OpensTmp
  <2>2. f2.snap = f.snap /\ \A j \in Inode : data'[j] \in {data[j], Empty}
    BY <1>3, <2>1 DEF Flush
  <2>3. \A j \in Inode : data'[j].snap \in {data[j].snap, Nothing}
    BY <1>2, <2>2
  <2>4. QED
    BY <1>4, <2>2, <2>3 DEF OpensTmp
<1>5. CASE WritesTmp(f, f2)
  <2>1. PICK now \in {Whole(f.snap), Garbled} : data' = [data EXCEPT ![f.inode] = now]
    BY <1>5 DEF WritesTmp
  <2>2. \A i \in Inode : data'[i] \in {data[i], Whole(f.snap), Garbled}
    BY <1>3, <2>1
  <2>3. f2 = Quiet \/ f2 = [f EXCEPT !.pc = "renaming"]
    BY <1>5 DEF WritesTmp
  <2>4. f2.snap \in {f.snap, Nothing}
    BY <1>1, <2>3 DEF Flush
  <2>5. \A i \in Inode : data'[i].snap \in {data[i].snap, f.snap, Nothing}
    BY <1>2, <2>2
  <2>6. QED
    BY <1>5, <2>4, <2>5 DEF WritesTmp
<1>6. CASE RenamesTmp(f, f2, other, rest)
  BY <1>1, <1>6 DEF RenamesTmp
<1>7. CASE FlushFails(f, f2, rest)
  BY <1>1, <1>7 DEF FlushFails
<1>8. QED
  BY <1>4, <1>5, <1>6, <1>7

LEMMA PeriodicKeepsMessages ==
  ASSUME HubInv, MessageInv, PeriodicBegins \/ PeriodicStep
  PROVE  MessageInv'
<1>1. /\ UNCHANGED <<hub, live, revoked, expired, queue, sent, got, final, lapses>>
      /\ hub \in {"up", "stopping", "exiting", "down"} /\ periodic \in Flush
  BY DEF PeriodicBegins, PeriodicStep, TheRest, tokenVars, messageVars, MessageInv, MessagesTyped,
         HubInv, FlushesFine, Fine
<1>2. Known(queue)' /\ Known(periodic.snap.queue)' /\ \A i \in Inode : Known(data[i].snap.queue)'
  <2>1. CASE PeriodicBegins
    <3>1. periodic' = Taken(periodic) /\ UNCHANGED data
      BY <2>1 DEF PeriodicBegins
    <3>2. periodic'.snap.queue = queue
      BY <1>1, <3>1 DEF Taken, Flush
    <3>3. QED
      BY <1>1, <3>1, <3>2 DEF MessageInv, OnlySent, Known
  <2>2. CASE PeriodicStep
    <3>1. /\ periodic'.snap \in {periodic.snap, Nothing}
          /\ \A i \in Inode : data'[i].snap \in {data[i].snap, periodic.snap, Nothing}
      BY <1>1, <2>2, SnapshotsComeFrom DEF PeriodicStep
    <3>2. /\ periodic'.snap.queue \in {periodic.snap.queue, Nothing.queue}
          /\ \A i \in Inode : data'[i].snap.queue \in {data[i].snap.queue, periodic.snap.queue, Nothing.queue}
      BY <3>1
    <3>3. QED
      BY <1>1, <3>2, NothingIsKnown DEF MessageInv, OnlySent, Known
  <2>3. QED
    BY <2>1, <2>2
<1>3. MessagesTyped' /\ OnlySent'
  BY <1>1, <1>2 DEF MessageInv, MessagesTyped, OnlySent, Known
<1>4. hub = "up" \/ (periodic.pc # "idle" /\ hub # "down")
  <2>1. CASE PeriodicBegins
    BY <2>1 DEF PeriodicBegins
  <2>2. CASE PeriodicStep
    <3>1. periodic.pc \in {"opening", "writing", "renaming"}
      BY <1>1, <2>2, SnapshotsComeFrom DEF PeriodicStep
    <3>2. QED
      BY <3>1, NothingIsKnown DEF HubInv, FlushesFine
  <2>3. QED
    BY <2>1, <2>2
<1>5. hub \in {"stopping", "exiting"} => Excused
  BY <1>4 DEF MessageInv, Phase, FinalAlone
<1>6. Excused' = Excused /\ AtMost(1 + lapses, queue)' = AtMost(1 + lapses, queue)
      /\ AllThere(queue, live)' = AllThere(queue, live)
  BY <1>1 DEF Excused, AtMost, AllThere, Due
<1>7. Phase'
  BY <1>1, <1>4, <1>5, <1>6 DEF MessageInv, Phase
<1>8. QED
  BY <1>3, <1>7 DEF MessageInv

LEMMA LapsesGrow ==
  ASSUME NEW l \in Nat, NEW f \in Nat, NEW f2, f2 = f \/ f2 = f + 1
  PROVE  l + f2 - f = IF f2 = f THEN l ELSE l + 1
<1>1. CASE f2 = f
  BY <1>1
<1>2. CASE f2 = f + 1
  BY <1>2
<1>3. QED
  BY <1>1, <1>2

\* the final flush goes on, alone
LEMMA FinalStaysAlone ==
  ASSUME HubInv, FinalAlone, FinalStep, lapses' = lapses, lapses \in Nat
  PROVE  FinalAlone'
<1>1. final \in Flush /\ final.snap \in Snapshot /\ UNCHANGED <<periodic, queue, live>> /\ failures' = failures
  <2>1. failures' \in {failures, failures + 1} /\ failures \in Nat
    BY DEF FinalStep, OpensTmp, WritesTmp, RenamesTmp, FlushFails, Fails, HubInv, TokensFine
  <2>2. failures' = failures
    <3>1. lapses' = lapses + failures' - failures
      BY DEF FinalStep
    <3>2. lapses # lapses + 1
      OBVIOUS
    <3>3. QED
      BY <2>1, <3>1, <3>2, LapsesGrow
  <2>3. QED
    BY <2>2 DEF FinalStep, TheRest, tokenVars, messageVars, HubInv, FlushesFine, Fine, Flush
<1>2. disk \in [json : {0} \union Inode, tmp : {0} \union Inode] /\ DOMAIN data = Inode /\ 0 \notin Inode
  BY DEF HubInv, Stored, Inode
<1>3. CASE OpensTmp(final, final')
  <2>1. PICK i : /\ i = IF disk.tmp = 0 THEN FreeInode ELSE disk.tmp
                 /\ disk' = [disk EXCEPT !.tmp = i] /\ data' = [data EXCEPT ![i] = Empty]
                 /\ final' = [final EXCEPT !.pc = "writing", !.inode = i]
    BY <1>3 DEF OpensTmp
  <2>2. i \in Inode
    BY <1>2, <2>1, FreeIs
  <2>3. disk'.tmp = i /\ data'[i] = Empty
    BY <1>2, <2>1, <2>2
  <2>4. final'.pc = "writing" /\ final'.inode = i /\ final'.cancelled = final.cancelled /\ final'.snap = final.snap
    BY <1>1, <2>1 DEF Flush
  <2>5. QED
    BY <1>1, <1>2, <2>2, <2>3, <2>4 DEF FinalAlone
<1>4. CASE WritesTmp(final, final')
  <2>1. final.pc = "writing" /\ final.inode = disk.tmp /\ disk.tmp # 0 /\ data[disk.tmp] = Empty
    BY <1>4 DEF WritesTmp, FinalAlone
  <2>2. data' = [data EXCEPT ![disk.tmp] = Whole(final.snap)] /\ disk' = disk
        /\ final' = [final EXCEPT !.pc = "renaming"]
    BY <1>4, <2>1 DEF WritesTmp, FinalAlone
  <2>3. disk.tmp \in Inode
    BY <1>2, <2>1
  <2>4. final'.pc = "renaming" /\ final'.cancelled = final.cancelled /\ final'.snap = final.snap
    BY <1>1, <2>2 DEF Flush
  <2>5. data'[disk.tmp] = Whole(final.snap)
    BY <1>2, <2>2, <2>3
  <2>6. QED
    BY <1>1, <2>1, <2>2, <2>4, <2>5 DEF FinalAlone
<1>5. CASE RenamesTmp(final, final', periodic, Ended(final))
  <2>1. disk.tmp # 0 /\ data[disk.tmp] = Whole(final.snap)
    BY <1>5 DEF RenamesTmp, FinalAlone
  <2>2. disk' = [json |-> disk.tmp, tmp |-> 0] /\ data' = data /\ final' = Ended(final)
    BY <1>5, <2>1 DEF RenamesTmp
  <2>3. final'.pc = "ended" /\ final'.snap = final.snap /\ ~final'.cancelled
    BY <2>2 DEF Ended, Quiet
  <2>4. disk'.json = disk.tmp
    BY <2>2
  <2>5. QED
    BY <1>1, <2>1, <2>2, <2>3, <2>4 DEF FinalAlone
<1>6. ~FlushFails(final, final', Ended(final))
  <2>1. failures \in Nat
    BY DEF HubInv, TokensFine
  <2>2. QED
    BY <1>1, <2>1 DEF FlushFails, Fails
<1>7. QED
  BY <1>3, <1>4, <1>5, <1>6 DEF FinalStep

LEMMA FinalKeepsMessages ==
  ASSUME HubInv, MessageInv, FinalStep
  PROVE  MessageInv'
<1>1. /\ UNCHANGED <<hub, live, revoked, expired, queue, sent, got, periodic>>
      /\ hub \in {"up", "stopping", "exiting", "down"} /\ final \in Flush /\ lapses \in Nat
  BY DEF FinalStep, TheRest, tokenVars, messageVars, MessageInv, MessagesTyped, HubInv, FlushesFine, Fine
<1>2. lapses' = lapses \/ lapses' = lapses + 1
  <2>1. failures' \in {failures, failures + 1} /\ failures \in Nat
    BY DEF FinalStep, OpensTmp, WritesTmp, RenamesTmp, FlushFails, Fails, HubInv, TokensFine
  <2>2. lapses' = lapses + failures' - failures
    BY DEF FinalStep
  <2>3. QED
    BY <1>1, <2>1, <2>2, LapsesGrow
<1>3. /\ final'.snap \in {final.snap, Nothing}
      /\ \A i \in Inode : data'[i].snap \in {data[i].snap, final.snap, Nothing}
      /\ final.pc \in {"opening", "writing", "renaming"}
  BY <1>1, SnapshotsComeFrom DEF FinalStep
<1>4. OnlySent'
  <2>1. /\ final'.snap.queue \in {final.snap.queue, Nothing.queue}
        /\ \A i \in Inode : data'[i].snap.queue \in {data[i].snap.queue, final.snap.queue, Nothing.queue}
    BY <1>3
  <2>2. QED
    BY <1>1, <2>1, NothingIsKnown DEF MessageInv, OnlySent, Known
<1>5. MessagesTyped'
  BY <1>1, <1>2 DEF MessageInv, MessagesTyped
<1>6. hub = "exiting"
  BY <1>1, <1>3, NothingIsKnown DEF MessageInv, Phase, HubInv, FlushesFine
<1>7. AtMost(1 + lapses, queue) /\ (lapses = 0 => AllThere(queue, live)) /\ (FinalAlone \/ Excused)
  BY <1>6 DEF MessageInv, Phase
<1>8. \A t \in Credential, m \in Message : got[t][m] \in Nat
  BY DEF MessageInv, MessagesTyped
<1>9. AtMost(1 + lapses, queue)' /\ (lapses' = 0 => AllThere(queue, live)')
  BY <1>1, <1>2, <1>7, <1>8 DEF AtMost, AllThere, Due
<1>10. FinalAlone' \/ Excused'
  <2>1. CASE lapses' = lapses
    <3>1. Excused => Excused'
      BY <1>1, <2>1 DEF Excused, AtMost
    <3>2. FinalAlone => FinalAlone'
      BY <1>1, <2>1, FinalStaysAlone
    <3>3. QED
      BY <1>7, <3>1, <3>2
  <2>2. CASE lapses' = lapses + 1
    BY <1>1, <1>7, <2>2 DEF Excused, AtMost
  <2>3. QED
    BY <1>2, <2>1, <2>2
<1>11. QED
  BY <1>1, <1>4, <1>5, <1>6, <1>9, <1>10 DEF MessageInv, Phase

-----------------------------------------------------------------------------
(* The messages and the hub's life *)

LEMMA ShutdownKeepsMessages ==
  ASSUME HubInv, MessageInv, ShutdownBegins
  PROVE  MessageInv'
<1>1. /\ UNCHANGED <<live, revoked, expired, queue, sent, got, final, disk, data>>
      /\ hub = "up" /\ hub' = "stopping" /\ lapses \in Nat
      /\ lapses' = IF periodic.pc = "idle" THEN lapses ELSE lapses + 1
  BY DEF ShutdownBegins, Restarting, MessageInv, MessagesTyped
<1>2. periodic' = Quiet \/ periodic' = [periodic EXCEPT !.cancelled = TRUE]
  BY DEF ShutdownBegins
<1>3. periodic.pc = "idle" => periodic' = Quiet
  BY DEF ShutdownBegins
<1>4. periodic'.snap.queue \in {periodic.snap.queue, Quiet.snap.queue}
  BY <1>2 DEF HubInv, FlushesFine, Fine, Flush
<1>5. MessagesTyped' /\ OnlySent'
  BY <1>1, <1>4, NothingIsKnown DEF MessageInv, MessagesTyped, OnlySent, Known
<1>6. AtMost(1 + lapses, queue) /\ (lapses = 0 => AllThere(queue, live))
      /\ \A t \in Credential, m \in Message : got[t][m] \in Nat
  BY <1>1 DEF MessageInv, MessagesTyped, Phase
<1>7. AtMost(1 + lapses, queue)' /\ (lapses' = 0 => AllThere(queue, live)')
  BY <1>1, <1>6 DEF AtMost, AllThere, Due
<1>8. periodic'.pc = "idle" \/ Excused'
  <2>1. CASE periodic.pc = "idle"
    BY <1>3, <2>1, NothingIsKnown
  <2>2. CASE periodic.pc # "idle"
    BY <1>1, <1>6, <2>2 DEF Excused, AtMost
  <2>3. QED
    BY <2>1, <2>2
<1>9. QED
  BY <1>1, <1>5, <1>7, <1>8 DEF MessageInv, Phase

LEMMA FinalBeginsKeepsMessages ==
  ASSUME HubInv, MessageInv, FinalBegins
  PROVE  MessageInv'
<1>1. /\ UNCHANGED <<live, revoked, expired, queue, sent, got, periodic, disk, data, lapses>>
      /\ hub = "stopping" /\ hub' = "exiting" /\ final' = Taken(final) /\ final = Quiet
  BY DEF FinalBegins, Restarting, MessageInv, Phase
<1>2. final'.snap.queue = queue /\ final'.snap.live = live /\ ~final'.cancelled /\ final'.pc = "opening"
  <2>1. Quiet \in Flush
    BY NothingIs
  <2>2. Taken(Quiet).snap.queue = queue
    BY <2>1 DEF Taken, Flush
  <2>3. QED
    BY <1>1, <2>1, <2>2, TakenIs, NothingIsKnown
<1>3. MessagesTyped' /\ OnlySent'
  BY <1>1, <1>2 DEF MessageInv, MessagesTyped, OnlySent, Known
<1>4. FinalAlone' \/ Excused'
  BY <1>1, <1>2 DEF MessageInv, Phase, FinalAlone, Excused, AtMost
<1>5. AtMost(1 + lapses, queue)' /\ (lapses' = 0 => AllThere(queue, live)')
  BY <1>1 DEF MessageInv, Phase, AtMost, AllThere, Due
<1>6. QED
  BY <1>1, <1>3, <1>4, <1>5 DEF MessageInv, Phase

LEMMA EndKeepsMessages ==
  ASSUME HubInv, MessageInv, Exit \/ HubCrash
  PROVE  MessageInv'
<1>1. /\ UNCHANGED <<revoked, expired, sent, got, disk, data>>
      /\ hub # "down" /\ hub' = "down" /\ live' = {} /\ queue' = NoMessages
      /\ periodic' = Quiet /\ final' = Quiet
  BY DEF Exit, HubCrash, Forgotten, Restarting
<1>2. lapses \in Nat /\ \A t \in Credential, m \in Message : got[t][m] \in Nat
  BY DEF MessageInv, MessagesTyped
<1>3. lapses' \in Nat /\ (HubCrash => lapses' = lapses + 1) /\ (Exit => lapses' = lapses)
  BY <1>2 DEF Exit, HubCrash
<1>4. MessagesTyped' /\ OnlySent'
  BY <1>1, <1>3, NothingIsKnown DEF MessageInv, MessagesTyped, OnlySent, Known
<1>5. Read' = Read
  BY <1>1 DEF Read
<1>6. AtMost(1 + lapses, queue) /\ (lapses = 0 => AllThere(queue, live))
  BY <1>1 DEF MessageInv, Phase
<1>7. AtMost(1 + lapses, Read.queue)' /\ (lapses' = 0 => AllThere(Read.queue, Read.live)')
  <2>1. CASE HubCrash
    BY <1>1, <1>2, <1>3, <1>5, <1>6, <2>1 DEF AtMost
  <2>2. CASE Exit /\ Excused
    BY <1>1, <1>2, <1>3, <1>5, <2>2 DEF Excused, AtMost
  <2>3. CASE Exit /\ ~Excused
    <3>1. FinalAlone /\ final.pc = "ended"
      BY <2>3 DEF Exit, MessageInv, Phase
    <3>2. disk.json # 0 /\ data[disk.json] = Whole(final.snap) /\ final.snap.queue = queue /\ final.snap.live = live
      BY <3>1 DEF FinalAlone
    <3>3. Read.queue = queue /\ Read.live = live
      BY <3>2 DEF Read, Whole
    <3>4. QED
      BY <1>1, <1>3, <1>5, <1>6, <2>3, <3>3 DEF AtMost, AllThere, Due
  <2>4. QED
    BY <2>1, <2>2, <2>3
<1>8. QED
  BY <1>1, <1>4, <1>7 DEF MessageInv, Phase

LEMMA StartKeepsMessages ==
  ASSUME HubInv, MessageInv, HubStarts
  PROVE  MessageInv'
<1>1. /\ UNCHANGED <<revoked, expired, sent, got, disk, data, periodic, final, lapses>>
      /\ hub = "down" /\ hub' = "up" /\ live' = RestoredTokens
      /\ queue' = [t \in Credential |-> IF t \in RestoredTokens THEN Read.queue[t] ELSE {}]
  BY DEF HubStarts, Restarting
<1>2. Known(Read.queue)
  <2>1. CASE disk.json = 0
    BY <2>1, NothingIsKnown DEF Read
  <2>2. CASE disk.json # 0
    BY <2>2 DEF Read, MessageInv, OnlySent, HubInv, Stored
  <2>3. QED
    BY <2>1, <2>2
<1>3. MessagesTyped' /\ OnlySent'
  BY <1>1, <1>2 DEF MessageInv, MessagesTyped, OnlySent, Known
<1>4. AtMost(1 + lapses, Read.queue) /\ (lapses = 0 => AllThere(Read.queue, Read.live))
      /\ final = Quiet
  BY <1>1 DEF MessageInv, Phase, HubInv, FlushesFine
<1>5. AtMost(1 + lapses, queue)'
  BY <1>1, <1>4 DEF AtMost
<1>6. lapses = 0 => AllThere(queue, live)'
  <2> SUFFICES ASSUME lapses = 0, NEW s \in sent, Due(s)
               PROVE  s.to \in live' /\ (s.msg \in queue'[s.to] \/ got[s.to][s.msg] = 1)
    BY <1>1 DEF AllThere, Due
  <2>1. s.to \in Read.live /\ (s.msg \in Read.queue[s.to] \/ got[s.to][s.msg] = 1) /\ s.to \in Credential
    BY <1>4 DEF AllThere, MessageInv, MessagesTyped, Credential
  <2>2. s.to \in RestoredTokens
    BY <2>1 DEF RestoredTokens, Due
  <2>3. QED
    BY <1>1, <2>1, <2>2
<1>7. QED
  BY <1>1, <1>3, <1>4, <1>5, <1>6 DEF MessageInv, Phase

-----------------------------------------------------------------------------
LEMMA NextKeepsMessages == HubInv /\ MessageInv /\ [HubStateNext]_hubStateVars => MessageInv'
<1> SUFFICES ASSUME HubInv, MessageInv, [HubStateNext]_hubStateVars PROVE MessageInv'
  OBVIOUS
<1>1. CASE UNCHANGED hubStateVars
  BY <1>1, TokenStepKeeps DEF hubStateVars, tokenVars, flushVars, boundVars
<1>2. ASSUME NEW t \in Credential, Issue(t) \/ Revoke(t) \/ Expires(t) \/ Sweep(t) PROVE MessageInv'
  BY <1>2, TokenStepKeeps DEF Issue, Revoke, Expires, Sweep, Tokens, Works, flushVars
<1>3. ASSUME NEW t \in Credential, GetMessages(t) PROVE MessageInv'
  BY <1>3, GetMessagesKeeps
<1>4. ASSUME NEW t \in Credential, NEW m \in Message, Route(t, m) PROVE MessageInv'
  BY <1>4, RouteKeeps
<1>5. ASSUME NEW l \in Loop, StartLoop(l) \/ DispatchChild(l) \/ ChildEnds(l) \/ BridgePersists(l)
      PROVE MessageInv'
  BY <1>5, TokenStepKeeps DEF StartLoop, DispatchChild, ChildEnds, BridgePersists, Loops, tokenVars, flushVars, boundVars
<1>6. CASE PeriodicBegins \/ PeriodicStep \/ FinalStep
  BY <1>6, PeriodicKeepsMessages, FinalKeepsMessages
<1>7. CASE ShutdownBegins \/ FinalBegins \/ Exit \/ HubCrash \/ HubStarts
  BY <1>7, ShutdownKeepsMessages, FinalBeginsKeepsMessages, EndKeepsMessages, StartKeepsMessages
<1>8. QED
  BY <1>1, <1>2, <1>3, <1>4, <1>5, <1>6, <1>7 DEF HubStateNext

(* For any tokens, messages, crashes and overlapping or failing flushes: a  *)
(* message is handed to a token once, once more at most for every end of    *)
(* the hub without a final flush of its own, and without such an end it is  *)
(* never lost to a token that is valid.                                     *)
THEOREM MessagesArriveOnce == HubStateSpec => []MessagesOnce
<1>1. MessageInv => MessagesOnce
  <2> SUFFICES ASSUME MessageInv, NEW s \in sent
               PROVE  /\ got[s.to][s.msg] <= 1 + lapses
                      /\ (hub = "up" /\ lapses = 0 /\ s.to \notin revoked \union expired)
                             => s.msg \in queue[s.to] \/ got[s.to][s.msg] = 1
    BY DEF MessagesOnce
  <2>1. s.to \in Credential /\ s.msg \in Message /\ hub \in {"up", "stopping", "exiting", "down"}
    BY DEF MessageInv, MessagesTyped, Credential
  <2>2. got[s.to][s.msg] <= 1 + lapses
    BY <2>1 DEF MessageInv, Phase, AtMost
  <2>3. QED
    BY <2>2 DEF MessageInv, Phase, AllThere, Due
<1>2. HubInv /\ MessageInv /\ [HubStateNext]_hubStateVars => HubInv' /\ MessageInv'
  BY NextKeepsHubInv, NextKeepsMessages
<1>3. QED
  BY <1>1, <1>2, InitHubInv, InitMessageInv, PTL DEF HubStateSpec

(* Tokens and messages outlive the ends of the hub, as the two theorems say. *)
THEOREM HubOutlivesItsEnds == HubStateSpec => []EndsAreOutlived
<1>1. TokensSurvive /\ MessagesOnce => EndsAreOutlived
  BY DEF EndsAreOutlived
<1>2. QED
  BY <1>1, TokensDoSurvive, MessagesArriveOnce, PTL

-----------------------------------------------------------------------------
(***************************************************************************)
(* The inbox                                                               *)
(***************************************************************************)

Batches == [pc : {"idle", "extract", "items", "drop", "ledger", "unspool", "dispose"},
            batch : SUBSET Record, bad : SUBSET Item, good : SUBSET Item, at : SUBSET Item]
Authors == [owner : BOOLEAN, item : [File -> Item], refused : SUBSET File, furniture : SUBSET File]

\* records are of the content of their file
RecordsTrue(R) == \A r \in R : r \in Record /\ ItemOf[r.file] = r.item

\* what stands in the ledger was filed, and what a job has read of it
ReadRight == \A i \in ledger \union drain.known \union requeue.known : i \in Item /\ filed[i] > 0

\* what apply has before it, and how far it is with it
ApplyRight ==
  /\ apply.good \subseteq Items /\ apply.bad \subseteq Items /\ apply.at \subseteq Items
  /\ \A i, j \in apply.at : i = j
  /\ apply.pc \in {"idle", "extract"} => apply.good = {} /\ apply.bad = {} /\ apply.at = {}
  /\ apply.pc = "items" => apply.at = {}
  /\ apply.pc = "drop" => apply.at \subseteq apply.bad
  /\ apply.pc \in {"ledger", "unspool", "dispose"} =>
       apply.at \subseteq apply.good /\ \A i \in apply.at : filed[i] > 0
  /\ \A i \in Items : i \in ledger =>
       i \notin apply.good \/ (i \in apply.at /\ apply.pc \in {"unspool", "dispose"})
  /\ apply.pc = "extract" => Items \intersect ledger = {}

\* a write is in the ledger, about to be, or in doubt
Noted(i) == i \in ledger \/ (apply.pc = "ledger" /\ i \in apply.at)
Counted == \A i \in Item : filed[i] <= doubt[i] + (IF Noted(i) THEN 1 ELSE 0)

InboxTyped ==
  /\ author \in Author /\ place \in [File -> Folder] /\ ledger \subseteq Item
  /\ filed \in [Item -> Nat] /\ doubt \in [Item -> Nat]
  /\ drain \in Run /\ requeue \in Run /\ apply \in Batches

InboxInv ==
  /\ InboxTyped /\ RecordsTrue(spool) /\ RecordsTrue(apply.batch)
  /\ ReadRight /\ ApplyRight /\ Counted /\ NothingLost

LEMMA CountStays ==
  ASSUME InboxInv, filed' = filed, doubt' = doubt, \A i \in Item : Noted(i) => Noted(i)'
  PROVE  Counted'
<1>1. SUFFICES ASSUME NEW i \in Item
               PROVE  filed'[i] <= doubt'[i] + (IF Noted(i)' THEN 1 ELSE 0)
  BY DEF Counted
<1>2. PICK n \in {0, 1}, m \in {0, 1} : n = (IF Noted(i) THEN 1 ELSE 0) /\ m = (IF Noted(i)' THEN 1 ELSE 0)
  OBVIOUS
<1>3. n <= m
  BY <1>2
<1>4. filed[i] \in Nat /\ doubt[i] \in Nat /\ filed[i] <= doubt[i] + n
  BY <1>2 DEF InboxInv, InboxTyped, Counted
<1>5. QED
  BY <1>2, <1>3, <1>4

LEMMA AuthorIs ==
  ASSUME author \in Author
  PROVE  author \in Authors /\ \A f \in File : ItemOf[f] \in Item
<1>1. author \in Authors
  BY InboxAssumption DEF Authors
<1>2. QED
  BY <1>1 DEF ItemOf, Authors

-----------------------------------------------------------------------------
(* What Drive holds *)

LEMMA MoveLosesNothing ==
  ASSUME InboxInv, NEW f \in File, NEW from, NEW to \in Folder \ {"complete"}, Move(f, from, to),
         UNCHANGED <<author, filed>>
  PROVE  place' \in [File -> Folder] /\ NothingLost'
<1>1. place' = [place EXCEPT ![f] = to] /\ trashed' = trashed
  BY DEF Move
<1>2. place' \in [File -> Folder] /\ \A g \in File : place'[g] = "complete" => place[g] = "complete"
  BY <1>1 DEF InboxInv, InboxTyped
<1>3. QED
  BY <1>1, <1>2 DEF InboxInv, NothingLost, ItemOf

LEMMA DisposalLosesNothing ==
  ASSUME InboxInv, NEW f \in File, filed[ItemOf[f]] > 0, Dispose(f), UNCHANGED <<author, filed>>
  PROVE  place' \in [File -> Folder] /\ NothingLost'
<1>1. \/ trashed' = trashed \union {f} /\ UNCHANGED place
      \/ place' = [place EXCEPT ![f] = "complete"] /\ UNCHANGED trashed
  BY DEF Dispose
<1>2. "complete" \in Folder
  BY DEF Folder
<1>3. place' \in [File -> Folder]
      /\ \A g \in File \ {f} : place'[g] = place[g] /\ (g \in trashed' => g \in trashed)
  BY <1>1, <1>2 DEF InboxInv, InboxTyped
<1>4. QED
  BY <1>3 DEF InboxInv, NothingLost, ItemOf

LEMMA StandingLosesNothing ==
  ASSUME InboxInv, UNCHANGED <<author, place, trashed>>,
         \A i \in Item : filed[i] > 0 => filed'[i] > 0
  PROVE  place' \in [File -> Folder] /\ NothingLost'
<1>1. \A f \in File : ItemOf[f] \in Item
  BY AuthorIs DEF InboxInv, InboxTyped
<1>2. QED
  BY <1>1 DEF InboxInv, InboxTyped, NothingLost, ItemOf

-----------------------------------------------------------------------------
(* The drain and the requeue *)

\* what they leave alone stays right
LEMMA ApplyStays ==
  ASSUME InboxInv, UNCHANGED <<author, ledgerVars, apply>>, place' \in [File -> Folder], NothingLost',
         drain' \in Run, requeue' \in Run,
         drain'.known \subseteq drain.known \union ledger,
         requeue'.known \subseteq requeue.known \union ledger, RecordsTrue(spool')
  PROVE  InboxInv'
<1>1. InboxTyped'
  BY DEF InboxInv, InboxTyped, ledgerVars
<1>2. RecordsTrue(spool)' /\ RecordsTrue(apply.batch)'
  BY DEF InboxInv, RecordsTrue, ItemOf
<1>3. ReadRight'
  BY DEF InboxInv, ReadRight, ledgerVars
<1>4. ApplyRight' /\ Counted'
  BY DEF InboxInv, ApplyRight, Counted, Noted, Items, ledgerVars
<1>5. QED
  BY <1>1, <1>2, <1>3, <1>4 DEF InboxInv

LEMMA RestingIs == Resting \in Run /\ Resting.known = {}
BY DEF Resting, Run

LEMMA ListedAreFiles == \A folder : Listed(folder) \subseteq File /\ Page(Listed(folder)) \subseteq File
BY DEF Listed, Page

LEMMA DrainKeeps ==
  ASSUME InboxInv, DrainStep
  PROVE  InboxInv'
<1> DEFINE Reads == drain' \in Run /\ drain'.known \subseteq drain.known \union ledger
<1> DEFINE Stands == place' \in [File -> Folder] /\ NothingLost'
<1>1. drain \in Run /\ requeue \in Run /\ ledger \subseteq Item
  BY DEF InboxInv, InboxTyped
<1>2. ASSUME UNCHANGED <<author, ledgerVars, requeue, apply>>, Reads, Stands, RecordsTrue(spool')
      PROVE  InboxInv'
  BY <1>1, <1>2, ApplyStays
<1>3. UNCHANGED <<author, driveVars, filed>> => Stands
  BY StandingLosesNothing DEF driveVars
<1>4. UNCHANGED spoolVars => RecordsTrue(spool')
  BY DEF InboxInv, RecordsTrue, spoolVars
<1>5. ASSUME NEW pc \in {"idle", "listing", "files", "moving"}, NEW f, drain' = [drain EXCEPT !.pc = pc, !.todo = @ \ {f}]
      PROVE  Reads
  <2>1. drain.todo \ {f} \in SUBSET File
    BY <1>1 DEF Run
  <2>2. QED
    BY <1>1, <1>5, <2>1 DEF Run
<1>6. CASE DrainStarts
  <2>1. drain' = [drain EXCEPT !.pc = "listing", !.known = ledger]
    BY <1>6 DEF DrainStarts
  <2>2. Reads
    BY <1>1, <2>1 DEF Run
  <2>3. QED
    BY <1>2, <1>3, <1>4, <1>6, <2>2 DEF DrainStarts, Env, ledgerVars
<1>7. CASE DrainLists
  <2>1. PICK S \in SUBSET File : S = Page(Listed("inbox"))
    BY ListedAreFiles
  <2>2. drain' = [drain EXCEPT !.pc = "files", !.todo = S]
    BY <1>7, <2>1 DEF DrainLists
  <2>3. Reads
    BY <1>1, <2>2 DEF Run
  <2>4. QED
    BY <1>2, <1>3, <1>4, <1>7, <2>3 DEF DrainLists, Env, ledgerVars
<1>8. CASE DrainEnds \/ DrainDies
  <2>1. drain' = Resting /\ UNCHANGED <<Env, driveVars, spoolVars, ledgerVars, requeue, apply>>
    BY <1>8 DEF DrainEnds, DrainDies
  <2>2. QED
    BY <1>2, <1>3, <1>4, <2>1, RestingIs DEF Env, ledgerVars
<1>9. ASSUME NEW f \in File, DrainSkips(f)
      PROVE  InboxInv'
  <2>1. Reads
    BY <1>5, <1>9 DEF DrainSkips, DrainNext
  <2>2. QED
    BY <1>2, <1>3, <1>4, <1>9, <2>1 DEF DrainSkips, Env, ledgerVars
<1>10. ASSUME NEW f \in File, DrainRejects(f)
       PROVE  InboxInv'
  <2>1. Reads
    BY <1>5, <1>10 DEF DrainRejects, DrainNext
  <2>2. "rejected" \in Folder \ {"complete"}
    BY DEF Folder
  <2>3. UNCHANGED <<Env, spoolVars, ledgerVars, requeue, apply>> /\ Move(f, "inbox", "rejected")
    BY <1>10 DEF DrainRejects
  <2>4. Stands
    BY <2>2, <2>3, MoveLosesNothing DEF Env, ledgerVars
  <2>5. QED
    BY <1>2, <1>4, <2>1, <2>3, <2>4 DEF Env
<1>11. ASSUME NEW f \in File, DrainDisposes(f)
       PROVE  InboxInv'
  <2>1. Reads
    BY <1>5, <1>11 DEF DrainDisposes, DrainNext
  <2>2. UNCHANGED <<Env, spoolVars, ledgerVars, requeue, apply>> /\ Dispose(f)
    BY <1>11 DEF DrainDisposes
  <2>3. filed[ItemOf[f]] > 0
    BY <1>11 DEF DrainDisposes, InboxInv, ReadRight
  <2>4. Stands
    BY <2>2, <2>3, DisposalLosesNothing DEF Env, ledgerVars
  <2>5. QED
    BY <1>2, <1>4, <2>1, <2>2, <2>4 DEF Env
<1>12. ASSUME NEW f \in File, DrainSpools(f)
       PROVE  InboxInv'
  <2>1. drain' = [drain EXCEPT !.pc = "moving"] /\ UNCHANGED <<Env, driveVars, ledgerVars, requeue, apply>>
    BY <1>12 DEF DrainSpools
  <2>2. Reads
    BY <1>1, <2>1 DEF Run
  <2>3. PICK r \in Record : r = [item |-> ItemOf[f], file |-> f]
    BY AuthorIs DEF Record, InboxInv, InboxTyped
  <2>4. spool' = (spool \ Pending(ItemOf[f])) \union {r} /\ r.item = ItemOf[f] /\ r.file = f
    BY <1>12, <2>3 DEF DrainSpools, WriteSpool
  <2>5. RecordsTrue(spool')
    BY <2>1, <2>4 DEF InboxInv, RecordsTrue
  <2>6. QED
    BY <1>2, <1>3, <2>1, <2>2, <2>5 DEF Env, ledgerVars
<1>13. CASE DrainMoves
  <2>1. PICK f : f = Oldest(drain.todo)
    OBVIOUS
  <2>2. UNCHANGED <<Env, spoolVars, ledgerVars, requeue, apply>>
    BY <1>13 DEF DrainMoves
  <2>3. CASE Move(f, "inbox", "processing") /\ DrainNext(f, "files")
    <3>1. Reads
      BY <1>5, <2>3 DEF DrainNext
    <3>2. "processing" \in Folder \ {"complete"}
      BY DEF Folder
    <3>3. Stands
      <4>1. CASE f \in File
        BY <2>2, <2>3, <3>2, <4>1, MoveLosesNothing DEF Env, ledgerVars
      <4>2. CASE f \notin File
        <5>1. place' = place /\ trashed' = trashed
          BY <2>3, <4>2 DEF Move, InboxInv, InboxTyped
        <5>2. QED
          BY <2>2, <5>1, StandingLosesNothing DEF Env, ledgerVars
      <4>3. QED
        BY <4>1, <4>2
    <3>4. QED
      BY <1>2, <1>4, <2>2, <3>1, <3>3 DEF Env
  <2>4. CASE drain' = Resting /\ UNCHANGED driveVars
    BY <1>2, <1>3, <1>4, <2>2, <2>4, RestingIs DEF Env, ledgerVars
  <2>5. QED
    BY <1>13, <2>1, <2>3, <2>4 DEF DrainMoves
<1>14. QED
  BY <1>6, <1>7, <1>8, <1>9, <1>10, <1>11, <1>12, <1>13 DEF DrainStep

LEMMA RequeueKeeps ==
  ASSUME InboxInv, RequeueStep
  PROVE  InboxInv'
<1> DEFINE Reads == requeue' \in Run /\ requeue'.known \subseteq requeue.known \union ledger
<1> DEFINE Stands == place' \in [File -> Folder] /\ NothingLost'
<1>1. drain \in Run /\ requeue \in Run /\ ledger \subseteq Item
  BY DEF InboxInv, InboxTyped
<1>2. ASSUME UNCHANGED <<author, spoolVars, ledgerVars, drain, apply>>, Reads, Stands
      PROVE  InboxInv'
  <2>1. RecordsTrue(spool')
    BY <1>2 DEF InboxInv, RecordsTrue, spoolVars
  <2>2. QED
    BY <1>1, <1>2, <2>1, ApplyStays
<1>3. UNCHANGED <<author, driveVars, filed>> => Stands
  BY StandingLosesNothing DEF driveVars
<1>4. ASSUME requeue' = Resting
      PROVE  Reads
  BY <1>4, RestingIs
<1>5. ASSUME NEW f, RequeueNext(f)
      PROVE  Reads
  <2>1. CASE requeue.todo = {f}
    BY <1>4, <1>5, <2>1 DEF RequeueNext
  <2>2. CASE requeue.todo # {f}
    <3>1. requeue' = [requeue EXCEPT !.todo = requeue.todo \ {f}]
      BY <1>5, <2>2 DEF RequeueNext
    <3>2. requeue.todo \ {f} \in SUBSET File
      BY <1>1 DEF Run
    <3>3. QED
      BY <1>1, <3>1, <3>2 DEF Run
  <2>3. QED
    BY <2>1, <2>2
<1>6. CASE RequeueStarts
  <2>1. requeue' = [requeue EXCEPT !.pc = "listing", !.known = ledger]
    BY <1>6 DEF RequeueStarts
  <2>2. Reads
    BY <1>1, <2>1 DEF Run
  <2>3. QED
    BY <1>2, <1>3, <1>6, <2>2 DEF RequeueStarts, Env, ledgerVars
<1>7. CASE RequeueLists
  <2>1. PICK S \in SUBSET File : S = Listed("processing") \intersect old
    BY ListedAreFiles
  <2>2. requeue' = Resting \/ requeue' = [requeue EXCEPT !.pc = "files", !.todo = S]
    BY <1>7, <2>1 DEF RequeueLists
  <2>3. Reads
    <3>1. CASE requeue' = Resting
      BY <1>4, <3>1
    <3>2. CASE requeue' = [requeue EXCEPT !.pc = "files", !.todo = S]
      BY <1>1, <3>2 DEF Run
    <3>3. QED
      BY <2>2, <3>1, <3>2
  <2>4. QED
    BY <1>2, <1>3, <1>7, <2>3 DEF RequeueLists, Env, ledgerVars
<1>8. CASE RequeueDies
  BY <1>2, <1>3, <1>4, <1>8 DEF RequeueDies, Env, ledgerVars
<1>9. ASSUME NEW f \in File, RequeueSkips(f)
      PROVE  InboxInv'
  <2>1. Reads
    BY <1>5, <1>9 DEF RequeueSkips
  <2>2. QED
    BY <1>2, <1>3, <1>9, <2>1 DEF RequeueSkips, Env, ledgerVars
<1>10. ASSUME NEW f \in File, Requeues(f)
       PROVE  InboxInv'
  <2>1. UNCHANGED <<Env, spoolVars, ledgerVars, drain, apply>>
    BY <1>10 DEF Requeues
  <2>2. CASE ItemOf[f] \in requeue.known /\ Dispose(f) /\ RequeueNext(f)
    <3>1. filed[ItemOf[f]] > 0
      BY <2>2 DEF InboxInv, ReadRight
    <3>2. Stands
      BY <2>1, <2>2, <3>1, DisposalLosesNothing DEF Env, ledgerVars
    <3>3. QED
      BY <1>2, <1>5, <2>1, <2>2, <3>2 DEF Env
  <2>3. CASE Move(f, "processing", "inbox") /\ RequeueNext(f)
    <3>1. "inbox" \in Folder \ {"complete"}
      BY DEF Folder
    <3>2. Stands
      BY <2>1, <2>3, <3>1, MoveLosesNothing DEF Env, ledgerVars
    <3>3. QED
      BY <1>2, <1>5, <2>1, <2>3, <3>2 DEF Env
  <2>4. CASE requeue' = Resting /\ UNCHANGED driveVars
    BY <1>2, <1>3, <1>4, <2>1, <2>4 DEF Env, ledgerVars
  <2>5. QED
    BY <1>10, <2>2, <2>3, <2>4 DEF Requeues
<1>11. QED
  BY <1>6, <1>7, <1>8, <1>9, <1>10 DEF RequeueStep, RequeueGoesOn

-----------------------------------------------------------------------------
(* Apply *)

\* what apply becomes whose batch stays; its fields
Goes(b, pc, bad, good, at) ==
  b \in Batches /\ b.pc = pc /\ b.batch = apply.batch /\ b.bad = bad /\ b.good = good /\ b.at = at

LEMMA NoBatchIs ==
  /\ NoBatch \in Batches /\ NoBatch.pc = "idle" /\ NoBatch.batch = {} /\ NoBatch.bad = {}
  /\ NoBatch.good = {} /\ NoBatch.at = {}
<1>1. {} \in SUBSET Record /\ {} \in SUBSET Item
  OBVIOUS
<1>2. QED
  BY <1>1 DEF NoBatch, Batches

\* a step of apply that writes neither ledger nor target and keeps its batch
LEMMA BatchStays ==
  ASSUME InboxInv, NEW pc, NEW bad, NEW good, NEW at, Goes(apply', pc, bad, good, at),
         UNCHANGED <<author, ledgerVars, drain, requeue>>,
         place' \in [File -> Folder], NothingLost', RecordsTrue(spool'),
         bad \subseteq Items, good \subseteq Items, at \subseteq Items, \A i, j \in at : i = j,
         pc \in {"items", "drop", "unspool", "dispose"},
         pc = "items" => at = {},
         pc = "drop" => at \subseteq bad,
         pc \in {"unspool", "dispose"} => at \subseteq good /\ (\A i \in at : filed[i] > 0),
         \A i \in good : i \in ledger => i \in at /\ pc \in {"unspool", "dispose"},
         apply.pc # "ledger"
  PROVE  InboxInv'
<1>1. InboxTyped'
  BY DEF InboxInv, InboxTyped, ledgerVars, Goes
<1>2. RecordsTrue(spool)' /\ RecordsTrue(apply.batch)'
  BY DEF InboxInv, RecordsTrue, ItemOf, Goes
<1>3. ReadRight'
  BY DEF InboxInv, ReadRight, ledgerVars
<1>4. Items' = Items
  BY DEF Items, Goes
<1>5. ApplyRight'
  BY <1>4 DEF ApplyRight, Goes, ledgerVars
<1>6. Counted'
  <2>1. \A i \in Item : Noted(i) => i \in ledger
    BY DEF Noted
  <2>2. \A i \in Item : i \in ledger' => Noted(i)'
    BY DEF Noted
  <2>3. filed' = filed /\ doubt' = doubt /\ ledger' = ledger
    BY DEF ledgerVars
  <2>4. QED
    BY <2>1, <2>2, <2>3, CountStays
<1>7. QED
  BY <1>1, <1>2, <1>3, <1>5, <1>6 DEF InboxInv

LEMMA ApplyStartsKeeps ==
  ASSUME InboxInv, ApplyStarts
  PROVE  InboxInv'
<1>1. UNCHANGED <<Env, driveVars, ledgerVars, drain, requeue>> /\ apply.pc = "idle"
  BY DEF ApplyStarts
<1>2. RecordsTrue(spool')
  BY <1>1 DEF ApplyStarts, Leaves, InboxInv, RecordsTrue
<1>3. place' \in [File -> Folder] /\ NothingLost'
  BY <1>1, StandingLosesNothing DEF Env, driveVars, ledgerVars
<1>4. RecordsTrue(Fresh) /\ \A r \in Fresh : r.item \in Item /\ r.item \notin ledger
  BY DEF InboxInv, RecordsTrue, Fresh, FirstRecords, Record
<1>5. PICK S \in SUBSET Record : S = Fresh
  BY <1>4 DEF RecordsTrue
<1>6. apply' \in Batches /\ apply'.bad = {} /\ apply'.good = {} /\ apply'.at = {}
      /\ apply'.batch \subseteq S /\ apply'.pc \in {"idle", "extract"}
  <2>1. CASE Fresh = {}
    BY <2>1, NoBatchIs DEF ApplyStarts
  <2>2. CASE Fresh # {}
    <3>1. apply' = [NoBatch EXCEPT !.pc = "extract", !.batch = S]
      BY <1>5, <2>2 DEF ApplyStarts
    <3>2. apply' \in Batches
      BY <3>1, NoBatchIs DEF Batches
    <3>3. QED
      BY <3>1, <3>2, NoBatchIs DEF Batches
  <2>3. QED
    BY <2>1, <2>2
<1>7. InboxTyped'
  BY <1>1, <1>3, <1>6 DEF InboxInv, InboxTyped, Env, ledgerVars
<1>8. RecordsTrue(spool)' /\ RecordsTrue(apply.batch)'
  BY <1>1, <1>2, <1>4, <1>5, <1>6 DEF RecordsTrue, ItemOf, Env
<1>9. ReadRight'
  BY <1>1 DEF InboxInv, ReadRight, ledgerVars
<1>10. ApplyRight'
  <2>1. \A i \in Items' : i \notin ledger'
    BY <1>1, <1>4, <1>5, <1>6 DEF Items, ledgerVars
  <2>2. QED
    BY <1>6, <2>1 DEF ApplyRight
<1>11. Counted'
  <2>1. \A i \in Item : Noted(i) => Noted(i)'
    BY <1>1 DEF Noted, ledgerVars
  <2>2. QED
    BY <1>1, <2>1, CountStays DEF ledgerVars
<1>12. QED
  BY <1>3, <1>7, <1>8, <1>9, <1>10, <1>11 DEF InboxInv

LEMMA ExtractKeeps ==
  ASSUME InboxInv, Extract
  PROVE  InboxInv'
<1>1. apply.pc = "extract" /\ UNCHANGED <<Env, driveVars, spoolVars, ledgerVars, drain, requeue>>
  BY DEF Extract
<1>2. PICK valid \in SUBSET Items, invalid \in SUBSET Items : Extracted(valid, invalid)
  <2>1. \A S \in SUBSET Items : S \ Vague \in SUBSET Items
    OBVIOUS
  <2>2. Items \ Vague \in SUBSET Items /\ {} \in SUBSET Items
    OBVIOUS
  <2>3. QED
    BY <2>1, <2>2 DEF Extract
<1>3. apply \in Batches /\ Items \subseteq Item
  BY DEF InboxInv, InboxTyped, Items, RecordsTrue, Record
<1>4. PICK bad \in SUBSET Item : bad = invalid \union (Items \ valid)
  BY <1>3
<1>5. valid \in SUBSET Item /\ bad \subseteq Items
  BY <1>3, <1>4
<1>6. apply' = [apply EXCEPT !.pc = "items", !.good = valid, !.bad = bad]
  BY <1>2, <1>4 DEF Extracted
<1>7. apply.at = {} /\ Items \intersect ledger = {}
  BY <1>1 DEF InboxInv, ApplyRight
<1>8. Goes(apply', "items", bad, valid, {})
  BY <1>3, <1>5, <1>6, <1>7 DEF Goes, Batches
<1>9. place' \in [File -> Folder] /\ NothingLost' /\ RecordsTrue(spool')
  BY <1>1, StandingLosesNothing DEF Env, driveVars, ledgerVars, spoolVars, InboxInv, RecordsTrue
<1>10. QED
  BY <1>1, <1>2, <1>5, <1>7, <1>8, <1>9, BatchStays DEF Env

\* the file apply names for an item is of that content
LEMMA FileIsOfItem ==
  ASSUME InboxInv, NEW i \in Items
  PROVE  FileOf(i) \in File /\ ItemOf[FileOf(i)] = i
<1>1. PICK r \in apply.batch : r.item = i
  BY DEF Items
<1>2. PICK q : q = CHOOSE r2 \in apply.batch : r2.item = i
  OBVIOUS
<1>3. q \in apply.batch /\ q.item = i
  BY <1>1, <1>2
<1>4. QED
  BY <1>2, <1>3 DEF FileOf, InboxInv, RecordsTrue, Record

LEMMA QuarantineKeeps ==
  ASSUME InboxInv, NEW i \in Item, QuarantineMoves(i) \/ QuarantineDrops(i)
  PROVE  InboxInv'
<1>1. apply \in Batches /\ Items \subseteq Item
  BY DEF InboxInv, InboxTyped, Items, RecordsTrue, Record
<1>2. PICK good \in SUBSET Item, bad \in SUBSET Item : good = apply.good /\ bad = apply.bad
  BY <1>1 DEF Batches
<1>3. good \subseteq Items /\ bad \subseteq Items
      /\ (apply.pc \in {"items", "drop"} => \A j \in good : j \notin ledger)
  BY <1>2 DEF InboxInv, ApplyRight
<1>4. CASE QuarantineMoves(i)
  <2>1. /\ apply.pc = "items" /\ i \in bad /\ UNCHANGED <<Env, spoolVars, ledgerVars, drain, requeue>>
        /\ apply' = [apply EXCEPT !.pc = "drop", !.at = {i}]
    BY <1>2, <1>4 DEF QuarantineMoves
  <2>2. {i} \in SUBSET Item
    OBVIOUS
  <2>3. Goes(apply', "drop", bad, good, {i})
    BY <1>1, <1>2, <2>1, <2>2 DEF Goes, Batches
  <2>4. PICK f \in File : f = FileOf(i)
    BY <1>3, <2>1, FileIsOfItem
  <2>5. Move(f, "processing", "quarantine") \/ UNCHANGED driveVars
    BY <1>4, <2>4 DEF QuarantineMoves
  <2>6. "quarantine" \in Folder \ {"complete"}
    BY DEF Folder
  <2>7. place' \in [File -> Folder] /\ NothingLost'
    BY <2>1, <2>5, <2>6, MoveLosesNothing, StandingLosesNothing DEF Env, driveVars, ledgerVars
  <2>8. RecordsTrue(spool')
    BY <2>1 DEF spoolVars, InboxInv, RecordsTrue
  <2>9. QED
    BY <1>3, <2>1, <2>3, <2>7, <2>8, BatchStays DEF Env
<1>5. CASE QuarantineDrops(i)
  <2>1. /\ apply.pc = "drop" /\ UNCHANGED <<Env, driveVars, ledgerVars, drain, requeue>> /\ DropSpool(i)
        /\ apply' = [apply EXCEPT !.pc = "items", !.at = {}, !.bad = bad \ {i}]
    BY <1>2, <1>5 DEF QuarantineDrops
  <2>2. {} \in SUBSET Item /\ bad \ {i} \in SUBSET Item
    OBVIOUS
  <2>3. Goes(apply', "items", bad \ {i}, good, {})
    BY <1>1, <1>2, <2>1, <2>2 DEF Goes, Batches
  <2>4. place' \in [File -> Folder] /\ NothingLost'
    BY <2>1, StandingLosesNothing DEF Env, driveVars, ledgerVars
  <2>5. RecordsTrue(spool')
    BY <2>1 DEF DropSpool, Leaves, InboxInv, RecordsTrue
  <2>6. QED
    BY <1>3, <2>1, <2>3, <2>4, <2>5, BatchStays DEF Env
<1>6. QED
  BY <1>4, <1>5

\* a target was written, or its write failed
LEMMA FilingKeeps ==
  ASSUME InboxInv, NEW i \in Item, Files(i) \/ FilingFails(i)
  PROVE  InboxInv'
<1>1. apply \in Batches /\ Items \subseteq Item
  BY DEF InboxInv, InboxTyped, Items, RecordsTrue, Record
<1>2. PICK good \in SUBSET Item, bad \in SUBSET Item : good = apply.good /\ bad = apply.bad
  BY <1>1 DEF Batches
<1>3. /\ apply.pc = "items" /\ bad = {} /\ i \in good
      /\ UNCHANGED <<Env, driveVars, spoolVars, ledger, torn, drain, requeue>>
  BY <1>2 DEF Files, FilingFails, Filing
<1>4. /\ good \subseteq Items /\ (\A j \in good : j \notin ledger) /\ apply.at = {}
  BY <1>2, <1>3 DEF InboxInv, ApplyRight
<1>5. filed' = filed \/ filed' = [filed EXCEPT ![i] = @ + 1]
  BY DEF Files, FilingFails, Written
<1>6. filed' \in [Item -> Nat] /\ \A j \in Item : filed[j] > 0 => filed'[j] > 0
  BY <1>5 DEF InboxInv, InboxTyped
<1>7. place' \in [File -> Folder] /\ NothingLost'
  BY <1>3, <1>6, StandingLosesNothing DEF Env, driveVars
<1>8. RecordsTrue(spool')
  BY <1>3 DEF spoolVars, InboxInv, RecordsTrue, Env
<1>9. ReadRight'
  BY <1>3, <1>6 DEF InboxInv, ReadRight
<1>10. \A j \in Item : ~(apply.pc = "ledger" /\ j \in apply.at) /\ (Noted(j) <=> j \in ledger)
  BY <1>3 DEF Noted
<1>11. CASE Files(i)
  <2>1. apply' = [apply EXCEPT !.pc = "ledger", !.at = {i}] /\ doubt' = doubt /\ filed' = [filed EXCEPT ![i] = @ + 1]
    BY <1>11 DEF Files, Written
  <2>2. Goes(apply', "ledger", bad, good, {i})
    BY <1>1, <1>2, <2>1 DEF Goes, Batches
  <2>3. InboxTyped'
    BY <1>3, <1>6, <1>7, <2>1, <2>2 DEF InboxInv, InboxTyped, Goes, Env
  <2>4. RecordsTrue(spool)' /\ RecordsTrue(apply.batch)' /\ Items' = Items
    BY <1>3, <1>8, <2>2 DEF InboxInv, RecordsTrue, ItemOf, Goes, Env, Items
  <2>5. ApplyRight'
    <3>1. filed'[i] > 0
      BY <2>1 DEF InboxInv, InboxTyped
    <3>2. QED
      BY <1>3, <1>4, <2>2, <2>4, <3>1 DEF ApplyRight, Goes
  <2>6. Counted'
    <3>1. SUFFICES ASSUME NEW j \in Item
                   PROVE  filed'[j] <= doubt'[j] + (IF Noted(j)' THEN 1 ELSE 0)
      BY DEF Counted
    <3>2. filed[j] \in Nat /\ doubt[j] \in Nat
      BY DEF InboxInv, InboxTyped
    <3>3. CASE j = i
      <4>1. Noted(j)' /\ ~Noted(j)
        BY <1>3, <1>4, <1>10, <2>2, <3>3 DEF Noted, Goes
      <4>2. filed[j] <= doubt[j] + 0
        BY <4>1 DEF InboxInv, Counted
      <4>3. filed'[j] = filed[j] + 1 /\ doubt'[j] = doubt[j]
        BY <2>1, <3>3 DEF InboxInv, InboxTyped
      <4>4. QED
        BY <3>2, <4>1, <4>2, <4>3
    <3>4. CASE j # i
      <4>1. Noted(j)' <=> Noted(j)
        BY <1>3, <1>10, <2>2, <3>4 DEF Noted, Goes
      <4>2. filed'[j] = filed[j] /\ doubt'[j] = doubt[j]
        BY <2>1, <3>4 DEF InboxInv, InboxTyped
      <4>3. QED
        BY <4>1, <4>2 DEF InboxInv, Counted
    <3>5. QED
      BY <3>3, <3>4
  <2>7. QED
    BY <1>7, <1>9, <2>3, <2>4, <2>5, <2>6 DEF InboxInv
<1>12. CASE FilingFails(i)
  <2>1. /\ apply' = [apply EXCEPT !.good = good \ {i}]
        /\ \/ UNCHANGED <<filed, doubt>>
           \/ Written(i) /\ Doubted({i})
    BY <1>2, <1>12 DEF FilingFails
  <2>2. Goes(apply', "items", bad, good \ {i}, {})
    BY <1>1, <1>2, <1>3, <1>4, <2>1 DEF Goes, Batches
  <2>3. doubt' \in [Item -> Nat] /\ \A j \in Item : filed'[j] - filed[j] = doubt'[j] - doubt[j]
    BY <2>1 DEF InboxInv, InboxTyped, Written, Doubted
  <2>4. InboxTyped'
    BY <1>3, <1>6, <1>7, <2>2, <2>3 DEF InboxInv, InboxTyped, Goes, Env
  <2>5. RecordsTrue(spool)' /\ RecordsTrue(apply.batch)' /\ Items' = Items
    BY <1>3, <1>8, <2>2 DEF InboxInv, RecordsTrue, ItemOf, Goes, Env, Items
  <2>6. ApplyRight'
    BY <1>3, <1>4, <2>2, <2>5 DEF ApplyRight, Goes
  <2>7. Counted'
    <3>1. SUFFICES ASSUME NEW j \in Item
                   PROVE  filed'[j] <= doubt'[j] + (IF Noted(j)' THEN 1 ELSE 0)
      BY DEF Counted
    <3>2. Noted(j)' <=> Noted(j)
      BY <1>3, <1>10, <2>2 DEF Noted, Goes
    <3>3. filed[j] \in Nat /\ doubt[j] \in Nat /\ filed'[j] \in Nat /\ doubt'[j] \in Nat
      BY <1>6, <2>3 DEF InboxInv, InboxTyped
    <3>4. filed[j] <= doubt[j] + (IF Noted(j) THEN 1 ELSE 0)
      BY DEF InboxInv, Counted
    <3>5. filed'[j] - filed[j] = doubt'[j] - doubt[j]
      BY <2>3
    <3>6. PICK n \in {0, 1} : n = (IF Noted(j) THEN 1 ELSE 0) /\ n = (IF Noted(j)' THEN 1 ELSE 0)
      BY <3>2
    <3>7. QED
      BY <3>3, <3>4, <3>5, <3>6
  <2>8. QED
    BY <1>7, <1>9, <2>4, <2>5, <2>6, <2>7 DEF InboxInv
<1>13. QED
  BY <1>11, <1>12

LEMMA LedgerKeeps ==
  ASSUME InboxInv, NEW i \in Item, AppendsLedger(i)
  PROVE  InboxInv'
<1>1. apply \in Batches /\ Items \subseteq Item
  BY DEF InboxInv, InboxTyped, Items, RecordsTrue, Record
<1>2. PICK good \in SUBSET Item, bad \in SUBSET Item, at \in SUBSET Item :
        good = apply.good /\ bad = apply.bad /\ at = apply.at
  BY <1>1 DEF Batches
<1>3. /\ apply.pc = "ledger" /\ i \in at
      /\ UNCHANGED <<Env, driveVars, spoolVars, filed, drain, requeue>>
      /\ apply' = [apply EXCEPT !.pc = "unspool"]
      /\ \/ ledger' = ledger \union {i} /\ UNCHANGED doubt
         \/ Doubted({i}) /\ UNCHANGED ledger
  BY <1>2 DEF AppendsLedger
<1>4. Goes(apply', "unspool", bad, good, at)
  BY <1>1, <1>2, <1>3 DEF Goes, Batches
<1>5. /\ good \subseteq Items /\ bad \subseteq Items /\ at \subseteq good /\ (\A j \in at : filed[j] > 0)
      /\ (\A j, k \in at : j = k) /\ \A j \in good : j \notin ledger
  BY <1>2, <1>3 DEF InboxInv, ApplyRight
<1>6. place' \in [File -> Folder] /\ NothingLost'
  BY <1>3, StandingLosesNothing DEF Env, driveVars
<1>7. doubt' \in [Item -> Nat] /\ (\A j \in Item : doubt'[j] >= doubt[j])
  BY <1>3 DEF Doubted, InboxInv, InboxTyped
<1>8. InboxTyped'
  BY <1>3, <1>4, <1>6, <1>7 DEF InboxInv, InboxTyped, Goes, Env
<1>9. RecordsTrue(spool)' /\ RecordsTrue(apply.batch)' /\ Items' = Items
  BY <1>3, <1>4 DEF InboxInv, RecordsTrue, ItemOf, Goes, Env, Items, spoolVars
<1>10. ReadRight'
  BY <1>3, <1>5 DEF InboxInv, ReadRight
<1>11. \A j \in Item \ {i} : j \notin at /\ (j \in ledger' <=> j \in ledger)
  BY <1>3, <1>5
<1>12. ApplyRight'
  <2>1. \A j \in good : j \in ledger' => j \in at
    BY <1>1, <1>3, <1>5, <1>11
  <2>2. QED
    BY <1>3, <1>4, <1>5, <1>9, <2>1 DEF ApplyRight, Goes
<1>13. Counted'
  <2>1. SUFFICES ASSUME NEW j \in Item
                 PROVE  filed'[j] <= doubt'[j] + (IF Noted(j)' THEN 1 ELSE 0)
    BY DEF Counted
  <2>2. filed[j] \in Nat /\ doubt[j] \in Nat /\ doubt'[j] \in Nat /\ filed'[j] = filed[j]
        /\ doubt'[j] >= doubt[j] /\ filed[j] <= doubt[j] + (IF Noted(j) THEN 1 ELSE 0)
    BY <1>3, <1>7 DEF InboxInv, InboxTyped, Counted
  <2>3. CASE Noted(j) => Noted(j)'
    <3>1. PICK n \in {0, 1}, m \in {0, 1} : n = (IF Noted(j) THEN 1 ELSE 0) /\ m = (IF Noted(j)' THEN 1 ELSE 0)
      OBVIOUS
    <3>2. n <= m
      BY <2>3, <3>1
    <3>3. QED
      BY <2>2, <3>1, <3>2
  <2>4. CASE Noted(j) /\ ~Noted(j)'
    <3>1. j = i
      BY <1>2, <1>11, <2>4 DEF Noted
    <3>2. i \notin ledger'
      BY <2>4, <3>1 DEF Noted
    <3>3. doubt'[j] = doubt[j] + 1
      BY <1>3, <3>1, <3>2 DEF Doubted
    <3>4. QED
      BY <2>2, <2>4, <3>3
  <2>5. QED
    BY <2>3, <2>4
<1>14. QED
  BY <1>6, <1>8, <1>9, <1>10, <1>12, <1>13 DEF InboxInv

\* the record leaves the spool, and the file Drive
LEMMA DisposesKeeps ==
  ASSUME InboxInv, NEW i \in Item, Unspools(i) \/ Disposes(i)
  PROVE  InboxInv'
<1>1. apply \in Batches /\ Items \subseteq Item
  BY DEF InboxInv, InboxTyped, Items, RecordsTrue, Record
<1>2. PICK good \in SUBSET Item, bad \in SUBSET Item, at \in SUBSET Item :
        good = apply.good /\ bad = apply.bad /\ at = apply.at
  BY <1>1 DEF Batches
<1>3. apply.pc \in {"unspool", "dispose"} /\ i \in at /\ UNCHANGED <<Env, ledgerVars, drain, requeue>>
  BY <1>2 DEF Unspools, Disposes
<1>4. /\ good \subseteq Items /\ bad \subseteq Items /\ at \subseteq good /\ (\A j \in at : filed[j] > 0)
      /\ (\A j, k \in at : j = k) /\ \A j \in good : j \in ledger => j \in at
  BY <1>2, <1>3 DEF InboxInv, ApplyRight
<1>5. CASE Unspools(i)
  <2>1. apply' = [apply EXCEPT !.pc = "dispose"] /\ DropSpool(i) /\ UNCHANGED driveVars
    BY <1>5 DEF Unspools
  <2>2. Goes(apply', "dispose", bad, good, at)
    BY <1>1, <1>2, <2>1 DEF Goes, Batches
  <2>3. place' \in [File -> Folder] /\ NothingLost'
    BY <1>3, <2>1, StandingLosesNothing DEF Env, driveVars, ledgerVars
  <2>4. RecordsTrue(spool')
    BY <1>3, <2>1 DEF DropSpool, Leaves, InboxInv, RecordsTrue
  <2>5. QED
    BY <1>3, <1>4, <2>2, <2>3, <2>4, BatchStays DEF Env
<1>6. CASE Disposes(i)
  <2>1. /\ apply' = [apply EXCEPT !.pc = "items", !.at = {}, !.good = good \ {i}] /\ UNCHANGED spoolVars
        /\ Dispose(FileOf(i)) \/ UNCHANGED driveVars
    BY <1>2, <1>6 DEF Disposes
  <2>2. {} \in SUBSET Item /\ good \ {i} \in SUBSET Item
    OBVIOUS
  <2>3. Goes(apply', "items", bad, good \ {i}, {})
    BY <1>1, <1>2, <2>1, <2>2 DEF Goes, Batches
  <2>4. PICK f \in File : f = FileOf(i) /\ ItemOf[f] = i
    BY <1>3, <1>4, FileIsOfItem
  <2>5. filed[ItemOf[f]] > 0
    BY <1>3, <1>4, <2>4
  <2>6. place' \in [File -> Folder] /\ NothingLost'
    BY <1>3, <2>1, <2>4, <2>5, DisposalLosesNothing, StandingLosesNothing DEF Env, driveVars, ledgerVars
  <2>7. RecordsTrue(spool')
    BY <1>3, <2>1 DEF spoolVars, InboxInv, RecordsTrue
  <2>8. \A j \in good \ {i} : j \notin ledger
    BY <1>3, <1>4
  <2>9. QED
    BY <1>3, <1>4, <2>1, <2>3, <2>6, <2>7, <2>8, BatchStays DEF Env
<1>7. QED
  BY <1>5, <1>6

\* apply ends, or is killed: in the middle of a write to the ledger it is in doubt
LEMMA ApplyEndKeeps ==
  ASSUME InboxInv, ApplyEnds \/ ApplyDies
  PROVE  InboxInv'
<1>1. /\ apply' = NoBatch /\ UNCHANGED <<Env, driveVars, spoolVars, ledger, filed, drain, requeue>>
      /\ \/ apply.pc = "ledger" /\ Doubted(apply.at)
         \/ apply.pc # "ledger" /\ UNCHANGED doubt
  BY DEF ApplyEnds, ApplyDies, ledgerVars
<1>2. place' \in [File -> Folder] /\ NothingLost'
  BY <1>1, StandingLosesNothing DEF Env, driveVars
<1>3. doubt' \in [Item -> Nat]
  BY <1>1 DEF Doubted, InboxInv, InboxTyped
<1>4. InboxTyped'
  BY <1>1, <1>2, <1>3, NoBatchIs DEF InboxInv, InboxTyped, Env
<1>5. RecordsTrue(spool)' /\ RecordsTrue(apply.batch)'
  BY <1>1, NoBatchIs DEF InboxInv, RecordsTrue, ItemOf, Env, spoolVars
<1>6. ReadRight'
  BY <1>1 DEF InboxInv, ReadRight
<1>7. ApplyRight'
  BY <1>1, NoBatchIs DEF ApplyRight, Items
<1>8. Counted'
  <2>1. SUFFICES ASSUME NEW j \in Item
                 PROVE  filed'[j] <= doubt'[j] + (IF Noted(j)' THEN 1 ELSE 0)
    BY DEF Counted
  <2>2. filed[j] \in Nat /\ doubt[j] \in Nat /\ filed'[j] = filed[j]
        /\ filed[j] <= doubt[j] + (IF Noted(j) THEN 1 ELSE 0)
    BY <1>1 DEF InboxInv, InboxTyped, Counted
  <2>3. Noted(j)' <=> j \in ledger
    BY <1>1, NoBatchIs DEF Noted
  <2>4. CASE apply.pc = "ledger" /\ j \in apply.at
    <3>1. doubt'[j] = doubt[j] + 1
      BY <1>1, <2>4 DEF Doubted
    <3>2. filed[j] <= doubt[j] + 1
      <4>1. CASE Noted(j)
        BY <2>2, <4>1
      <4>2. CASE ~Noted(j)
        BY <2>2, <4>2
      <4>3. QED
        BY <4>1, <4>2
    <3>3. CASE Noted(j)'
      BY <2>2, <3>1, <3>2, <3>3
    <3>4. CASE ~Noted(j)'
      BY <2>2, <3>1, <3>2, <3>4
    <3>5. QED
      BY <3>3, <3>4
  <2>5. CASE ~(apply.pc = "ledger" /\ j \in apply.at)
    <3>1. Noted(j) <=> Noted(j)'
      BY <2>3, <2>5 DEF Noted
    <3>2. doubt'[j] = doubt[j]
      BY <1>1, <2>5 DEF Doubted
    <3>3. QED
      BY <2>2, <3>1, <3>2
  <2>6. QED
    BY <2>4, <2>5
<1>9. QED
  BY <1>2, <1>4, <1>5, <1>6, <1>7, <1>8 DEF InboxInv

-----------------------------------------------------------------------------
LEMMA AuthorKeeps ==
  ASSUME InboxInv, NEW f \in File, Capture(f) \/ Ages(f)
  PROVE  InboxInv'
<1>1. UNCHANGED <<author, trashed, spoolVars, ledgerVars, drain, requeue, apply>>
  BY DEF Capture, Ages, Env, driveVars
<1>2. "inbox" \in Folder \ {"complete"}
  BY DEF Folder
<1>3. Move(f, "author", "inbox") \/ UNCHANGED place
  BY DEF Capture, Ages, Move, driveVars
<1>4. place' \in [File -> Folder] /\ NothingLost'
  BY <1>1, <1>2, <1>3, MoveLosesNothing, StandingLosesNothing DEF ledgerVars
<1>5. RecordsTrue(spool')
  BY <1>1 DEF spoolVars, InboxInv, RecordsTrue
<1>6. QED
  BY <1>1, <1>4, <1>5, ApplyStays DEF InboxInv, InboxTyped

LEMMA InboxStart == InboxInit => InboxInv
<1> SUFFICES ASSUME InboxInit
             PROVE  InboxInv
  OBVIOUS
<1>1. "author" \in Folder
  BY DEF Folder
<1>2. InboxTyped
  BY <1>1, RestingIs, NoBatchIs DEF InboxInit, InboxTyped
<1>3. RecordsTrue(spool) /\ RecordsTrue(apply.batch) /\ ReadRight
  BY RestingIs, NoBatchIs DEF InboxInit, RecordsTrue, ReadRight
<1>4. ApplyRight
  BY NoBatchIs DEF InboxInit, ApplyRight, Items
<1>5. Counted
  <2>1. SUFFICES ASSUME NEW i \in Item
                 PROVE  filed[i] <= doubt[i] + (IF Noted(i) THEN 1 ELSE 0)
    BY DEF Counted
  <2>2. filed[i] = 0 /\ doubt[i] = 0
    BY DEF InboxInit
  <2>3. QED
    BY <2>2
<1>6. NothingLost
  BY DEF InboxInit, NothingLost
<1>7. QED
  BY <1>2, <1>3, <1>4, <1>5, <1>6 DEF InboxInv

LEMMA InboxStep == InboxInv /\ [InboxNext]_inboxVars => InboxInv'
<1> SUFFICES ASSUME InboxInv, [InboxNext]_inboxVars
             PROVE  InboxInv'
  OBVIOUS
<1>1. CASE ApplyStep
  BY <1>1, ApplyStartsKeeps, ExtractKeeps, QuarantineKeeps, FilingKeeps, LedgerKeeps, DisposesKeeps,
     ApplyEndKeeps DEF ApplyStep
<1>2. CASE UNCHANGED inboxVars
  BY <1>2 DEF inboxVars, InboxInv, InboxTyped, RecordsTrue, ReadRight, ApplyRight, Items, Counted, Noted,
              NothingLost, ItemOf
<1>3. QED
  BY <1>1, <1>2, AuthorKeeps, DrainKeeps, RequeueKeeps DEF InboxNext

\* Every capture is accounted for: it leaves Drive only when its content has reached
\* its vault or list, whichever job disposes of it and however old the ledger that
\* job has read; and content is filed once, however many files hold it and whatever
\* is drained, requeued, killed and replayed, but for writes that were not confirmed
\* or whose ledger line is lost or unreadable.
THEOREM ItemsAreAccounted == InboxSpec => []ItemsAccounted
<1>1. InboxInit => InboxInv
  BY InboxStart
<1>2. InboxInv /\ [InboxNext]_inboxVars => InboxInv'
  BY InboxStep
<1>3. InboxInv => ItemsAccounted
  <2> SUFFICES ASSUME InboxInv
               PROVE  ItemsAccounted
    OBVIOUS
  <2>1. FiledOnce
    <3>1. SUFFICES ASSUME NEW i \in Item
                   PROVE  filed[i] <= 1 + doubt[i]
      BY DEF FiledOnce
    <3>2. filed[i] \in Nat /\ doubt[i] \in Nat /\ filed[i] <= doubt[i] + (IF Noted(i) THEN 1 ELSE 0)
      BY DEF InboxInv, InboxTyped, Counted
    <3>3. QED
      BY <3>2
  <2>2. QED
    BY <2>1 DEF InboxInv, ItemsAccounted
<1>4. QED
  BY <1>1, <1>2, <1>3, PTL DEF InboxSpec

=============================================================================
