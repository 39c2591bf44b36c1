----------------------------- MODULE RoomsProofs ----------------------------
(***************************************************************************)
(* Theorems about rooms and sessions: the sessions promoted in a room, the *)
(* sessions of one name, the queries typed into a session, the virtual     *)
(* machines, the calls to language models and the turns of a conversation. *)
(* They share no state.                                                    *)
(***************************************************************************)
EXTENDS RoomSessions, Sessions, SessionQuery, UtmBackend, Completions, Conversation, NumberLemmas, SequenceTheorems, FiniteSetTheorems, TLAPS

-----------------------------------------------------------------------------
(***************************************************************************)
(* Sessions promoted in a room                                             *)
(***************************************************************************)

\* A job with a link may be heard in full: a report that finds the link before
\* it posts is one that may be heard, and it is one that was under way if the
\* link is dropped while it posts.
LinksHeard ==
    /\ links \subseteq Job
    /\ report \in [Job -> [Event -> {"none", "dropped", "scheduled", "posting", "posted"}]]
    /\ heard \in [Job -> SUBSET Event]
    /\ \A j \in links : heard[j] = Event
    /\ \A j \in Job : \A e \in Event : report[j][e] \in {"posting", "posted"} => e \in heard[j]

LEMMA InitLinksHeard == SessInit => LinksHeard
  BY DEF SessInit, LinksHeard

\* steps that change none of it
LEMMA OthersKeep ==
  ASSUME LinksHeard, UNCHANGED <<links, report, heard>>
  PROVE  LinksHeard'
  BY DEF LinksHeard

LEMMA RegisterKeeps ==
  ASSUME LinksHeard, NEW j \in Job, RegisterLink(j)
  PROVE  LinksHeard'
  BY DEF LinksHeard, RegisterLink

\* one report of a job changes
LEMMA ReportChanges ==
  ASSUME LinksHeard, NEW j \in Job, NEW e \in Event, UNCHANGED heard, links' \subseteq links,
         NEW to \in {"dropped", "scheduled", "posting", "posted"},
         report' = [report EXCEPT ![j][e] = to],
         to \in {"posting", "posted"} => e \in heard[j]
  PROVE  LinksHeard'
<1>1. report' \in [Job -> [Event -> {"none", "dropped", "scheduled", "posting", "posted"}]]
  BY DEF LinksHeard
<1>2. \A k \in Job : \A f \in Event :
        report'[k][f] = IF k = j /\ f = e THEN to ELSE report[k][f]
  BY DEF LinksHeard
<1>3. QED
  BY <1>1, <1>2 DEF LinksHeard

LEMMA EventKeeps ==
  ASSUME LinksHeard, NEW j \in Job, NEW e \in Event,
         \/ Happens(j, e) \/ ReportBegins(j, e)
         \/ \E o \in {"posted", "dropped"} : ReportEnds(j, e, o)
  PROVE  LinksHeard'
<1>1. CASE Happens(j, e)
  <2>1. PICK to : to = IF j \in links THEN "scheduled" ELSE "dropped"
    OBVIOUS
  <2>2. QED
    BY <1>1, <2>1, ReportChanges DEF Happens
<1>2. CASE ReportBegins(j, e)
  <2>1. PICK to : to = IF j \in links THEN "posting" ELSE "dropped"
    OBVIOUS
  <2>2. to = "posting" => e \in heard[j]
    BY <2>1 DEF LinksHeard
  <2>3. QED
    BY <1>2, <2>1, <2>2, ReportChanges DEF ReportBegins
<1>3. ASSUME NEW o \in {"posted", "dropped"}, ReportEnds(j, e, o)
      PROVE  LinksHeard'
  <2>1. e \in heard[j]
    BY <1>3 DEF ReportEnds, LinksHeard
  <2>2. links' \subseteq links
    BY <1>3 DEF ReportEnds
  <2>3. QED
    BY <1>3, <2>1, <2>2, ReportChanges DEF ReportEnds
<1>4. QED
  BY <1>1, <1>2, <1>3

\* what is under way when the link goes may still be heard
LEMMA UnlinkKeeps ==
  ASSUME LinksHeard, NEW j \in Job, Unlink(j)
  PROVE  LinksHeard'
<1>1. /\ links' = links \ {j} /\ UNCHANGED report
      /\ heard' = [heard EXCEPT ![j] = {e \in Event : report[j][e] \in {"posting", "posted"}}]
  BY DEF Unlink
<1>2. heard' \in [Job -> SUBSET Event]
  BY <1>1 DEF LinksHeard
<1>3. QED
  BY <1>1, <1>2 DEF LinksHeard

LEMMA SessNextKeeps == LinksHeard /\ [SessNext]_sessVars => LinksHeard'
<1>1. ASSUME LinksHeard, NEW j \in Job,
             Submit(j) \/ AddParticipant(j) \/ RemoveParticipant(j)
      PROVE  LinksHeard'
  BY <1>1, OthersKeep DEF Submit, AddParticipant, RemoveParticipant
<1>2. ASSUME LinksHeard, NEW a \in Closer,
             CloserReads(a) \/ CloserNotes(a) \/ CloserArchives(a) \/ CloserFails(a)
      PROVE  LinksHeard'
  BY <1>2, OthersKeep DEF CloserReads, CloserNotes, CloserArchives, CloserFails
<1>3. ASSUME LinksHeard, UNCHANGED sessVars PROVE LinksHeard'
  BY <1>3, OthersKeep DEF sessVars
<1>4. QED
  BY <1>1, <1>2, <1>3, RegisterKeeps, EventKeeps, UnlinkKeeps DEF SessNext, ReportStep

-----------------------------------------------------------------------------
(* A dismissed session is not heard of again, but for the reports that had   *)
(* looked its link up when it was dropped, or a promotion that links it only *)
(* after the dismissal.                                                      *)
THEOREM DismissedIsDetached == SessSpec => []DismissalDetaches
<1>1. LinksHeard => DismissalDetaches
  BY DEF LinksHeard, DismissalDetaches
<1>2. QED
  BY <1>1, InitLinksHeard, SessNextKeeps, PTL DEF SessSpec

-----------------------------------------------------------------------------
(***************************************************************************)
(* The sessions of one name                                                *)
(***************************************************************************)

Settled == {"idle", "late", "done", "failed"}
StopPlaces == {"idle", "asked", "answered", "again", "stopping", "removing", "popping",
               "marking", "direct", "done"}

\* A hub that is down runs nothing.
DownIsQuiet ==
  ~up => /\ \A q \in Pipeline : pipe[q] \in Settled
         /\ \A s \in Stop : stop[s].pc \in {"idle", "done"}

\* nothing but p has ever been at the name
Alone(p) == (\A q \in Pipeline \ {p} : pipe[q] = "idle") /\ \A s \in Stop : stop[s].pc = "idle"

LoneLocal(p) ==
  Alone(p) =>
    /\ ~row.active
    /\ pipe[p] \in {"entered", "configured"} => entry = p
    /\ pipe[p] = "done" => box.runs /\ (up => entry \in {p, Found} \/ blind)

LoneAfar(p) ==
  Alone(p) =>
    /\ box = NoBox
    /\ pipe[p] # "done" => ~row.active
    /\ pipe[p] \in {"idle", "asked", "late"} => entry = None
    /\ pipe[p] = "upserting" => entry = p
    /\ pipe[p] = "done" => row.active /\ row.of = p /\ (up => entry = p)

Unlisted(p) == row.active /\ row.of = p => p \in unmarked
Gone(p) == entry # p /\ tracked # p /\ Unlisted(p)

\* What a stop found in place is done, is not tracked any more, and loses its
\* entry before the stop comes to its row.
StopsKnow ==
  /\ \A s \in Stop : stop[s].pc \notin {"idle", "done"} =>
       \A p \in before[s] : /\ pipe[p] = "done" /\ tracked # p
                            /\ stop[s].pc \in {"answered", "marking", "direct"} => entry # p
                            /\ stop[s].pc = "direct" => Unlisted(p)
  /\ \A p \in stopped : pipe[p] = "done" /\ Gone(p)

SessionsInv ==
  /\ SessionsTypeOK /\ DownIsQuiet /\ MonitorAlive /\ StopsKnow
  /\ \A p \in Local : LoneLocal(p)
  /\ \A p \in Afar : LoneAfar(p)

LEMMA SessionsInvHolds == SessionsInv => SessionsTypeOK /\ SessionsTracked
<1> SUFFICES ASSUME SessionsInv PROVE SessionsTracked
  BY DEF SessionsInv
<1>1. StoppedStaysStopped
  BY DEF SessionsInv, StopsKnow, Gone, Unlisted, StoppedStaysStopped
<1>2. ASSUME NEW p \in Pipeline, up, Untouched(p) PROVE entry \in {p, Found} \/ (p \in Local /\ blind)
  <2>1. Alone(p) /\ pipe[p] = "done"
    BY <1>2 DEF Untouched, Alone
  <2>2. QED
    BY <1>2, <2>1 DEF Pipeline, SessionsInv, LoneLocal, LoneAfar
<1>3. QED
  BY <1>1, <1>2 DEF SessionsInv, SessionsTracked, SessionsKnown, SurvivesRestarts

LEMMA InitSessionsInv == SessionsInit => SessionsInv
<1> SUFFICES ASSUME SessionsInit PROVE SessionsInv
  OBVIOUS
<1>1. SessionsTypeOK
  <2>1. stop \in [Stop -> [pc : StopPlaces, ctx : Context \cup {None}]]
    BY DEF SessionsInit, StopPlaces
  <2>2. pipe \in [Pipeline -> {"idle", "cleared", "created", "entered", "configured",
                              "asked", "late", "upserting", "done", "failed"}]
        /\ before \in [Stop -> SUBSET Pipeline] /\ stopped \subseteq Pipeline /\ unmarked \subseteq Pipeline
    BY DEF SessionsInit
  <2>3. /\ up \in BOOLEAN /\ blind \in BOOLEAN /\ overdue \subseteq Local
        /\ downs = 0 /\ entry = None /\ tracked = None
    BY DEF SessionsInit
  <2>4. /\ monitor \in [task : {"none", "runs", "over"}, at : Local \cup {None}]
        /\ box \in [of : Local \cup {None}, runs : BOOLEAN]
        /\ row \in [of : Afar \cup {None}, active : BOOLEAN]
    BY DEF SessionsInit, NoBox
  <2>5. 0 \in 0..MaxDowns
    BY SessionsAssumption
  <2>6. QED
    BY <2>1, <2>2, <2>3, <2>4, <2>5 DEF SessionsTypeOK, StopPlaces
<1>2. DownIsQuiet /\ MonitorAlive /\ StopsKnow
  BY DEF SessionsInit, DownIsQuiet, MonitorAlive, StopsKnow
<1>3. ASSUME NEW p \in Local PROVE LoneLocal(p)
  BY DEF SessionsInit, LoneLocal, Pipeline
<1>4. ASSUME NEW p \in Afar PROVE LoneAfar(p)
  BY DEF SessionsInit, LoneAfar, Pipeline
<1>5. QED
  BY <1>1, <1>2, <1>3, <1>4 DEF SessionsInv

\* the states of a pipeline and of a stop
Places == {"idle", "cleared", "created", "entered", "configured",
           "asked", "late", "upserting", "done", "failed"}

LEMMA BoxForms ==
  ASSUME NEW b \in [of : Local \cup {None}, runs : BOOLEAN], NEW p \in Local, NEW r \in BOOLEAN
  PROVE  /\ NoBox \in [of : Local \cup {None}, runs : BOOLEAN]
         /\ [of |-> p, runs |-> FALSE] \in [of : Local \cup {None}, runs : BOOLEAN]
         /\ [b EXCEPT !.runs = r] \in [of : Local \cup {None}, runs : BOOLEAN]
         /\ [b EXCEPT !.runs = r].runs = r
  BY DEF NoBox

\* A pipeline that is not over goes a step and leaves the stops alone.
LEMMA PipelineGoes ==
  ASSUME SessionsInv, SessionsTypeOK', NEW p \in Pipeline, up, up' = up, pipe[p] # "done",
         NEW to \in Places \ {"idle"}, pipe' = [pipe EXCEPT ![p] = to], UNCHANGED <<stop, before, stopped, unmarked>>,
         entry' \in {entry, p, None}, tracked' \in {tracked, p, None}, row' \in {row, RowOf(p)},
         MonitorAlive',
         p \in Local => LoneLocal(p)', p \in Afar => LoneAfar(p)'
  PROVE  SessionsInv'
<1>1. pipe'[p] = to /\ \A q \in Pipeline \ {p} : pipe'[q] = pipe[q]
  BY DEF SessionsInv, SessionsTypeOK
<1>2. DownIsQuiet'
  BY DEF DownIsQuiet
<1>3. UNCHANGED <<stop, before, stopped, unmarked>>
  OBVIOUS
<1>4. ASSUME NEW q \in Pipeline, pipe[q] = "done"
      PROVE  q # p /\ pipe'[q] = "done" /\ (tracked # q => tracked' # q) /\ (entry # q => entry' # q)
             /\ (Unlisted(q) => Unlisted(q)') /\ (Gone(q) => Gone(q)')
  <2>1. q # p /\ q # None
    BY <1>4, SessionsAssumption DEF Pipeline
  <2>2. row' = row \/ row'.of # q
    BY <2>1 DEF RowOf
  <2>3. QED
    BY <1>1, <1>3, <1>4, <2>1, <2>2 DEF Gone, Unlisted
<1>5. StopsKnow'
  <2>1. ASSUME NEW s \in Stop, NEW q \in before[s]
        PROVE  q \in Pipeline
    BY <2>1 DEF SessionsInv, SessionsTypeOK
  <2>2. stopped \subseteq Pipeline
    BY DEF SessionsInv, SessionsTypeOK
  <2>3. QED
    BY <1>3, <1>4, <2>1, <2>2 DEF SessionsInv, StopsKnow
<1>6. ASSUME NEW q \in Pipeline, q # p PROVE ~Alone(q)'
  BY <1>1, <1>6 DEF Alone
<1>7. ASSUME NEW q \in Local PROVE LoneLocal(q)'
  BY <1>6, <1>7 DEF LoneLocal, Pipeline
<1>8. ASSUME NEW q \in Afar PROVE LoneAfar(q)'
  BY <1>6, <1>8 DEF LoneAfar, Pipeline
<1>9. QED
  BY <1>2, <1>5, <1>7, <1>8 DEF SessionsInv

LEMMA LocalKeeps ==
  ASSUME SessionsInv, NEW p \in Local, ClearsName(p) \/ LocalStep(p)
  PROVE  SessionsInv'
<1>1. p \in Pipeline /\ p \notin Afar /\ p \in Context /\ p # None
  BY SessionsAssumption DEF Pipeline, Context
<1>2. PICK to \in {"cleared", "created", "entered", "configured", "done", "failed"} :
        /\ pipe' = [pipe EXCEPT ![p] = to] /\ up /\ pipe[p] # "done"
        /\ to = "done" => pipe[p] = "configured"
        /\ to = "configured" => pipe[p] = "entered"
  BY DEF ClearsName, LocalStep, Creates, Enters, Configures, StartsMonitored, PipelineFails, Moves
<1>3. UNCHANGED <<up, downs, blind, overdue, row, stop, before, stopped, unmarked>>
  BY DEF ClearsName, LocalStep, Creates, Enters, Configures, StartsMonitored, PipelineFails, stops, ghosts
<1>4. /\ entry' \in {entry, p} /\ (to = "entered" => entry' = p) /\ (to # "entered" => entry' = entry)
      /\ \/ UNCHANGED <<tracked, monitor>>
         \/ tracked' = p /\ monitor' = Restarted(monitor)
  BY <1>1, <1>2 DEF ClearsName, LocalStep, Creates, Enters, Configures, StartsMonitored, PipelineFails, memory,
     Moves, SessionsInv, SessionsTypeOK
<1>5. box' \in [of : Local \cup {None}, runs : BOOLEAN] /\ (to = "done" => box'.runs)
  <2>1. box \in [of : Local \cup {None}, runs : BOOLEAN]
    BY DEF SessionsInv, SessionsTypeOK
  <2>2. box' \in {box, NoBox, [of |-> p, runs |-> FALSE], [box EXCEPT !.runs = TRUE]}
    BY DEF ClearsName, LocalStep, Creates, Enters, Configures, StartsMonitored, PipelineFails
  <2>3. to = "done" => box' = [box EXCEPT !.runs = TRUE]
    BY <1>1, <1>2 DEF ClearsName, LocalStep, Creates, Enters, Configures, StartsMonitored, PipelineFails,
       Moves, SessionsInv, SessionsTypeOK
  <2>4. QED
    BY <2>1, <2>2, <2>3, BoxForms
<1>6. monitor' \in [task : {"none", "runs", "over"}, at : Local \cup {None}]
      /\ (tracked' # None => monitor'.task = "runs")
  <2>1. Restarted(monitor) \in [task : {"none", "runs", "over"}, at : Local \cup {None}]
        /\ Restarted(monitor).task = "runs"
    BY DEF SessionsInv, SessionsTypeOK, Restarted
  <2>2. QED
    BY <1>4, <2>1 DEF SessionsInv, SessionsTypeOK, MonitorAlive
<1>7. SessionsTypeOK'
  BY <1>1, <1>2, <1>3, <1>4, <1>5, <1>6 DEF SessionsInv, SessionsTypeOK
<1>8. pipe'[p] = to /\ \A q \in Pipeline \ {p} : pipe'[q] = pipe[q]
  BY <1>1, <1>2 DEF SessionsInv, SessionsTypeOK
<1>9. LoneLocal(p)'
  <2>1. Alone(p)' => Alone(p)
    BY <1>3, <1>8 DEF Alone
  <2>2. Alone(p) => LoneLocal(p) /\ ~row.active
    BY DEF SessionsInv, LoneLocal
  <2>3. QED
    BY <1>2, <1>3, <1>4, <1>5, <1>8, <2>1, <2>2 DEF LoneLocal
<1>10. QED
  BY <1>1, <1>2, <1>3, <1>4, <1>6, <1>7, <1>9, PipelineGoes DEF MonitorAlive, Places

LEMMA AfarKeeps ==
  ASSUME SessionsInv, NEW p \in Afar, Asks(p) \/ AnsweredLate(p) \/ AfarStep(p)
  PROVE  SessionsInv'
<1>1. p \in Pipeline /\ p \notin Local /\ p \in Context /\ p # None
  BY SessionsAssumption DEF Pipeline, Context
<1>2. PICK to \in {"asked", "late", "upserting", "done", "failed"} :
        /\ pipe' = [pipe EXCEPT ![p] = to] /\ up
        /\ to = "asked" => pipe[p] = "idle" /\ UNCHANGED <<entry, row>>
        /\ to = "late" => pipe[p] = "asked" /\ UNCHANGED <<entry, row>>
        /\ to = "failed" => pipe[p] \in {"asked", "upserting"} /\ UNCHANGED <<entry, row>>
        /\ to = "upserting" => /\ pipe[p] \in {"asked", "late"} /\ UNCHANGED row
                               /\ entry' = p \/ (entry # None /\ entry' = entry)
        /\ to = "done" => pipe[p] = "upserting" /\ row' = RowOf(p) /\ UNCHANGED entry
  BY DEF AfarStep, Asks, AskFails, AskTimesOut, Answered, AnsweredLate, Upserts, UpsertFails, Moves, memory
<1>3. UNCHANGED <<up, downs, blind, tracked, monitor, overdue, box, stop, before, stopped, unmarked>>
  BY DEF AfarStep, Asks, AskFails, AskTimesOut, Answered, AnsweredLate, Upserts, UpsertFails, memory, stops, ghosts
<1>4. row' \in [of : Afar \cup {None}, active : BOOLEAN] /\ row' \in {row, RowOf(p)}
      /\ RowOf(p).active /\ RowOf(p).of = p
  <2>1. RowOf(p) \in [of : Afar \cup {None}, active : BOOLEAN] /\ RowOf(p).active /\ RowOf(p).of = p
    BY DEF RowOf
  <2>2. row' = row \/ row' = RowOf(p)
    BY <1>2
  <2>3. row \in [of : Afar \cup {None}, active : BOOLEAN]
    BY DEF SessionsInv, SessionsTypeOK
  <2>4. QED
    BY <2>1, <2>2, <2>3
<1>5. entry' \in {entry, p} /\ pipe[p] # "done"
  BY <1>2
<1>6. SessionsTypeOK'
  BY <1>1, <1>2, <1>3, <1>4, <1>5 DEF SessionsInv, SessionsTypeOK
<1>7. pipe'[p] = to /\ \A q \in Pipeline \ {p} : pipe'[q] = pipe[q]
  BY <1>1, <1>2 DEF SessionsInv, SessionsTypeOK
<1>8. LoneAfar(p)'
  <2>1. Alone(p)' => Alone(p)
    BY <1>3, <1>7 DEF Alone
  <2>2. Alone(p) => LoneAfar(p)
    BY DEF SessionsInv
  <2>3. QED
    BY <1>2, <1>3, <1>4, <1>7, <2>1, <2>2 DEF LoneAfar
<1>9. MonitorAlive'
  BY <1>3 DEF SessionsInv, MonitorAlive
<1>10. QED
  BY <1>1, <1>2, <1>3, <1>4, <1>5, <1>6, <1>8, <1>9, PipelineGoes DEF Places

\* A stop goes a step; it is not the first of its name to do something.
LEMMA StopGoes ==
  ASSUME SessionsInv, SessionsTypeOK', NEW s \in Stop, up, up' = up, UNCHANGED pipe,
         NEW pc \in StopPlaces \ {"idle"}, stop'[s].pc = pc,
         \A t \in Stop \ {s} : stop'[t] = stop[t] /\ before'[t] = before[t],
         entry' \in {entry, None}, tracked' \in {tracked, None}, UNCHANGED monitor,
         row' = Marked(row) \/ (row' = row /\ unmarked \subseteq unmarked'),
         pc # "done" => \A p \in before'[s] : /\ pipe[p] = "done" /\ tracked' # p
                                              /\ pc \in {"answered", "marking", "direct"} => entry' # p
                                              /\ pc = "direct" => Unlisted(p)',
         \A p \in stopped' \ stopped : pipe[p] = "done" /\ Gone(p)'
  PROVE  SessionsInv'
<1>1. DownIsQuiet' /\ MonitorAlive'
  BY DEF DownIsQuiet, MonitorAlive, SessionsInv
<1>2. Marked(row).of = row.of /\ Marked(row).active = FALSE
  BY DEF SessionsInv, SessionsTypeOK, Marked
<1>3. \A p \in Pipeline : p # None
  BY SessionsAssumption DEF Pipeline
<1>4. stopped' \subseteq Pipeline /\ \A t \in Stop : before[t] \subseteq Pipeline
  BY DEF SessionsInv, SessionsTypeOK
<1>5. ASSUME NEW p \in Pipeline
      PROVE  (Unlisted(p) => Unlisted(p)') /\ (entry # p => entry' # p) /\ (tracked # p => tracked' # p)
  BY <1>2, <1>3 DEF Unlisted
<1>6. ASSUME NEW p \in stopped' PROVE pipe[p] = "done" /\ Gone(p)'
  <2>1. CASE p \in stopped
    <3>1. pipe[p] = "done" /\ Gone(p)
      BY <2>1 DEF SessionsInv, StopsKnow
    <3>2. p \in Pipeline
      BY <1>4, <1>6
    <3>3. (Unlisted(p) => Unlisted(p)') /\ (entry # p => entry' # p) /\ (tracked # p => tracked' # p)
      BY <1>5, <3>2
    <3>4. QED
      BY <3>1, <3>3, Zenon DEF Gone
  <2>2. QED
    BY <1>6, <2>1
<1>7. ASSUME NEW t \in Stop, stop'[t].pc \notin {"idle", "done"}, NEW p \in before'[t]
      PROVE  /\ pipe[p] = "done" /\ tracked' # p
             /\ stop'[t].pc \in {"answered", "marking", "direct"} => entry' # p
             /\ stop'[t].pc = "direct" => Unlisted(p)'
  <2>1. CASE t = s
    BY <1>7, <2>1
  <2>2. CASE t # s
    <3>1. p \in before[t] /\ stop[t].pc = stop'[t].pc /\ p \in Pipeline
      BY <1>4, <1>7, <2>2
    <3>2. /\ pipe[p] = "done" /\ tracked # p
          /\ stop[t].pc \in {"answered", "marking", "direct"} => entry # p
          /\ stop[t].pc = "direct" => Unlisted(p)
      BY <1>7, <3>1 DEF SessionsInv, StopsKnow
    <3>3. (Unlisted(p) => Unlisted(p)') /\ (entry # p => entry' # p) /\ (tracked # p => tracked' # p)
      BY <1>5, <3>1
    <3>4. QED
      BY <3>1, <3>2, <3>3, Zenon
  <2>3. QED
    BY <2>1, <2>2
<1>8. StopsKnow'
  BY <1>6, <1>7 DEF StopsKnow
<1>9. \A p \in Pipeline : ~Alone(p)'
  BY DEF Alone
<1>10. QED
  BY <1>1, <1>8, <1>9 DEF SessionsInv, LoneLocal, LoneAfar, Pipeline

LEMMA StopMoved ==
  ASSUME SessionsInv, NEW s \in Stop, NEW from, NEW to \in StopPlaces, NEW c \in Context \cup {None},
         StopMoves(s, from, to, c)
  PROVE  /\ up /\ stop[s].pc = from /\ stop'[s].pc = to
         /\ stop' \in [Stop -> [pc : StopPlaces, ctx : Context \cup {None}]]
         /\ \A t \in Stop \ {s} : stop'[t] = stop[t]
<1>1. stop \in [Stop -> [pc : StopPlaces, ctx : Context \cup {None}]]
  BY DEF SessionsInv, SessionsTypeOK, StopPlaces
<1>2. PICK new \in [pc : StopPlaces, ctx : Context \cup {None}] : new = [pc |-> to, ctx |-> c]
  OBVIOUS
<1>3. new.pc = to /\ stop' = [stop EXCEPT ![s] = new] /\ up /\ stop[s].pc = from
  BY <1>2 DEF StopMoves
<1>4. QED
  BY <1>1, <1>2, <1>3

\* what is true of the sessions a stop finds in place
LEMMA FoundInPlace ==
  ASSUME SessionsInv, NEW p \in InPlace
  PROVE  p \in Pipeline /\ pipe[p] = "done" /\ (entry \in Afar => tracked # p)
<1>1. p \in Pipeline /\ pipe[p] = "done" /\ (entry = p \/ (row.active /\ row.of = p))
  BY DEF InPlace
<1>2. row.of \in Afar \cup {None} /\ tracked \in Local \cup {None}
  BY DEF SessionsInv, SessionsTypeOK
<1>3. QED
  BY <1>1, <1>2, SessionsAssumption DEF Pipeline

LEMMA StopsBegin ==
  ASSUME SessionsInv, NEW s \in Stop, AsksRunner(s) \/ Recycles(s)
  PROVE  SessionsInv'
<1>1. PICK from \in {"idle", "asked", "again"}, to \in {"asked", "popping", "stopping"} :
        /\ StopMoves(s, from, to, entry)
        /\ before' = IF from = "idle" THEN [before EXCEPT ![s] = InPlace] ELSE before
        /\ \/ UNCHANGED tracked /\ entry \in Afar /\ from = "idle"
           \/ tracked' = None
  BY DEF AsksRunner, Recycles, AfterResolve, memory
<1>2. UNCHANGED <<up, downs, blind, entry, monitor, overdue, box, row, pipe, stopped, unmarked>>
  BY DEF AsksRunner, Recycles, memory
<1>3. entry \in Context \cup {None} /\ InPlace \subseteq Pipeline /\ before \in [Stop -> SUBSET Pipeline]
  BY DEF SessionsInv, SessionsTypeOK, InPlace
<1>4. /\ up /\ stop[s].pc = from /\ stop'[s].pc = to
      /\ stop' \in [Stop -> [pc : StopPlaces, ctx : Context \cup {None}]]
      /\ \A t \in Stop \ {s} : stop'[t] = stop[t]
  <2>1. PICK c \in Context \cup {None} : c = entry
    BY <1>3
  <2>2. from \in StopPlaces /\ to \in StopPlaces /\ StopMoves(s, from, to, c)
    BY <1>1, <2>1 DEF StopPlaces
  <2>3. QED
    BY <2>2, StopMoved
<1>5. before' \in [Stop -> SUBSET Pipeline] /\ \A t \in Stop \ {s} : before'[t] = before[t]
  BY <1>1, <1>3
<1>6. tracked' \in {tracked, None}
  BY <1>1
<1>7. SessionsTypeOK'
  BY <1>2, <1>4, <1>5, <1>6 DEF SessionsInv, SessionsTypeOK, StopPlaces
<1>8. ASSUME NEW p \in before'[s] PROVE pipe[p] = "done" /\ tracked' # p
  <2>1. CASE from = "idle"
    <3>1. p \in InPlace
      BY <1>1, <1>3, <1>8, <2>1
    <3>2. p # None
      BY <3>1, <1>3, SessionsAssumption DEF Pipeline
    <3>3. QED
      BY <1>1, <3>1, <3>2, FoundInPlace
  <2>2. CASE from \in {"asked", "again"}
    <3>1. p \in before[s] /\ p \in Pipeline
      BY <1>1, <1>3, <1>8, <2>2
    <3>2. p # None
      BY <3>1, SessionsAssumption DEF Pipeline
    <3>3. QED
      BY <1>1, <1>4, <2>2, <3>1, <3>2 DEF SessionsInv, StopsKnow
  <2>3. QED
    BY <2>1, <2>2
<1>9. QED
  BY <1>1, <1>2, <1>4, <1>5, <1>6, <1>7, <1>8, StopGoes DEF StopPlaces

LEMMA StopsKeep ==
  ASSUME SessionsInv, NEW s \in Stop, StopGoesOn(s)
  PROVE  SessionsInv'
<1>1. PICK from \in {"asked", "answered", "stopping", "removing", "popping", "marking", "direct"},
           to \in {"answered", "again", "removing", "popping", "marking", "direct", "done"} :
        /\ StopMoves(s, from, to, stop[s].ctx)
        /\ entry' = IF to \in {"answered", "marking"} THEN None ELSE entry
        /\ to \in {"again", "direct"} => from \in {"answered", "marking"}
        /\ to = "done" => from \in {"answered", "marking", "direct"}
        /\ \/ row' = Marked(row) /\ unmarked' = unmarked \ before[s] /\ from # "direct"
           \/ row' = row /\ unmarked' = unmarked \cup before[s] /\ to # "done"
           \/ UNCHANGED <<row, unmarked>> /\ to # "direct" /\ (to = "done" => from = "direct")
        /\ IF to = "done" THEN stopped' \in {stopped, stopped \cup before[s]} ELSE stopped' = stopped
  <2>1. CASE StopsBox(s) \/ RunnerStopped(s) \/ RemovesBox(s) \/ Pops(s)
    BY <2>1 DEF StopsBox, RunnerStopped, RemovesBox, Pops, memory, ghosts
  <2>2. CASE MarksInactive(s)
    BY <2>2 DEF MarksInactive, MarksRow, memory
  <2>3. CASE MarkFails(s)
    BY <2>3 DEF MarkFails, MarksRow, memory
  <2>4. CASE GoesDirect(s)
    BY <2>4 DEF GoesDirect, memory
  <2>5. QED
    BY <2>1, <2>2, <2>3, <2>4 DEF StopGoesOn
<1>2. UNCHANGED <<up, downs, blind, tracked, monitor, overdue, pipe, before>>
  BY DEF StopGoesOn, StopsBox, RunnerStopped, RemovesBox, Pops, MarksInactive, MarkFails, GoesDirect, memory, ghosts
<1>3. box' \in [of : Local \cup {None}, runs : BOOLEAN]
  <2>1. box' \in {box, NoBox, [box EXCEPT !.runs = FALSE]}
    BY DEF StopGoesOn, StopsBox, RunnerStopped, RemovesBox, Pops, MarksInactive, MarkFails, GoesDirect
  <2>2. box \in [of : Local \cup {None}, runs : BOOLEAN]
    BY DEF SessionsInv, SessionsTypeOK
  <2>3. [box EXCEPT !.runs = FALSE] \in [of : Local \cup {None}, runs : BOOLEAN]
        /\ NoBox \in [of : Local \cup {None}, runs : BOOLEAN]
    BY <2>2 DEF NoBox
  <2>4. QED
    BY <2>1, <2>2, <2>3
<1>4. stop[s].ctx \in Context \cup {None} /\ before \in [Stop -> SUBSET Pipeline]
  BY DEF SessionsInv, SessionsTypeOK
<1>5. /\ up /\ stop[s].pc = from /\ stop'[s].pc = to
      /\ stop' \in [Stop -> [pc : StopPlaces, ctx : Context \cup {None}]]
      /\ \A t \in Stop \ {s} : stop'[t] = stop[t]
  <2>1. PICK c \in Context \cup {None} : c = stop[s].ctx
    BY <1>4
  <2>2. to \in StopPlaces /\ StopMoves(s, from, to, c)
    BY <1>1, <2>1 DEF StopPlaces
  <2>3. QED
    BY <2>2, StopMoved
<1>6. /\ Marked(row) \in [of : Afar \cup {None}, active : BOOLEAN] /\ Marked(row).active = FALSE
      /\ row' \in {row, Marked(row)}
  BY <1>1 DEF SessionsInv, SessionsTypeOK, Marked
<1>7. entry' \in {entry, None} /\ stopped' \subseteq Pipeline /\ unmarked' \subseteq Pipeline
  BY <1>1, <1>4 DEF SessionsInv, SessionsTypeOK
<1>8. SessionsTypeOK'
  BY <1>2, <1>3, <1>4, <1>5, <1>6, <1>7 DEF SessionsInv, SessionsTypeOK, StopPlaces
<1>9. ASSUME NEW p \in before[s]
      PROVE  /\ p \in Pipeline /\ p # None /\ pipe[p] = "done" /\ tracked # p
             /\ from \in {"answered", "marking", "direct"} => entry # p
             /\ from = "direct" => Unlisted(p)
  <2>1. p \in Pipeline /\ p # None
    BY <1>4, <1>9, SessionsAssumption DEF Pipeline
  <2>2. QED
    BY <1>5, <1>9, <2>1 DEF SessionsInv, StopsKnow
<1>10. ASSUME NEW p \in before'[s]
       PROVE  /\ pipe[p] = "done" /\ tracked' # p
              /\ to \in {"answered", "marking", "direct"} => entry' # p
              /\ to = "direct" => Unlisted(p)'
  <2>1. p \in before[s]
    BY <1>2, <1>10
  <2>2. to = "direct" => Unlisted(p)'
    BY <1>1, <1>6, <2>1 DEF Unlisted
  <2>3. QED
    BY <1>1, <1>2, <1>9, <2>1, <2>2
<1>11. ASSUME NEW p \in stopped' \ stopped PROVE pipe[p] = "done" /\ Gone(p)'
  <2>1. to = "done" /\ p \in before[s]
    BY <1>1, <1>11
  <2>2. Unlisted(p)'
    BY <1>1, <1>6, <1>9, <2>1 DEF Unlisted
  <2>3. entry' # p /\ tracked' # p
    BY <1>1, <1>2, <1>9, <2>1
  <2>4. QED
    BY <1>9, <2>1, <2>2, <2>3 DEF Gone
<1>12. row' = Marked(row) \/ (row' = row /\ unmarked \subseteq unmarked')
  BY <1>1
<1>13. \A t \in Stop \ {s} : stop'[t] = stop[t] /\ before'[t] = before[t]
  BY <1>2, <1>5
<1>14. to \in StopPlaces \ {"idle"} /\ tracked' \in {tracked, None}
  BY <1>1, <1>2 DEF StopPlaces
<1>15. QED
  BY <1>2, <1>5, <1>7, <1>8, <1>10, <1>11, <1>12, <1>13, <1>14, StopGoes

LEMMA MonitorKeeps ==
  ASSUME SessionsInv, LoopTurns \/ CheckEnds
  PROVE  SessionsInv'
<1>1. UNCHANGED <<up, downs, blind, entry, box, row, pipe, stop, before, stopped, unmarked>>
  BY DEF LoopTurns, CheckEnds, stops, ghosts
<1>2. /\ monitor' \in [task : {"none", "runs", "over"}, at : Local \cup {None}]
      /\ tracked' # None => tracked' = tracked /\ monitor'.task = "runs"
      /\ tracked' \in {tracked, None} /\ overdue' \subseteq Local
  <2>1. CASE LoopTurns
    BY <2>1 DEF LoopTurns, SessionsInv, SessionsTypeOK
  <2>2. CASE CheckEnds
    BY <2>2 DEF CheckEnds, SessionsInv, SessionsTypeOK, MonitorAlive
  <2>3. QED
    BY <2>1, <2>2
<1>3. SessionsTypeOK' /\ MonitorAlive' /\ DownIsQuiet'
  BY <1>1, <1>2 DEF SessionsInv, SessionsTypeOK, MonitorAlive, DownIsQuiet
<1>4. \A p \in Pipeline : tracked # p => tracked' # p
  BY <1>2, SessionsAssumption DEF Pipeline
<1>5. StopsKnow'
  <2>1. stopped \subseteq Pipeline /\ \A s \in Stop : before[s] \subseteq Pipeline
    BY DEF SessionsInv, SessionsTypeOK
  <2>2. QED
    BY <1>1, <1>4, <2>1 DEF SessionsInv, StopsKnow, Gone, Unlisted
<1>6. \A p \in Pipeline : Alone(p)' = Alone(p)
  BY <1>1 DEF Alone
<1>7. QED
  BY <1>1, <1>3, <1>5, <1>6 DEF SessionsInv, LoneLocal, LoneAfar, Pipeline

LEMMA HubKeeps ==
  ASSUME SessionsInv, GoesDown \/ ComesBack
  PROVE  SessionsInv'
<1>1. UNCHANGED <<overdue, box, row, before, unmarked>> /\ (GoesDown => UNCHANGED <<stopped, blind>>)
  BY DEF GoesDown, ComesBack, ghosts
<1>2. CASE GoesDown
  <2>1. entry' = None /\ tracked' = None /\ up' = FALSE /\ downs' \in 0..MaxDowns
        /\ monitor' = [task |-> "none", at |-> None]
    BY <1>2, SessionsAssumption DEF GoesDown, SessionsInv, SessionsTypeOK
  <2>2. \A p \in Pipeline : pipe'[p] = AfterCrash(pipe[p]) /\ pipe[p] \in Places
    BY <1>2 DEF GoesDown, SessionsInv, SessionsTypeOK, Places
  <2>3. \A p \in Pipeline : /\ pipe'[p] \in Settled
                            /\ pipe'[p] = "idle" <=> pipe[p] = "idle"
                            /\ pipe'[p] = "done" <=> pipe[p] = "done"
    BY <2>2 DEF AfterCrash, Places, Settled
  <2>4. ASSUME NEW s \in Stop
        PROVE  stop'[s].pc \in {"idle", "done"} /\ (stop'[s].pc = "idle" <=> stop[s].pc = "idle")
               /\ stop'[s] \in [pc : StopPlaces, ctx : Context \cup {None}]
    BY <1>2 DEF GoesDown, SessionsInv, SessionsTypeOK, StopPlaces
  <2>5. pipe' \in [Pipeline -> Places] /\ stop' \in [Stop -> [pc : StopPlaces, ctx : Context \cup {None}]]
    BY <1>2, <2>3, <2>4 DEF GoesDown, Settled, Places
  <2>6. SessionsTypeOK' /\ MonitorAlive' /\ DownIsQuiet'
    BY <1>1, <1>2, <2>1, <2>3, <2>4, <2>5 DEF SessionsInv, SessionsTypeOK, MonitorAlive, DownIsQuiet, Places,
       StopPlaces
  <2>7. StopsKnow'
    <3>1. stopped \subseteq Pipeline /\ \A p \in Pipeline : p # None
      BY SessionsAssumption DEF SessionsInv, SessionsTypeOK, Pipeline
    <3>2. QED
      BY <1>1, <1>2, <2>1, <2>3, <2>4, <3>1 DEF SessionsInv, StopsKnow, Gone, Unlisted
  <2>8. \A p \in Pipeline : Alone(p)' => Alone(p)
    BY <2>3, <2>4 DEF Alone
  <2>9. ASSUME NEW p \in Local PROVE LoneLocal(p)'
    BY <1>1, <1>2, <2>1, <2>3, <2>8 DEF SessionsInv, LoneLocal, Pipeline, Settled
  <2>10. ASSUME NEW p \in Afar PROVE LoneAfar(p)'
    BY <1>1, <2>1, <2>3, <2>8 DEF SessionsInv, LoneAfar, Pipeline, Settled
  <2>11. QED
    BY <2>6, <2>7, <2>9, <2>10 DEF SessionsInv
<1>3. CASE ComesBack
  <2>1. PICK sees \in BOOLEAN : blind' = ~sees /\ entry' = Restored(sees)
                               /\ stopped' = stopped \ (unmarked \cap {Restored(sees)})
    BY <1>3 DEF ComesBack
  <2>2. ~up /\ up' = TRUE /\ UNCHANGED <<downs, tracked, monitor, pipe, stop>>
    BY <1>3 DEF ComesBack
  <2>3. row.of \in Afar \cup {None} /\ stopped \subseteq Pipeline
    BY DEF SessionsInv, SessionsTypeOK
  <2>4. Restored(sees) \in Context \cup {None}
    BY <2>3 DEF Restored, Context, Pipeline
  <2>5. SessionsTypeOK' /\ MonitorAlive' /\ DownIsQuiet'
    BY <1>1, <2>1, <2>2, <2>4 DEF SessionsInv, SessionsTypeOK, MonitorAlive, DownIsQuiet
  <2>6. StopsKnow'
    <3>1. \A p \in Pipeline : p # None /\ p # Found
      BY SessionsAssumption DEF Pipeline
    <3>2. \A s \in Stop : stop[s].pc \in {"idle", "done"}
      BY <2>2 DEF SessionsInv, DownIsQuiet
    <3>3. ASSUME NEW p \in stopped' PROVE pipe[p] = "done" /\ Gone(p) /\ Restored(sees) # p
      <4>1. p \in stopped /\ p \in Pipeline /\ pipe[p] = "done" /\ Gone(p)
        BY <2>1, <2>3, <3>3 DEF SessionsInv, StopsKnow
      <4>2. ASSUME Restored(sees) = p PROVE p \in unmarked
        BY <3>1, <4>1, <4>2 DEF Gone, Unlisted, Restored
      <4>3. QED
        BY <2>1, <3>3, <4>1, <4>2
    <3>4. QED
      BY <1>1, <2>1, <2>2, <3>2, <3>3 DEF StopsKnow, Gone, Unlisted
  <2>7. \A p \in Pipeline : (Alone(p)' <=> Alone(p)) /\ pipe[p] \in Settled
    BY <2>2 DEF Alone, SessionsInv, DownIsQuiet
  <2>8. ASSUME NEW p \in Local PROVE LoneLocal(p)'
    BY <1>1, <2>1, <2>2, <2>7 DEF SessionsInv, LoneLocal, Pipeline, Settled, Restored
  <2>9. ASSUME NEW p \in Afar PROVE LoneAfar(p)'
    BY <1>1, <2>1, <2>2, <2>7 DEF SessionsInv, LoneAfar, Pipeline, Settled, Restored, NoBox
  <2>10. QED
    BY <2>5, <2>6, <2>8, <2>9 DEF SessionsInv
<1>4. QED
  BY <1>2, <1>3

\* Whatever pipelines, stops, failing writes, checks and crashes of the hub follow
\* and overtake each other under one name: what a stop found in place does not come
\* back once the stop has succeeded, unless a write of its row failed and the hub
\* then starts anew; what nobody touched is known after every restart, on the local
\* daemon one that could ask docker; and the monitor's task lives while it has
\* something to watch (lifecycle.recycle, recover_sessions_from_docker,
\* load_runner_sessions_from_db, monitor; the stop and delete handlers).
THEOREM SessionsAreTracked == SessionsSpec => [](SessionsTypeOK /\ SessionsTracked)
<1>1. SessionsInit => SessionsInv
  BY InitSessionsInv
<1>2. SessionsInv /\ [SessionsNext]_sessionVars => SessionsInv'
  <2> SUFFICES ASSUME SessionsInv, [SessionsNext]_sessionVars PROVE SessionsInv'
    OBVIOUS
  <2>1. CASE UNCHANGED sessionVars
    <3>1. UNCHANGED <<up, downs, blind, entry, tracked, monitor, overdue, box, row, pipe, stop, before, stopped,
                      unmarked>>
      BY <2>1 DEF sessionVars, memory, stops, ghosts
    <3>2. SessionsTypeOK' /\ DownIsQuiet' /\ MonitorAlive' /\ StopsKnow'
      BY <3>1 DEF SessionsInv, SessionsTypeOK, DownIsQuiet, MonitorAlive, StopsKnow, Gone,
         Unlisted
    <3>3. \A p \in Pipeline : Alone(p)' <=> Alone(p)
      BY <3>1 DEF Alone
    <3>4. QED
      BY <3>1, <3>2, <3>3 DEF SessionsInv, LoneLocal, LoneAfar, Pipeline
  <2>2. ASSUME NEW p \in Local, ClearsName(p) \/ LocalStep(p) PROVE SessionsInv'
    BY <2>2, LocalKeeps
  <2>3. ASSUME NEW p \in Afar, Asks(p) \/ AnsweredLate(p) \/ AfarStep(p) PROVE SessionsInv'
    BY <2>3, AfarKeeps
  <2>4. ASSUME NEW s \in Stop, AsksRunner(s) \/ Recycles(s) PROVE SessionsInv'
    BY <2>4, StopsBegin
  <2>5. ASSUME NEW s \in Stop, StopGoesOn(s) PROVE SessionsInv'
    BY <2>5, StopsKeep
  <2>6. CASE LoopTurns \/ CheckEnds
    BY <2>6, MonitorKeeps
  <2>7. CASE GoesDown \/ ComesBack
    BY <2>7, HubKeeps
  <2>8. QED
    BY <2>1, <2>2, <2>3, <2>4, <2>5, <2>6, <2>7 DEF SessionsNext
<1>3. SessionsInv => SessionsTypeOK /\ SessionsTracked
  BY SessionsInvHolds
<1>4. QED
  BY <1>1, <1>2, <1>3, PTL DEF SessionsSpec

-----------------------------------------------------------------------------
(***************************************************************************)
(* Queries typed into a session                                            *)
(***************************************************************************)

QueryState ==
    [at : {"idle", "typed", "polling", "answered", "timeout"},
     stable : 0..2, answer : Query \cup {Nothing}]
PaneState == [turn : Query \cup {Nothing}, last : Query \cup {Nothing}, works : BOOLEAN, rest : 0..MaxRest]

OnScreen(q) == asking[q].at \in {"typed", "polling"}

\* A query that met no other has the screen to itself: the agent works on its
\* turn, having rested as often as was counted, or its answer is the last one.
Undisturbed(q) ==
    /\ OnScreen(q) => \A p \in Query : OnScreen(p) => p = q
    /\ asking[q].at = "polling" =>
          /\ pane.turn = q
          /\ IF pane.works THEN asking[q].stable <= pane.rest ELSE pane.last = q
    /\ asking[q].at = "answered" => asking[q].answer = q

AssistFresh ==
    /\ assist.at \in {"asking", "reading"} => file \in {0, assist.attempt} \/ assist.attempt \in untruncated
    /\ assist.at = "done" => assist.text = assist.attempt \/ assist.attempt \in untruncated

QueryTyped ==
    /\ pane \in PaneState /\ asking \in [Query -> QueryState]
    /\ \A q \in Query : asking[q].at \in {"idle", "typed"} => asking[q].stable = 0

AssistTyped ==
    assist \in [attempt : 0..Tries, at : {"ready", "asking", "reading", "done", "failed"}, text : 0..Tries]
    /\ file \in 0..Tries

ScreenInv == QueryTyped /\ \A q \in Query : q \notin disturbed => Undisturbed(q)
AssistInv == AssistTyped /\ AssistFresh

LEMMA InitScreenInv == SessionQueryInit => ScreenInv /\ AssistInv
<1> SUFFICES ASSUME SessionQueryInit PROVE ScreenInv /\ AssistInv
  OBVIOUS
<1>1. pane \in PaneState
  BY SessionQueryAssumption DEF SessionQueryInit, PaneState
<1>2. [at |-> "idle", stable |-> 0, answer |-> Nothing] \in QueryState
  BY DEF QueryState
<1>3. asking \in [Query -> QueryState] /\ \A q \in Query : asking[q].at = "idle" /\ asking[q].stable = 0
  BY <1>2 DEF SessionQueryInit
<1>4. assist.at = "ready" /\ AssistTyped
  BY SessionQueryAssumption DEF SessionQueryInit, AssistTyped
<1>5. QED
  BY <1>1, <1>3, <1>4 DEF ScreenInv, QueryTyped, Undisturbed, OnScreen, AssistInv, AssistFresh

\* a query comes to the screen, or types there
LEMMA QueryArrives ==
  ASSUME ScreenInv, NEW q \in Query, Clears(q) \/ Sends(q)
  PROVE  ScreenInv'
<1>1. pane \in PaneState /\ asking \in [Query -> QueryState]
  BY DEF ScreenInv, QueryTyped
<1>2. PICK at \in {"typed", "polling"} :
        /\ asking' = [asking EXCEPT ![q].at = at] /\ disturbed' = disturbed \cup Meets(q)
        /\ at = "typed" => asking[q].at = "idle"
        /\ at = "polling" => asking[q].at = "typed" /\ pane' = [pane EXCEPT !.turn = q, !.works = TRUE, !.rest = 0]
        /\ at = "typed" => pane' = [pane EXCEPT !.works = FALSE, !.rest = 0]
  BY DEF Clears, Sends
<1>3. PICK x \in QueryState : x = [asking[q] EXCEPT !.at = at]
  BY <1>1 DEF QueryState
<1>4. /\ asking' = [asking EXCEPT ![q] = x] /\ x.at = at /\ x.stable = asking[q].stable
      /\ asking' \in [Query -> QueryState] /\ asking'[q] = x
      /\ \A p \in Query : p # q => asking'[p] = asking[p]
  BY <1>1, <1>2, <1>3 DEF QueryState
<1>5. pane' \in PaneState /\ (at = "polling" => pane'.turn = q /\ pane'.works = TRUE /\ pane'.rest = 0)
  <2>1. 0 \in 0..MaxRest
    BY SessionQueryAssumption
  <2>2. CASE at = "typed"
    BY <1>1, <1>2, <2>1, <2>2 DEF PaneState
  <2>3. CASE at = "polling"
    BY <1>1, <1>2, <2>1, <2>3 DEF PaneState
  <2>4. QED
    BY <2>2, <2>3
<1>6. asking[q].stable = 0
  BY <1>2 DEF ScreenInv, QueryTyped
<1>7. QueryTyped'
  BY <1>4, <1>5, <1>6 DEF ScreenInv, QueryTyped
<1>8. ASSUME NEW p \in Query, p \notin disturbed' PROVE Undisturbed(p)'
  <2>1. p \notin disturbed /\ p \notin Meets(q) /\ Undisturbed(p)
    BY <1>2, <1>8 DEF ScreenInv
  <2>2. CASE p = q
    <3>1. \A r \in Query : r # q => ~OnScreen(r)
      BY <2>1, <2>2 DEF Meets, Others, OnScreen
    <3>2. \A r \in Query : r # q => ~OnScreen(r)'
      BY <1>4, <3>1 DEF OnScreen
    <3>3. QED
      BY <1>4, <1>5, <1>6, <2>2, <3>2 DEF Undisturbed, OnScreen
  <2>3. CASE p # q
    <3>1. ~OnScreen(p)
      BY <2>1, <2>3 DEF Meets, Others, OnScreen
    <3>2. QED
      BY <1>4, <2>1, <2>3, <3>1 DEF Undisturbed, OnScreen
  <2>4. QED
    BY <2>2, <2>3
<1>9. QED
  BY <1>7, <1>8 DEF ScreenInv

LEMMA QueryPolls ==
  ASSUME ScreenInv, MaxRest <= 1, NEW q \in Query, Changes(q) \/ Rests(q) \/ TimesOut(q)
  PROVE  ScreenInv'
<1>1. pane \in PaneState /\ asking \in [Query -> QueryState] /\ MaxRest \in Nat
      /\ UNCHANGED disturbed /\ asking[q].at = "polling"
  BY SessionQueryAssumption DEF ScreenInv, QueryTyped, Changes, Rests, TimesOut
<1>2. PICK x \in QueryState :
        /\ asking' = [asking EXCEPT ![q] = x]
        /\ x.at \in {"polling", "answered", "timeout"}
        /\ \/ Changes(q) /\ x.at = "polling" /\ x.stable = 0
           \/ Rests(q) /\ asking[q].stable + 1 < 2 /\ x.at = "polling" /\ x.stable = asking[q].stable + 1
           \/ Rests(q) /\ asking[q].stable + 1 >= 2 /\ x.at = "answered" /\ x.answer = pane.last
           \/ TimesOut(q) /\ x.at = "timeout"
  <2>1. asking[q] \in QueryState /\ asking[q].stable \in 0..2
    BY <1>1 DEF QueryState
  <2>2. CASE Changes(q)
    <3>0. PICK n \in 0..2 : n = 0
      OBVIOUS
    <3>1. PICK x \in QueryState : x = [asking[q] EXCEPT !.stable = n]
      BY <2>1 DEF QueryState
    <3>2. asking' = [asking EXCEPT ![q] = x] /\ x.stable = 0 /\ x.at = "polling"
      BY <1>1, <2>1, <2>2, <3>0, <3>1 DEF Changes, SeesChange, QueryState
    <3>3. QED
      BY <2>2, <3>2
  <2>3. CASE Rests(q) /\ asking[q].stable + 1 < 2
    <3>1. PICK n \in 0..2 : n = asking[q].stable + 1
      BY <2>1, <2>3
    <3>2. PICK x \in QueryState : x = [asking[q] EXCEPT !.stable = n]
      BY <2>1 DEF QueryState
    <3>3. asking' = [asking EXCEPT ![q] = x] /\ x.stable = n /\ x.at = "polling"
      BY <1>1, <2>1, <2>3, <3>1, <3>2 DEF Rests, QueryState
    <3>4. QED
      BY <2>3, <3>1, <3>3
  <2>4. CASE Rests(q) /\ ~(asking[q].stable + 1 < 2)
    <3>1. PICK x : x = [at |-> "answered", stable |-> 2, answer |-> pane.last]
      OBVIOUS
    <3>2. x \in QueryState /\ x.at = "answered" /\ x.answer = pane.last
      BY <1>1, <3>1 DEF QueryState, PaneState
    <3>3. asking' = [asking EXCEPT ![q] = x]
      BY <2>4, <3>1 DEF Rests
    <3>4. asking[q].stable + 1 >= 2
      BY <2>1, <2>4
    <3>5. QED
      BY <2>4, <3>2, <3>3, <3>4
  <2>5. CASE TimesOut(q)
    <3>1. PICK x \in QueryState : x = [asking[q] EXCEPT !.at = "timeout"]
      BY <2>1 DEF QueryState
    <3>2. asking' = [asking EXCEPT ![q] = x] /\ x.at = "timeout"
      BY <1>1, <2>1, <2>5, <3>1 DEF TimesOut, QueryState
    <3>3. QED
      BY <2>5, <3>2
  <2>6. QED
    BY <2>2, <2>3, <2>4, <2>5
<1>3. asking' \in [Query -> QueryState] /\ asking'[q] = x /\ \A p \in Query : p # q => asking'[p] = asking[p]
  BY <1>1, <1>2
<1>4. /\ pane' \in PaneState /\ pane'.turn = pane.turn /\ pane'.last = pane.last /\ pane'.works = pane.works
      /\ Changes(q) => pane'.rest = 0
      /\ Rests(q) /\ pane.works => pane'.rest = pane.rest + 1 /\ pane.rest < MaxRest
  <2>1. CASE Rests(q)
    <3>1. PICK n \in 0..MaxRest : /\ n = IF pane.works THEN pane.rest + 1 ELSE pane.rest
                                  /\ pane' = [pane EXCEPT !.rest = n]
      BY <1>1, <2>1 DEF Rests, PaneState
    <3>2. ~Changes(q) \/ n = 0
      BY <2>1, <3>1, <1>1, <1>2 DEF Changes, Rests, PaneState
    <3>3. QED
      BY <1>1, <2>1, <3>1, <3>2 DEF PaneState, Rests
  <2>2. CASE ~Rests(q)
    BY <1>1, <2>2 DEF Changes, TimesOut, PaneState
  <2>3. QED
    BY <2>1, <2>2
<1>5. QueryTyped'
  BY <1>2, <1>3, <1>4 DEF ScreenInv, QueryTyped
<1>6. ASSUME NEW p \in Query, p \notin disturbed PROVE Undisturbed(p)'
  <2>1. Undisturbed(p)
    BY <1>6 DEF ScreenInv
  <2>2. CASE p = q
    <3>1. \A r \in Query : r # q => ~OnScreen(r) /\ ~OnScreen(r)'
      BY <1>1, <1>3, <2>1, <2>2 DEF Undisturbed, OnScreen
    <3>2. pane.turn = q /\ IF pane.works THEN asking[q].stable <= pane.rest ELSE pane.last = q
      BY <1>1, <2>1, <2>2 DEF Undisturbed
    <3>3. pane.rest \in 0..MaxRest /\ asking[q].stable \in 0..2
      BY <1>1 DEF PaneState, QueryState
    <3>4. x.at = "polling" => IF pane.works THEN x.stable <= pane'.rest ELSE pane'.last = q
      BY <1>2, <1>4, <3>2, <3>3
    <3>5. x.at = "answered" => x.answer = q
      <4>1. ASSUME x.at = "answered" PROVE ~pane.works
        BY <1>1, <1>2, <1>4, <3>2, <3>3, <4>1
      <4>2. QED
        BY <1>2, <3>2, <4>1
    <3>6. QED
      BY <1>3, <1>4, <2>2, <3>1, <3>2, <3>4, <3>5 DEF Undisturbed, OnScreen
  <2>3. CASE p # q
    <3>1. ~OnScreen(p)
      BY <1>1, <2>1, <2>3 DEF Undisturbed, OnScreen
    <3>2. QED
      BY <1>3, <2>1, <2>3, <3>1 DEF Undisturbed, OnScreen
  <2>4. QED
    BY <2>2, <2>3
<1>7. QED
  BY <1>1, <1>5, <1>6 DEF ScreenInv

LEMMA AgentKeeps ==
  ASSUME ScreenInv, AgentAnswers
  PROVE  ScreenInv'
<1>1. pane \in PaneState /\ UNCHANGED <<asking, disturbed>> /\ pane.works
      /\ pane' = [pane EXCEPT !.works = FALSE, !.last = pane.turn, !.rest = 0]
  BY DEF ScreenInv, QueryTyped, AgentAnswers
<1>2. pane' \in PaneState /\ pane'.turn = pane.turn /\ pane'.last = pane.turn /\ pane'.works = FALSE
  <2>1. 0 \in 0..MaxRest
    BY SessionQueryAssumption
  <2>2. QED
    BY <1>1, <2>1 DEF PaneState
<1>3. QED
  BY <1>1, <1>2 DEF ScreenInv, QueryTyped, Undisturbed, OnScreen

LEMMA AssistKeeps ==
  ASSUME AssistInv, AssistNext
  PROVE  AssistInv'
<1> DEFINE Assisting == [attempt : 0..Tries, at : {"ready", "asking", "reading", "done", "failed"},
                         text : 0..Tries]
<1>1. assist \in Assisting /\ file \in 0..Tries /\ Tries \in Nat
  BY SessionQueryAssumption DEF AssistInv, AssistTyped
<1>2. CASE Attempts
  <2>1. PICK n \in 0..Tries : n = assist.attempt + 1
    BY <1>1, <1>2 DEF Attempts
  <2>2. /\ assist' = [assist EXCEPT !.attempt = n, !.at = "asking"]
        /\ file' = 0 \/ (UNCHANGED file /\ n \in untruncated')
    BY <1>1, <1>2, <2>1 DEF Attempts, Truncated
  <2>3. assist' \in Assisting /\ assist'.attempt = n /\ assist'.at = "asking"
    BY <1>1, <2>2
  <2>4. file' \in 0..Tries
    BY <1>1, <2>2
  <2>5. QED
    BY <2>2, <2>3, <2>4 DEF AssistInv, AssistTyped, AssistFresh
<1>3. CASE AssistAnswered
  <2>1. assist' = [assist EXCEPT !.at = "reading"] /\ assist.at = "asking"
        /\ file' \in {file, assist.attempt} /\ UNCHANGED untruncated
    BY <1>3 DEF AssistAnswered
  <2>2. assist' \in Assisting /\ assist'.attempt = assist.attempt /\ assist'.at = "reading"
        /\ file' \in 0..Tries
    BY <1>1, <2>1
  <2>3. QED
    BY <2>1, <2>2 DEF AssistInv, AssistTyped, AssistFresh
<1>4. CASE AssistFails
  <2>1. assist' = [assist EXCEPT !.at = "failed"] /\ UNCHANGED file
    BY <1>4 DEF AssistFails
  <2>2. assist' \in Assisting /\ assist'.at = "failed"
    BY <1>1, <2>1
  <2>3. QED
    BY <1>1, <2>1, <2>2 DEF AssistInv, AssistTyped, AssistFresh
<1>5. CASE Reads
  <2>1. PICK text \in {file, 0}, at \in {"done", "ready"} :
           assist' = [assist EXCEPT !.text = IF text = 0 THEN assist.attempt ELSE text, !.at = at]
    BY <1>5 DEF Reads
  <2>2. PICK said \in 0..Tries : said = IF text = 0 THEN assist.attempt ELSE text
    BY <1>1
  <2>3. assist' \in Assisting /\ assist'.attempt = assist.attempt /\ assist'.at = at /\ assist'.text = said
    BY <1>1, <2>1, <2>2
  <2>4. UNCHANGED <<file, untruncated>> /\ assist.at = "reading"
    BY <1>5 DEF Reads
  <2>5. said = assist.attempt \/ assist.attempt \in untruncated
    BY <2>1, <2>2, <2>4 DEF AssistInv, AssistFresh
  <2>6. QED
    BY <1>1, <2>3, <2>4, <2>5 DEF AssistInv, AssistTyped, AssistFresh
<1>6. QED
  BY <1>2, <1>3, <1>4, <1>5 DEF AssistNext

LEMMA AssistRests == AssistInv /\ UNCHANGED assistVars => AssistInv'
  BY DEF AssistInv, AssistTyped, AssistFresh, assistVars

LEMMA ScreenRests == ScreenInv /\ UNCHANGED queryVars => ScreenInv'
  BY DEF ScreenInv, QueryTyped, Undisturbed, OnScreen, queryVars

\* While the agent never rests for two captures in a row before it has answered,
\* which is what the hub takes for the end, the answer read is that of the query,
\* if no other was on the screen with it; and an assist returns the text of its
\* last attempt unless the file could not be emptied (_tmux_send_and_wait,
\* _retry_loop).
THEOREM OwnAnswersRead == MaxRest <= 1 => (SessionQuerySpec => []AnswersAreOwn)
<1> SUFFICES ASSUME MaxRest <= 1 PROVE SessionQuerySpec => []AnswersAreOwn
  OBVIOUS
<1>1. SessionQueryInit => ScreenInv /\ AssistInv
  BY InitScreenInv
<1>2. ScreenInv /\ AssistInv /\ [SessionQueryNext]_sessionQueryVars => (ScreenInv /\ AssistInv)'
  <2> SUFFICES ASSUME ScreenInv, AssistInv, [SessionQueryNext]_sessionQueryVars
               PROVE  ScreenInv' /\ AssistInv'
    OBVIOUS
  <2>1. CASE QueryNext
    <3>1. UNCHANGED assistVars
      BY <2>1 DEF QueryNext, Clears, Sends, Changes, Rests, TimesOut, AgentAnswers
    <3>2. QED
      BY <2>1, <3>1, AssistRests, QueryArrives, QueryPolls, AgentKeeps DEF QueryNext
  <2>2. CASE AssistNext
    <3>1. UNCHANGED queryVars
      BY <2>2 DEF AssistNext, Attempts, AssistAnswered, AssistFails, Reads
    <3>2. QED
      BY <2>2, <3>1, AssistKeeps, ScreenRests
  <2>3. CASE UNCHANGED sessionQueryVars
    BY <2>3, AssistRests, ScreenRests DEF sessionQueryVars
  <2>4. QED
    BY <2>1, <2>2, <2>3 DEF SessionQueryNext
<1>3. ScreenInv /\ AssistInv => AnswersAreOwn
  BY DEF ScreenInv, Undisturbed, AssistInv, AssistFresh, AnswersAreOwn
<1>4. QED
  BY <1>1, <1>2, <1>3, PTL DEF SessionQuerySpec

-----------------------------------------------------------------------------
(***************************************************************************)
(* Virtual machines                                                        *)
(***************************************************************************)

LEMMA PortIsFree == FreePort \in Nat /\ FreePort \notin Published
<1>1. \E x \in BasePort..(BasePort + Cardinality(Published)) :
        x \notin Published /\ BasePort..(x - 1) \subseteq Published
  BY UtmAssumption, ScanFinds
<1>2. Cardinality(Published) \in Nat /\ BasePort \in Nat
  BY UtmAssumption, FS_CardinalityType
<1>3. /\ FreePort \in BasePort..(BasePort + Cardinality(Published))
      /\ FreePort \notin Published
  BY <1>1 DEF FreePort, Taken
<1>4. QED
  BY <1>2, <1>3

Machines == [mode : Mode \cup {"none"}, port : Nat, mac : Address, runs : BOOLEAN]
Pipelines == [pc : {"idle", "scanned", "cloned", "written", "waiting", "ready", "up", "failed"},
              port : Nat, mac : Address, reached : Name \cup {NoName}]

\* An address that a session, a machine or an ip file has is not drawn again,
\* and whoever else has it has the same name.
Drawn == \A n \in Name : session[n].mac \notin fresh /\ vm[n].mac \notin fresh
Reported == \A a \in fresh : ipfile[a] = NoName
OneName ==
  \A n, m \in Name : \A a \in Mac :
    /\ session[n].mac = a /\ session[m].mac = a => n = m
    /\ session[n].mac = a /\ vm[m].mac = a => n = m
    /\ vm[n].mac = a /\ vm[m].mac = a => n = m
    /\ session[n].mac = a /\ ipfile[a] = m => n = m
    /\ vm[n].mac = a /\ ipfile[a] = m => n = m
    /\ ipfile[a] = n /\ ipfile[a] = m => n = m
Own == \A n \in Name : session[n].mac # TemplateMac /\ vm[n].mac # TemplateMac

UtmInv == UtmTypeOK /\ Drawn /\ Reported /\ OneName /\ Own /\ ReachesOwnVm

LEMMA UtmStates ==
  ASSUME UtmTypeOK
  PROVE  vm \in [Name -> Machines] /\ session \in [Name -> Pipelines]
  BY DEF UtmTypeOK, Machines, Pipelines

LEMMA NoneAtFirst == NoVm \in Machines /\ NoSession \in Pipelines
<1>1. NoMac \in Address /\ 0 \in Nat /\ FALSE \in BOOLEAN /\ NoName \in Name \cup {NoName}
  BY DEF Address
<1>2. QED
  BY <1>1 DEF NoVm, NoSession, Machines, Pipelines

LEMMA InitUtmInv == UtmInit => UtmInv
<1> SUFFICES ASSUME UtmInit PROVE UtmInv
  OBVIOUS
<1>1. NoMac \notin Mac
  BY UtmAssumption DEF NoMac
<1>2. \A n \in Name : vm[n] = NoVm /\ session[n] = NoSession
  BY DEF UtmInit
<1>3. NoVm.mac = NoMac /\ NoSession.mac = NoMac /\ NoSession.reached = NoName
  BY DEF NoVm, NoSession
<1>4. vm \in [Name -> Machines] /\ session \in [Name -> Pipelines]
  BY NoneAtFirst DEF UtmInit
<1>5. UtmTypeOK
  BY <1>4 DEF UtmInit, UtmTypeOK, Machines, Pipelines
<1>6. \A a \in Address : ipfile[a] = NoName
  BY DEF UtmInit
<1>7. \A a \in Mac : a \in Address
  BY DEF Address
<1>8. Drawn /\ Reported /\ OneName /\ ReachesOwnVm
  BY <1>1, <1>2, <1>3, <1>6, <1>7, UtmAssumption DEF UtmInit, Drawn, Reported, OneName, ReachesOwnVm
<1>9. Own
  BY <1>2, <1>3, UtmAssumption DEF Own, NoMac
<1>10. QED
  BY <1>5, <1>8, <1>9 DEF UtmInv

\* Nothing new gets an address: what n's session and machine have, and the ip
\* files say, they had before, or it is n's machine that reports.
LEMMA NothingDrawn ==
  ASSUME UtmInv, NEW n \in Name, UNCHANGED fresh, dirs' \subseteq Address,
         NEW m \in Machines, vm' = [vm EXCEPT ![n] = m], m.mac \in {vm[n].mac, NoMac},
         NEW p \in Pipelines, session' = [session EXCEPT ![n] = p], p.mac \in {session[n].mac, NoMac},
         p.reached \in {n, NoName},
         ipfile' \in [Address -> Name \cup {NoName}],
         \A a \in Address : \/ ipfile'[a] \in {ipfile[a], NoName}
                            \/ ipfile'[a] = n /\ vm[n].mac = a /\ vm'[n].mac = a
  PROVE  UtmInv'
<1>1. vm \in [Name -> Machines] /\ session \in [Name -> Pipelines] /\ NoMac \notin Mac
      /\ NoMac # TemplateMac /\ fresh \subseteq Mac /\ NoName \notin Name
  BY UtmStates, UtmAssumption DEF UtmInv, UtmTypeOK, NoMac
<1>2. vm' \in [Name -> Machines] /\ session' \in [Name -> Pipelines]
  BY <1>1
<1>3. UtmTypeOK'
  BY <1>1, <1>2 DEF UtmTypeOK, Machines, Pipelines
<1>4. \A k \in Name : /\ vm'[k].mac \in {vm[k].mac, NoMac} /\ session'[k].mac \in {session[k].mac, NoMac}
                      /\ session'[k].reached \in {session[k].reached, n, NoName}
                      /\ k # n => session'[k].reached = session[k].reached
  BY <1>1
<1>5. \A a \in Mac : a \in Address
  BY DEF Address
<1>6. Drawn'
  BY <1>1, <1>4 DEF UtmInv, Drawn
<1>7. Reported'
  BY <1>1, <1>5 DEF UtmInv, Drawn, Reported
<1>8. Own'
  BY <1>1, <1>4 DEF UtmInv, Own
<1>9. ReachesOwnVm'
  <2>1. session'[n].reached \in {n, NoName}
    BY <1>1
  <2>2. QED
    BY <1>4, <2>1 DEF UtmInv, ReachesOwnVm
<1>10. \A a \in Mac, k \in Name : ipfile'[a] = k => ipfile[a] = k \/ (vm[k].mac = a)
  BY <1>1, <1>5
<1>11. OneName'
  <2> SUFFICES ASSUME NEW k \in Name, NEW l \in Name, NEW a \in Mac
               PROVE  /\ session'[k].mac = a /\ session'[l].mac = a => k = l
                      /\ session'[k].mac = a /\ vm'[l].mac = a => k = l
                      /\ vm'[k].mac = a /\ vm'[l].mac = a => k = l
                      /\ session'[k].mac = a /\ ipfile'[a] = l => k = l
                      /\ vm'[k].mac = a /\ ipfile'[a] = l => k = l
                      /\ ipfile'[a] = k /\ ipfile'[a] = l => k = l
    BY DEF OneName
  <2>1. \A j \in Name : /\ session'[j].mac = a => session[j].mac = a
                        /\ vm'[j].mac = a => vm[j].mac = a
    BY <1>1, <1>4
  <2>2. QED
    BY <1>10, <2>1 DEF UtmInv, OneName
<1>12. QED
  BY <1>3, <1>6, <1>7, <1>8, <1>9, <1>11 DEF UtmInv

\* a fresh address for the session and the machine of n
LEMMA AddressDrawn ==
  ASSUME UtmInv, NEW n \in Name, NEW a \in fresh, fresh' = fresh \ {a}, UNCHANGED <<dirs, ipfile>>,
         NEW m \in Machines, vm' = [vm EXCEPT ![n] = m], m.mac = a,
         NEW p \in Pipelines, session' = [session EXCEPT ![n] = p], p.mac = a,
         p.reached = session[n].reached
  PROVE  UtmInv'
<1>1. vm \in [Name -> Machines] /\ session \in [Name -> Pipelines] /\ NoMac \notin Mac
      /\ fresh \subseteq Mac /\ NoName \notin Name /\ TemplateMac \notin Mac
  BY UtmStates, UtmAssumption DEF UtmInv, UtmTypeOK, NoMac
<1>2. vm' \in [Name -> Machines] /\ session' \in [Name -> Pipelines]
  BY <1>1
<1>3. UtmTypeOK'
  BY <1>1, <1>2 DEF UtmInv, UtmTypeOK, Machines, Pipelines
<1>4. \A k \in Name : /\ k # n => vm'[k] = vm[k] /\ session'[k] = session[k]
                      /\ session'[k].reached = session[k].reached
  BY <1>1
<1>5. vm'[n].mac = a /\ session'[n].mac = a
  BY <1>1
<1>6. Drawn' /\ Reported' /\ Own'
  BY <1>1, <1>4, <1>5 DEF UtmInv, Drawn, Reported, Own
<1>7. ReachesOwnVm'
  BY <1>4 DEF UtmInv, ReachesOwnVm
<1>8. OneName'
  <2> SUFFICES ASSUME NEW k \in Name, NEW l \in Name, NEW b \in Mac
               PROVE  /\ session'[k].mac = b /\ session'[l].mac = b => k = l
                      /\ session'[k].mac = b /\ vm'[l].mac = b => k = l
                      /\ vm'[k].mac = b /\ vm'[l].mac = b => k = l
                      /\ session'[k].mac = b /\ ipfile[b] = l => k = l
                      /\ vm'[k].mac = b /\ ipfile[b] = l => k = l
                      /\ ipfile[b] = k /\ ipfile[b] = l => k = l
    BY DEF OneName
  <2>1. CASE b = a
    <3>1. \A j \in Name : j # n => session[j].mac # a /\ vm[j].mac # a
      BY DEF UtmInv, Drawn
    <3>2. ipfile[a] = NoName
      BY DEF UtmInv, Reported
    <3>3. QED
      BY <1>1, <1>4, <2>1, <3>1, <3>2
  <2>2. CASE b # a
    <3>1. \A j \in Name : /\ session'[j].mac = b => session[j].mac = b
                          /\ vm'[j].mac = b => vm[j].mac = b
      BY <1>4, <1>5, <2>2
    <3>2. QED
      BY <3>1 DEF UtmInv, OneName
  <2>3. QED
    BY <2>1, <2>2
<1>9. QED
  BY <1>3, <1>6, <1>7, <1>8 DEF UtmInv

\* the records a step leaves behind
PipelinePlaces == {"idle", "scanned", "cloned", "written", "waiting", "ready", "up", "failed"}

LEMMA PcChanges ==
  ASSUME NEW p \in Pipelines, NEW pc \in PipelinePlaces
  PROVE  /\ [p EXCEPT !.pc = pc] \in Pipelines /\ [p EXCEPT !.pc = pc].mac = p.mac
         /\ [p EXCEPT !.pc = pc].reached = p.reached
  BY DEF Pipelines, PipelinePlaces

\* the machine that is there after a delete
LEMMA DeleteLeaves ==
  ASSUME UtmInv, NEW n \in Name, vm' \in Deleted(n)
  PROVE  \E m \in Machines : vm' = [vm EXCEPT ![n] = m] /\ m.mac \in {vm[n].mac, NoMac}
<1>1. vm \in [Name -> Machines]
  BY UtmStates DEF UtmInv
<1>2. PICK old \in Machines : old = vm[n]
  BY <1>1
<1>3. CASE vm' = [vm EXCEPT ![n] = NoVm]
  BY <1>3, NoneAtFirst DEF NoVm
<1>4. CASE vm' = [vm EXCEPT ![n].runs = FALSE]
  <2>1. PICK m \in Machines : m = [old EXCEPT !.runs = FALSE]
    BY <1>2 DEF Machines
  <2>2. m.mac = old.mac
    BY <1>2, <2>1 DEF Machines
  <2>3. QED
    BY <1>1, <1>2, <1>4, <2>1, <2>2
<1>5. CASE vm' = vm
  BY <1>1, <1>2, <1>5
<1>6. QED
  BY <1>3, <1>4, <1>5 DEF Deleted

LEMMA ScansKeeps ==
  ASSUME UtmInv, NEW n \in Name, Scans(n)
  PROVE  UtmInv'
<1>1. PICK port \in Nat : port = FreePort
  BY PortIsFree
<1>2. PICK p \in Pipelines : p = [NoSession EXCEPT !.pc = "scanned", !.port = port]
  BY <1>1, NoneAtFirst DEF Pipelines
<1>3. p.mac = NoMac /\ p.reached = NoName
  BY <1>2 DEF NoSession
<1>4. /\ vm' \in Deleted(n) /\ session' = [session EXCEPT ![n] = p]
      /\ UNCHANGED <<fresh, dirs, ipfile>>
  BY <1>1, <1>2 DEF Scans
<1>5. dirs \subseteq Address /\ ipfile \in [Address -> Name \cup {NoName}]
  BY DEF UtmInv, UtmTypeOK
<1>6. PICK m \in Machines : vm' = [vm EXCEPT ![n] = m] /\ m.mac \in {vm[n].mac, NoMac}
  BY <1>4, DeleteLeaves
<1>7. QED
  BY <1>3, <1>4, <1>5, <1>6, NothingDrawn

LEMMA ClonesKeeps ==
  ASSUME UtmInv, "plain" \notin Mode, NEW n \in Name, Clones(n)
  PROVE  UtmInv'
<1>1. PICK mode \in Mode, a \in fresh :
        /\ fresh' = IF mode \in {"bridged", "script"} THEN fresh \ {a} ELSE fresh
        /\ vm' = [vm EXCEPT ![n] = [mode |-> mode, mac |-> MacFor(mode, a), runs |-> FALSE,
                                    port |-> IF mode = "nat" THEN session[n].port ELSE 0]]
        /\ session' = [session EXCEPT ![n].pc = "cloned", ![n].mac = MacFor(mode, a)]
  BY DEF Clones
<1>2. UNCHANGED <<dirs, ipfile>>
  BY DEF Clones
<1>3. vm \in [Name -> Machines] /\ session \in [Name -> Pipelines] /\ fresh \subseteq Mac
      /\ dirs \subseteq Address /\ ipfile \in [Address -> Name \cup {NoName}]
  BY UtmStates DEF UtmInv, UtmTypeOK
<1>4. PICK mac \in Address : mac = MacFor(mode, a) /\ mac = IF mode = "nat" THEN NoMac ELSE a
  BY <1>3, UtmAssumption DEF MacFor, Address
<1>5. PICK port \in Nat : port = IF mode = "nat" THEN session[n].port ELSE 0
  BY <1>3 DEF Pipelines
<1>6. PICK m \in Machines : m = [mode |-> mode, mac |-> mac, runs |-> FALSE, port |-> port]
  BY DEF Machines
<1>7. PICK p \in Pipelines : p = [session[n] EXCEPT !.pc = "cloned", !.mac = mac]
  <2>1. session[n] \in Pipelines /\ mac \in Address
    BY <1>3
  <2>2. QED
    BY <2>1 DEF Pipelines
<1>8. p.mac = mac /\ p.reached = session[n].reached /\ m.mac = mac
  <2>1. session[n] \in Pipelines
    BY <1>3
  <2>2. QED
    BY <1>6, <1>7, <2>1 DEF Pipelines
<1>9. vm' = [vm EXCEPT ![n] = m]
  BY <1>1, <1>4, <1>5, <1>6
<1>10. session' = [session EXCEPT ![n] = p]
  BY <1>1, <1>3, <1>4, <1>7
<1>11. CASE mode = "nat"
  <2>1. mac = NoMac /\ fresh' = fresh /\ session[n].reached \in {n, NoName}
    BY <1>1, <1>4, <1>11 DEF UtmInv, ReachesOwnVm
  <2>2. QED
    BY <1>2, <1>3, <1>8, <1>9, <1>10, <2>1, NothingDrawn
<1>12. CASE mode # "nat"
  <2>1. mac = a /\ fresh' = fresh \ {a}
    BY <1>1, <1>4, <1>12, UtmAssumption
  <2>2. QED
    BY <1>2, <1>8, <1>9, <1>10, <2>1, AddressDrawn
<1>13. QED
  BY <1>11, <1>12

\* A machine is reached by its name, or by an address that only it has.
LEMMA CandidateIsOwn ==
  ASSUME UtmInv, NEW n \in Name, NEW m \in Candidates(n)
  PROVE  m = n
<1>1. session[n].mac \in Mac \cup {NoMac}
  BY UtmStates DEF UtmInv, Pipelines, Address, Own
<1>2. CASE session[n].mac = NoMac \/ vm[n].mode = "bridged"
  BY <1>2 DEF Candidates
<1>3. CASE session[n].mac \in Mac /\ vm[n].mode # "bridged"
  <2>1. session[n].mac # NoMac
    BY <1>3, UtmAssumption DEF NoMac
  <2>2. m \in Name /\ (ipfile[session[n].mac] = m \/ vm[m].mac = session[n].mac)
    BY <1>3, <2>1 DEF Candidates
  <2>3. QED
    BY <1>3, <2>2 DEF UtmInv, OneName
<1>4. QED
  BY <1>1, <1>2, <1>3

\* steps of the pipeline that leave its machine's address
LEMMA PipelineKeeps ==
  ASSUME UtmInv, NEW n \in Name,
         WritesDir(n) \/ Boots(n) \/ Reaches(n) \/ StartsAgent(n) \/ UtmFails(n)
  PROVE  UtmInv'
<1>1. vm \in [Name -> Machines] /\ session \in [Name -> Pipelines] /\ dirs \subseteq Address
      /\ ipfile \in [Address -> Name \cup {NoName}] /\ session[n].reached \in {n, NoName}
      /\ session[n].mac \in Address
  BY UtmStates DEF UtmInv, UtmTypeOK, ReachesOwnVm, Pipelines
<1>2. UNCHANGED fresh
  BY DEF WritesDir, Boots, Reaches, StartsAgent, UtmFails
<1>3. PICK p \in Pipelines : /\ session' = [session EXCEPT ![n] = p] /\ p.mac = session[n].mac
                             /\ p.reached \in {n, NoName}
  <2>1. CASE Reaches(n)
    <3>1. PICK m \in Candidates(n) : session' = [session EXCEPT ![n].pc = "ready", ![n].reached = m]
      BY <2>1 DEF Reaches
    <3>2. m = n
      BY CandidateIsOwn
    <3>3. session' = [session EXCEPT ![n] = [session[n] EXCEPT !.pc = "ready", !.reached = n]]
      BY <1>1, <3>1, <3>2
    <3>4. session[n] \in Pipelines /\ n \in Name \cup {NoName}
      BY <1>1
    <3>5. PICK p \in Pipelines : p = [session[n] EXCEPT !.pc = "ready", !.reached = n]
      BY <3>4 DEF Pipelines
    <3>6. p.mac = session[n].mac /\ p.reached = n
      BY <3>4, <3>5 DEF Pipelines
    <3>7. QED
      BY <3>3, <3>5, <3>6
  <2>2. CASE ~Reaches(n)
    <3>1. PICK pc \in {"written", "waiting", "up", "failed"} : session' = [session EXCEPT ![n].pc = pc]
      BY <2>2 DEF WritesDir, Boots, StartsAgent, UtmFails
    <3>2. session' = [session EXCEPT ![n] = [session[n] EXCEPT !.pc = pc]]
      BY <1>1, <3>1
    <3>3. session[n] \in Pipelines /\ pc \in PipelinePlaces
      BY <1>1 DEF PipelinePlaces
    <3>4. QED
      BY <1>1, <3>2, <3>3, PcChanges
  <2>3. QED
    BY <2>1, <2>2
<1>4. PICK m \in Machines : vm' = [vm EXCEPT ![n] = m] /\ m.mac = vm[n].mac
  <2>1. CASE Boots(n)
    <3>1. vm' = [vm EXCEPT ![n].runs = TRUE]
      BY <2>1 DEF Boots
    <3>2. vm' = [vm EXCEPT ![n] = [vm[n] EXCEPT !.runs = TRUE]]
      BY <1>1, <3>1
    <3>3. [vm[n] EXCEPT !.runs = TRUE] \in Machines /\ [vm[n] EXCEPT !.runs = TRUE].mac = vm[n].mac
      BY <1>1 DEF Machines
    <3>4. QED
      BY <3>2, <3>3
  <2>2. CASE ~Boots(n)
    <3>1. vm' = vm
      BY <2>2 DEF WritesDir, Reaches, StartsAgent, UtmFails
    <3>2. vm' = [vm EXCEPT ![n] = vm[n]] /\ vm[n] \in Machines
      BY <1>1, <3>1
    <3>3. QED
      BY <3>2
  <2>3. QED
    BY <2>1, <2>2
<1>5. /\ dirs' \subseteq Address /\ ipfile' \in [Address -> Name \cup {NoName}]
      /\ \A a \in Address : ipfile'[a] \in {ipfile[a], NoName}
  <2>1. CASE WritesDir(n)
    <3>1. UNCHANGED <<dirs, ipfile>> \/ (/\ dirs' = dirs \cup {session[n].mac}
                                         /\ ipfile' = [ipfile EXCEPT ![session[n].mac] = NoName])
      BY <2>1 DEF WritesDir, Reset
    <3>2. QED
      BY <1>1, <3>1
  <2>2. CASE ~WritesDir(n)
    <3>1. UNCHANGED <<dirs, ipfile>>
      BY <2>2 DEF Boots, Reaches, StartsAgent, UtmFails
    <3>2. QED
      BY <1>1, <3>1
  <2>3. QED
    BY <2>1, <2>2
<1>6. QED
  BY <1>2, <1>3, <1>4, <1>5, NothingDrawn

LEMMA GuestKeeps ==
  ASSUME UtmInv, NEW n \in Name, GuestReports(n)
  PROVE  UtmInv'
<1>1. vm \in [Name -> Machines] /\ session \in [Name -> Pipelines] /\ dirs \subseteq Address
      /\ ipfile \in [Address -> Name \cup {NoName}] /\ session[n].reached \in {n, NoName}
  BY UtmStates DEF UtmInv, UtmTypeOK, ReachesOwnVm
<1>2. ipfile' = [ipfile EXCEPT ![vm[n].mac] = n] /\ UNCHANGED <<vm, session, fresh, dirs>>
  BY DEF GuestReports
<1>3. vm' = [vm EXCEPT ![n] = vm[n]] /\ session' = [session EXCEPT ![n] = session[n]]
  BY <1>1, <1>2
<1>4. /\ ipfile' \in [Address -> Name \cup {NoName}]
      /\ \A a \in Address : ipfile'[a] = ipfile[a] \/ (ipfile'[a] = n /\ vm[n].mac = a /\ vm'[n].mac = a)
  BY <1>1, <1>2
<1>5. vm[n] \in Machines /\ session[n] \in Pipelines
  BY <1>1
<1>6. QED
  BY <1>1, <1>2, <1>3, <1>4, <1>5, NothingDrawn

LEMMA RemovesKeeps ==
  ASSUME UtmInv, NEW n \in Name, Removes(n)
  PROVE  UtmInv'
<1>1. vm \in [Name -> Machines] /\ session \in [Name -> Pipelines] /\ dirs \subseteq Address
      /\ ipfile \in [Address -> Name \cup {NoName}] /\ session[n].reached \in {n, NoName}
  BY UtmStates DEF UtmInv, UtmTypeOK, ReachesOwnVm
<1>2. PICK pc \in {"idle", "written", "waiting", "ready", "failed"} :
        pc = IF session[n].pc = "up" THEN "idle" ELSE session[n].pc
  BY DEF Removes
<1>3. PICK p \in Pipelines : p = [session[n] EXCEPT !.pc = pc] /\ p.mac = session[n].mac
                             /\ p.reached = session[n].reached
  <2>1. session[n] \in Pipelines /\ pc \in PipelinePlaces
    BY <1>1 DEF PipelinePlaces
  <2>2. QED
    BY <2>1, PcChanges
<1>4. session' = [session EXCEPT ![n] = p]
  BY <1>1, <1>2, <1>3 DEF Removes, Pipelines
<1>5. PICK m \in Machines : vm' = [vm EXCEPT ![n] = m] /\ m.mac \in {vm[n].mac, NoMac}
  BY DeleteLeaves DEF Removes
<1>6. /\ dirs' \subseteq Address /\ ipfile' \in [Address -> Name \cup {NoName}] /\ UNCHANGED fresh
      /\ \A a \in Address : ipfile'[a] \in {ipfile[a], NoName}
  BY <1>1 DEF Removes
<1>7. QED
  BY <1>1, <1>3, <1>4, <1>5, <1>6, NothingDrawn

\* A session is configured through the machine of its own name, whatever is
\* cloned, fails, is removed, stays behind or is cloned again beside it and before
\* it, as long as every clone that is not behind a port draws an address of its own
\* (provision, configure, _discover_vm_ip, remove).
THEOREM OwnVmIsReached == "plain" \notin Mode => (UtmSpec => [](UtmTypeOK /\ ReachesOwnVm))
<1> SUFFICES ASSUME "plain" \notin Mode PROVE UtmSpec => [](UtmTypeOK /\ ReachesOwnVm)
  OBVIOUS
<1>1. UtmInit => UtmInv
  BY InitUtmInv
<1>2. UtmInv /\ [UtmNext]_utmVars => UtmInv'
  <2> SUFFICES ASSUME UtmInv, [UtmNext]_utmVars PROVE UtmInv'
    OBVIOUS
  <2>1. CASE UNCHANGED utmVars
    BY <2>1 DEF utmVars, UtmInv, UtmTypeOK, Drawn, Reported, OneName, Own, ReachesOwnVm
  <2>2. ASSUME NEW n \in Name,
               \/ Scans(n) \/ Clones(n) \/ WritesDir(n) \/ Boots(n) \/ GuestReports(n)
               \/ Reaches(n) \/ StartsAgent(n) \/ UtmFails(n) \/ Removes(n)
        PROVE  UtmInv'
    BY <2>2, ScansKeeps, ClonesKeeps, PipelineKeeps, GuestKeeps, RemovesKeeps
  <2>3. QED
    BY <2>1, <2>2 DEF UtmNext
<1>3. QED
  BY <1>1, <1>2, PTL DEF UtmSpec, UtmInv

-----------------------------------------------------------------------------
(***************************************************************************)
(* Calls to language models                                                *)
(***************************************************************************)

LEMMA PairsEqual ==
  ASSUME NEW T, NEW a \in T, NEW b \in T, NEW s \in Seq(T), Len(s) = 2, s[1] = a, s[2] = b
  PROVE  s = <<a, b>>
<1>1. PICK p \in Seq(T) : p = <<a, b>>
  OBVIOUS
<1>2. Len(p) = 2 /\ p[1] = a /\ p[2] = b
  BY <1>1
<1>3. \A i \in 1..Len(s) : s[i] = p[i]
  <2>1. \A i \in 1..2 : i = 1 \/ i = 2
    OBVIOUS
  <2>2. QED
    BY <1>2, <2>1
<1>4. s = p
  BY <1>2, <1>3, SeqEqual
<1>5. QED
  BY <1>1, <1>4

LEMMA SingleIn ==
  ASSUME NEW T, NEW x \in T
  PROVE  <<x>> \in Seq(T)
OBVIOUS

LEMMA PairOf ==
  ASSUME NEW a, NEW b
  PROVE  Append(<<a>>, b) = <<a, b>> /\ <<a>> \o <<b>> = <<a, b>>
<1>7. a \in {a, b} /\ b \in {a, b}
  OBVIOUS
<1>1. PICK s \in Seq({a, b}) : s = <<a>>
  BY <1>7, SingleIn
<1>t. PICK t \in Seq({a, b}) : t = <<b>>
  BY <1>7, SingleIn
<1>2. Len(s) = 1 /\ s[1] = a /\ Len(t) = 1 /\ t[1] = b
  BY <1>1, <1>t
<1>3. Append(s, b) \in Seq({a, b}) /\ Len(Append(s, b)) = 2 /\ Append(s, b)[1] = a /\ Append(s, b)[2] = b
  <2>1. /\ Append(s, b) \in Seq({a, b}) /\ Len(Append(s, b)) = Len(s) + 1
        /\ \A i \in 1..Len(s) : Append(s, b)[i] = s[i]
        /\ Append(s, b)[Len(s) + 1] = b
    BY <1>7, AppendProperties
  <2>2. QED
    BY <1>2, <2>1
<1>4. s \o t \in Seq({a, b}) /\ Len(s \o t) = 2 /\ (s \o t)[1] = a /\ (s \o t)[2] = b
  <2>1. /\ s \o t \in Seq({a, b}) /\ Len(s \o t) = Len(s) + Len(t)
        /\ \A i \in 1..(Len(s) + Len(t)) : (s \o t)[i] = IF i <= Len(s) THEN s[i] ELSE t[i - Len(s)]
    BY ConcatProperties
  <2>2. 1 \in 1..2 /\ 2 \in 1..2 /\ ~(2 <= 1) /\ 1 <= 1 /\ 2 - 1 = 1 /\ 1 + 1 = 2
    OBVIOUS
  <2>3. Len(s) + Len(t) = 2
    BY <1>2, <2>2
  <2>4. (s \o t)[1] = s[1]
    BY <1>2, <2>1, <2>2, <2>3
  <2>5. (s \o t)[2] = t[1]
    BY <1>2, <2>1, <2>2, <2>3
  <2>6. QED
    BY <1>2, <2>1, <2>3, <2>4, <2>5
<1>5. PICK u \in Seq({a, b}) : u = Append(s, b) /\ Len(u) = 2 /\ u[1] = a /\ u[2] = b
  BY <1>3
<1>6. PICK v \in Seq({a, b}) : v = s \o t /\ Len(v) = 2 /\ v[1] = a /\ v[2] = b
  BY <1>4
<1>8. u = <<a, b>> /\ v = <<a, b>>
  BY <1>5, <1>6, <1>7, PairsEqual
<1>9. QED
  BY <1>1, <1>t, <1>5, <1>6, <1>8

LEMMA HeadTailOf ==
  ASSUME NEW a, NEW b
  PROVE  /\ Head(<<a>>) = a /\ Tail(<<a>>) = <<>> /\ <<a>> # <<>>
         /\ Head(<<a, b>>) = a /\ Tail(<<a, b>>) = <<b>> /\ <<a, b>> # <<>>
         /\ Append(<<>>, a) = <<a>>
<1>1. Head(<<a>>) = a /\ <<a>> # <<>> /\ Head(<<a, b>>) = a /\ <<a, b>> # <<>>
  OBVIOUS
<1>2. Tail(<<a>>) = <<>>
  OBVIOUS
<1>3. Tail(<<a, b>>) = <<b>>
  OBVIOUS
<1>4. Append(<<>>, a) = <<a>>
  OBVIOUS
<1>5. QED
  BY <1>1, <1>2, <1>3, <1>4

LEMMA EmptyConcat ==
  ASSUME NEW a
  PROVE  <<>> \o <<>> = <<>> /\ <<a>> \o <<>> = <<a>>
<1>1. <<>> \o <<>> = <<>>
  OBVIOUS
<1>2. <<a>> \o <<>> = <<a>>
  OBVIOUS
<1>3. QED
  BY <1>1, <1>2

Links == {"ollama", "claude_oauth"}
Chains == {<<>>, <<"claude_api">>} \cup {<<f>> : f \in Links} \cup {<<f, "claude_api">> : f \in Links}
Active == {"next", "ollama", "creating", "waiting", "stopping", "deleting"}
Ended == {"answered", "failed"}

Calls == [want : Wants, links : Chains, at : Place, uses : 0..MaxInstances, good : BOOLEAN]

\* tried: what the paid backend gets is the second attempt, and the first has failed
PaidLast(w, t) ==
  \A n \in DOMAIN t : t[n][1] = "claude_api" => w.paid /\ n = 2 /\ ~t[1][2]

\* nothing was tried of the chain, or its free backend, which has failed
Ahead(c, t) ==
  \/ t = <<>> /\ (c.links \in {<<f>> : f \in Links}
                    \/ (c.want.paid /\ c.links \in {<<f, "claude_api">> : f \in Links}))
  \/ c.links = <<"claude_api">> /\ c.want.paid /\ \E f \in Links : t = <<<<f, FALSE>>>>

CallFits(c, t, m) ==
  /\ c \in Calls
  /\ c.at = "idle" => t = <<>> /\ m = 0
  /\ c.at \in Active => Ahead(c, t) /\ m = 0
  /\ c.at \in Ended => PaidLast(c.want, t) /\ m = 1
  /\ c.at = "ollama" <=> c.uses # 0

LEMMA ChainsAre ==
  ASSUME NEW w \in Wants
  PROVE  \/ ChainOf(w) = <<>> \/ ChainOf(w) \in {<<f>> : f \in Links}
         \/ w.paid /\ ChainOf(w) \in {<<f, "claude_api">> : f \in Links}
<1>1. PICK free : free = IF w.provider = "codex" THEN "codex"
                         ELSE IF w.provider = "ollama" \/ (w.provider = "any" /\ w.quality = "cheap")
                              THEN "ollama" ELSE "claude_oauth"
  OBVIOUS
<1>2. free = "codex" <=> w.provider = "codex"
  BY <1>1
<1>3. free \in {"codex"} \cup Links
  BY <1>1 DEF Links
<1>4. CASE w.paid /\ w.provider \in {"any", "claude"}
  <2>1. ChainNames(w) = <<free, "claude_api">> /\ free \in Links
    BY <1>1, <1>2, <1>3, <1>4 DEF ChainNames
  <2>2. Allowed(w, ChainNames(w), 1) = <<free>> /\ Allowed(w, ChainNames(w), 2) = <<"claude_api">>
    BY <1>4, <2>1 DEF Allowed, Registered, Backend, Costs, Links
  <2>3. <<free>> \o <<"claude_api">> = <<free, "claude_api">>
    BY PairOf
  <2>4. QED
    BY <1>4, <2>1, <2>2, <2>3 DEF ChainOf
<1>5. CASE ~(w.paid /\ w.provider \in {"any", "claude"})
  <2>1. ChainNames(w) = <<free>>
    BY <1>1, <1>5 DEF ChainNames
  <2>2. Allowed(w, ChainNames(w), 1) = (IF free = "codex" THEN <<>> ELSE <<free>>)
        /\ Allowed(w, ChainNames(w), 2) = <<>>
    BY <1>3, <2>1 DEF Allowed, Registered, Backend, Costs, Links
  <2>3. <<>> \o <<>> = <<>> /\ <<free>> \o <<>> = <<free>>
    BY EmptyConcat
  <2>4. QED
    BY <1>3, <2>2, <2>3 DEF ChainOf
<1>6. QED
  BY <1>4, <1>5

\* an attempt that failed, with the chain that is left after it
LEMMA AfterFailure ==
  ASSUME NEW c \in Calls, NEW t, Ahead(c, t)
  PROVE  LET link == Head(c.links) rest == Tail(c.links) tt == Append(t, <<link, FALSE>>)
         IN  /\ c.links # <<>>
             /\ rest = <<>> => PaidLast(c.want, tt)
             /\ rest # <<>> => /\ rest = <<"claude_api">> /\ c.want.paid
                               /\ \E f \in Links : tt = <<<<f, FALSE>>>>
<1>1. CASE t = <<>>
  <2>1. PICK f \in Links : c.links = <<f>> \/ (c.want.paid /\ c.links = <<f, "claude_api">>)
    BY <1>1 DEF Ahead
  <2>2. Head(c.links) = f /\ c.links # <<>>
    BY <2>1, HeadTailOf
  <2>3. Tail(c.links) = <<>> \/ (c.want.paid /\ Tail(c.links) = <<"claude_api">>)
    <3>1. CASE c.links = <<f>>
      BY <3>1, HeadTailOf
    <3>2. CASE c.want.paid /\ c.links = <<f, "claude_api">>
      <4>1. Tail(<<f, "claude_api">>) = <<"claude_api">>
        BY HeadTailOf
      <4>2. QED
        BY <3>2, <4>1
    <3>3. QED
      BY <2>1, <3>1, <3>2
  <2>4. Append(t, <<f, FALSE>>) = <<<<f, FALSE>>>>
    BY <1>1
  <2>5. PaidLast(c.want, <<<<f, FALSE>>>>)
    BY DEF PaidLast, Links
  <2>6. <<"claude_api">> # <<>>
    OBVIOUS
  <2>7. QED
    BY <2>2, <2>3, <2>4, <2>5, <2>6
<1>2. CASE t # <<>>
  <2>1. PICK f \in Links : t = <<<<f, FALSE>>>> /\ c.links = <<"claude_api">> /\ c.want.paid
    BY <1>2 DEF Ahead
  <2>2. Head(c.links) = "claude_api" /\ Tail(c.links) = <<>> /\ c.links # <<>>
    BY <2>1, HeadTailOf
  <2>3. Append(t, <<"claude_api", FALSE>>) = <<<<f, FALSE>>, <<"claude_api", FALSE>>>>
    BY <2>1, PairOf
  <2>4. PaidLast(c.want, <<<<f, FALSE>>, <<"claude_api", FALSE>>>>)
    BY <2>1 DEF PaidLast, Links
  <2>5. QED
    BY <2>2, <2>3, <2>4
<1>3. QED
  BY <1>1, <1>2

LEMMA AfterSuccess ==
  ASSUME NEW c \in Calls, NEW t, Ahead(c, t)
  PROVE  PaidLast(c.want, Append(t, <<Head(c.links), TRUE>>))
<1>1. CASE t = <<>>
  <2>1. PICK f \in Links : c.links = <<f>> \/ (c.want.paid /\ c.links = <<f, "claude_api">>)
    BY <1>1 DEF Ahead
  <2>2. Head(c.links) = f
    BY <2>1, HeadTailOf
  <2>3. Append(t, <<f, TRUE>>) = <<<<f, TRUE>>>>
    BY <1>1
  <2>4. PaidLast(c.want, <<<<f, TRUE>>>>)
    BY DEF PaidLast, Links
  <2>5. QED
    BY <2>2, <2>3, <2>4
<1>2. CASE t # <<>>
  <2>1. PICK f \in Links : t = <<<<f, FALSE>>>> /\ c.links = <<"claude_api">> /\ c.want.paid
    BY <1>2 DEF Ahead
  <2>2. Head(c.links) = "claude_api"
    BY <2>1, HeadTailOf
  <2>3. Append(t, <<"claude_api", TRUE>>) = <<<<f, FALSE>>, <<"claude_api", TRUE>>>>
    BY <2>1, PairOf
  <2>4. PaidLast(c.want, <<<<f, FALSE>>, <<"claude_api", TRUE>>>>)
    BY <2>1 DEF PaidLast, Links
  <2>5. QED
    BY <2>2, <2>3, <2>4
<1>3. QED
  BY <1>1, <1>2

CallsRight ==
  /\ call \in [Call -> Calls] /\ DOMAIN tried = Call /\ DOMAIN metered = Call
  /\ \A k \in Call : CallFits(call[k], tried[k], metered[k])

Loads == [healthy : BOOLEAN, stocked : BOOLEAN, flight : Nat]

\* the objects of the pool are objects that were made, the settings' own among them
PoolRight ==
  /\ made \in 1..MaxInstances /\ pool \in [Host -> 0..made] /\ pool[Fallback] = 1
  /\ checking \subseteq Instances /\ instance \in [Instances -> Loads]

\* a session stands while its call is at it, or was lost
SessionsRight ==
  /\ ephemeral \subseteq Call
  /\ \A k \in ephemeral : call[k].at \in {"waiting", "stopping", "deleting"} \/ k \in leaked

CompletionsInv == CallsRight /\ PoolRight /\ SessionsRight /\ FlightsCounted

\* a step of call k, after which k fits again
StepsOf(k) ==
  /\ call' \in [Call -> Calls] /\ DOMAIN tried' = Call /\ DOMAIN metered' = Call
  /\ \A j \in Call \ {k} : call'[j] = call[j] /\ tried'[j] = tried[j] /\ metered'[j] = metered[j]
  /\ CallFits(call'[k], tried'[k], metered'[k])

LEMMA OthersFit ==
  ASSUME CallsRight, NEW k \in Call, StepsOf(k)
  PROVE  CallsRight'
<1>1. \A j \in Call : CallFits(call'[j], tried'[j], metered'[j])
  <2>1. TAKE j \in Call
  <2>2. CASE j = k
    BY <2>2 DEF StepsOf
  <2>3. CASE j # k
    <3>1. call'[j] = call[j] /\ tried'[j] = tried[j] /\ metered'[j] = metered[j]
      BY <2>3 DEF StepsOf
    <3>2. QED
      BY <3>1 DEF CallsRight
  <2>4. QED
    BY <2>2, <2>3
<1>2. QED
  BY <1>1 DEF CallsRight, StepsOf

\* what a call becomes that only goes on to another place
LEMMA MovesFit ==
  ASSUME CallsRight, NEW k \in Call, NEW place \in Active \ {"ollama"}, MovesTo(k, place),
         call[k].at \in Active \ {"ollama"}, UNCHANGED <<tried, metered>>
  PROVE  StepsOf(k) /\ call'[k].at = place /\ call'[k].uses = call[k].uses
<1>1. PICK r : r = call[k]
  OBVIOUS
<1>2. r \in Calls /\ CallFits(r, tried[k], metered[k]) /\ r.at \in Active \ {"ollama"}
  BY <1>1 DEF CallsRight
<1>3. place \in Place
  BY DEF Active, Place
<1>4. PICK c \in Calls : c = [r EXCEPT !.at = place]
  BY <1>2, <1>3 DEF Calls
<1>5. c.want = r.want /\ c.links = r.links /\ c.at = place /\ c.uses = r.uses
  BY <1>2, <1>4 DEF Calls
<1>6. call' = [call EXCEPT ![k] = c]
  BY <1>1, <1>4 DEF MovesTo
<1>7. call' \in [Call -> Calls] /\ call'[k] = c /\ \A j \in Call \ {k} : call'[j] = call[j]
  BY <1>4, <1>6 DEF CallsRight
<1>8. CallFits(c, tried[k], metered[k])
  <2>1. Ahead(r, tried[k]) /\ metered[k] = 0 /\ r.uses = 0
    BY <1>2 DEF CallFits
  <2>2. Ahead(c, tried[k])
    BY <1>5, <2>1 DEF Ahead
  <2>3. place # "idle" /\ place \notin Ended /\ place # "ollama"
    BY DEF Active, Ended
  <2>4. QED
    BY <1>5, <2>1, <2>2, <2>3 DEF CallFits
<1>9. QED
  BY <1>1, <1>5, <1>7, <1>8 DEF StepsOf, CallsRight

\* what a call becomes whose attempt failed
LEMMA FailureFits ==
  ASSUME CallsRight, NEW k \in Call, Fails(k), call[k].at \in Active
  PROVE  StepsOf(k) /\ call'[k].at \in {"failed", "next"} /\ call'[k].uses = 0
<1>1. PICK r : r = call[k]
  OBVIOUS
<1>2. PICK t : t = tried[k]
  OBVIOUS
<1>3. r \in Calls /\ CallFits(r, t, metered[k]) /\ r.at \in Active
  BY <1>1, <1>2 DEF CallsRight
<1>4. Ahead(r, t) /\ metered[k] = 0
  BY <1>3 DEF CallFits
<1>5. PICK link, rest : link = Head(r.links) /\ rest = Tail(r.links)
  OBVIOUS
<1>6. PICK tt : tt = Append(t, <<link, FALSE>>)
  OBVIOUS
<1>7. /\ rest = <<>> => PaidLast(r.want, tt)
      /\ rest # <<>> => /\ rest = <<"claude_api">> /\ r.want.paid
                        /\ \E f \in Links : tt = <<<<f, FALSE>>>>
  BY <1>3, <1>4, <1>5, <1>6, AfterFailure
<1>8. rest \in Chains
  BY <1>7 DEF Chains
<1>9. PICK place : place = IF rest = <<>> THEN "failed" ELSE "next"
  OBVIOUS
<1>10. place \in Place /\ 0 \in 0..MaxInstances
  BY <1>9, CompletionsAssumption DEF Place
<1>11. PICK c \in Calls : c = [r EXCEPT !.links = rest, !.uses = 0, !.at = place]
  BY <1>3, <1>8, <1>10 DEF Calls
<1>12. c.want = r.want /\ c.links = rest /\ c.at = place /\ c.uses = 0
  BY <1>3, <1>11 DEF Calls
<1>13. call' = [call EXCEPT ![k] = c]
  BY <1>1, <1>5, <1>9, <1>11 DEF Fails
<1>14. call' \in [Call -> Calls] /\ call'[k] = c /\ \A j \in Call \ {k} : call'[j] = call[j]
  BY <1>11, <1>13 DEF CallsRight
<1>15. /\ DOMAIN tried' = Call /\ tried'[k] = tt
       /\ \A j \in Call \ {k} : tried'[j] = tried[j]
  BY <1>1, <1>2, <1>5, <1>6 DEF Fails, Link, CallsRight
<1>16. /\ DOMAIN metered' = Call /\ metered'[k] = (IF rest = <<>> THEN 1 ELSE 0)
       /\ \A j \in Call \ {k} : metered'[j] = metered[j]
  BY <1>1, <1>4, <1>5 DEF Fails, Emits, CallsRight
<1>17. CallFits(c, tt, metered'[k])
  <2>1. CASE rest = <<>>
    <3>1. c.at = "failed" /\ metered'[k] = 1 /\ PaidLast(c.want, tt)
      BY <1>7, <1>9, <1>12, <1>16, <2>1
    <3>2. QED
      BY <1>12, <3>1 DEF CallFits, Active, Ended
  <2>2. CASE rest # <<>>
    <3>1. c.at = "next" /\ metered'[k] = 0
      BY <1>9, <1>12, <1>16, <2>2
    <3>2. Ahead(c, tt)
      BY <1>7, <1>12, <2>2 DEF Ahead
    <3>3. QED
      BY <1>12, <3>1, <3>2 DEF CallFits, Active, Ended
  <2>3. QED
    BY <2>1, <2>2
<1>18. QED
  BY <1>9, <1>12, <1>14, <1>15, <1>16, <1>17 DEF StepsOf

\* what a call becomes that got its answer
LEMMA SuccessFits ==
  ASSUME CallsRight, NEW k \in Call, Succeeds(k), call[k].at \in Active
  PROVE  StepsOf(k) /\ call'[k].at = "answered" /\ call'[k].uses = 0
<1>1. PICK r : r = call[k]
  OBVIOUS
<1>2. PICK t : t = tried[k]
  OBVIOUS
<1>3. r \in Calls /\ CallFits(r, t, metered[k]) /\ r.at \in Active
  BY <1>1, <1>2 DEF CallsRight
<1>4. Ahead(r, t) /\ metered[k] = 0
  BY <1>3 DEF CallFits
<1>5. PICK tt : tt = Append(t, <<Head(r.links), TRUE>>)
  OBVIOUS
<1>6. PaidLast(r.want, tt)
  BY <1>3, <1>4, <1>5, AfterSuccess
<1>7. "answered" \in Place /\ 0 \in 0..MaxInstances
  BY CompletionsAssumption DEF Place
<1>8. PICK c \in Calls : c = [r EXCEPT !.at = "answered", !.uses = 0]
  BY <1>3, <1>7 DEF Calls
<1>9. c.want = r.want /\ c.at = "answered" /\ c.uses = 0
  BY <1>3, <1>8 DEF Calls
<1>10. call' = [call EXCEPT ![k] = c]
  BY <1>1, <1>8 DEF Succeeds
<1>11. call' \in [Call -> Calls] /\ call'[k] = c /\ \A j \in Call \ {k} : call'[j] = call[j]
  BY <1>8, <1>10 DEF CallsRight
<1>12. /\ DOMAIN tried' = Call /\ tried'[k] = tt
       /\ \A j \in Call \ {k} : tried'[j] = tried[j]
  BY <1>1, <1>2, <1>5 DEF Succeeds, Link, CallsRight
<1>13. /\ DOMAIN metered' = Call /\ metered'[k] = 1
       /\ \A j \in Call \ {k} : metered'[j] = metered[j]
  BY <1>4 DEF Succeeds, Emits, CallsRight
<1>14. CallFits(c, tt, 1)
  BY <1>6, <1>9 DEF CallFits, Active, Ended
<1>15. QED
  BY <1>9, <1>11, <1>12, <1>13, <1>14 DEF StepsOf

\* the chain of a call that begins
LEMMA BeginFits ==
  ASSUME CallsRight, NEW k \in Call, Begins(k)
  PROVE  StepsOf(k) /\ call'[k].at \in {"failed", "next"} /\ call'[k].uses = call[k].uses
<1>1. PICK r : r = call[k]
  OBVIOUS
<1>2. r \in Calls /\ CallFits(r, tried[k], metered[k]) /\ r.at = "idle"
  BY <1>1 DEF CallsRight, Begins, At
<1>3. tried[k] = <<>> /\ metered[k] = 0 /\ r.uses = 0
  BY <1>2 DEF CallFits
<1>4. r.want \in Wants
  BY <1>2 DEF Calls
<1>5. PICK line : line = ChainOf(r.want)
  OBVIOUS
<1>6. \/ line = <<>> \/ line \in {<<f>> : f \in Links}
      \/ r.want.paid /\ line \in {<<f, "claude_api">> : f \in Links}
  BY <1>4, <1>5, ChainsAre
<1>7. PICK place : place = IF line = <<>> THEN "failed" ELSE "next"
  OBVIOUS
<1>8. line \in Chains /\ place \in Place
  BY <1>6, <1>7 DEF Chains, Place
<1>9. PICK c \in Calls : c = [r EXCEPT !.links = line, !.at = place]
  BY <1>2, <1>8 DEF Calls
<1>10. c.want = r.want /\ c.links = line /\ c.at = place /\ c.uses = r.uses
  BY <1>2, <1>9 DEF Calls
<1>11. call' = [call EXCEPT ![k] = c]
  BY <1>1, <1>5, <1>7, <1>9 DEF Begins
<1>12. call' \in [Call -> Calls] /\ call'[k] = c /\ \A j \in Call \ {k} : call'[j] = call[j]
  BY <1>9, <1>11 DEF CallsRight
<1>13. tried' = tried
  BY DEF Begins
<1>14. /\ DOMAIN metered' = Call /\ metered'[k] = (IF line = <<>> THEN 1 ELSE 0)
       /\ \A j \in Call \ {k} : metered'[j] = metered[j]
  BY <1>1, <1>3, <1>5 DEF Begins, Emits, CallsRight
<1>15. CallFits(c, tried[k], metered'[k])
  <2>1. CASE line = <<>>
    <3>1. c.at = "failed" /\ metered'[k] = 1
      BY <1>7, <1>10, <1>14, <2>1
    <3>2. PaidLast(c.want, <<>>)
      BY DEF PaidLast
    <3>3. QED
      BY <1>3, <1>10, <3>1, <3>2 DEF CallFits, Active, Ended
  <2>2. CASE line # <<>>
    <3>1. c.at = "next" /\ metered'[k] = 0
      BY <1>7, <1>10, <1>14, <2>2
    <3>2. Ahead(c, tried[k])
      BY <1>3, <1>6, <1>10, <2>2 DEF Ahead
    <3>3. QED
      BY <1>3, <1>10, <3>1, <3>2 DEF CallFits, Active, Ended
  <2>3. QED
    BY <2>1, <2>2
<1>16. QED
  BY <1>1, <1>7, <1>10, <1>12, <1>13, <1>14, <1>15 DEF StepsOf, CallsRight

\* a call that holds an object of the pool
LEMMA HoldingFits ==
  ASSUME CallsRight, NEW k \in Call, NEW i \in Instances, At(k, "next"),
         call' = [call EXCEPT ![k].at = "ollama", ![k].uses = i], UNCHANGED <<tried, metered>>
  PROVE  StepsOf(k) /\ call'[k].at = "ollama" /\ call'[k].uses = i
<1>1. PICK r : r = call[k]
  OBVIOUS
<1>2. r \in Calls /\ CallFits(r, tried[k], metered[k]) /\ r.at = "next"
  BY <1>1 DEF CallsRight, At
<1>3. "ollama" \in Place /\ i \in 0..MaxInstances /\ i # 0
  BY CompletionsAssumption DEF Place, Instances
<1>4. PICK c \in Calls : c = [r EXCEPT !.at = "ollama", !.uses = i]
  BY <1>2, <1>3 DEF Calls
<1>5. c.want = r.want /\ c.links = r.links /\ c.at = "ollama" /\ c.uses = i
  BY <1>2, <1>4 DEF Calls
<1>6. call' = [call EXCEPT ![k] = c]
  BY <1>1, <1>4
<1>7. call' \in [Call -> Calls] /\ call'[k] = c /\ \A j \in Call \ {k} : call'[j] = call[j]
  BY <1>4, <1>6 DEF CallsRight
<1>8. CallFits(c, tried[k], metered[k])
  <2>1. Ahead(r, tried[k]) /\ metered[k] = 0
    BY <1>2 DEF CallFits, Active
  <2>2. Ahead(c, tried[k])
    BY <1>5, <2>1 DEF Ahead
  <2>3. QED
    BY <1>3, <1>5, <2>1, <2>2 DEF CallFits, Active, Ended
<1>9. QED
  BY <1>5, <1>7, <1>8 DEF StepsOf, CallsRight

\* a query that ended, and its session not yet
LEMMA QueriedFits ==
  ASSUME CallsRight, NEW k \in Call, NEW good \in BOOLEAN, At(k, "waiting"),
         call' = [call EXCEPT ![k].at = "stopping", ![k].good = good], UNCHANGED <<tried, metered>>
  PROVE  StepsOf(k) /\ call'[k].at = "stopping" /\ call'[k].uses = call[k].uses
<1>1. PICK r : r = call[k]
  OBVIOUS
<1>2. r \in Calls /\ CallFits(r, tried[k], metered[k]) /\ r.at = "waiting"
  BY <1>1 DEF CallsRight, At
<1>3. "stopping" \in Place
  BY DEF Place
<1>4. PICK c \in Calls : c = [r EXCEPT !.at = "stopping", !.good = good]
  BY <1>2, <1>3 DEF Calls
<1>5. c.want = r.want /\ c.links = r.links /\ c.at = "stopping" /\ c.uses = r.uses
  BY <1>2, <1>4 DEF Calls
<1>6. call' = [call EXCEPT ![k] = c]
  BY <1>1, <1>4
<1>7. call' \in [Call -> Calls] /\ call'[k] = c /\ \A j \in Call \ {k} : call'[j] = call[j]
  BY <1>4, <1>6 DEF CallsRight
<1>8. CallFits(c, tried[k], metered[k])
  <2>1. Ahead(r, tried[k]) /\ metered[k] = 0 /\ r.uses = 0
    BY <1>2 DEF CallFits, Active
  <2>2. Ahead(c, tried[k])
    BY <1>5, <2>1 DEF Ahead
  <2>3. QED
    BY <1>5, <2>1, <2>2 DEF CallFits, Active, Ended
<1>9. QED
  BY <1>1, <1>5, <1>7, <1>8 DEF StepsOf, CallsRight

\* the loads of the objects, when a call keeps, takes or gives back what it holds
LEMMA LoadsStay ==
  ASSUME CallsRight, FlightsCounted, NEW k \in Call, StepsOf(k), call'[k].uses = call[k].uses,
         \A i \in Instances : instance'[i].flight = instance[i].flight
  PROVE  FlightsCounted'
<1>1. \A j \in Call : call'[j].uses = call[j].uses
  <2>1. TAKE j \in Call
  <2>2. QED
    BY DEF StepsOf
<1>2. \A i \in Instances : {j \in Call : call'[j].uses = i} = {j \in Call : call[j].uses = i}
  BY <1>1
<1>3. QED
  BY <1>2 DEF FlightsCounted

LEMMA LoadTaken ==
  ASSUME CallsRight, PoolRight, FlightsCounted, NEW k \in Call, NEW i \in Instances, StepsOf(k),
         call[k].uses = 0, call'[k].uses = i, instance' = [instance EXCEPT ![i].flight = @ + 1]
  PROVE  FlightsCounted' /\ instance' \in [Instances -> Loads]
<1>1. \A j \in Call \ {k} : call'[j].uses = call[j].uses
  BY DEF StepsOf
<1>2. i # 0
  BY DEF Instances
<1>3. {j \in Call : call'[j].uses = i} = {j \in Call : call[j].uses = i} \cup {k}
  BY <1>1
<1>4. k \notin {j \in Call : call[j].uses = i} /\ IsFiniteSet({j \in Call : call[j].uses = i})
  BY <1>2, CompletionsAssumption, FS_Subset
<1>5. \A h \in Instances \ {i} : {j \in Call : call'[j].uses = h} = {j \in Call : call[j].uses = h}
  <2>1. \A h \in Instances : h # 0
    BY DEF Instances
  <2>2. QED
    BY <1>1, <2>1
<1>6. Cardinality({j \in Call : call[j].uses = i} \cup {k}) = Cardinality({j \in Call : call[j].uses = i}) + 1
  BY <1>4, FS_AddElement
<1>7. PICK o : o = instance[i]
  OBVIOUS
<1>8. o \in Loads /\ o.flight + 1 \in Nat
  BY <1>7 DEF PoolRight, Loads
<1>9. PICK n \in Loads : n = [o EXCEPT !.flight = o.flight + 1]
  BY <1>8 DEF Loads
<1>10. n.flight = o.flight + 1
  BY <1>8, <1>9 DEF Loads
<1>11. instance' = [instance EXCEPT ![i] = n]
  BY <1>7, <1>9
<1>12. /\ instance' \in [Instances -> Loads] /\ instance'[i].flight = instance[i].flight + 1
       /\ \A h \in Instances \ {i} : instance'[h] = instance[h]
  BY <1>7, <1>9, <1>10, <1>11 DEF PoolRight
<1>13. \A h \in Instances : instance'[h].flight = Cardinality({j \in Call : call'[j].uses = h})
  <2>1. TAKE h \in Instances
  <2>2. CASE h = i
    BY <1>3, <1>6, <1>12, <2>2 DEF FlightsCounted
  <2>3. CASE h # i
    BY <1>5, <1>12, <2>3 DEF FlightsCounted
  <2>4. QED
    BY <2>2, <2>3
<1>14. QED
  BY <1>12, <1>13 DEF FlightsCounted

LEMMA LoadGivenBack ==
  ASSUME CallsRight, PoolRight, FlightsCounted, NEW k \in Call, StepsOf(k),
         call[k].uses # 0, call'[k].uses = 0, instance' = Released(call[k].uses)
  PROVE  FlightsCounted' /\ instance' \in [Instances -> Loads]
<1>1. PICK i : i = call[k].uses
  OBVIOUS
<1>2. i \in Instances /\ i # 0
  BY <1>1 DEF CallsRight, Calls, Instances
<1>3. \A j \in Call \ {k} : call'[j].uses = call[j].uses
  BY DEF StepsOf
<1>4. {j \in Call : call'[j].uses = i} = {j \in Call : call[j].uses = i} \ {k}
  BY <1>1, <1>2, <1>3
<1>5. k \in {j \in Call : call[j].uses = i} /\ IsFiniteSet({j \in Call : call[j].uses = i})
  BY <1>1, CompletionsAssumption, FS_Subset
<1>6. \A h \in Instances \ {i} : {j \in Call : call'[j].uses = h} = {j \in Call : call[j].uses = h}
  <2>1. \A h \in Instances : h # 0
    BY DEF Instances
  <2>2. QED
    BY <1>1, <1>3, <2>1
<1>7. PICK o : o = instance[i]
  OBVIOUS
<1>8. o \in Loads /\ o.flight = Cardinality({j \in Call : call[j].uses = i})
  BY <1>2, <1>7 DEF PoolRight, FlightsCounted
<1>9. o.flight \in Nat
  BY <1>8 DEF Loads
<1>10. Cardinality({j \in Call : call[j].uses = i} \ {k}) = o.flight - 1
  BY <1>5, <1>8, FS_RemoveElement
<1>11. o.flight # 0
  BY <1>5, <1>8, FS_EmptySet
<1>12. o.flight - 1 \in Nat
  BY <1>9, <1>11
<1>13. PICK n \in Loads : n = [o EXCEPT !.flight = o.flight - 1]
  BY <1>8, <1>12 DEF Loads
<1>14. n.flight = o.flight - 1
  BY <1>8, <1>12, <1>13 DEF Loads
<1>15. instance' = [instance EXCEPT ![i] = n]
  BY <1>1, <1>7, <1>11, <1>13 DEF Released
<1>16. /\ instance' \in [Instances -> Loads] /\ instance'[i].flight = o.flight - 1
       /\ \A h \in Instances \ {i} : instance'[h] = instance[h]
  BY <1>2, <1>13, <1>14, <1>15 DEF PoolRight
<1>17. \A h \in Instances : instance'[h].flight = Cardinality({j \in Call : call'[j].uses = h})
  <2>1. TAKE h \in Instances
  <2>2. CASE h = i
    BY <1>4, <1>10, <1>16, <2>2
  <2>3. CASE h # i
    BY <1>6, <1>16, <2>3 DEF FlightsCounted
  <2>4. QED
    BY <2>2, <2>3
<1>18. QED
  BY <1>16, <1>17 DEF FlightsCounted

\* who is picked is an object that was made
LEMMA PicksAreMade ==
  ASSUME PoolRight, NEW w \in Wants
  PROVE  Picks(w.runner) \subseteq Instances
<1>1. Pooled \subseteq Instances
  <2>1. \A h \in Host : pool[h] \in 0..made
    BY DEF PoolRight
  <2>2. \A n \in 0..made : n # 0 => n \in Instances
    BY CompletionsAssumption DEF PoolRight, Instances
  <2>3. QED
    BY <2>1, <2>2 DEF Pooled
<1>2. Healthy \subseteq Instances /\ Preferred \subseteq Instances
  BY <1>1 DEF Healthy, Preferred
<1>3. pool[Fallback] \in Instances
  BY CompletionsAssumption DEF PoolRight, Instances
<1>4. QED
  BY <1>2, <1>3 DEF Picks

LEMMA SessionsStay ==
  ASSUME SessionsRight, NEW k \in Call, StepsOf(k),
         ephemeral' \subseteq ephemeral \cup {k}, leaked \subseteq leaked',
         k \in ephemeral' => call'[k].at \in {"waiting", "stopping", "deleting"} \/ k \in leaked'
  PROVE  SessionsRight'
<1>1. \A j \in ephemeral' : call'[j].at \in {"waiting", "stopping", "deleting"} \/ j \in leaked'
  <2>1. TAKE j \in ephemeral'
  <2>2. CASE j = k
    BY <2>2
  <2>3. CASE j # k
    <3>1. j \in ephemeral /\ j \in Call \ {k}
      BY <2>3 DEF SessionsRight
    <3>2. call'[j] = call[j]
      BY <3>1 DEF StepsOf
    <3>3. QED
      BY <3>1, <3>2 DEF SessionsRight
  <2>4. QED
    BY <2>2, <2>3
<1>2. QED
  BY <1>1 DEF SessionsRight

LEMMA CallKeeps ==
  ASSUME CompletionsInv, NEW k \in Call, CallStep(k)
  PROVE  CompletionsInv'
<1> USE DEF CompletionsInv
<1>1. CallFits(call[k], tried[k], metered[k])
  BY DEF CallsRight
<1>2. k \in ephemeral => call[k].at \in {"waiting", "stopping", "deleting"} \/ k \in leaked
  BY DEF SessionsRight
<1>3. UNCHANGED poolVars => PoolRight' /\ \A i \in Instances : instance'[i].flight = instance[i].flight
  BY DEF PoolRight, poolVars
<1>4. call[k].at \notin {"ollama"} => call[k].uses = 0
  BY <1>1 DEF CallFits
<1>5. CASE Begins(k)
  <2>1. StepsOf(k) /\ call'[k].at \in {"failed", "next"} /\ call'[k].uses = call[k].uses
    BY <1>5, BeginFits
  <2>2. SessionsRight'
    <3>1. k \in ephemeral' => k \in leaked'
      BY <1>2, <1>5 DEF Begins, At
    <3>2. QED
      BY <1>5, <2>1, <3>1, SessionsStay DEF Begins
  <2>3. QED
    BY <1>3, <1>5, <2>1, <2>2, OthersFit, LoadsStay DEF Begins
<1>6. CASE AsksPaid(k)
  <2>1. call[k].at = "next" /\ call[k].at \in Active
    BY <1>6 DEF AsksPaid, At, Active
  <2>2. StepsOf(k) /\ call'[k].uses = call[k].uses
    BY <1>4, <1>6, <2>1, FailureFits, SuccessFits DEF AsksPaid
  <2>3. SessionsRight'
    <3>1. k \in ephemeral' => k \in leaked'
      BY <1>2, <1>6, <2>1 DEF AsksPaid
    <3>2. QED
      BY <1>6, <2>2, <3>1, SessionsStay DEF AsksPaid
  <2>4. QED
    BY <1>3, <1>6, <2>2, <2>3, OthersFit, LoadsStay DEF AsksPaid
<1>7. CASE AsksOllama(k)
  <2>1. call[k].at = "next" /\ call[k].at \in Active /\ call[k].uses = 0
    BY <1>4, <1>7 DEF AsksOllama, At, Active
  <2>2. k \in ephemeral => k \in leaked
    BY <1>2, <2>1
  <2>3. UNCHANGED <<made, pool, checking, ephemeral, leaked>>
    BY <1>7 DEF AsksOllama
  <2>4. CASE Fails(k) /\ UNCHANGED instance
    <3>1. StepsOf(k) /\ call'[k].uses = call[k].uses
      BY <2>1, <2>4, FailureFits
    <3>2. SessionsRight'
      BY <2>2, <2>3, <3>1, SessionsStay
    <3>3. QED
      BY <1>3, <2>3, <2>4, <3>1, <3>2, OthersFit, LoadsStay DEF poolVars
  <2>5. CASE \E i \in Picks(call[k].want.runner) :
               /\ instance' = [instance EXCEPT ![i].flight = @ + 1]
               /\ call' = [call EXCEPT ![k].at = "ollama", ![k].uses = i]
               /\ UNCHANGED <<tried, metered, ephemeral, leaked>>
    <3>1. PICK i \in Picks(call[k].want.runner) :
               /\ instance' = [instance EXCEPT ![i].flight = @ + 1]
               /\ call' = [call EXCEPT ![k].at = "ollama", ![k].uses = i]
               /\ UNCHANGED <<tried, metered, ephemeral, leaked>>
      BY <2>5
    <3>2. PICK w : w = call[k].want
      OBVIOUS
    <3>3. w \in Wants
      BY <3>2 DEF CallsRight, Calls
    <3>4. i \in Instances
      BY <3>1, <3>2, <3>3, PicksAreMade
    <3>5. StepsOf(k) /\ call'[k].uses = i
      BY <1>7, <3>1, <3>4, HoldingFits DEF AsksOllama
    <3>6. FlightsCounted' /\ instance' \in [Instances -> Loads]
      BY <2>1, <3>1, <3>4, <3>5, LoadTaken
    <3>7. SessionsRight'
      BY <2>2, <2>3, <3>5, SessionsStay
    <3>8. QED
      BY <2>3, <3>5, <3>6, <3>7, OthersFit DEF PoolRight
  <2>6. QED
    BY <1>7, <2>4, <2>5 DEF AsksOllama
<1>8. CASE OllamaEnds(k)
  <2>1. call[k].at = "ollama" /\ call[k].at \in Active
    BY <1>8 DEF OllamaEnds, At, Active
  <2>2. call[k].uses # 0
    BY <1>1, <2>1 DEF CallFits
  <2>3. StepsOf(k) /\ call'[k].uses = 0
    BY <1>8, <2>1, FailureFits, SuccessFits DEF OllamaEnds
  <2>4. FlightsCounted' /\ instance' \in [Instances -> Loads]
    BY <1>8, <2>2, <2>3, LoadGivenBack DEF OllamaEnds
  <2>5. SessionsRight'
    <3>1. k \in ephemeral' => k \in leaked'
      BY <1>2, <1>8, <2>1 DEF OllamaEnds
    <3>2. QED
      BY <1>8, <2>3, <3>1, SessionsStay DEF OllamaEnds
  <2>6. QED
    BY <1>8, <2>3, <2>4, <2>5, OthersFit DEF OllamaEnds, PoolRight
<1>9. CASE AsksSession(k)
  <2>1. call[k].at = "next" /\ call[k].at \in Active \ {"ollama"} /\ "creating" \in Active \ {"ollama"}
    BY <1>9 DEF AsksSession, At, Active
  <2>2. StepsOf(k) /\ call'[k].uses = call[k].uses
    BY <1>9, <2>1, MovesFit DEF AsksSession
  <2>3. SessionsRight'
    <3>1. k \in ephemeral' => k \in leaked'
      BY <1>2, <1>9, <2>1 DEF AsksSession
    <3>2. QED
      BY <1>9, <2>2, <3>1, SessionsStay DEF AsksSession
  <2>4. QED
    BY <1>3, <1>9, <2>2, <2>3, OthersFit, LoadsStay DEF AsksSession
<1>10. CASE SessionMade(k)
  <2>1. call[k].at \in Active \ {"ollama"} /\ "waiting" \in Active \ {"ollama"}
    BY <1>10 DEF SessionMade, At, Active
  <2>2. StepsOf(k) /\ call'[k].uses = call[k].uses /\ call'[k].at = "waiting"
    BY <1>10, <2>1, MovesFit DEF SessionMade
  <2>3. SessionsRight'
    BY <1>10, <2>2, SessionsStay DEF SessionMade
  <2>4. QED
    BY <1>3, <1>10, <2>2, <2>3, OthersFit, LoadsStay DEF SessionMade
<1>11. CASE CreateLost(k)
  <2>1. call[k].at \in Active /\ call[k].uses = 0
    BY <1>4, <1>11 DEF CreateLost, At, Active
  <2>2. StepsOf(k) /\ call'[k].uses = call[k].uses
    BY <1>11, <2>1, FailureFits DEF CreateLost
  <2>3. SessionsRight'
    <3>1. ephemeral' \subseteq ephemeral \cup {k} /\ k \in leaked' /\ leaked \subseteq leaked'
      BY <1>11 DEF CreateLost
    <3>2. QED
      BY <2>2, <3>1, SessionsStay
  <2>4. QED
    BY <1>3, <1>11, <2>2, <2>3, OthersFit, LoadsStay DEF CreateLost
<1>12. CASE QueryEnds(k)
  <2>1. PICK good \in BOOLEAN : /\ call' = [call EXCEPT ![k].at = "stopping", ![k].good = good]
                                /\ UNCHANGED <<tried, metered>>
    BY <1>12 DEF QueryEnds, AfterQuery
  <2>2. StepsOf(k) /\ call'[k].at = "stopping" /\ call'[k].uses = call[k].uses
    BY <1>12, <2>1, QueriedFits DEF QueryEnds
  <2>3. SessionsRight'
    BY <1>12, <2>2, SessionsStay DEF QueryEnds
  <2>4. QED
    BY <1>3, <1>12, <2>2, <2>3, OthersFit, LoadsStay DEF QueryEnds
<1>13. CASE Stops(k)
  <2>1. call[k].at \in Active \ {"ollama"} /\ "deleting" \in Active \ {"ollama"}
    BY <1>13 DEF Stops, At, Active
  <2>2. StepsOf(k) /\ call'[k].uses = call[k].uses /\ call'[k].at = "deleting"
    BY <1>13, <2>1, MovesFit DEF Stops
  <2>3. SessionsRight'
    <3>1. ephemeral' \subseteq ephemeral \cup {k}
      BY <1>13 DEF Stops
    <3>2. QED
      BY <1>13, <2>2, <3>1, SessionsStay DEF Stops
  <2>4. QED
    BY <1>3, <1>13, <2>2, <2>3, OthersFit, LoadsStay DEF Stops
<1>14. CASE DeletesIt(k)
  <2>1. call[k].at \in Active /\ call[k].uses = 0
    BY <1>4, <1>14 DEF DeletesIt, At, Active
  <2>2. StepsOf(k) /\ call'[k].uses = call[k].uses
    BY <1>14, <2>1, FailureFits, SuccessFits DEF DeletesIt, CleanedUp
  <2>3. SessionsRight'
    <3>1. ephemeral' \subseteq ephemeral \cup {k} /\ leaked \subseteq leaked' /\ (k \in ephemeral' => k \in leaked')
      BY <1>14 DEF DeletesIt
    <3>2. QED
      BY <2>2, <3>1, SessionsStay
  <2>4. QED
    BY <1>3, <1>14, <2>2, <2>3, OthersFit, LoadsStay DEF DeletesIt
<1>15. CASE CleanupFails(k)
  <2>1. call[k].at \in Active /\ call[k].uses = 0
    BY <1>4, <1>15 DEF CleanupFails, At, Active
  <2>2. StepsOf(k) /\ call'[k].uses = call[k].uses
    BY <1>15, <2>1, FailureFits, SuccessFits DEF CleanupFails, CleanedUp
  <2>3. SessionsRight'
    <3>1. k \in leaked' /\ leaked \subseteq leaked' /\ ephemeral' \subseteq ephemeral \cup {k}
      BY <1>15 DEF CleanupFails
    <3>2. QED
      BY <2>2, <3>1, SessionsStay
  <2>4. QED
    BY <1>3, <1>15, <2>2, <2>3, OthersFit, LoadsStay DEF CleanupFails
<1>16. QED
  BY <1>5, <1>6, <1>7, <1>8, <1>9, <1>10, <1>11, <1>12, <1>13, <1>14, <1>15 DEF CallStep

\* the steps of the pool change no load
LEMMA PoolKeeps ==
  ASSUME CompletionsInv, CompletionsNext, UNCHANGED callVars
  PROVE  CompletionsInv'
<1> USE DEF CompletionsInv
<1>1. CallsRight' /\ SessionsRight'
  BY DEF CallsRight, SessionsRight, callVars
<1>2. ASSUME \A i \in Instances : instance'[i].flight = instance[i].flight
      PROVE  FlightsCounted'
  <2>1. call' = call
    BY DEF callVars
  <2>2. QED
    BY <1>2, <2>1 DEF FlightsCounted
<1>3. ASSUME NEW r \in Runner, AddsRunner(r)
      PROVE  CompletionsInv'
  <2>1. /\ made' \in 1..MaxInstances /\ made' = made + 1 /\ made + 1 \in 0..made'
        /\ \A n \in 0..made : n \in 0..made'
    BY <1>3, CompletionsAssumption DEF AddsRunner, PoolRight
  <2>2. pool' = [pool EXCEPT ![r] = made + 1] /\ r # Fallback /\ r \in Host /\ Fallback \in Host
    BY <1>3, CompletionsAssumption DEF AddsRunner, Host
  <2>3. pool' \in [Host -> 0..made'] /\ pool'[Fallback] = 1
    BY <2>1, <2>2 DEF PoolRight
  <2>4. QED
    BY <1>1, <1>2, <1>3, <2>1, <2>3 DEF AddsRunner, PoolRight
<1>4. ASSUME NEW r \in Runner, RemovesRunner(r)
      PROVE  CompletionsInv'
  <2>1. r # Fallback /\ r \in Host /\ Fallback \in Host /\ 0 \in 0..made
    BY CompletionsAssumption DEF Host, PoolRight
  <2>2. pool' \in [Host -> 0..made] /\ pool'[Fallback] = 1
    BY <1>4, <2>1 DEF PoolRight, RemovesRunner
  <2>3. QED
    BY <1>1, <1>2, <1>4, <2>2 DEF RemovesRunner, PoolRight
<1>5. ASSUME NEW h \in Host, Checks(h)
      PROVE  CompletionsInv'
  <2>1. pool[h] \in Instances
    BY <1>5, CompletionsAssumption DEF PoolRight, Checks, Instances
  <2>2. QED
    BY <1>1, <1>2, <1>5, <2>1 DEF PoolRight, Checks
<1>6. ASSUME NEW i \in Instances, CheckAnswered(i)
      PROVE  CompletionsInv'
  <2>1. PICK found \in {<<TRUE, TRUE>>, <<TRUE, FALSE>>, <<FALSE, FALSE>>} :
           instance' = [instance EXCEPT ![i].healthy = found[1], ![i].stocked = found[2]]
    BY <1>6 DEF CheckAnswered
  <2>2. PICK a \in BOOLEAN, b \in BOOLEAN : found = <<a, b>>
    BY <2>1
  <2>3. PICK o : o = instance[i]
    OBVIOUS
  <2>4. o \in Loads
    BY <2>3 DEF PoolRight
  <2>5. PICK n \in Loads : n = [o EXCEPT !.healthy = a, !.stocked = b]
    BY <2>4 DEF Loads
  <2>6. n.flight = o.flight
    BY <2>4, <2>5 DEF Loads
  <2>7. instance' = [instance EXCEPT ![i] = n]
    BY <2>1, <2>2, <2>3, <2>5
  <2>8. instance' \in [Instances -> Loads] /\ \A j \in Instances : instance'[j].flight = instance[j].flight
    BY <2>3, <2>6, <2>7 DEF PoolRight
  <2>9. checking' \subseteq Instances /\ UNCHANGED <<made, pool>>
    BY <1>6 DEF CheckAnswered, PoolRight
  <2>10. QED
    BY <1>1, <1>2, <2>8, <2>9 DEF PoolRight
<1>7. ASSUME NEW k \in Call, CallStep(k)
      PROVE  CompletionsInv'
  BY <1>7, CallKeeps
<1>8. QED
  BY <1>3, <1>4, <1>5, <1>6, <1>7 DEF CompletionsNext

LEMMA CompletionsStart == CompletionsInit => CompletionsInv
<1> SUFFICES ASSUME CompletionsInit
             PROVE  CompletionsInv
  OBVIOUS
<1>1. PICK want \in [Call -> Target] :
           call = [k \in Call |-> [want |-> want[k], links |-> <<>>, at |-> "idle",
                                  uses |-> 0, good |-> FALSE]]
  BY DEF CompletionsInit
<1>2. ASSUME NEW k \in Call
      PROVE  call[k] \in Calls /\ call[k].at = "idle" /\ call[k].uses = 0
  <2>1. PICK w : w = want[k]
    OBVIOUS
  <2>2. w \in Wants /\ <<>> \in Chains /\ "idle" \in Place /\ 0 \in 0..MaxInstances
    BY <2>1, CompletionsAssumption DEF Chains, Place
  <2>3. PICK c \in Calls : c = [want |-> w, links |-> <<>>, at |-> "idle", uses |-> 0, good |-> FALSE]
    BY <2>2 DEF Calls
  <2>4. c.at = "idle" /\ c.uses = 0
    BY <2>3
  <2>5. call[k] = c
    BY <1>1, <2>1, <2>3
  <2>6. QED
    BY <2>4, <2>5
<1>3. \A k \in Call : CallFits(call[k], tried[k], metered[k])
  <2>1. TAKE k \in Call
  <2>2. tried[k] = <<>> /\ metered[k] = 0
    BY DEF CompletionsInit
  <2>3. QED
    BY <1>2, <2>2 DEF CallFits, Active, Ended
<1>4. CallsRight
  BY <1>1, <1>2, <1>3 DEF CallsRight, CompletionsInit
<1>5. New \in Loads /\ New.flight = 0
  BY DEF Loads, New
<1>6. PoolRight
  <2>1. 1 \in 1..MaxInstances /\ Fallback \in Host /\ \A n \in {0, 1} : n \in 0..1
    BY CompletionsAssumption DEF Host
  <2>2. made = 1 /\ pool = [h \in Host |-> IF h = Fallback THEN 1 ELSE 0] /\ checking = {}
        /\ instance = [i \in Instances |-> New]
    BY DEF CompletionsInit
  <2>3. pool \in [Host -> 0..1] /\ pool[Fallback] = 1
    BY <2>1, <2>2
  <2>4. QED
    BY <1>5, <2>1, <2>2, <2>3 DEF PoolRight
<1>7. FlightsCounted
  <2>1. \A i \in Instances : {k \in Call : call[k].uses = i} = {}
    BY <1>2 DEF Instances
  <2>2. \A i \in Instances : instance[i].flight = 0
    BY <1>5 DEF CompletionsInit
  <2>3. QED
    BY <2>1, <2>2, FS_EmptySet DEF FlightsCounted
<1>8. SessionsRight
  BY DEF SessionsRight, CompletionsInit
<1>9. QED
  BY <1>4, <1>6, <1>7, <1>8 DEF CompletionsInv

LEMMA CompletionsAreRight == CompletionsInv => CompletionsAccounted
<1> SUFFICES ASSUME CompletionsInv
             PROVE  CompletionsAccounted
  OBVIOUS
<1>1. ASSUME NEW k \in Call
      PROVE  CallFits(call[k], tried[k], metered[k]) /\ call[k].at \in Place
  BY DEF CompletionsInv, CallsRight, Calls
<1>2. MeteredOnce
  <2>1. ASSUME NEW k \in Call
        PROVE  /\ metered[k] = IF Over(k) THEN 1 ELSE 0
               /\ PaidLast(call[k].want, tried[k])
    <3>1. CASE call[k].at = "idle"
      BY <1>1, <3>1 DEF CallFits, Over, PaidLast
    <3>2. CASE call[k].at \in Active
      <4>1. metered[k] = 0 /\ ~Over(k) /\ Ahead(call[k], tried[k])
        BY <1>1, <3>2 DEF CallFits, Over, Active
      <4>2. CASE tried[k] = <<>>
        BY <4>1, <4>2 DEF PaidLast
      <4>3. CASE tried[k] # <<>>
        <5>1. PICK f \in Links : tried[k] = <<<<f, FALSE>>>>
          BY <4>1, <4>3 DEF Ahead
        <5>2. PaidLast(call[k].want, <<<<f, FALSE>>>>)
          BY DEF PaidLast, Links
        <5>3. QED
          BY <4>1, <5>1, <5>2
      <4>4. QED
        BY <4>2, <4>3
    <3>3. CASE call[k].at \in Ended
      BY <1>1, <3>3 DEF CallFits, Over, Ended
    <3>4. QED
      BY <1>1, <3>1, <3>2, <3>3 DEF Place, Active, Ended
  <2>2. QED
    BY <2>1 DEF MeteredOnce, PaidLast
<1>3. NoSessionLeft
  BY DEF CompletionsInv, SessionsRight, NoSessionLeft, Over
<1>4. QED
  BY <1>2, <1>3 DEF CompletionsInv, CompletionsAccounted

\* Every call to a language model is accounted for: the load of each object of the
\* pool is the number of calls that hold it, also when its runner was replaced under
\* them; a call is metered once, when it is over; it pays only where its policy lets
\* it and after its free backend failed; and no session of a call outlives it unless
\* the create's answer or a request of the cleanup was lost.
THEOREM CallsAreAccounted == CompletionsSpec => []CompletionsAccounted
<1>1. CompletionsInit => CompletionsInv
  BY CompletionsStart
<1>2. CompletionsInv /\ [CompletionsNext]_completionVars => CompletionsInv'
  <2> SUFFICES ASSUME CompletionsInv, [CompletionsNext]_completionVars
               PROVE  CompletionsInv'
    OBVIOUS
  <2>1. ASSUME NEW k \in Call, CallStep(k)
        PROVE  CompletionsInv'
    BY <2>1, CallKeeps
  <2>2. CASE CompletionsNext /\ UNCHANGED callVars
    BY <2>2, PoolKeeps
  <2>3. CASE UNCHANGED completionVars
    BY <2>3 DEF CompletionsInv, CallsRight, PoolRight, SessionsRight, FlightsCounted,
             completionVars, poolVars, callVars
  <2>4. QED
    BY <2>1, <2>2, <2>3 DEF CompletionsNext, AddsRunner, RemovesRunner, Checks, CheckAnswered
<1>3. CompletionsInv => CompletionsAccounted
  BY CompletionsAreRight
<1>4. QED
  BY <1>1, <1>2, <1>3, PTL DEF CompletionsSpec

-----------------------------------------------------------------------------
(***************************************************************************)
(* The turns of a conversation                                             *)
(***************************************************************************)

Of(c) == {i \in Ids : msgs[i].of = c}
IsPending(i) == msgs[i].phase = "reserved"
Speaking == {"gating", "replying", "broken"}

ChainState ==
  [pc : {"idle", "admitted", "round", "gating", "replying", "broken", "quiet"},
   trigger : Nat, budget : 0..Limit + 1, todo : SUBSET Persona,
   live : SUBSET Ids, got : SUBSET Ids, seen : Room]

IsTrigger(c, t) == t \in Of(c) /\ t \in Posted /\ (Addressed(t) => Of(c) = {t})

\* What a chain has in the log: nothing until its post, then the replies that
\* stream, which are its own, and the message its round is about.
ChainFits(c) ==
  /\ chain[c].pc \in {"idle", "admitted"} => Of(c) = {}
  /\ chain[c].live = {i \in Of(c) : IsPending(i)}
  /\ chain[c].pc \notin {"replying", "broken"} => chain[c].live = {}
  /\ \A i \in chain[c].live : ~Addressed(i)
  /\ \A i \in chain[c].got : i \in Of(c) /\ i \in Posted /\ ~Addressed(i)
  /\ chain[c].pc = "round" => IsTrigger(c, chain[c].trigger)
  /\ chain[c].pc \in Speaking \cup {"round"} => chain[c].budget > 0
  /\ edits = 0 /\ chain[c].pc # "idle" => chain[c].seen.roster = room.roster

\* What p said in chain c has landed, and has cooled down unless p spoke later.
MaySpeak(c, p) ==
  \A j \in Of(c) : msgs[j].author = p =>
    /\ ~IsPending(j)
    /\ j \in Posted /\ msgs[j].fresh => \E k \in Posted : j < k /\ msgs[k].author = p

VoicesFit(c) ==
  /\ chain[c].pc \in Speaking => \A p \in chain[c].todo : MaySpeak(c, p)
  /\ \A i, j \in Of(c) : i # j /\ IsPending(i) /\ IsPending(j) => msgs[i].author # msgs[j].author

\* The replies of the round that runs or ran last: at most Cap, with those to come.
RoundFits(c, R) ==
  /\ chain[c].live \subseteq R /\ Cardinality(R) <= Cap
  /\ chain[c].pc \in {"idle", "gating"} => R = {}
  /\ chain[c].pc \in {"replying", "broken"} => Cardinality(R) + Cardinality(chain[c].todo) <= Cap

RecentFits(recent) == recent \in [Chain -> SUBSET Ids] /\ \A c \in Chain : RoundFits(c, recent[c])

\* The replies of earlier rounds, as far as the personas have spoken since on
\* their own: a round that begins finds less than Limit of them.
Older(recent) == {i \in Spoken : IsReply(i) /\ \A c \in Chain : i \notin recent[c]}

TurnsFit ==
  edits = 0 /\ Limit > 0 =>
    \E recent : RecentFits(recent) /\ Cardinality(Older(recent)) <= Limit - 1

LogIsRead == Len(msgs) <= HistoryLimit

ConvInv ==
  /\ RoomTypeOK
  /\ \A c \in Chain : ChainFits(c)
  /\ LogIsRead => (\A c \in Chain : VoicesFit(c)) /\ OneVoicePerWindow /\ TurnsFit

LEMMA ConvTypes ==
  ASSUME RoomTypeOK
  PROVE  /\ Len(msgs) \in Nat /\ \A i \in Ids : msgs[i] \in Message /\ i \in Nat
         /\ chain \in [Chain -> ChainState]
         /\ IsFiniteSet(Ids) /\ Cardinality(Ids) = Len(msgs)
<1>1. msgs \in Seq(Message) /\ chain \in [Chain -> ChainState]
  BY DEF RoomTypeOK, ChainState
<1>2. Len(msgs) \in Nat /\ \A i \in 1..Len(msgs) : msgs[i] \in Message
  BY <1>1, LenProperties, ElementOfSeq
<1>3. IsFiniteSet(1..Len(msgs)) /\ Cardinality(1..Len(msgs)) = Len(msgs)
  BY <1>2, FS_Interval
<1>4. QED
  BY <1>1, <1>2, <1>3 DEF Ids

(* What becomes of the log. *)

MsgsGrow ==
  /\ Len(msgs) \in Nat /\ Len(msgs') \in Nat /\ Len(msgs) <= Len(msgs')
  /\ \A i \in Ids : msgs'[i].of = msgs[i].of /\ msgs'[i].author = msgs[i].author /\ msgs'[i].to = msgs[i].to
  /\ \A i \in Posted : msgs'[i].phase = "posted" /\ (msgs'[i].fresh => msgs[i].fresh)

\* only the messages of chain c appear, land or are lost
Only(c) ==
  /\ \A i \in Ids' : i \in Ids \/ msgs'[i].of = c
  /\ \A i \in Ids : msgs[i].of # c => msgs'[i].phase = msgs[i].phase

LEMMA IdsGrow ==
  ASSUME MsgsGrow
  PROVE  /\ Ids \subseteq Ids' /\ Posted \subseteq Posted' /\ Ids \in SUBSET Nat /\ Ids' \in SUBSET Nat
         /\ \A i \in Ids' : \A j \in 1..(i - 1) : j \in Ids'
         /\ \A i \in Ids : \A j \in 1..(i - 1) : j \in Ids
         /\ \A i \in Ids' \ Ids : i > Len(msgs)
<1>1. Ids = 1..Len(msgs) /\ Ids' = 1..Len(msgs')
  BY DEF Ids
<1>2. Ids \subseteq Ids' /\ Ids \in SUBSET Nat /\ Ids' \in SUBSET Nat
  BY <1>1 DEF MsgsGrow
<1>3. Posted \subseteq Posted'
  BY <1>2 DEF MsgsGrow, Posted
<1>4. QED
  BY <1>1, <1>2, <1>3 DEF MsgsGrow

LEMMA MsgsRest ==
  ASSUME RoomTypeOK, UNCHANGED msgs, NEW c
  PROVE  MsgsGrow /\ Only(c) /\ Ids' = Ids /\ Posted' = Posted
<1>1. Len(msgs) \in Nat /\ Ids' = Ids /\ Posted' = Posted
  BY ConvTypes DEF Ids, Posted
<1>2. QED
  BY <1>1 DEF MsgsGrow, Only, Posted

LEMMA MsgAppended ==
  ASSUME RoomTypeOK, NEW e \in Message, msgs' = Append(msgs, e)
  PROVE  /\ msgs' \in Seq(Message) /\ Len(msgs') = Len(msgs) + 1 /\ Len(msgs') \in Ids'
         /\ Ids' = Ids \cup {Len(msgs')} /\ Len(msgs') \notin Ids
         /\ \A i \in Ids : msgs'[i] = msgs[i] /\ i < Len(msgs')
         /\ msgs'[Len(msgs')] = e
         /\ MsgsGrow /\ Only(e.of)
<1>1. PICK n : n = Len(msgs)
  OBVIOUS
<1>2. n \in Nat /\ Ids = 1..n /\ msgs \in Seq(Message)
  BY <1>1, ConvTypes DEF Ids, RoomTypeOK
<1>3. /\ msgs' \in Seq(Message) /\ Len(msgs') = n + 1 /\ msgs'[n + 1] = e
      /\ \A i \in 1..n : msgs'[i] = msgs[i]
  BY <1>1, <1>2, AppendProperties
<1>4. Ids' = 1..(n + 1)
  BY <1>3 DEF Ids
<1>5. Ids' = Ids \cup {n + 1} /\ n + 1 \notin Ids /\ \A i \in Ids : i < n + 1
  BY <1>2, <1>4
<1>6. MsgsGrow
  BY <1>1, <1>2, <1>3 DEF MsgsGrow, Posted
<1>7. Only(e.of)
  BY <1>2, <1>3, <1>5 DEF Only
<1>8. QED
  BY <1>1, <1>2, <1>3, <1>5, <1>6, <1>7

LEMMA MsgRewritten ==
  ASSUME RoomTypeOK, NEW i \in Ids, NEW e \in Message, msgs' = [msgs EXCEPT ![i] = e]
  PROVE  /\ msgs' \in Seq(Message) /\ Ids' = Ids /\ Len(msgs') = Len(msgs)
         /\ \A j \in Ids : msgs'[j] = IF j = i THEN e ELSE msgs[j]
<1>1. i \in 1..Len(msgs) /\ msgs \in Seq(Message)
  BY DEF Ids, RoomTypeOK
<1>2. /\ msgs' \in Seq(Message) /\ Len(msgs') = Len(msgs)
      /\ \A j \in 1..Len(msgs) : msgs'[j] = IF j = i THEN e ELSE msgs[j]
  BY <1>1, ExceptSeq
<1>3. QED
  BY <1>2 DEF Ids

\* a pending reply of chain c lands or is lost
LEMMA ReplySettles ==
  ASSUME RoomTypeOK, NEW i \in Ids, IsPending(i), Lands(i) \/ IsLost(i)
  PROVE  /\ msgs' \in Seq(Message) /\ Ids' = Ids /\ MsgsGrow /\ Only(msgs[i].of)
         /\ \A j \in Ids : j # i => msgs'[j] = msgs[j]
         /\ msgs'[i].phase \in {"posted", "lost"} /\ (IsLost(i) => msgs'[i].phase = "lost")
         /\ (Lands(i) => msgs'[i].phase = "posted")
<1>1. msgs[i] \in Message /\ Len(msgs) \in Nat /\ IsFiniteSet(Ids)
  BY ConvTypes
<1>2. Cardinality(Posted) + 1 \in Nat
  BY <1>1, FS_Subset, FS_CardinalityType DEF Posted
<1>3. PICK e \in Message : /\ msgs' = [msgs EXCEPT ![i] = e] /\ e.of = msgs[i].of
                           /\ e.author = msgs[i].author /\ e.to = msgs[i].to
                           /\ e.phase \in {"posted", "lost"} /\ (IsLost(i) => e.phase = "lost")
                           /\ (Lands(i) => e.phase = "posted")
  <2>1. CASE Lands(i)
    <3>1. PICK e : e = [msgs[i] EXCEPT !.phase = "posted", !.fresh = TRUE, !.landed = Cardinality(Posted) + 1]
      OBVIOUS
    <3>2. msgs' = [msgs EXCEPT ![i] = e]
      BY <2>1, <3>1 DEF Lands
    <3>3. /\ e \in Message /\ e.of = msgs[i].of /\ e.author = msgs[i].author /\ e.to = msgs[i].to
          /\ e.phase = "posted"
      BY <1>1, <1>2, <3>1 DEF Message
    <3>4. ~IsLost(i)
      <4>1. ASSUME IsLost(i) PROVE FALSE
        <5>1. PICK l : l = [msgs[i] EXCEPT !.phase = "lost"]
          OBVIOUS
        <5>2. l \in Message /\ l.phase = "lost"
          BY <1>1, <5>1 DEF Message
        <5>3. msgs' = [msgs EXCEPT ![i] = l]
          BY <4>1, <5>1 DEF IsLost
        <5>4. msgs'[i] = l /\ msgs'[i] = e
          BY <3>2, <3>3, <5>2, <5>3, MsgRewritten
        <5>5. QED
          BY <3>3, <5>2, <5>4
      <4>2. QED
        BY <4>1
    <3>5. QED
      BY <3>2, <3>3, <3>4
  <2>2. CASE IsLost(i) /\ ~Lands(i)
    <3>1. PICK e : e = [msgs[i] EXCEPT !.phase = "lost"]
      OBVIOUS
    <3>2. msgs' = [msgs EXCEPT ![i] = e]
      BY <2>2, <3>1 DEF IsLost
    <3>3. /\ e \in Message /\ e.of = msgs[i].of /\ e.author = msgs[i].author /\ e.to = msgs[i].to
          /\ e.phase = "lost"
      BY <1>1, <3>1 DEF Message
    <3>4. QED
      BY <2>2, <3>2, <3>3
  <2>3. QED
    BY <2>1, <2>2
<1>4. /\ msgs' \in Seq(Message) /\ Ids' = Ids /\ Len(msgs') = Len(msgs)
      /\ \A j \in Ids : msgs'[j] = IF j = i THEN e ELSE msgs[j]
  BY <1>3, MsgRewritten
<1>5. MsgsGrow
  BY <1>1, <1>3, <1>4 DEF MsgsGrow, Posted, IsPending
<1>6. Only(msgs[i].of)
  BY <1>4 DEF Only
<1>7. QED
  BY <1>3, <1>4, <1>5, <1>6

(* What a step leaves as it was. *)

EditsKept == edits' = 0 => edits = 0 /\ room'.roster = room.roster

LEMMA OtherChainFits ==
  ASSUME MsgsGrow, NEW c, Only(c), EditsKept, NEW d \in Chain, d # c, chain'[d] = chain[d], ChainFits(d)
  PROVE  ChainFits(d)' /\ (VoicesFit(d) => VoicesFit(d)')
<1>1. Ids \subseteq Ids' /\ Posted \subseteq Posted'
  BY IdsGrow
<1>2. Of(d)' = Of(d) /\ Of(d) \subseteq Ids
  BY <1>1 DEF Of, MsgsGrow, Only
<1>3. \A i \in Of(d) : /\ IsPending(i)' <=> IsPending(i)
                       /\ Addressed(i)' <=> Addressed(i)
                       /\ msgs'[i].author = msgs[i].author
  BY <1>2 DEF Of, IsPending, Addressed, MsgsGrow, Only
<1>4. ChainFits(d)'
  <2>1. chain'[d].live = {i \in Of(d)' : IsPending(i)'} /\ chain'[d].live \subseteq Of(d)
    BY <1>2, <1>3 DEF ChainFits
  <2>2. \A i \in chain'[d].got : i \in Of(d)' /\ i \in Posted' /\ ~Addressed(i)'
    BY <1>1, <1>2, <1>3 DEF ChainFits
  <2>3. chain'[d].pc = "round" => IsTrigger(d, chain[d].trigger)'
    <3> SUFFICES ASSUME chain[d].pc = "round" PROVE IsTrigger(d, chain[d].trigger)'
      OBVIOUS
    <3>1. PICK t : t = chain[d].trigger
      OBVIOUS
    <3>2. IsTrigger(d, t)
      BY <3>1 DEF ChainFits
    <3>3. IsTrigger(d, t)'
      BY <1>1, <1>2, <1>3, <3>2 DEF IsTrigger
    <3>4. QED
      BY <3>1, <3>3 DEF IsTrigger
  <2>4. edits' = 0 /\ chain'[d].pc # "idle" => chain'[d].seen.roster = room'.roster
    BY DEF ChainFits, EditsKept
  <2>5. \A i \in chain'[d].live : ~Addressed(i)'
    BY <1>3, <2>1 DEF ChainFits
  <2>6. chain'[d].pc \in {"idle", "admitted"} => Of(d)' = {}
    BY <1>2 DEF ChainFits
  <2>7. QED
    BY <2>1, <2>2, <2>3, <2>4, <2>5, <2>6 DEF ChainFits
<1>5. ASSUME VoicesFit(d) PROVE VoicesFit(d)'
  <2>1. ASSUME NEW p, MaySpeak(d, p) PROVE MaySpeak(d, p)'
    <3> SUFFICES ASSUME NEW j \in Of(d), msgs[j].author = p
                 PROVE  /\ ~IsPending(j)
                        /\ j \in Posted' /\ msgs'[j].fresh => \E k \in Posted' : j < k /\ msgs'[k].author = p
      BY <1>2, <1>3 DEF MaySpeak
    <3>1. ~IsPending(j) /\ (j \in Posted /\ msgs[j].fresh => \E k \in Posted : j < k /\ msgs[k].author = p)
      BY <2>1 DEF MaySpeak
    <3>2. j \in Posted' => j \in Posted
      BY <1>2 DEF Posted, Only, Of
    <3>3. j \in Posted /\ msgs'[j].fresh => msgs[j].fresh
      BY DEF MsgsGrow
    <3>4. \A k \in Posted : k \in Posted' /\ msgs'[k].author = msgs[k].author
      BY <1>1 DEF MsgsGrow, Posted
    <3>5. QED
      BY <3>1, <3>2, <3>3, <3>4
  <2>2. chain'[d].pc \in Speaking => \A p \in chain'[d].todo : MaySpeak(d, p)'
    BY <1>5, <2>1 DEF VoicesFit
  <2>3. \A i, j \in Of(d)' : i # j /\ IsPending(i)' /\ IsPending(j)' => msgs'[i].author # msgs'[j].author
    BY <1>2, <1>3, <1>5 DEF VoicesFit
  <2>4. QED
    BY <2>2, <2>3 DEF VoicesFit
<1>6. QED
  BY <1>4, <1>5

LEMMA ConvSteps ==
  ASSUME ConvInv, RoomTypeOK', MsgsGrow, NEW c, Only(c), EditsKept,
         \A d \in Chain : d # c => chain'[d] = chain[d],
         c \in Chain => ChainFits(c)' /\ (LogIsRead => VoicesFit(c)'),
         LogIsRead /\ LogIsRead' => OneVoicePerWindow' /\ TurnsFit'
  PROVE  ConvInv'
<1>1. LogIsRead' => LogIsRead
  <2>1. Len(msgs') <= HistoryLimit => Len(msgs) <= HistoryLimit
    BY ConversationAssumption DEF MsgsGrow
  <2>2. QED
    BY <2>1 DEF LogIsRead
<1>2. \A d \in Chain : ChainFits(d)' /\ (LogIsRead => VoicesFit(d)')
  BY OtherChainFits DEF ConvInv
<1>3. QED
  BY <1>1, <1>2 DEF ConvInv

\* a step after which no more replies are under way
LEMMA VoicesStay ==
  ASSUME MsgsGrow, OneVoicePerWindow,
         \A i \in Ids' : IsPending(i)' => i \in Ids /\ IsPending(i),
         \A j \in Posted' : j \notin Posted => \A i \in Ids' :
           j < i /\ msgs'[i].of = msgs'[j].of /\ msgs'[i].author = msgs'[j].author => ~IsPending(i)'
  PROVE  OneVoicePerWindow'
<1> SUFFICES ASSUME NEW i \in Ids', NEW j \in Ids', j < i,
                    msgs'[i].of = msgs'[j].of, msgs'[i].author = msgs'[j].author,
                    msgs'[i].author \in Persona, IsPending(i)', j \in Posted',
                    \A k \in Posted' : j < k /\ k < i => msgs'[k].author # msgs'[i].author
             PROVE  ~msgs'[j].fresh
  BY DEF OneVoicePerWindow, IsPending
<1>1. i \in Ids /\ IsPending(i) /\ j \in Posted
  OBVIOUS
<1>2. j \in Ids /\ msgs[i].of = msgs[j].of /\ msgs[i].author = msgs[j].author /\ msgs[i].author = msgs'[i].author
  BY <1>1 DEF MsgsGrow, Posted
<1>3. \A k \in Posted : j < k /\ k < i => msgs[k].author # msgs[i].author
  BY <1>2, IdsGrow DEF MsgsGrow, Posted
<1>4. ~msgs[j].fresh
  BY <1>1, <1>2, <1>3 DEF OneVoicePerWindow, IsPending
<1>5. QED
  BY <1>1, <1>4 DEF MsgsGrow

LEMMA OlderShrinks ==
  ASSUME RoomTypeOK, MsgsGrow, UNCHANGED room.roster, NEW recent, NEW recent2,
         \A d \in Chain : recent[d] \subseteq recent2[d],
         \A i \in Posted' : i \in Posted \/ (\E d \in Chain : i \in recent2[d]) \/ ~IsReply(i)'
  PROVE  Older(recent2)' \subseteq Older(recent)
<1> SUFFICES ASSUME NEW i \in Older(recent2)' PROVE i \in Older(recent)
  OBVIOUS
<1>1. /\ i \in Posted' /\ \A j \in Posted' : j >= i => msgs'[j].author \in room'.roster
      /\ IsReply(i)' /\ \A d \in Chain : i \notin recent2[d]
  BY DEF Older, Spoken
<1>2. i \in Posted /\ i \in Ids
  BY <1>1 DEF Posted
<1>3. \A j \in Posted : j >= i => msgs[j].author \in room.roster
  BY <1>1, IdsGrow DEF MsgsGrow, Posted
<1>4. IsReply(i)
  <2>1. PICK j \in 1..(i - 1) : msgs'[j].of = msgs'[i].of
    BY <1>1 DEF IsReply
  <2>2. j \in Ids
    BY <1>2, <2>1, IdsGrow
  <2>3. msgs[j].of = msgs[i].of
    BY <1>2, <2>1, <2>2 DEF MsgsGrow
  <2>4. QED
    BY <2>1, <2>3 DEF IsReply
<1>5. QED
  BY <1>1, <1>2, <1>3, <1>4 DEF Older, Spoken

\* the replies of chain c's round become those and the new ones
LEMMA TurnsGoOn ==
  ASSUME RoomTypeOK, MsgsGrow, TurnsFit, EditsKept, NEW c, NEW new, new \subseteq Ids',
         \A d \in Chain : d # c => chain'[d] = chain[d],
         c \in Chain => \A R \in SUBSET Ids : RoundFits(c, R) => RoundFits(c, R \cup new)',
         \A i \in Posted' : i \in Posted \/ (c \in Chain /\ i \in chain[c].live) \/ ~IsReply(i)'
  PROVE  TurnsFit'
<1> SUFFICES ASSUME edits' = 0, Limit > 0
             PROVE  \E recent : RecentFits(recent)' /\ Cardinality(Older(recent)') <= Limit - 1
  BY DEF TurnsFit
<1>1. UNCHANGED room.roster
  BY DEF EditsKept
<1>2. PICK recent : RecentFits(recent) /\ Cardinality(Older(recent)) <= Limit - 1
  BY DEF TurnsFit, EditsKept
<1>3. PICK more : more = [d \in Chain |-> IF d = c THEN recent[d] \cup new ELSE recent[d]]
  OBVIOUS
<1>4. recent \in [Chain -> SUBSET Ids] /\ \A d \in Chain : RoundFits(d, recent[d])
  BY <1>2 DEF RecentFits
<1>5. RecentFits(more)'
  <2>1. more \in [Chain -> SUBSET Ids']
    BY <1>3, <1>4, IdsGrow
  <2>2. ASSUME NEW d \in Chain PROVE RoundFits(d, more[d])'
    <3>1. CASE d = c
      <4>1. more[d] = recent[c] \cup new /\ recent[c] \in SUBSET Ids /\ RoundFits(c, recent[c])
        BY <1>3, <1>4, <3>1
      <4>2. QED
        BY <3>1, <4>1
    <3>2. CASE d # c
      <4>1. more[d] = recent[d] /\ RoundFits(d, recent[d]) /\ chain'[d] = chain[d]
        BY <1>3, <1>4, <3>2
      <4>2. QED
        BY <4>1 DEF RoundFits
    <3>3. QED
      BY <3>1, <3>2
  <2>3. QED
    BY <2>1, <2>2 DEF RecentFits
<1>6. Older(more)' \subseteq Older(recent)
  <2>1. \A d \in Chain : recent[d] \subseteq more[d]
    BY <1>3
  <2>2. c \in Chain => chain[c].live \subseteq more[c]
    BY <1>4, <2>1 DEF RoundFits
  <2>3. QED
    BY <1>1, <2>1, <2>2, OlderShrinks
<1>7. Cardinality(Older(more)') <= Limit - 1
  <2>1. IsFiniteSet(Older(recent))
    BY ConvTypes, FS_Subset DEF Older, Spoken, Posted
  <2>2. Cardinality(Older(more)') <= Cardinality(Older(recent)) /\ IsFiniteSet(Older(more)')
    BY <1>6, <2>1, FS_Subset
  <2>3. Cardinality(Older(more)') \in Nat /\ Cardinality(Older(recent)) \in Nat
    BY <2>1, <2>2, FS_CardinalityType
  <2>4. QED
    BY <1>2, <2>2, <2>3, ConversationAssumption
<1>8. QED
  BY <1>5, <1>7

(* What each step does. *)

LEMMA ChainMoves ==
  ASSUME RoomTypeOK, msgs' \in Seq(Message), room' \in Room, edits' \in 0..MaxEdits, Ids \subseteq Ids',
         NEW c \in Chain, NEW r, r \in ChainState', chain' = [chain EXCEPT ![c] = r]
  PROVE  RoomTypeOK' /\ chain'[c] = r /\ \A d \in Chain : d # c => chain'[d] = chain[d]
<1>1. chain \in [Chain -> ChainState]
  BY ConvTypes
<1>2. ASSUME NEW s \in ChainState PROVE s \in ChainState'
  BY <1>2 DEF ChainState
<1>3. chain' \in [Chain -> ChainState']
  BY <1>1, <1>2
<1>4. RoomTypeOK'
  BY <1>3 DEF RoomTypeOK, ChainState
<1>5. QED
  BY <1>1, <1>4

LEMMA LogRests ==
  ASSUME RoomTypeOK, UNCHANGED msgs
  PROVE  /\ Ids' = Ids /\ MsgsGrow /\ Posted' = Posted /\ msgs' \in Seq(Message)
         /\ \A c : Of(c)' = Of(c) /\ Only(c)
         /\ \A i : (IsPending(i)' <=> IsPending(i)) /\ (Addressed(i)' <=> Addressed(i))
         /\ \A c, p : MaySpeak(c, p) => MaySpeak(c, p)'
         /\ OneVoicePerWindow => OneVoicePerWindow'
<1>1. Ids' = Ids /\ Posted' = Posted /\ msgs' \in Seq(Message)
  BY DEF Ids, Posted, RoomTypeOK
<1>2. MsgsGrow /\ \A c : Only(c)
  BY MsgsRest
<1>3. \A c : Of(c)' = Of(c)
  BY <1>1 DEF Of
<1>4. \A i : (IsPending(i)' <=> IsPending(i)) /\ (Addressed(i)' <=> Addressed(i))
  BY DEF IsPending, Addressed
<1>5. \A c, p : MaySpeak(c, p) => MaySpeak(c, p)'
  BY <1>1, <1>3, <1>4 DEF MaySpeak
<1>6. OneVoicePerWindow => OneVoicePerWindow'
  BY <1>1 DEF OneVoicePerWindow
<1>7. QED
  BY <1>1, <1>2, <1>3, <1>4, <1>5, <1>6

\* a step of chain c that leaves the log alone
LEMMA QuietStep ==
  ASSUME ConvInv, UNCHANGED <<room, msgs, edits>>, NEW c \in Chain,
         NEW r \in ChainState, chain' = [chain EXCEPT ![c] = r], r.live = chain[c].live,
         r.pc \in {"idle", "admitted"} => Of(c) = {},
         r.pc \notin {"replying", "broken"} => r.live = {},
         \A i \in r.got : i \in Of(c) /\ i \in Posted /\ ~Addressed(i),
         r.pc = "round" => IsTrigger(c, r.trigger),
         r.pc \in Speaking \cup {"round"} => r.budget > 0,
         edits = 0 /\ r.pc # "idle" => r.seen.roster = room.roster,
         LogIsRead /\ r.pc \in Speaking => \A p \in r.todo : MaySpeak(c, p),
         LogIsRead => TurnsFit'
  PROVE  ConvInv'
<1>1. /\ Ids' = Ids /\ MsgsGrow /\ Posted' = Posted /\ Of(c)' = Of(c) /\ Only(c) /\ msgs' \in Seq(Message)
      /\ \A i : (IsPending(i)' <=> IsPending(i)) /\ (Addressed(i)' <=> Addressed(i))
      /\ \A p : MaySpeak(c, p) => MaySpeak(c, p)'
      /\ OneVoicePerWindow => OneVoicePerWindow'
  BY LogRests DEF ConvInv
<1>2. r \in ChainState' /\ room' \in Room /\ edits' \in 0..MaxEdits
  BY <1>1 DEF ChainState, ConvInv, RoomTypeOK
<1>3. RoomTypeOK' /\ chain'[c] = r /\ \A d \in Chain : d # c => chain'[d] = chain[d]
  BY <1>1, <1>2, ChainMoves DEF ConvInv
<1>4. ChainFits(c)'
  <2>1. r.live = {i \in Of(c) : IsPending(i)} /\ \A i \in r.live : ~Addressed(i)
    BY DEF ConvInv, ChainFits
  <2>2. r.pc = "round" => IsTrigger(c, r.trigger)'
    BY <1>1 DEF IsTrigger
  <2>3. chain'[c].live = {i \in Of(c)' : IsPending(i)'}
    BY <1>1, <1>3, <2>1
  <2>4. chain'[c].pc = "round" => IsTrigger(c, chain[c].trigger)'
    BY <1>3, <2>2 DEF IsTrigger
  <2>5. \A i \in chain'[c].got : i \in Of(c)' /\ i \in Posted' /\ ~Addressed(i)'
    BY <1>1, <1>3
  <2>6. \A i \in chain'[c].live : ~Addressed(i)'
    BY <1>1, <1>3, <2>1
  <2>7. QED
    BY <1>1, <1>3, <2>3, <2>4, <2>5, <2>6 DEF ChainFits
<1>5. LogIsRead => VoicesFit(c)'
  <2> SUFFICES ASSUME LogIsRead PROVE VoicesFit(c)'
    OBVIOUS
  <2>1. chain'[c].pc \in Speaking => \A p \in chain'[c].todo : MaySpeak(c, p)'
    BY <1>1, <1>3
  <2>2. \A i, j \in Of(c)' : i # j /\ IsPending(i)' /\ IsPending(j)' => msgs'[i].author # msgs'[j].author
    BY <1>1 DEF ConvInv, VoicesFit
  <2>3. QED
    BY <2>1, <2>2 DEF VoicesFit
<1>6. EditsKept
  BY DEF EditsKept
<1>7. LogIsRead => OneVoicePerWindow' /\ TurnsFit'
  BY <1>1 DEF ConvInv
<1>8. QED
  BY <1>1, <1>3, <1>4, <1>5, <1>6, <1>7, ConvSteps

\* the replies of the last round are as many as they were
LEMMA RoundsStay ==
  ASSUME ConvInv, LogIsRead, UNCHANGED <<room, msgs, edits>>, NEW c \in Chain,
         NEW r, chain' = [chain EXCEPT ![c] = r], r.live = chain[c].live, r.pc # "idle",
         r.pc = "gating" => chain[c].pc = "gating",
         r.pc \in {"replying", "broken"} =>
           \A R \in SUBSET Ids : RoundFits(c, R) => Cardinality(R) + Cardinality(r.todo) <= Cap
  PROVE  TurnsFit'
<1>1. RoomTypeOK /\ TurnsFit /\ chain \in [Chain -> ChainState]
  BY ConvTypes DEF ConvInv
<1>2. chain'[c] = r /\ \A d \in Chain : d # c => chain'[d] = chain[d]
  BY <1>1
<1>3. PICK none : none = {}
  OBVIOUS
<1>4. \A R \in SUBSET Ids : RoundFits(c, R) => RoundFits(c, R \cup none)'
  <2>1. \A R : R \cup none = R
    BY <1>3
  <2>2. \A R \in SUBSET Ids : RoundFits(c, R) => RoundFits(c, R)'
    BY <1>2 DEF RoundFits
  <2>3. QED
    BY <2>1, <2>2
<1>5. MsgsGrow /\ EditsKept /\ none \subseteq Ids'
  BY <1>1, <1>3, LogRests DEF EditsKept
<1>6. \A i \in Posted' : i \in Posted
  BY <1>1, LogRests
<1>7. QED
  BY <1>1, <1>2, <1>4, <1>5, <1>6, TurnsGoOn

LEMMA PostAdmittedKeeps ==
  ASSUME ConvInv, NEW c \in Chain, PostAdmitted(c)
  PROVE  ConvInv'
<1>1. PICK r : r = [NoChain EXCEPT !.pc = "admitted", !.seen = room]
  OBVIOUS
<1>2. chain[c].pc = "idle" /\ chain' = [chain EXCEPT ![c] = r] /\ UNCHANGED <<room, msgs, edits>>
  BY <1>1 DEF PostAdmitted
<1>3. r \in ChainState /\ r.live = {} /\ r.got = {} /\ r.todo = {} /\ r.pc = "admitted" /\ r.seen = room
  <2>1. room \in Room /\ 0 \in 0..Limit + 1
    BY ConversationAssumption DEF ConvInv, RoomTypeOK
  <2>2. QED
    BY <1>1, <2>1 DEF NoChain, ChainState
<1>4. chain[c].live = {} /\ Of(c) = {}
  BY <1>2 DEF ConvInv, ChainFits
<1>5. LogIsRead => TurnsFit'
  BY <1>2, <1>3, <1>4, RoundsStay
<1>6. QED
  BY <1>2, <1>3, <1>4, <1>5, QuietStep DEF Speaking

LEMMA PostFailsKeeps ==
  ASSUME ConvInv, NEW c \in Chain, PostFails(c)
  PROVE  ConvInv'
<1>1. PICK r : r = [chain[c] EXCEPT !.pc = "quiet"]
  OBVIOUS
<1>2. chain[c].pc = "admitted" /\ chain' = [chain EXCEPT ![c] = r] /\ UNCHANGED <<room, msgs, edits>>
  BY <1>1 DEF PostFails
<1>3. /\ r \in ChainState /\ r.live = chain[c].live /\ r.got = chain[c].got /\ r.pc = "quiet"
      /\ r.seen = chain[c].seen
  BY <1>1, ConvTypes DEF ChainState, ConvInv
<1>4. r.live = {} /\ \A i \in r.got : i \in Of(c) /\ i \in Posted /\ ~Addressed(i)
  BY <1>2, <1>3 DEF ConvInv, ChainFits
<1>5. edits = 0 => r.seen.roster = room.roster
  BY <1>2, <1>3 DEF ConvInv, ChainFits
<1>6. LogIsRead => TurnsFit'
  BY <1>2, <1>3, RoundsStay
<1>7. QED
  BY <1>2, <1>3, <1>4, <1>5, <1>6, QuietStep DEF Speaking

LEMMA GatesAnswerKeeps ==
  ASSUME ConvInv, NEW c \in Chain, NEW chosen, GatesAnswer(c, chosen)
  PROVE  ConvInv'
<1>1. PICK r : r = [chain[c] EXCEPT !.pc = IF chosen = {} THEN "quiet" ELSE "replying", !.todo = chosen]
  OBVIOUS
<1>2. /\ chain[c].pc = "gating" /\ chosen \subseteq chain[c].todo /\ Cardinality(chosen) <= Cap
      /\ UNCHANGED <<room, msgs, edits>> /\ chain[c] \in ChainState
  BY ConvTypes DEF GatesAnswer, ConvInv
<1>3. chain' = [chain EXCEPT ![c] = r]
  BY <1>1, ConvTypes DEF GatesAnswer, ConvInv
<1>4. /\ r \in ChainState /\ r.live = chain[c].live /\ r.got = chain[c].got /\ r.pc \in {"quiet", "replying"}
      /\ r.seen = chain[c].seen /\ r.todo = chosen /\ r.budget = chain[c].budget
  BY <1>1, <1>2 DEF ChainState
<1>5. /\ r.live = {} /\ \A i \in r.got : i \in Of(c) /\ i \in Posted /\ ~Addressed(i)
      /\ r.budget > 0 /\ (edits = 0 => r.seen.roster = room.roster)
  BY <1>2, <1>4 DEF ConvInv, ChainFits, Speaking
<1>6. LogIsRead => \A p \in r.todo : MaySpeak(c, p)
  BY <1>2, <1>4 DEF ConvInv, VoicesFit, Speaking
<1>7. ASSUME LogIsRead PROVE TurnsFit'
  <2>1. \A R : RoundFits(c, R) => R = {}
    BY <1>2 DEF RoundFits
  <2>2. Cardinality({}) = 0 /\ Cardinality(chosen) \in Nat
    <3>1. chosen \subseteq Persona
      BY <1>2 DEF ChainState
    <3>2. QED
      BY <3>1, FS_EmptySet, FS_Subset, FS_CardinalityType, ConversationAssumption
  <2>3. Cardinality({}) + Cardinality(r.todo) <= Cap
    BY <1>2, <1>4, <2>2
  <2>4. QED
    BY <1>2, <1>3, <1>4, <1>7, <2>1, <2>3, RoundsStay
<1>8. QED
  BY <1>2, <1>3, <1>4, <1>5, <1>6, <1>7, QuietStep

LEMMA RoundEndsKeeps ==
  ASSUME ConvInv, NEW c \in Chain, RoundEnds(c)
  PROVE  ConvInv'
<1>1. PICK got : got = chain[c].got
  OBVIOUS
<1>2. PICK left : left = chain[c].budget - 1
  OBVIOUS
<1>3. PICK r : r = IF got = {} \/ left = 0 THEN [chain[c] EXCEPT !.pc = "quiet"]
                   ELSE [chain[c] EXCEPT !.pc = "round", !.trigger = Latest(got), !.got = {},
                                         !.budget = left, !.seen = room]
  OBVIOUS
<1>4. /\ chain[c].pc = "replying" /\ chain[c].live = {} /\ UNCHANGED <<room, msgs, edits>>
      /\ chain' = [chain EXCEPT ![c] = r] /\ chain[c] \in ChainState
  <2>1. chain' = [chain EXCEPT ![c] = r]
    BY <1>1, <1>2, <1>3, Zenon DEF RoundEnds
  <2>2. chain[c] \in ChainState
    BY ConvTypes DEF ConvInv
  <2>3. QED
    BY <2>1, <2>2 DEF RoundEnds
<1>5. /\ \A i \in got : i \in Of(c) /\ i \in Posted /\ ~Addressed(i)
      /\ chain[c].budget > 0 /\ (edits = 0 => chain[c].seen.roster = room.roster)
  BY <1>1, <1>4 DEF ConvInv, ChainFits, Speaking
<1>6. got # {} => Latest(got) \in got /\ Latest(got) \in Nat
  <2>1. got \in SUBSET Nat /\ \A i \in got : i <= Len(msgs)
    BY <1>1, <1>4, ConvTypes DEF ChainState, Ids, ConvInv
  <2>2. QED
    BY <2>1, GreatestPicked, ConvTypes DEF Latest, ConvInv
<1>7. CASE got = {} \/ left = 0
  <2>1. /\ r \in ChainState /\ r.live = {} /\ r.got = got /\ r.pc = "quiet" /\ r.seen = chain[c].seen
    BY <1>1, <1>3, <1>4, <1>7 DEF ChainState
  <2>2. LogIsRead => TurnsFit'
    BY <1>4, <2>1, RoundsStay
  <2>3. QED
    BY <1>4, <1>5, <2>1, <2>2, QuietStep DEF Speaking
<1>8. CASE got # {} /\ left # 0
  <2>1. room \in Room /\ left \in 0..Limit + 1 /\ left > 0
    BY <1>2, <1>4, <1>5, <1>8, ConversationAssumption DEF ConvInv, RoomTypeOK, ChainState
  <2>2. /\ r \in ChainState /\ r.live = {} /\ r.got = {} /\ r.pc = "round" /\ r.seen = room
        /\ r.trigger = Latest(got) /\ r.budget > 0
    BY <1>3, <1>4, <1>6, <1>8, <2>1 DEF ChainState
  <2>3. IsTrigger(c, r.trigger)
    BY <1>5, <1>6, <1>8, <2>2 DEF IsTrigger
  <2>4. LogIsRead => TurnsFit'
    BY <1>4, <2>2, RoundsStay
  <2>5. QED
    BY <1>4, <2>2, <2>3, <2>4, QuietStep DEF Speaking
<1>9. QED
  BY <1>7, <1>8

LEMMA PostLandsKeeps ==
  ASSUME ConvInv, NEW c \in Chain, NEW author \in Poster, NEW to \in Persona \cup {Human},
         PostLands(c, author, to)
  PROVE  ConvInv'
<1>1. RoomTypeOK /\ chain[c] \in ChainState /\ chain \in [Chain -> ChainState] /\ Len(msgs) \in Nat
  BY ConvTypes DEF ConvInv
<1>2. chain[c].pc = "admitted" /\ Of(c) = {} /\ chain[c].live = {} /\ UNCHANGED <<room, edits>>
  BY DEF PostLands, ConvInv, ChainFits
<1>3. PICK e \in Message : /\ msgs' = Append(msgs, e) /\ e.of = c /\ e.phase = "posted"
  <2>1. Cardinality(Posted) + 1 \in Nat
    BY <1>1, ConvTypes, FS_Subset, FS_CardinalityType DEF Posted
  <2>2. PICK e : e = Entry(c, author, to, "posted")
    OBVIOUS
  <2>3. e \in Message /\ e.of = c /\ e.phase = "posted"
    BY <2>1, <2>2, ConversationAssumption DEF Entry, Message
  <2>4. QED
    BY <2>2, <2>3 DEF PostLands
<1>4. PICK n : n = Len(msgs')
  OBVIOUS
<1>5. /\ msgs' \in Seq(Message) /\ Ids' = Ids \cup {n} /\ n \notin Ids /\ n \in Nat
      /\ \A i \in Ids : msgs'[i] = msgs[i] /\ i < n
      /\ msgs'[n] = e /\ MsgsGrow /\ Only(c)
  <2>1. /\ msgs' \in Seq(Message) /\ Ids' = Ids \cup {Len(msgs')} /\ Len(msgs') \notin Ids
        /\ \A i \in Ids : msgs'[i] = msgs[i] /\ i < Len(msgs')
        /\ msgs'[Len(msgs')] = e /\ MsgsGrow /\ Only(c) /\ Len(msgs') = Len(msgs) + 1
    BY <1>1, <1>3, MsgAppended
  <2>2. n \in Nat
    BY <1>1, <1>4, <2>1
  <2>3. QED
    BY <1>4, <2>1, <2>2, Zenon
<1>6. PICK r : r = [chain[c] EXCEPT !.pc = "round", !.trigger = n, !.budget = Limit + 1]
  OBVIOUS
<1>7. chain' = [chain EXCEPT ![c] = r]
  BY <1>1, <1>4, <1>6 DEF PostLands
<1>8. /\ r \in ChainState' /\ r.pc = "round" /\ r.trigger = n /\ r.budget = Limit + 1
      /\ r.live = {} /\ r.got = chain[c].got /\ r.seen = chain[c].seen
  <2>1. Limit + 1 \in 0..Limit + 1
    BY ConversationAssumption
  <2>2. QED
    BY <1>1, <1>2, <1>5, <1>6, <2>1 DEF ChainState
<1>9. RoomTypeOK' /\ chain'[c] = r /\ \A d \in Chain : d # c => chain'[d] = chain[d]
  BY <1>1, <1>2, <1>5, <1>7, <1>8, ChainMoves DEF RoomTypeOK
<1>10. Of(c)' = {n} /\ n \in Posted' /\ ~IsPending(n)'
  BY <1>2, <1>3, <1>5 DEF Of, Posted, IsPending
<1>11. ChainFits(c)'
  <2>1. r.got = {} /\ (edits = 0 => r.seen.roster = room.roster)
    BY <1>2, <1>8 DEF ConvInv, ChainFits
  <2>2. IsTrigger(c, n)'
    BY <1>10 DEF IsTrigger
  <2>3. IsTrigger(c, chain[c].trigger)'
    BY <1>8, <1>9, <2>2 DEF IsTrigger
  <2>4. Limit + 1 > 0
    BY ConversationAssumption
  <2>5. QED
    BY <1>2, <1>8, <1>9, <1>10, <2>1, <2>3, <2>4 DEF ChainFits
<1>12. VoicesFit(c)'
  BY <1>8, <1>9, <1>10 DEF VoicesFit, Speaking
<1>13. \A i \in Posted' : i \in Posted \/ i = n
  BY <1>5 DEF Posted
<1>14. \A i \in Ids' : IsPending(i)' => i \in Ids /\ IsPending(i)
  BY <1>5, <1>10 DEF IsPending
<1>15. LogIsRead => OneVoicePerWindow'
  <2>1. \A i \in Ids' : ~(n < i)
    BY <1>5, <1>1, ConvTypes
  <2>2. QED
    BY <1>5, <1>13, <1>14, <2>1, VoicesStay DEF ConvInv
<1>16. EditsKept
  BY <1>2 DEF EditsKept
<1>17. ASSUME LogIsRead PROVE TurnsFit'
  <2>1. PICK none : none = {}
    OBVIOUS
  <2>2. \A R \in SUBSET Ids : RoundFits(c, R) => RoundFits(c, R \cup none)'
    <3>1. \A R : R \cup none = R
      BY <2>1
    <3>2. \A R \in SUBSET Ids : RoundFits(c, R) => RoundFits(c, R)'
      BY <1>8, <1>9 DEF RoundFits
    <3>3. QED
      BY <3>1, <3>2
  <2>3. ~IsReply(n)'
    <3>1. \A j \in 1..(n - 1) : j \in Ids' /\ j # n
      BY <1>5, IdsGrow
    <3>2. \A j \in 1..(n - 1) : msgs'[j].of # c
      BY <1>10, <3>1 DEF Of
    <3>3. QED
      BY <1>3, <1>5, <3>2 DEF IsReply
  <2>4. none \subseteq Ids'
    BY <2>1
  <2>5. \A i \in Posted' : i \in Posted \/ ~IsReply(i)'
    BY <1>13, <2>3
  <2>6. TurnsFit /\ MsgsGrow /\ \A d \in Chain : d # c => chain'[d] = chain[d]
    BY <1>5, <1>9, <1>17 DEF ConvInv
  <2>7. QED
    BY <1>1, <1>16, <2>2, <2>4, <2>5, <2>6, TurnsGoOn
<1>18. QED
  BY <1>5, <1>9, <1>11, <1>12, <1>15, <1>16, <1>17, ConvSteps

\* A round reads the whole log as long as it is not longer than HistoryLimit.
LEMMA HistoryIsPosted ==
  ASSUME RoomTypeOK, LogIsRead
  PROVE  History = Posted
<1> SUFFICES ASSUME NEW i \in Posted PROVE Cardinality({j \in Posted : j <= i}) <= HistoryLimit
  BY DEF History
<1>1. {j \in Posted : j <= i} \subseteq Ids
  BY DEF Posted
<1>2. IsFiniteSet(Ids) /\ Cardinality(Ids) = Len(msgs) /\ Len(msgs) \in Nat
  BY ConvTypes
<1>3. /\ Cardinality({j \in Posted : j <= i}) <= Cardinality(Ids) /\ IsFiniteSet({j \in Posted : j <= i})
  BY <1>1, <1>2, FS_Subset
<1>4. Cardinality({j \in Posted : j <= i}) \in Nat
  BY <1>3, FS_CardinalityType
<1>5. QED
  BY <1>2, <1>3, <1>4, ConversationAssumption DEF LogIsRead

\* Whom a round lets speak has nothing to say again in its chain.
LEMMA CandidatesMaySpeak ==
  ASSUME ConvInv, NEW c \in Chain, chain[c].pc = "round", NEW personas,
         NEW p \in Eligible(chain[c].trigger, personas, Posted)
  PROVE  MaySpeak(c, p)
<1>1. PICK t : t = chain[c].trigger
  OBVIOUS
<1>2. IsTrigger(c, t) /\ \A j \in Of(c) : ~IsPending(j)
  BY <1>1 DEF ConvInv, ChainFits
<1>3. /\ p # msgs[t].author
      /\ ~Addressed(t) \/ msgs[t].author \in personas => ~OnCooldown(p, Posted)
  BY <1>1 DEF Eligible
<1> SUFFICES ASSUME NEW j \in Of(c), msgs[j].author = p, j \in Posted, msgs[j].fresh
             PROVE  \E k \in Posted : j < k /\ msgs[k].author = p
  BY <1>2 DEF MaySpeak
<1>4. ~OnCooldown(p, Posted)
  <2>1. CASE Addressed(t)
    BY <1>2, <1>3, <2>1 DEF IsTrigger
  <2>2. CASE ~Addressed(t)
    BY <1>3, <2>2
  <2>3. QED
    BY <2>1, <2>2
<1>5. PICK mine : mine = {i \in Posted : msgs[i].author = p}
  OBVIOUS
<1>6. j \in mine /\ ~msgs[Latest(mine)].fresh
  BY <1>4, <1>5 DEF OnCooldown
<1>7. Latest(mine) \in mine /\ \A i \in mine : i <= Latest(mine)
  <2>1. mine \in SUBSET Nat /\ \A i \in mine : i <= Len(msgs)
    BY <1>5, ConvTypes DEF Posted, Ids, ConvInv
  <2>2. QED
    BY <1>6, <2>1, GreatestPicked, ConvTypes DEF Latest, ConvInv
<1>8. PICK k : k = Latest(mine)
  OBVIOUS
<1>9. k # j /\ j <= k /\ k \in Posted /\ msgs[k].author = p
  BY <1>5, <1>6, <1>7, <1>8
<1>10. j \in Nat /\ k \in Nat
  BY <1>9, ConvTypes DEF ConvInv, Posted
<1>11. QED
  BY <1>9, <1>10

\* Where a round begins, less than Limit of the last messages are the personas'.
LEMMA RoundBegins ==
  ASSUME ConvInv, LogIsRead, UNCHANGED <<room, msgs, edits>>, NEW c \in Chain,
         NEW r, chain' = [chain EXCEPT ![c] = r], r.live = {}, chain[c].live = {},
         r.pc \in {"replying", "gating"}, r.pc = "replying" => Cardinality(r.todo) <= Cap,
         Cardinality(r.todo) \in Nat,
         edits = 0 /\ Limit > 0 => Cardinality(Spoken) < Limit
  PROVE  TurnsFit'
<1> SUFFICES ASSUME edits = 0, Limit > 0
             PROVE  \E recent : RecentFits(recent)' /\ Cardinality(Older(recent)') <= Limit - 1
  BY DEF TurnsFit
<1>1. chain \in [Chain -> ChainState] /\ IsFiniteSet(Ids)
  BY ConvTypes DEF ConvInv
<1>2. chain'[c] = r /\ \A d \in Chain : d # c => chain'[d] = chain[d]
  BY <1>1
<1>3. PICK recent : RecentFits(recent)
  BY DEF ConvInv, TurnsFit
<1>4. recent \in [Chain -> SUBSET Ids] /\ \A d \in Chain : RoundFits(d, recent[d])
  BY <1>3 DEF RecentFits
<1>5. PICK more : more = [recent EXCEPT ![c] = {}]
  OBVIOUS
<1>6. more \in [Chain -> SUBSET Ids] /\ more[c] = {} /\ \A d \in Chain : d # c => more[d] = recent[d]
  BY <1>4, <1>5
<1>7. Ids' = Ids /\ Spoken' = Spoken
  BY DEF Ids, Spoken, Posted
<1>8. RoundFits(c, more[c])'
  <2>1. Cardinality({}) = 0
    BY FS_EmptySet
  <2>2. Cardinality({}) <= Cap /\ (r.pc = "replying" => Cardinality({}) + Cardinality(r.todo) <= Cap)
    BY <2>1, ConversationAssumption
  <2>3. QED
    BY <1>2, <1>6, <2>2 DEF RoundFits
<1>9. \A d \in Chain : d # c => RoundFits(d, more[d])'
  BY <1>2, <1>4, <1>6 DEF RoundFits
<1>10. RecentFits(more)'
  BY <1>6, <1>7, <1>8, <1>9 DEF RecentFits
<1>11. Cardinality(Older(more)') <= Limit - 1
  <2>1. Older(more)' \subseteq Spoken /\ Spoken \subseteq Ids
    BY <1>7 DEF Older, Spoken, Posted
  <2>2. IsFiniteSet(Spoken)
    BY <1>1, <2>1, FS_Subset
  <2>3. Cardinality(Older(more)') <= Cardinality(Spoken) /\ IsFiniteSet(Older(more)')
    BY <2>1, <2>2, FS_Subset
  <2>4. Cardinality(Spoken) \in Nat /\ Cardinality(Older(more)') \in Nat
    BY <2>2, <2>3, FS_CardinalityType
  <2>5. QED
    BY <2>3, <2>4, ConversationAssumption
<1>12. QED
  BY <1>10, <1>11

LEMMA ReadHistoryKeeps ==
  ASSUME ConvInv, NEW c \in Chain, ReadHistory(c)
  PROVE  ConvInv'
<1>1. PICK t : t = chain[c].trigger
  OBVIOUS
<1>2. PICK seen : seen = chain[c].seen
  OBVIOUS
<1>3. PICK hist : hist = History \cup {t}
  OBVIOUS
<1>4. PICK candidates : candidates = Eligible(t, seen.roster, hist)
  OBVIOUS
<1>5. /\ chain[c].pc = "round" /\ UNCHANGED <<room, msgs, edits>> /\ chain[c] \in ChainState
      /\ chain[c].live = {} /\ IsTrigger(c, t) /\ chain[c].budget > 0
      /\ (edits = 0 => seen.roster = room.roster)
      /\ \A i \in chain[c].got : i \in Of(c) /\ i \in Posted /\ ~Addressed(i)
  BY <1>1, <1>2, ConvTypes DEF ReadHistory, ConvInv, ChainFits
<1>6. CASE chain' = [chain EXCEPT ![c] = [chain[c] EXCEPT !.pc = "quiet"]]
  <2>1. PICK r : r = [chain[c] EXCEPT !.pc = "quiet"]
    OBVIOUS
  <2>2. /\ r \in ChainState /\ r.live = {} /\ r.got = chain[c].got /\ r.pc = "quiet" /\ r.seen = seen
        /\ chain' = [chain EXCEPT ![c] = r]
    BY <1>2, <1>5, <1>6, <2>1 DEF ChainState
  <2>3. LogIsRead => TurnsFit'
    BY <1>5, <2>2, RoundsStay
  <2>4. QED
    BY <1>5, <2>2, <2>3, QuietStep DEF Speaking
<1>7. CASE /\ Limit > 0 => ~(Streak(hist, seen.roster) >= Limit)
           /\ chain' = [chain EXCEPT ![c] = [chain[c] EXCEPT
                          !.pc = IF Addressed(t) THEN "replying" ELSE "gating", !.todo = candidates]]
  <2>1. PICK r : r = [chain[c] EXCEPT !.pc = IF Addressed(t) THEN "replying" ELSE "gating",
                                      !.todo = candidates]
    OBVIOUS
  <2>2. candidates \subseteq Persona /\ seen.roster \subseteq Persona
    <3>1. seen \in Room
      BY <1>2, <1>5 DEF ChainState
    <3>2. QED
      BY <1>4, <3>1 DEF Eligible, Room
  <2>3. /\ r \in ChainState /\ r.live = {} /\ r.got = chain[c].got /\ r.todo = candidates /\ r.seen = seen
        /\ r.pc = (IF Addressed(t) THEN "replying" ELSE "gating") /\ chain' = [chain EXCEPT ![c] = r]
        /\ r.budget > 0
    BY <1>2, <1>5, <1>7, <2>1, <2>2 DEF ChainState
  <2>4. LogIsRead => hist = Posted
    BY <1>3, <1>5, HistoryIsPosted DEF ConvInv, IsTrigger
  <2>5. LogIsRead => \A p \in candidates : MaySpeak(c, p)
    BY <1>1, <1>4, <1>5, <2>4, CandidatesMaySpeak
  <2>6. IsFiniteSet(candidates) /\ Cardinality(candidates) \in Nat
    BY <2>2, ConversationAssumption, FS_Subset, FS_CardinalityType
  <2>7. Addressed(t) => Cardinality(candidates) <= Cap
    <3> SUFFICES ASSUME Addressed(t) PROVE Cardinality(candidates) <= Cap
      OBVIOUS
    <3>1. candidates \subseteq {msgs[t].to}
      BY <1>4 DEF Eligible
    <3>2. Cardinality(candidates) <= Cardinality({msgs[t].to}) /\ Cardinality({msgs[t].to}) = 1
      BY <3>1, FS_Singleton, FS_Subset
    <3>3. QED
      BY <2>6, <3>2, ConversationAssumption
  <2>8. ASSUME LogIsRead, edits = 0, Limit > 0 PROVE Cardinality(Spoken) < Limit
    <3>1. Spoken = {i \in hist : \A j \in hist : j >= i => msgs[j].author \in seen.roster}
      BY <1>5, <2>4, <2>8 DEF Spoken
    <3>2. ~(Cardinality(Spoken) >= Limit)
      BY <1>7, <2>8, <3>1 DEF Streak
    <3>3. IsFiniteSet(Spoken)
      BY ConvTypes, FS_Subset DEF Spoken, Posted, ConvInv
    <3>4. Cardinality(Spoken) \in Nat
      BY <3>3, FS_CardinalityType
    <3>5. QED
      BY <3>2, <3>4, ConversationAssumption
  <2>9. LogIsRead => TurnsFit'
    BY <1>5, <2>3, <2>6, <2>7, <2>8, RoundBegins
  <2>10. QED
    BY <1>5, <2>3, <2>5, <2>9, QuietStep DEF Speaking
<1>8. QED
  BY <1>1, <1>2, <1>3, <1>4, <1>6, <1>7 DEF ReadHistory

LEMMA ReplyStartsKeeps ==
  ASSUME ConvInv, NEW c \in Chain, NEW p \in Persona, ReplyStarts(c, p), room.status = "active"
  PROVE  ConvInv'
<1>1. /\ RoomTypeOK /\ chain[c] \in ChainState /\ chain \in [Chain -> ChainState] /\ Len(msgs) \in Nat
      /\ chain[c].pc \in {"replying", "broken"} /\ p \in chain[c].todo /\ UNCHANGED <<room, edits>>
  BY ConvTypes DEF ConvInv, ReplyStarts
<1>2. PICK e \in Message : /\ msgs' = Append(msgs, e) /\ e.of = c /\ e.phase = "reserved"
                           /\ e.author = p /\ e.to = Human
  <2>1. PICK e : e = Entry(c, p, Human, "reserved")
    OBVIOUS
  <2>2. e \in Message /\ e.of = c /\ e.phase = "reserved" /\ e.author = p /\ e.to = Human
    BY <2>1 DEF Entry, Message
  <2>3. QED
    BY <2>1, <2>2 DEF ReplyStarts
<1>3. PICK n : n = Len(msgs')
  OBVIOUS
<1>4. /\ msgs' \in Seq(Message) /\ Ids' = Ids \cup {n} /\ n \notin Ids /\ n \in Nat
      /\ \A i \in Ids : msgs'[i] = msgs[i] /\ i < n
      /\ msgs'[n] = e /\ MsgsGrow /\ Only(c)
  <2>1. /\ msgs' \in Seq(Message) /\ Ids' = Ids \cup {Len(msgs')} /\ Len(msgs') \notin Ids
        /\ \A i \in Ids : msgs'[i] = msgs[i] /\ i < Len(msgs')
        /\ msgs'[Len(msgs')] = e /\ MsgsGrow /\ Only(c) /\ Len(msgs') = Len(msgs) + 1
    BY <1>1, <1>2, MsgAppended
  <2>2. n \in Nat
    BY <1>1, <1>3, <2>1
  <2>3. QED
    BY <1>3, <2>1, <2>2, Zenon
<1>5. PICK r : r = [chain[c] EXCEPT !.todo = chain[c].todo \ {p}, !.live = chain[c].live \cup {n}]
  OBVIOUS
<1>6. chain' = [chain EXCEPT ![c] = r]
  BY <1>1, <1>3, <1>5 DEF ReplyStarts
<1>7. /\ r \in ChainState' /\ r.pc = chain[c].pc /\ r.budget = chain[c].budget /\ r.got = chain[c].got
      /\ r.seen = chain[c].seen /\ r.todo = chain[c].todo \ {p} /\ r.live = chain[c].live \cup {n}
  BY <1>1, <1>4, <1>5 DEF ChainState
<1>8. RoomTypeOK' /\ chain'[c] = r /\ \A d \in Chain : d # c => chain'[d] = chain[d]
  BY <1>1, <1>4, <1>6, <1>7, ChainMoves DEF RoomTypeOK
<1>9. /\ Of(c)' = Of(c) \cup {n} /\ Posted' = Posted /\ n \notin Of(c) /\ IsPending(n)' /\ ~Addressed(n)'
      /\ \A i \in Ids : (IsPending(i)' <=> IsPending(i)) /\ (Addressed(i)' <=> Addressed(i))
  BY <1>2, <1>4 DEF Of, Posted, IsPending, Addressed
<1>10. Of(c) \subseteq Ids /\ Posted \subseteq Ids
  BY DEF Of, Posted
<1>11. ChainFits(c)'
  <2>1. ChainFits(c)
    BY DEF ConvInv
  <2>2. chain'[c].live = {i \in Of(c)' : IsPending(i)'}
    BY <1>7, <1>8, <1>9, <1>10, <2>1 DEF ChainFits
  <2>3. \A i \in chain'[c].live : ~Addressed(i)'
    BY <1>7, <1>8, <1>9, <1>10, <2>1 DEF ChainFits
  <2>4. \A i \in chain'[c].got : i \in Of(c)' /\ i \in Posted' /\ ~Addressed(i)'
    BY <1>7, <1>8, <1>9, <1>10, <2>1 DEF ChainFits
  <2>5. chain'[c].budget > 0 /\ (edits' = 0 => chain'[c].seen.roster = room'.roster)
    BY <1>1, <1>7, <1>8, <2>1 DEF ChainFits, Speaking
  <2>6. QED
    BY <1>1, <1>7, <1>8, <2>2, <2>3, <2>4, <2>5 DEF ChainFits
<1>12. ASSUME LogIsRead PROVE MaySpeak(c, p) /\ \A q \in chain[c].todo : MaySpeak(c, q)
  BY <1>1, <1>12 DEF ConvInv, VoicesFit, Speaking
<1>13. ASSUME LogIsRead PROVE VoicesFit(c)'
  <2>1. ASSUME NEW q \in r.todo PROVE MaySpeak(c, q)'
    <3>1. MaySpeak(c, q) /\ q # p
      BY <1>7, <1>12, <1>13, <2>1
    <3>2. \A j \in Of(c)' : msgs'[j].author = q => j \in Of(c)
      BY <1>2, <1>4, <1>9, <3>1
    <3>3. \A j \in Ids : msgs'[j] = msgs[j]
      BY <1>4
    <3>4. QED
      BY <1>9, <1>10, <3>1, <3>2, <3>3 DEF MaySpeak
  <2>2. ASSUME NEW i \in Of(c)', NEW j \in Of(c)', i # j, IsPending(i)', IsPending(j)'
        PROVE  msgs'[i].author # msgs'[j].author
    <3>1. \A k \in Of(c) : IsPending(k)' => msgs'[k] = msgs[k] /\ IsPending(k) /\ msgs[k].author # p
      BY <1>4, <1>9, <1>10, <1>12, <1>13 DEF MaySpeak
    <3>2. CASE i = n
      BY <1>2, <1>4, <1>9, <2>2, <3>1, <3>2
    <3>3. CASE j = n
      BY <1>2, <1>4, <1>9, <2>2, <3>1, <3>3
    <3>4. CASE i # n /\ j # n
      <4>1. i \in Of(c) /\ j \in Of(c)
        BY <1>9, <3>4
      <4>2. QED
        BY <1>13, <2>2, <3>1, <4>1 DEF ConvInv, VoicesFit
    <3>5. QED
      BY <3>2, <3>3, <3>4
  <2>3. QED
    BY <1>7, <1>8, <2>1, <2>2 DEF VoicesFit
<1>14. ASSUME LogIsRead PROVE OneVoicePerWindow'
  <2> SUFFICES ASSUME NEW i \in Ids', NEW j \in Ids', j < i,
                      msgs'[i].of = msgs'[j].of, msgs'[i].author = msgs'[j].author,
                      msgs'[i].author \in Persona, msgs'[i].phase = "reserved", j \in Posted',
                      \A k \in Posted' : j < k /\ k < i => msgs'[k].author # msgs'[i].author
               PROVE  ~msgs'[j].fresh
    BY DEF OneVoicePerWindow
  <2>1. j \in Posted /\ j \in Ids /\ msgs'[j] = msgs[j]
    BY <1>4, <1>9, <1>10
  <2>2. \A k \in Posted : k < n /\ msgs'[k] = msgs[k]
    BY <1>4, <1>10
  <2>3. CASE i = n
    <3>1. j \in Of(c) /\ msgs[j].author = p
      BY <1>2, <1>4, <2>1, <2>3 DEF Of
    <3>2. \A k \in Posted : j < k => msgs[k].author # p
      BY <1>2, <1>4, <1>9, <2>2, <2>3
    <3>3. QED
      BY <1>12, <1>14, <2>1, <3>1, <3>2 DEF MaySpeak
  <2>4. CASE i # n
    <3>1. i \in Ids /\ msgs'[i] = msgs[i]
      BY <1>4, <2>4
    <3>2. \A k \in Posted : j < k /\ k < i => msgs[k].author # msgs[i].author
      BY <1>9, <2>2, <3>1
    <3>3. OneVoicePerWindow
      BY <1>14 DEF ConvInv
    <3>4. QED
      BY <2>1, <3>1, <3>2, <3>3 DEF OneVoicePerWindow
  <2>5. QED
    BY <2>3, <2>4
<1>15. EditsKept
  BY <1>1 DEF EditsKept
<1>16. ASSUME LogIsRead PROVE TurnsFit'
  <2>1. PICK new : new = {n}
    OBVIOUS
  <2>2. ASSUME NEW R \in SUBSET Ids, RoundFits(c, R) PROVE RoundFits(c, R \cup new)'
    <3>1. IsFiniteSet(R) /\ Cardinality(R) \in Nat /\ n \notin R
      BY <1>1, <1>4, ConvTypes, FS_Subset, FS_CardinalityType
    <3>2. Cardinality(R \cup new) = Cardinality(R) + 1
      BY <2>1, <3>1, FS_AddElement
    <3>3. IsFiniteSet(chain[c].todo) /\ Cardinality(chain[c].todo) \in Nat
      <4>1. chain[c].todo \subseteq Persona
        BY <1>1 DEF ChainState
      <4>2. QED
        BY <4>1, ConversationAssumption, FS_Subset, FS_CardinalityType
    <3>4. /\ Cardinality(chain[c].todo \ {p}) = Cardinality(chain[c].todo) - 1
          /\ Cardinality(chain[c].todo \ {p}) \in Nat
      BY <1>1, <3>3, FS_RemoveElement, FS_CardinalityType
    <3>5. Cardinality(R) + Cardinality(chain[c].todo) <= Cap /\ chain[c].live \subseteq R
      BY <1>1, <2>2 DEF RoundFits
    <3>6. PICK a, b, d : a = Cardinality(R) /\ b = Cardinality(chain[c].todo) /\ d = Cardinality(R \cup new)
      OBVIOUS
    <3>7. d = a + 1 /\ a \in Nat /\ b \in Nat /\ b - 1 \in Nat /\ a + b <= Cap
      BY <3>1, <3>2, <3>3, <3>4, <3>5, <3>6
    <3>8. d <= Cap /\ d + (b - 1) <= Cap
      BY <3>7, ConversationAssumption
    <3>9. chain'[c].live \subseteq R \cup new /\ Cardinality(chain'[c].todo) = b - 1
      BY <1>7, <1>8, <2>1, <3>4, <3>5, <3>6
    <3>10. QED
      BY <1>1, <1>7, <1>8, <3>6, <3>8, <3>9 DEF RoundFits
  <2>3. TurnsFit /\ MsgsGrow /\ new \subseteq Ids' /\ \A d \in Chain : d # c => chain'[d] = chain[d]
    BY <1>4, <1>8, <1>16, <2>1 DEF ConvInv
  <2>4. \A i \in Posted' : i \in Posted
    BY <1>9
  <2>5. QED
    BY <1>1, <1>15, <2>2, <2>3, <2>4, TurnsGoOn
<1>17. QED
  BY <1>4, <1>8, <1>11, <1>13, <1>14, <1>15, <1>16, ConvSteps

\* the room is archived: the reply is never begun
LEMMA ReplySkippedKeeps ==
  ASSUME ConvInv, NEW c \in Chain, NEW p \in Persona, ReplyStarts(c, p), room.status # "active"
  PROVE  ConvInv'
<1>1. PICK r : r = [chain[c] EXCEPT !.todo = chain[c].todo \ {p}]
  OBVIOUS
<1>2. /\ chain[c].pc \in {"replying", "broken"} /\ UNCHANGED <<room, msgs, edits>> /\ chain[c] \in ChainState
      /\ p \in chain[c].todo
  BY ConvTypes DEF ReplyStarts, ConvInv
<1>3. chain' = [chain EXCEPT ![c] = r]
  BY <1>1, ConvTypes DEF ReplyStarts, ConvInv
<1>4. /\ r \in ChainState /\ r.live = chain[c].live /\ r.got = chain[c].got /\ r.pc = chain[c].pc
      /\ r.seen = chain[c].seen /\ r.todo = chain[c].todo \ {p} /\ r.budget = chain[c].budget
  BY <1>1, <1>2 DEF ChainState
<1>5. /\ \A i \in r.got : i \in Of(c) /\ i \in Posted /\ ~Addressed(i)
      /\ r.budget > 0 /\ (edits = 0 => r.seen.roster = room.roster)
  BY <1>2, <1>4 DEF ConvInv, ChainFits, Speaking
<1>6. LogIsRead => \A q \in r.todo : MaySpeak(c, q)
  BY <1>2, <1>4 DEF ConvInv, VoicesFit, Speaking
<1>7. ASSUME LogIsRead PROVE TurnsFit'
  <2>1. chain[c].todo \subseteq Persona
    BY <1>2 DEF ChainState
  <2>2. /\ Cardinality(r.todo) <= Cardinality(chain[c].todo)
        /\ Cardinality(r.todo) \in Nat /\ Cardinality(chain[c].todo) \in Nat
    BY <1>4, <2>1, ConversationAssumption, FS_Subset, FS_CardinalityType
  <2>3. ASSUME NEW R \in SUBSET Ids, RoundFits(c, R) PROVE Cardinality(R) + Cardinality(r.todo) <= Cap
    <3>1. Cardinality(R) + Cardinality(chain[c].todo) <= Cap
      BY <1>2, <2>3 DEF RoundFits
    <3>2. Cardinality(R) \in Nat
      BY ConvTypes, FS_Subset, FS_CardinalityType DEF ConvInv
    <3>3. QED
      BY <2>2, <3>1, <3>2, ConversationAssumption
  <2>4. QED
    BY <1>2, <1>3, <1>4, <1>7, <2>3, RoundsStay
<1>8. QED
  BY <1>2, <1>3, <1>4, <1>5, <1>6, <1>7, QuietStep

\* a reply lands, fails, or its insert raises and ends the chain
LEMMA ReplyEndsKeeps ==
  ASSUME ConvInv, NEW c \in Chain, NEW i \in chain[c].live, Lands(i) \/ IsLost(i), UNCHANGED <<room, edits>>,
         NEW r, chain' = [chain EXCEPT ![c] = r], r \in ChainState, r.live = chain[c].live \ {i},
         r.todo = chain[c].todo, r.seen = chain[c].seen, r.budget = chain[c].budget,
         r.pc \in {chain[c].pc, "broken"},
         \A j \in r.got : j \in chain[c].got \/ (j = i /\ Lands(i))
  PROVE  ConvInv'
<1>1. /\ RoomTypeOK /\ chain[c] \in ChainState /\ chain[c].pc \in {"replying", "broken"}
      /\ i \in Of(c) /\ i \in Ids /\ IsPending(i) /\ msgs[i].of = c
  BY ConvTypes DEF ConvInv, ChainFits, Of
<1>2. /\ msgs' \in Seq(Message) /\ Ids' = Ids /\ MsgsGrow /\ Only(c)
      /\ \A j \in Ids : j # i => msgs'[j] = msgs[j]
      /\ msgs'[i].phase \in {"posted", "lost"} /\ (Lands(i) => msgs'[i].phase = "posted")
  BY <1>1, ReplySettles
<1>3. r \in ChainState'
  BY <1>2 DEF ChainState
<1>4. RoomTypeOK' /\ chain'[c] = r /\ \A d \in Chain : d # c => chain'[d] = chain[d]
  BY <1>1, <1>2, <1>3, ChainMoves DEF RoomTypeOK
<1>5. /\ Of(c)' = Of(c) /\ Posted \subseteq Posted' /\ \A j \in Posted' : j \in Posted \/ j = i
      /\ Of(c) \subseteq Ids /\ Posted \subseteq Ids /\ i \notin Posted
  BY <1>1, <1>2 DEF Of, Posted, MsgsGrow, IsPending
<1>6. /\ \A j \in Ids : /\ IsPending(j)' <=> IsPending(j) /\ j # i
                        /\ Addressed(j)' <=> Addressed(j)
                        /\ msgs'[j].author = msgs[j].author
      /\ Lands(i) => i \in Posted'
  BY <1>1, <1>2 DEF IsPending, Addressed, MsgsGrow, Posted
<1>7. ChainFits(c)'
  <2>1. ChainFits(c)
    BY DEF ConvInv
  <2>2. chain'[c].live = {j \in Of(c)' : IsPending(j)'}
    BY <1>4, <1>5, <1>6, <2>1 DEF ChainFits
  <2>3. \A j \in chain'[c].live : ~Addressed(j)'
    BY <1>4, <1>5, <1>6, <2>1 DEF ChainFits
  <2>4. \A j \in chain'[c].got : j \in Of(c)' /\ j \in Posted' /\ ~Addressed(j)'
    BY <1>1, <1>4, <1>5, <1>6, <2>1 DEF ChainFits
  <2>5. chain'[c].budget > 0 /\ (edits' = 0 => chain'[c].seen.roster = room'.roster)
    BY <1>1, <1>4, <2>1 DEF ChainFits, Speaking
  <2>6. QED
    BY <1>1, <1>4, <2>2, <2>3, <2>4, <2>5 DEF ChainFits
<1>8. ASSUME LogIsRead PROVE VoicesFit(c)'
  <2>1. VoicesFit(c)
    BY <1>8 DEF ConvInv
  <2>2. ASSUME NEW q \in r.todo PROVE MaySpeak(c, q)'
    <3>1. MaySpeak(c, q)
      BY <1>1, <2>1, <2>2 DEF VoicesFit, Speaking
    <3>2. msgs[i].author # q
      BY <1>1, <3>1 DEF MaySpeak
    <3>3. \A j \in Of(c)' : msgs'[j].author = q =>
            j \in Of(c) /\ j # i /\ msgs[j].author = q /\ msgs'[j] = msgs[j]
      BY <1>2, <1>5, <1>6, <3>2
    <3>4. \A j \in Posted : j \in Posted' /\ msgs'[j].author = msgs[j].author
      BY <1>5, <1>6
    <3>5. ASSUME NEW j \in Of(c)', msgs'[j].author = q
          PROVE  /\ ~IsPending(j)'
                 /\ j \in Posted' /\ msgs'[j].fresh => \E k \in Posted' : j < k /\ msgs'[k].author = q
      <4>1. j \in Of(c) /\ j # i /\ msgs[j].author = q /\ msgs'[j] = msgs[j]
        BY <3>3, <3>5
      <4>2. ~IsPending(j) /\ (j \in Posted /\ msgs[j].fresh => \E k \in Posted : j < k /\ msgs[k].author = q)
        BY <3>1, <4>1 DEF MaySpeak
      <4>3. ~IsPending(j)'
        BY <4>1, <4>2 DEF IsPending
      <4>4. j \in Posted' => j \in Posted
        BY <1>5, <4>1
      <4>5. QED
        BY <3>4, <4>1, <4>2, <4>3, <4>4
    <3>6. QED
      BY <3>5 DEF MaySpeak
  <2>3. \A j, k \in Of(c)' : j # k /\ IsPending(j)' /\ IsPending(k)' => msgs'[j].author # msgs'[k].author
    BY <1>5, <1>6, <2>1 DEF VoicesFit
  <2>4. QED
    BY <1>4, <2>2, <2>3 DEF VoicesFit
<1>9. ASSUME LogIsRead PROVE OneVoicePerWindow'
  <2>1. \A j \in Ids' : IsPending(j)' => j \in Ids /\ IsPending(j)
    BY <1>2, <1>6
  <2>2. ASSUME NEW j \in Ids', i < j, msgs'[j].of = msgs'[i].of, msgs'[j].author = msgs'[i].author
        PROVE  ~IsPending(j)'
    <3>1. j # i /\ j \in Ids /\ i \in Nat /\ j \in Nat
      BY <1>1, <1>2, <2>2, ConvTypes
    <3>2. j \in Of(c) /\ msgs[j].author = msgs[i].author
      BY <1>1, <1>2, <1>6, <2>2, <3>1 DEF Of, MsgsGrow
    <3>3. ~IsPending(j)
      BY <1>1, <1>9, <3>1, <3>2 DEF ConvInv, VoicesFit
    <3>4. QED
      BY <1>6, <3>1, <3>3
  <2>3. \A j \in Posted' : j \notin Posted => \A k \in Ids' :
          j < k /\ msgs'[k].of = msgs'[j].of /\ msgs'[k].author = msgs'[j].author => ~IsPending(k)'
    BY <1>5, <2>2
  <2>4. OneVoicePerWindow
    BY <1>9 DEF ConvInv
  <2>5. QED
    BY <1>2, <2>1, <2>3, <2>4, VoicesStay
<1>10. EditsKept
  BY DEF EditsKept
<1>11. ASSUME LogIsRead PROVE TurnsFit'
  <2>1. PICK none : none = {}
    OBVIOUS
  <2>2. \A R \in SUBSET Ids : RoundFits(c, R) => RoundFits(c, R \cup none)'
    <3>1. \A R : R \cup none = R
      BY <2>1
    <3>2. \A R \in SUBSET Ids : RoundFits(c, R) => RoundFits(c, R)'
      BY <1>1, <1>4 DEF RoundFits
    <3>3. QED
      BY <3>1, <3>2
  <2>3. TurnsFit /\ MsgsGrow /\ none \subseteq Ids' /\ \A d \in Chain : d # c => chain'[d] = chain[d]
    BY <1>2, <1>4, <1>11, <2>1 DEF ConvInv
  <2>4. \A j \in Posted' : j \in Posted \/ (c \in Chain /\ j \in chain[c].live)
    BY <1>5
  <2>5. QED
    BY <1>1, <1>10, <2>2, <2>3, <2>4, TurnsGoOn
<1>12. QED
  BY <1>2, <1>4, <1>7, <1>8, <1>9, <1>10, <1>11, ConvSteps

LEMMA RepliesKeep ==
  ASSUME ConvInv, NEW c \in Chain, NEW i, ReplyLands(c, i) \/ ReplyFails(c, i) \/ ReplyRaises(c, i)
  PROVE  ConvInv'
<1>1. /\ i \in chain[c].live /\ UNCHANGED <<room, edits>> /\ chain[c] \in ChainState
      /\ chain \in [Chain -> ChainState] /\ i \in Ids
  BY ConvTypes DEF ReplyLands, ReplyFails, ReplyRaises, ConvInv, ChainState
<1>2. CASE ReplyLands(c, i)
  <2>1. PICK r : r = [chain[c] EXCEPT !.live = chain[c].live \ {i}, !.got = chain[c].got \cup {i}]
    OBVIOUS
  <2>2. chain' = [chain EXCEPT ![c] = r] /\ Lands(i)
    BY <1>1, <1>2, <2>1 DEF ReplyLands
  <2>3. /\ r \in ChainState /\ r.live = chain[c].live \ {i} /\ r.got = chain[c].got \cup {i}
        /\ r.todo = chain[c].todo /\ r.seen = chain[c].seen /\ r.budget = chain[c].budget /\ r.pc = chain[c].pc
    BY <1>1, <2>1 DEF ChainState
  <2>4. QED
    BY <1>1, <2>2, <2>3, ReplyEndsKeeps
<1>3. CASE ReplyFails(c, i)
  <2>1. PICK r : r = [chain[c] EXCEPT !.live = chain[c].live \ {i}]
    OBVIOUS
  <2>2. chain' = [chain EXCEPT ![c] = r] /\ IsLost(i)
    BY <1>1, <1>3, <2>1 DEF ReplyFails
  <2>3. /\ r \in ChainState /\ r.live = chain[c].live \ {i} /\ r.got = chain[c].got
        /\ r.todo = chain[c].todo /\ r.seen = chain[c].seen /\ r.budget = chain[c].budget /\ r.pc = chain[c].pc
    BY <1>1, <2>1 DEF ChainState
  <2>4. QED
    BY <1>1, <2>2, <2>3, ReplyEndsKeeps
<1>4. CASE ReplyRaises(c, i)
  <2>1. PICK r : r = [chain[c] EXCEPT !.live = chain[c].live \ {i}, !.pc = "broken"]
    OBVIOUS
  <2>2. chain' = [chain EXCEPT ![c] = r] /\ IsLost(i)
    BY <1>1, <1>4, <2>1 DEF ReplyRaises
  <2>3. /\ r \in ChainState /\ r.live = chain[c].live \ {i} /\ r.got = chain[c].got
        /\ r.todo = chain[c].todo /\ r.seen = chain[c].seen /\ r.budget = chain[c].budget /\ r.pc = "broken"
    BY <1>1, <2>1 DEF ChainState
  <2>4. QED
    BY <1>1, <2>2, <2>3, ReplyEndsKeeps
<1>5. QED
  BY <1>2, <1>3, <1>4

\* a step of none of the chains
LEMMA NoChainSteps ==
  ASSUME ConvInv, UNCHANGED chain, RoomTypeOK', MsgsGrow, NEW c, c \notin Chain, Only(c), EditsKept,
         Posted' = Posted, \A i \in Ids' : IsPending(i)' => i \in Ids /\ IsPending(i)
  PROVE  ConvInv'
<1>1. ASSUME LogIsRead PROVE OneVoicePerWindow' /\ TurnsFit'
  <2>1. RoomTypeOK /\ OneVoicePerWindow /\ TurnsFit
    BY <1>1 DEF ConvInv
  <2>2. OneVoicePerWindow'
    BY <2>1, VoicesStay
  <2>3. PICK none : none = {}
    OBVIOUS
  <2>4. /\ none \subseteq Ids' /\ \A i \in Posted' : i \in Posted
        /\ c \in Chain => \A R \in SUBSET Ids : RoundFits(c, R) => RoundFits(c, R \cup none)'
        /\ \A d \in Chain : d # c => chain'[d] = chain[d]
    BY <2>3
  <2>5. TurnsFit'
    BY <2>1, <2>4, TurnsGoOn
  <2>6. QED
    BY <2>2, <2>5
<1>2. QED
  BY <1>1, ConvSteps

LEMMA RoomKeeps ==
  ASSUME ConvInv, Archive \/ (\E p \in Persona : EditRoster(p)) \/ \E i \in Ids : CoolsDown(i)
  PROVE  ConvInv'
<1>1. RoomTypeOK /\ 0 \notin Chain /\ UNCHANGED chain
  BY DEF ConvInv, Chain, Archive, EditRoster, CoolsDown
<1>2. CASE UNCHANGED msgs /\ room' \in Room /\ edits' \in 0..MaxEdits /\ EditsKept
  <2>1. /\ Ids' = Ids /\ MsgsGrow /\ Posted' = Posted /\ msgs' \in Seq(Message) /\ Only(0)
        /\ \A i : IsPending(i)' <=> IsPending(i)
    BY <1>1, <1>2, LogRests
  <2>2. RoomTypeOK'
    BY <1>1, <1>2, <2>1 DEF RoomTypeOK
  <2>3. QED
    BY <1>1, <1>2, <2>1, <2>2, NoChainSteps
<1>3. CASE Archive
  <2>1. room \in Room /\ edits \in 0..MaxEdits
    BY <1>1 DEF RoomTypeOK
  <2>2. room' \in Room /\ room'.roster = room.roster /\ UNCHANGED <<msgs, edits>>
    BY <1>3, <2>1 DEF Archive, Room
  <2>3. QED
    BY <1>2, <2>1, <2>2 DEF EditsKept
<1>4. ASSUME NEW p \in Persona, EditRoster(p) PROVE ConvInv'
  <2>1. room \in Room /\ edits \in 0..MaxEdits /\ MaxEdits \in Nat
    BY <1>1, ConversationAssumption DEF RoomTypeOK
  <2>2. room' \in Room /\ UNCHANGED msgs
    BY <1>4, <2>1 DEF EditRoster, Room
  <2>3. edits' \in 0..MaxEdits /\ edits' # 0
    BY <1>4, <2>1 DEF EditRoster
  <2>4. QED
    BY <1>2, <2>2, <2>3 DEF EditsKept
<1>5. ASSUME NEW i \in Ids, CoolsDown(i) PROVE ConvInv'
  <2>1. PICK e : e = [msgs[i] EXCEPT !.fresh = FALSE]
    OBVIOUS
  <2>2. /\ msgs' = [msgs EXCEPT ![i] = e] /\ UNCHANGED <<room, edits>> /\ msgs[i] \in Message
        /\ Len(msgs) \in Nat /\ msgs[i].phase = "posted"
    BY <1>1, <1>5, <2>1, ConvTypes DEF CoolsDown, Posted
  <2>3. /\ e \in Message /\ e.of = msgs[i].of /\ e.author = msgs[i].author /\ e.to = msgs[i].to
        /\ e.phase = msgs[i].phase /\ ~e.fresh
    BY <2>1, <2>2 DEF Message
  <2>4. /\ msgs' \in Seq(Message) /\ Ids' = Ids /\ Len(msgs') = Len(msgs)
        /\ \A j \in Ids : msgs'[j] = IF j = i THEN e ELSE msgs[j]
    BY <1>1, <2>2, <2>3, MsgRewritten
  <2>5. MsgsGrow /\ Only(0) /\ Posted' = Posted
    BY <2>2, <2>3, <2>4 DEF MsgsGrow, Only, Posted
  <2>6. \A j \in Ids' : IsPending(j)' => j \in Ids /\ IsPending(j)
    BY <2>3, <2>4 DEF IsPending
  <2>7. RoomTypeOK' /\ EditsKept
    BY <1>1, <2>2, <2>4 DEF RoomTypeOK, EditsKept
  <2>8. QED
    BY <1>1, <2>5, <2>6, <2>7, NoChainSteps
<1>6. QED
  BY <1>3, <1>4, <1>5

LEMMA ConvNextKeeps == ConvInv /\ [RoomNext]_roomVars => ConvInv'
<1> SUFFICES ASSUME ConvInv, [RoomNext]_roomVars PROVE ConvInv'
  OBVIOUS
<1>1. CASE UNCHANGED roomVars
  <2>1. UNCHANGED <<room, msgs, chain, edits>>
    BY <1>1 DEF roomVars
  <2>2. RoomTypeOK /\ RoomTypeOK' /\ 0 \notin Chain
    BY <2>1 DEF ConvInv, RoomTypeOK, Ids, Chain
  <2>3. QED
    BY <2>1, <2>2, LogRests, NoChainSteps DEF EditsKept
<1>2. ASSUME NEW c \in Chain, ChainStep(c) PROVE ConvInv'
  <2>1. CASE \E author \in Poster, to \in Persona \cup {Human} : PostLands(c, author, to)
    BY <2>1, PostLandsKeeps
  <2>2. CASE \E p \in Persona : ReplyStarts(c, p)
    BY <2>2, ReplyStartsKeeps, ReplySkippedKeeps
  <2>3. CASE \E i \in Ids : ReplyLands(c, i) \/ ReplyFails(c, i) \/ ReplyRaises(c, i)
    BY <2>3, RepliesKeep
  <2>4. CASE \E chosen \in SUBSET Persona : GatesAnswer(c, chosen)
    BY <2>4, GatesAnswerKeeps
  <2>5. QED
    BY <1>2, <2>1, <2>2, <2>3, <2>4, PostFailsKeeps, ReadHistoryKeeps, RoundEndsKeeps DEF ChainStep
<1>3. QED
  BY <1>1, <1>2, PostAdmittedKeeps, RoomKeeps DEF RoomNext

LEMMA InitConvInv == RoomInit => ConvInv
<1> SUFFICES ASSUME RoomInit PROVE ConvInv
  OBVIOUS
<1>1. Len(msgs) = 0 /\ Ids = {} /\ Posted = {} /\ msgs \in Seq(Message)
  BY DEF RoomInit, Ids, Posted
<1>2. 0 \in 0..Limit + 1 /\ 0 \in 0..MaxEdits /\ Limit \in Nat /\ Cap \in Nat
  BY ConversationAssumption
<1>3. NoChain \in ChainState
  BY <1>2 DEF NoChain, ChainState, Room
<1>4. RoomTypeOK
  <2>1. room \in Room /\ edits \in 0..MaxEdits
    BY <1>2 DEF RoomInit, Room
  <2>2. chain \in [Chain -> ChainState]
    BY <1>3 DEF RoomInit
  <2>3. QED
    BY <1>1, <2>1, <2>2 DEF RoomTypeOK, ChainState
<1>5. \A c \in Chain : Of(c) = {} /\ chain[c] = NoChain
  BY <1>1 DEF Of, RoomInit
<1>6. \A c \in Chain : ChainFits(c) /\ VoicesFit(c)
  BY <1>5 DEF ChainFits, VoicesFit, NoChain, Speaking
<1>7. OneVoicePerWindow
  BY <1>1 DEF OneVoicePerWindow
<1>8. TurnsFit
  <2>1. PICK recent : recent = [c \in Chain |-> {}]
    OBVIOUS
  <2>2. Cardinality({}) = 0
    BY FS_EmptySet
  <2>3. recent \in [Chain -> SUBSET Ids] /\ \A c \in Chain : recent[c] = {}
    BY <2>1
  <2>4. ASSUME NEW c \in Chain PROVE RoundFits(c, recent[c])
    <3>1. recent[c] = {} /\ chain[c].pc = "idle" /\ chain[c].live = {}
      BY <1>5, <2>3 DEF NoChain
    <3>2. Cardinality(recent[c]) <= Cap
      BY <1>2, <2>2, <3>1
    <3>3. QED
      BY <3>1, <3>2 DEF RoundFits
  <2>5. Older(recent) = {}
    BY <1>1 DEF Older, Spoken
  <2>6. Limit > 0 => Cardinality(Older(recent)) <= Limit - 1
    BY <1>2, <2>2, <2>5
  <2>7. QED
    BY <2>3, <2>4, <2>6 DEF TurnsFit, RecentFits
<1>9. QED
  BY <1>4, <1>6, <1>7, <1>8 DEF ConvInv

\* sets of at most k numbers, one for each of some chains
LEMMA UnionBounded ==
  ASSUME NEW top \in Nat, NEW k \in Nat, NEW S \in SUBSET (1..top), NEW f,
         \A c \in S : IsFiniteSet(f[c]) /\ Cardinality(f[c]) <= k
  PROVE  /\ IsFiniteSet(S) /\ IsFiniteSet(UNION {f[c] : c \in S})
         /\ Cardinality(UNION {f[c] : c \in S}) <= Cardinality(S) * k
<1> DEFINE T(n) == {c \in S : c <= n}
           U(n) == UNION {f[c] : c \in T(n)}
           Fits(n) == IsFiniteSet(U(n)) /\ IsFiniteSet(T(n)) /\ Cardinality(U(n)) <= Cardinality(T(n)) * k
           left == {n \in 0..top : ~Fits(n)}
<1>0. \A c \in S : c \in Nat /\ 1 <= c /\ c <= top
  OBVIOUS
<1>1. left = {}
  <2> SUFFICES ASSUME left # {} PROVE FALSE
    OBVIOUS
  <2>1. left \in SUBSET Nat
    OBVIOUS
  <2>2. PICK n \in left : \A j \in left : n <= j
    BY <2>1, LeastPicked
  <2>3. n \in 0..top /\ ~Fits(n) /\ n \in Nat
    BY <2>2
  <2>4. CASE n = 0
    <3>1. T(n) = {}
      <4>1. ASSUME NEW d \in S PROVE ~(d <= n)
        <5>1. d \in Nat /\ 1 <= d
          BY <1>0
        <5>2. QED
          BY <2>4, <5>1
      <4>2. QED
        BY <4>1
    <3>2. U(n) = {}
      <4> HIDE DEF T
      <4>1. QED
        BY <3>1
    <3>3. IsFiniteSet({}) /\ Cardinality({}) = 0 /\ 0 <= 0 * k
      BY FS_EmptySet
    <3>4. QED
      BY <2>3, <3>1, <3>2, <3>3
  <2>5. CASE n # 0
    <3>1. PICK m \in Nat : n = m + 1 /\ m \in 0..top
      BY <2>3, <2>5
    <3>2. Fits(m)
      <4>1. m \notin left
        BY <2>2, <3>1
      <4>2. QED
        BY <3>1, <4>1
    <3>3. CASE n \notin S
      <4>1. \A c \in S : c <= n <=> c <= m
        BY <1>0, <3>1, <3>3
      <4>2. T(n) = T(m)
        BY <4>1
      <4>3. U(n) = U(m)
        <5> HIDE DEF T
        <5>1. QED
          BY <4>2
      <4>4. QED
        BY <2>3, <3>2, <4>2, <4>3
    <3>4. CASE n \in S
      <4>1. T(n) = T(m) \cup {n} /\ n \notin T(m)
        <5>1. \A c \in S : c <= n <=> c <= m \/ c = n
          BY <1>0, <3>1
        <5>2. ~(n <= m) /\ n <= n
          BY <3>1
        <5>3. QED
          BY <3>4, <5>1, <5>2
      <4>2. U(n) = U(m) \cup f[n]
        <5> HIDE DEF T
        <5>1. QED
          BY <4>1
      <4>3. PICK a, b, u, v : /\ a = Cardinality(T(m)) /\ b = Cardinality(U(m))
                              /\ u = Cardinality(f[n]) /\ v = Cardinality(U(m) \cap f[n])
        OBVIOUS
      <4>4. IsFiniteSet(U(m)) /\ IsFiniteSet(T(m)) /\ IsFiniteSet(f[n]) /\ b <= a * k /\ u <= k
        BY <3>2, <3>4, <4>3
      <4>5. a \in Nat /\ b \in Nat /\ u \in Nat /\ v \in Nat
        BY <4>3, <4>4, FS_CardinalityType, FS_Intersection
      <4>6. IsFiniteSet(T(n)) /\ Cardinality(T(n)) = a + 1
        <5>1. PICK t : t = T(m)
          OBVIOUS
        <5>2. IsFiniteSet(t) /\ n \notin t /\ a = Cardinality(t) /\ T(n) = t \cup {n}
          BY <4>1, <4>3, <4>4, <5>1
        <5>3. IsFiniteSet(t \cup {n}) /\ Cardinality(t \cup {n}) = a + 1
          BY <5>2, FS_AddElement
        <5>4. QED
          BY <5>2, <5>3
      <4>7. IsFiniteSet(U(n)) /\ Cardinality(U(n)) = b + u - v
        <5>1. PICK x, y : x = U(m) /\ y = f[n]
          OBVIOUS
        <5>2. /\ IsFiniteSet(x) /\ IsFiniteSet(y) /\ U(n) = x \cup y
              /\ b = Cardinality(x) /\ u = Cardinality(y) /\ v = Cardinality(x \cap y)
          BY <4>2, <4>3, <4>4, <5>1, Zenon
        <5>3. IsFiniteSet(x \cup y) /\ Cardinality(x \cup y) = b + u - v
          BY <5>2, FS_Union
        <5>4. QED
          BY <5>2, <5>3, Zenon
      <4>8. b + u - v <= (a + 1) * k
        <5>1. PICK w \in Int : w = a * k
          BY <4>5
        <5>2. (a + 1) * k = w + k
          BY <4>5, <5>1
        <5>3. QED
          BY <4>4, <4>5, <5>1, <5>2
      <4>9. QED
        BY <2>3, <4>6, <4>7, <4>8
    <3>5. QED
      BY <3>3, <3>4
  <2>6. QED
    BY <2>4, <2>5
<1>2. Fits(top)
  <2> HIDE DEF Fits
  <2>1. top \in 0..top /\ \A n \in 0..top : ~(~Fits(n))
    BY <1>1
  <2>2. QED
    BY <2>1
<1>3. T(top) = S
  BY <1>0
<1>4. QED
  BY <1>2, <1>3

LEMMA TurnsAreRight == ConvInv => (LogIsRead => RoomTurns)
<1> SUFFICES ASSUME ConvInv, LogIsRead PROVE AgentTurnsBounded
  BY DEF ConvInv, RoomTurns
<1> SUFFICES ASSUME edits = 0, Limit > 0
             PROVE  Cardinality({i \in Spoken : IsReply(i)}) <=
                      Limit - 1 + Cardinality({c \in Chain : chain[c].pc # "idle"}) * Cap
  BY DEF AgentTurnsBounded
<1>1. PICK recent : RecentFits(recent) /\ Cardinality(Older(recent)) <= Limit - 1
  BY DEF ConvInv, TurnsFit
<1>2. recent \in [Chain -> SUBSET Ids] /\ \A c \in Chain : RoundFits(c, recent[c])
  BY <1>1 DEF RecentFits
<1>3. PICK busy : busy = {c \in Chain : chain[c].pc # "idle"}
  OBVIOUS
<1>4. PICK all : all = UNION {recent[c] : c \in busy}
  OBVIOUS
<1>5. PICK said : said = {i \in Spoken : IsReply(i)}
  OBVIOUS
<1>6. \A c \in Chain : c \notin busy => recent[c] = {}
  BY <1>2, <1>3 DEF RoundFits
<1>7. said \subseteq Older(recent) \cup all
  BY <1>3, <1>4, <1>5, <1>6 DEF Older
<1>8. IsFiniteSet(Ids)
  BY ConvTypes DEF ConvInv
<1>9. IsFiniteSet(busy) /\ IsFiniteSet(all) /\ Cardinality(all) <= Cardinality(busy) * Cap
  <2>1. busy \in SUBSET (1..MaxPosts) /\ MaxPosts \in Nat /\ Cap \in Nat
    BY <1>3, ConversationAssumption DEF Chain
  <2>2. \A c \in busy : IsFiniteSet(recent[c]) /\ Cardinality(recent[c]) <= Cap
    BY <1>2, <1>3, <1>8, FS_Subset DEF RoundFits
  <2>3. QED
    <3>1. /\ IsFiniteSet(busy) /\ IsFiniteSet(UNION {recent[c] : c \in busy})
          /\ Cardinality(UNION {recent[c] : c \in busy}) <= Cardinality(busy) * Cap
      BY <2>1, <2>2, UnionBounded
    <3>2. QED
      BY <1>4, <3>1
<1>10. IsFiniteSet(Older(recent))
  BY <1>8, FS_Subset DEF Older, Spoken, Posted
<1>11. PICK o, a, b, s, v : /\ o = Cardinality(Older(recent)) /\ a = Cardinality(all)
                           /\ b = Cardinality(busy) * Cap /\ s = Cardinality(said)
                           /\ v = Cardinality(Older(recent) \cap all)
  OBVIOUS
<1>12. o \in Nat /\ a \in Nat /\ v \in Nat
  BY <1>9, <1>10, <1>11, FS_CardinalityType, FS_Intersection
<1>13. b \in Nat
  <2>1. Cardinality(busy) \in Nat /\ Cap \in Nat
    BY <1>9, FS_CardinalityType, ConversationAssumption
  <2>2. QED
    BY <1>11, <2>1
<1>14. s \in Nat /\ s <= o + a - v
  <2>1. /\ IsFiniteSet(Older(recent) \cup all)
        /\ Cardinality(Older(recent) \cup all) = o + a - v
    BY <1>9, <1>10, <1>11, FS_Union
  <2>2. IsFiniteSet(said) /\ s <= o + a - v
    BY <1>7, <1>11, <2>1, FS_Subset
  <2>3. QED
    BY <1>11, <2>2, FS_CardinalityType
<1>15. s <= Limit - 1 + b
  BY <1>1, <1>9, <1>11, <1>12, <1>13, <1>14, ConversationAssumption
<1>16. QED
  BY <1>3, <1>5, <1>11, <1>15

\* The quiet detector bounds what the personas say on their own, and nobody
\* speaks twice in its cooldown, as long as the rounds can read the whole log.
THEOREM TurnsAreBounded == RoomSpec => [](RoomTypeOK /\ (LogIsRead => RoomTurns))
<1>1. ConvInv => RoomTypeOK /\ (LogIsRead => RoomTurns)
  BY TurnsAreRight DEF ConvInv
<1>2. QED
  BY <1>1, InitConvInv, ConvNextKeeps, PTL DEF RoomSpec
=============================================================================
