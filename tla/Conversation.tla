----------------------------- MODULE Conversation -----------------------------
(***************************************************************************)
(* One conversation room and the turns its personas take.  A posted message*)
(* starts a chain of rounds in the background; each round reads the log,   *)
(* asks the personas' gates, and lets the chosen ones stream their replies *)
(* into the log, the last of which triggers the next round.  Nothing else  *)
(* is remembered: streak and cooldowns are derived from the log.  Messages *)
(* are ordered by ULID, which a reply gets before it starts to stream.     *)
(***************************************************************************)
EXTENDS Integers, FiniteSets, Sequences

CONSTANTS
    Persona,       \* the personas that may be in the room
    Human,         \* any other author
    Poster,        \* whom messages are posted as, a persona's name included
    Limit,         \* settings.conversations.max_consecutive_agent_turns
    Cap,           \* settings.conversations.concurrency_cap
    HistoryLimit,  \* the limit of list_messages (500)
    MaxPosts,      \* bound: messages posted over HTTP
    MaxEdits       \* bound: personas added or removed

ASSUME ConversationAssumption ==
    /\ IsFiniteSet(Persona) /\ Human \notin Persona /\ Poster \subseteq Persona \cup {Human}
    /\ {Limit, MaxEdits} \subseteq Nat /\ {Cap, HistoryLimit, MaxPosts} \subseteq Nat \ {0}

Chain == 1..MaxPosts
Room == [status : {"active", "archived"}, roster : SUBSET Persona]

VARIABLES
    room,          \* the row of the conversation
    msgs,          \* the messages by ULID, from the moment the ULID is taken
    chain,         \* the POST handlers and their on_message tasks
    edits

roomVars == <<room, msgs, chain, edits>>

Message == [author : Persona \cup {Human}, to : Persona \cup {Human}, of : Chain,
            phase : {"reserved", "posted", "lost"}, landed : Nat, fresh : BOOLEAN]

NoChain == [pc |-> "idle", trigger |-> 0, budget |-> 0, todo |-> {}, live |-> {}, got |-> {},
            seen |-> [status |-> "active", roster |-> {}]]

Ids == 1..Len(msgs)
Posted == {i \in Ids : msgs[i].phase = "posted"}
Latest(S) == CHOOSE i \in S : \A j \in S : j <= i

RoomTypeOK ==
    /\ room \in Room
    /\ msgs \in Seq(Message)
    /\ chain \in [Chain -> [pc : {"idle", "admitted", "round", "gating", "replying",
                                  "broken", "quiet"},
                            trigger : Nat, budget : 0..Limit + 1, todo : SUBSET Persona,
                            live : SUBSET Ids, got : SUBSET Ids, seen : Room]]
    /\ edits \in 0..MaxEdits

RoomInit ==
    /\ \E people \in SUBSET Persona : room = [status |-> "active", roster |-> people]
    /\ msgs = <<>>
    /\ chain = [c \in Chain |-> NoChain]
    /\ edits = 0
-----------------------------------------------------------------------------
(* What a round derives from the log. *)

\* list_messages: the first HistoryLimit messages of the room, in the order of
\* their ULIDs.
History == {i \in Posted : Cardinality({j \in Posted : j <= i}) <= HistoryLimit}

Streak_OneAuthor(hist, personas) ==    \* mutant: the last author's own messages only
    Cardinality({i \in hist : \A j \in hist :
        j >= i => msgs[j].author \in personas /\ msgs[j].author = msgs[i].author})
\* consecutive_agent_turns: the messages at the end that personas wrote.
Streak(hist, personas) ==
    Cardinality({i \in hist : \A j \in hist : j >= i => msgs[j].author \in personas})

\* on_cooldown: the last message of the persona is younger than its cooldown.
OnCooldown(p, hist) ==
    LET mine == {i \in hist : msgs[i].author = p} IN mine # {} /\ msgs[Latest(mine)].fresh

\* eligible_personas: @address narrows to that persona, and a human's address
\* lifts its cooldown.
Addressed(t) == msgs[t].to # Human
Eligible(t, personas, hist) ==
    {p \in personas \ {msgs[t].author} :
        IF Addressed(t)
        THEN p = msgs[t].to /\ (msgs[t].author \in personas => ~OnCooldown(p, hist))
        ELSE ~OnCooldown(p, hist)}
-----------------------------------------------------------------------------
(* POST /messages. *)

PostAdmitted(c) ==
    /\ chain[c].pc = "idle" /\ (c > 1 => chain[c - 1].pc # "idle")
    /\ room.status = "active"
    /\ chain' = [chain EXCEPT ![c] = [NoChain EXCEPT !.pc = "admitted", !.seen = room]]
    /\ UNCHANGED <<room, msgs, edits>>

Entry(c, author, to, phase) ==
    [author |-> author, to |-> to, of |-> c, phase |-> phase,
     landed |-> IF phase = "posted" THEN Cardinality(Posted) + 1 ELSE 0,
     fresh |-> phase = "posted"]

\* add_message, then the background task; the insert may fail.
PostLands(c, author, to) ==
    /\ chain[c].pc = "admitted"
    /\ msgs' = Append(msgs, Entry(c, author, to, "posted"))
    /\ chain' = [chain EXCEPT ![c].pc = "round", ![c].trigger = Len(msgs'),
                              ![c].budget = Limit + 1]
    /\ UNCHANGED <<room, edits>>

PostFails(c) ==
    /\ chain[c].pc = "admitted"
    /\ chain' = [chain EXCEPT ![c].pc = "quiet"]
    /\ UNCHANGED <<room, msgs, edits>>

Lands(i) == msgs' = [msgs EXCEPT ![i].phase = "posted", ![i].fresh = TRUE,
                                 ![i].landed = Cardinality(Posted) + 1]
IsLost(i) == msgs' = [msgs EXCEPT ![i].phase = "lost"]
-----------------------------------------------------------------------------
(* on_message and run_round. *)

\* The round works on the room as on_message last read it, and on the history
\* as of now (the trigger is added if the read missed it).
ReadHistory(c) ==
    LET t == chain[c].trigger
        seen == chain[c].seen
        hist == History \cup {t}
        candidates == Eligible(t, seen.roster, hist) IN
    /\ chain[c].pc = "round"
    /\ chain' = [chain EXCEPT ![c] =
        IF \/ seen.status # "active" \/ candidates = {}
           \/ Limit > 0 /\ Streak(hist, seen.roster) >= Limit
        THEN [@ EXCEPT !.pc = "quiet"]
        ELSE [@ EXCEPT !.pc = IF Addressed(t) THEN "replying" ELSE "gating",
                       !.todo = candidates]]
    /\ UNCHANGED <<room, msgs, edits>>

\* The gates that answered yes, the first Cap of them by confidence.  A gate
\* that raises stays silent.
GatesAnswer(c, chosen) ==
    /\ chain[c].pc = "gating"
    /\ chosen \subseteq chain[c].todo /\ Cardinality(chosen) <= Cap
    /\ chain' = [chain EXCEPT ![c].pc = IF chosen = {} THEN "quiet" ELSE "replying",
                              ![c].todo = chosen]
    /\ UNCHANGED <<room, msgs, edits>>

\* stream_persona_reply: the shell of the message is announced under its ULID.
ReplyStarts(c, p) ==
    /\ p \in chain[c].todo /\ chain[c].pc \in {"replying", "broken"}
    /\ IF room.status = "active"
       THEN /\ msgs' = Append(msgs, Entry(c, p, Human, "reserved"))
            /\ chain' = [chain EXCEPT ![c].todo = @ \ {p}, ![c].live = @ \cup {Len(msgs')}]
       ELSE /\ chain' = [chain EXCEPT ![c].todo = @ \ {p}]
            /\ UNCHANGED msgs
    /\ UNCHANGED <<room, edits>>

ReplyLands(c, i) ==
    /\ i \in chain[c].live
    /\ Lands(i)
    /\ chain' = [chain EXCEPT ![c].live = @ \ {i}, ![c].got = @ \cup {i}]
    /\ UNCHANGED <<room, edits>>

\* The completion raises: an error frame instead of the message.
ReplyFails(c, i) ==
    /\ i \in chain[c].live
    /\ IsLost(i)
    /\ chain' = [chain EXCEPT ![c].live = @ \ {i}]
    /\ UNCHANGED <<room, edits>>

\* add_message raises through gather: the chain ends, the replies beside it run on.
ReplyRaises(c, i) ==
    /\ i \in chain[c].live
    /\ IsLost(i)
    /\ chain' = [chain EXCEPT ![c].live = @ \ {i}, ![c].pc = "broken"]
    /\ UNCHANGED <<room, edits>>

\* gather has all replies; the last of them triggers the next round, in the room
\* as it is then.
RoundEnds(c) ==
    /\ chain[c].pc = "replying" /\ chain[c].todo = {} /\ chain[c].live = {}
    /\ LET got == chain[c].got
           left == chain[c].budget - 1 IN
       chain' = [chain EXCEPT ![c] =
        IF got = {} \/ left = 0 THEN [chain[c] EXCEPT !.pc = "quiet"]
        ELSE [chain[c] EXCEPT !.pc = "round", !.trigger = Latest(got), !.got = {},
                              !.budget = left, !.seen = room]]
    /\ UNCHANGED <<room, msgs, edits>>
-----------------------------------------------------------------------------
Archive ==
    /\ room.status = "active" /\ room' = [room EXCEPT !.status = "archived"]
    /\ UNCHANGED <<msgs, chain, edits>>

EditRoster(p) ==
    /\ edits < MaxEdits /\ edits' = edits + 1
    /\ room' = [room EXCEPT !.roster = IF p \in @ THEN @ \ {p} ELSE @ \cup {p}]
    /\ UNCHANGED <<msgs, chain>>

\* Cooldowns run from created_at, which a message gets when it is stored.
CoolsDown(i) ==
    /\ i \in Posted /\ msgs[i].author \in Persona /\ msgs[i].fresh
    /\ \A j \in Posted : msgs[j].author = msgs[i].author /\ msgs[j].fresh
                         => msgs[j].landed >= msgs[i].landed
    /\ msgs' = [msgs EXCEPT ![i].fresh = FALSE]
    /\ UNCHANGED <<room, chain, edits>>

ChainStep(c) ==
    \/ PostFails(c) \/ ReadHistory(c) \/ RoundEnds(c)
    \/ \E author \in Poster, to \in Persona \cup {Human} : PostLands(c, author, to)
    \/ \E chosen \in SUBSET Persona : GatesAnswer(c, chosen)
    \/ \E p \in Persona : ReplyStarts(c, p)
    \/ \E i \in Ids : ReplyLands(c, i) \/ ReplyFails(c, i) \/ ReplyRaises(c, i)

RoomNext ==
    \/ \E c \in Chain : PostAdmitted(c) \/ ChainStep(c)
    \/ Archive \/ \E p \in Persona : EditRoster(p)
    \/ \E i \in Ids : CoolsDown(i)

RoomSpec == RoomInit /\ [][RoomNext]_roomVars
-----------------------------------------------------------------------------
\* The quiet detector bounds what the personas say on their own: while the
\* roster stays, a round that finds less than Limit agent messages at the end of
\* the log adds at most Cap replies, and the next round of any chain sees them.
IsReply(i) == \E j \in 1..i - 1 : msgs[j].of = msgs[i].of
Spoken == {i \in Posted : \A j \in Posted : j >= i => msgs[j].author \in room.roster}
AgentTurnsBounded ==
    (edits = 0 /\ Limit > 0 /\ Spoken # {}) =>
        Cardinality({i \in Spoken : IsReply(i)}) <=
            Limit - 1 + Cardinality({c \in Chain : chain[c].pc # "idle"}) * Cap

\* A persona does not start to speak again in a chain while the cooldown of what
\* it said there lasts, unless a message of its from another chain lies between.
OneVoicePerWindow ==
    \A i, j \in Ids :
        /\ j < i /\ msgs[i].of = msgs[j].of /\ msgs[i].author = msgs[j].author
        /\ msgs[i].author \in Persona /\ msgs[i].phase = "reserved" /\ j \in Posted
        /\ \A k \in Posted : j < k /\ k < i => msgs[k].author # msgs[i].author
        => ~msgs[j].fresh

\* No chain outruns its limits, whatever other chain runs beside it.
RoomTurns == AgentTurnsBounded /\ OneVoicePerWindow
=============================================================================
