------------------------------ MODULE MCRooms -------------------------------
(***************************************************************************)
(* Rooms and sessions for TLC, one part in each behaviour: the personas of *)
(* a room, the sessions promoted in it, the sessions of one name, the      *)
(* virtual machines, the calls to language models, and the queries typed   *)
(* into a session.  The personas play in two scenes: two posts whose       *)
(* chains overlap, with one reply a round and a fixed roster, and one post *)
(* with concurrent replies while the roster changes.                       *)
(***************************************************************************)
EXTENDS Conversation, RoomSessions, Sessions, UtmBackend, Completions, SessionQuery, TLC

CONSTANT FirstCall

VARIABLE part

Alike == Permutations(Persona)

OneVoice == \A c \in Chain :
    chain[c].pc = "replying" => Cardinality(chain[c].todo) + Cardinality(chain[c].live) <= 1

Overlap == part = "overlap" /\ edits' = 0 /\ OneVoice'
Voices == part = "voices" /\ \A c \in Chain \ {1} : chain'[c].pc = "idle"

Want(provider, quality, paid, host) ==
    [provider |-> provider, quality |-> quality, paid |-> paid, runner |-> host]

\* what calls ask for: one of them anything, the other what competes with it
Simple == Want("any", "cheap", FALSE, Anywhere)
Single == Want("claude", "high", TRUE, Anywhere)
Targets ==
    {Want("any", "high", paid, Anywhere) : paid \in BOOLEAN} \cup {Want("any", "cheap", TRUE, Anywhere)}
    \cup {Want("ollama", "cheap", FALSE, h) : h \in Runner} \cup {Want("codex", "cheap", TRUE, Anywhere)}
    \cup {Simple, Single}

AsWanted ==
    \A k \in Call \ {FirstCall} :
        call[k].want = IF call[FirstCall].want.provider = "claude" THEN Single ELSE Simple

RoomsInit ==
    /\ RoomInit /\ SessInit /\ SessionsInit /\ UtmInit /\ CompletionsInit /\ SessionQueryInit
    /\ part \in {"overlap", "voices", "promotions", "name", "machines", "completions", "queries"}
    /\ AsWanted /\ (part # "completions" => call[FirstCall].want = Simple)
    /\ part \notin {"overlap", "voices"} => room.roster = {}

sceneVars == <<roomVars, sessVars, sessionVars, utmVars>>
askVars == <<completionVars, sessionQueryVars>>

RoomsNext ==
    /\ UNCHANGED part
    /\ \/ RoomNext /\ (Overlap \/ Voices) /\ UNCHANGED <<sessVars, sessionVars, utmVars, askVars>>
       \/ part = "promotions" /\ SessNext /\ UNCHANGED <<roomVars, sessionVars, utmVars, askVars>>
       \/ part = "name" /\ SessionsNext /\ UNCHANGED <<roomVars, sessVars, utmVars, askVars>>
       \/ part = "machines" /\ UtmNext /\ UNCHANGED <<roomVars, sessVars, sessionVars, askVars>>
       \/ part = "completions" /\ CompletionsNext /\ UNCHANGED <<sceneVars, sessionQueryVars>>
       \/ part = "queries" /\ SessionQueryNext /\ UNCHANGED <<sceneVars, completionVars>>

RoomsSpec == RoomsInit /\ [][RoomsNext]_<<sceneVars, askVars, part>>
=============================================================================
