---------------------------- MODULE SessionQuery ----------------------------
(***************************************************************************)
(* A query typed into a session's terminal, and the answer read off its    *)
(* screen.  The hub sees of the agent what tmux shows: it types a prompt,  *)
(* captures the pane until it rests, and takes the last answer on it.      *)
(* loop_assist asks several times in one session and has each answer       *)
(* written to a file that it empties before.  How long the pane may rest   *)
(* while the agent works is the agent's affair: MaxRest.                   *)
(***************************************************************************)
EXTENDS Naturals

CONSTANTS
    Query,      \* queries of one session
    Nothing,
    MaxRest,    \* unchanged captures in a row while the agent works
    Tries       \* attempts of one assist: _MAX_RETRIES + 1

ASSUME SessionQueryAssumption == Nothing \notin Query /\ MaxRest \in Nat /\ Tries \in Nat

VARIABLES
    pane,       \* the turn on the screen, whether the agent works on it, the rest so far
    asking,     \* where each query is, its count of stable captures, its answer
    disturbed,  \* ghost: queries that were on the screen together
    assist,     \* the attempt, where it is, its text
    file,       \* the attempt whose text the output file holds, 0 where it is empty
    untruncated \* ghost: the attempts whose truncation failed

queryVars == <<pane, asking, disturbed>>
assistVars == <<assist, file, untruncated>>
sessionQueryVars == <<queryVars, assistVars>>

SessionQueryTypeOK ==
    /\ pane \in [turn : Query \cup {Nothing}, last : Query \cup {Nothing}, works : BOOLEAN, rest : 0..MaxRest]
    /\ asking \in [Query -> [at : {"idle", "typed", "polling", "answered", "timeout"},
                             stable : 0..2, answer : Query \cup {Nothing}]]
    /\ disturbed \subseteq Query
    /\ assist \in [attempt : 0..Tries, at : {"ready", "asking", "reading", "done", "failed"}, text : 0..Tries]
    /\ file \in 0..Tries /\ untruncated \subseteq 1..Tries

SessionQueryInit ==
    /\ pane = [turn |-> Nothing, last |-> Nothing, works |-> FALSE, rest |-> 0]
    /\ asking = [q \in Query |-> [at |-> "idle", stable |-> 0, answer |-> Nothing]]
    /\ disturbed = {}
    /\ assist = [attempt |-> 0, at |-> "ready", text |-> 0]
    /\ file = 0 /\ untruncated = {}

-----------------------------------------------------------------------------
(* _tmux_send_and_wait.                                                    *)

Others(q) == {p \in Query \ {q} : asking[p].at \in {"typed", "polling"}}

Meets(q) == IF Others(q) = {} THEN {} ELSE Others(q) \cup {q}

\* C-c ends the turn the agent is in
Clears(q) ==
    /\ asking[q].at = "idle"
    /\ asking' = [asking EXCEPT ![q].at = "typed"]
    /\ pane' = [pane EXCEPT !.works = FALSE, !.rest = 0]
    /\ disturbed' = disturbed \cup Meets(q)
    /\ UNCHANGED assistVars

Sends(q) ==
    /\ asking[q].at = "typed"
    /\ asking' = [asking EXCEPT ![q].at = "polling"]
    /\ pane' = [pane EXCEPT !.turn = q, !.works = TRUE, !.rest = 0]
    /\ disturbed' = disturbed \cup Meets(q)
    /\ UNCHANGED assistVars

\* a capture that differs from the one before
SeesChange_Keeps(q) == asking[q].stable    \* mutant: the count is not reset
SeesChange(q) == 0

Changes(q) ==
    /\ asking[q].at = "polling" /\ pane.works
    /\ asking' = [asking EXCEPT ![q].stable = SeesChange(q)]
    /\ pane' = [pane EXCEPT !.rest = 0]
    /\ UNCHANGED <<disturbed, assistVars>>

\* one that does not: the second in a row with a prompt or a marker on the screen is
\* the end, and the last answer there is the query's
Rests(q) ==
    /\ asking[q].at = "polling"
    /\ pane.works => pane.rest < MaxRest
    /\ pane' = [pane EXCEPT !.rest = IF pane.works THEN @ + 1 ELSE @]
    /\ asking' = [asking EXCEPT ![q] =
                      IF asking[q].stable + 1 < 2
                      THEN [asking[q] EXCEPT !.stable = asking[q].stable + 1]
                      ELSE [at |-> "answered", stable |-> 2, answer |-> pane.last]]
    /\ UNCHANGED <<disturbed, assistVars>>

TimesOut(q) ==
    /\ asking[q].at = "polling"
    /\ asking' = [asking EXCEPT ![q].at = "timeout"]
    /\ UNCHANGED <<pane, disturbed, assistVars>>

\* the agent's answer is on the screen
AgentAnswers ==
    /\ pane.works
    /\ pane' = [pane EXCEPT !.works = FALSE, !.last = pane.turn, !.rest = 0]
    /\ UNCHANGED <<asking, disturbed, assistVars>>

-----------------------------------------------------------------------------
(* loop_assist._retry_loop and _call_session.                              *)

Truncated == 0

\* the failure of the truncation is passed over
Attempts ==
    /\ assist.at = "ready" /\ assist.attempt < Tries
    /\ assist' = [assist EXCEPT !.attempt = @ + 1, !.at = "asking"]
    /\ \/ file' = Truncated /\ UNCHANGED untruncated
       \/ UNCHANGED file /\ untruncated' = untruncated \cup {assist.attempt + 1}
    /\ UNCHANGED queryVars

\* the agent writes the file, or answers on the screen only
AssistAnswered ==
    /\ assist.at = "asking"
    /\ assist' = [assist EXCEPT !.at = "reading"]
    /\ file' \in {file, assist.attempt}
    /\ UNCHANGED <<untruncated, queryVars>>

AssistFails ==
    /\ assist.at = "asking"
    /\ assist' = [assist EXCEPT !.at = "failed"]
    /\ UNCHANGED <<file, untruncated, queryVars>>

\* an empty or unreadable file falls back to the screen; what does not validate
\* goes back to the agent while attempts are left
Reads ==
    /\ assist.at = "reading"
    /\ \E text \in {file, 0}, valid \in BOOLEAN :
           assist' = [assist EXCEPT !.text = IF text = 0 THEN assist.attempt ELSE text,
                                    !.at = IF valid \/ assist.attempt = Tries THEN "done" ELSE "ready"]
    /\ UNCHANGED <<file, untruncated, queryVars>>

-----------------------------------------------------------------------------
QueryNext ==
    \/ \E q \in Query : Clears(q) \/ Sends(q) \/ Changes(q) \/ Rests(q) \/ TimesOut(q)
    \/ AgentAnswers
AssistNext == Attempts \/ AssistAnswered \/ AssistFails \/ Reads

SessionQueryNext == QueryNext \/ AssistNext
SessionQuerySpec == SessionQueryInit /\ [][SessionQueryNext]_sessionQueryVars

\* An answer read off the screen is the answer to the query's own prompt, unless
\* another query was on the screen with it; and the text an assist returns
\* is of its last attempt, never a stale file, unless the file could not be emptied.
AnswersAreOwn ==
    /\ \A q \in Query : asking[q].at = "answered" /\ q \notin disturbed => asking[q].answer = q
    /\ assist.at = "done" => \/ assist.text = assist.attempt
                             \/ assist.attempt \in untruncated
=============================================================================
