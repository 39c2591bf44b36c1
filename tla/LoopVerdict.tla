----------------------------- MODULE LoopVerdict -----------------------------
(***************************************************************************)
(* loop_judge.py: how the loop runner's two questions are answered,        *)
(* whether to stop and whether a human must be paged: from the handoff     *)
(* envelope and the loop's objective where they suffice, and otherwise by  *)
(* a session that is created for the one question, waited for, asked,      *)
(* stopped and deleted.                                                    *)
(*                                                                         *)
(* A value of the envelope is of type "number", "text" or "none" (a key    *)
(* that is not there, or null); what an objective expects of it is a       *)
(* value, a truth (whether there is something), or comparisons, of which   *)
(* only the first is looked at.  A session's answer is the list of the     *)
(* objects in its text, each a function from the keys it has to whether    *)
(* their values are truthy (the text "false" is).                          *)
(***************************************************************************)
EXTENDS Naturals, Sequences

CONSTANTS
  Path,       \* what objectives look at
  Held,       \* the values of an envelope
  Expected,   \* what an objective may expect of one
  Answer      \* the answers of judge sessions

VARIABLES
  asked,     \* the question: key "done" or "escalate", envelope, objective, prose, cap
  judge,     \* where the call is, what its session answered, whether it raises at the end
  session,   \* the judge session: "none", "up", "stopped", "kept" (its cleanup failed)
  verdict

judgeVars == <<asked, judge, session, verdict>>

Verdict(fired, via) == [fired |-> fired, via |-> via]
Undecided == Verdict(FALSE, "undecided")

Truthy(v) == IF v.type = "number" THEN v.v # 0 ELSE v.type = "text"

ComparesTo(v, c) ==
  CASE c.op = ">=" -> v.type = "number" /\ v.v >= c.than
    [] c.op = "<=" -> v.type = "number" /\ v.v <= c.than
    [] c.op = ">" -> v.type = "number" /\ v.v > c.than
    [] c.op = "<" -> v.type = "number" /\ v.v < c.than
    [] c.op = "in" -> v \in c.among
    [] c.op = "not_empty" -> Truthy(v) = c.wanted

\* _eval_objective_entry
EntryMet(v, expected) ==
  CASE expected.is = "value" -> v = expected.value
    [] expected.is = "truth" -> Truthy(v) = expected.truth
    [] expected.is = "comparisons" -> ComparesTo(v, expected.comparisons[1])

AllMet_Present(envelope, objective) ==    \* mutant: an entry whose key is absent is passed over
  \A path \in DOMAIN objective :
    envelope[path].type = "none" \/ EntryMet(envelope[path], objective[path])

\* Every entry, as the docstring of eval_objective says; the one of the module
\* says that any satisfied entry ends the loop.
AllMet(envelope, objective) == \A path \in DOMAIN objective : EntryMet(envelope[path], objective[path])

\* eval_objective
Objective(envelope, objective) ==
  IF DOMAIN objective = {} THEN Verdict(FALSE, "missing")
  ELSE Verdict(AllMet(envelope, objective), "objective")

\* What is known before any session is asked: the checklist of "done", and
\* the two caps (iterations, budget) of "escalate".
Quick ==
  IF asked.key = "done" THEN Objective(asked.envelope, asked.objective)
  ELSE IF asked.cap THEN Verdict(TRUE, "objective") ELSE Verdict(FALSE, "missing")

\* _extract_verdict: the first object that has the key
Extracted(answer, key) ==
  \E i \in DOMAIN answer :
    /\ key \in DOMAIN answer[i] /\ answer[i][key]
    /\ \A j \in 1..(i - 1) : key \notin DOMAIN answer[j]

Objectives == UNION {[paths -> Expected] : paths \in SUBSET Path}

JudgeInit ==
  /\ asked \in [key : {"done"}, envelope : [Path -> Held], objective : Objectives, prose : BOOLEAN, cap : {FALSE}]
               \cup [key : {"escalate"}, envelope : [Path -> {CHOOSE v \in Held : TRUE}], objective : {<<>>},
                     prose : BOOLEAN, cap : BOOLEAN]
  /\ judge = [at |-> "asked", answer |-> <<>>, raises |-> FALSE]
  /\ session = "none"
  /\ verdict = Undecided

Says(v) == verdict' = v /\ judge' = [judge EXCEPT !.at = "over"]

\* evaluate_stop, evaluate_escalation up to the session
Decides ==
  /\ judge.at = "asked" /\ (Quick.fired \/ ~asked.prose)
  /\ Says(Quick) /\ UNCHANGED <<asked, session>>

\* No key, or /api/create fails: a judge error.
CannotCreate ==
  /\ judge.at = "asked" /\ ~Quick.fired /\ asked.prose
  /\ Says(Verdict(FALSE, "judge-error")) /\ UNCHANGED <<asked, session>>

CreatesSession ==
  /\ judge.at = "asked" /\ ~Quick.fired /\ asked.prose
  /\ session' = "up" /\ judge' = [judge EXCEPT !.at = "waiting"]
  /\ UNCHANGED <<asked, verdict>>

\* _wait_for_session: ready, or not within 120 s
BecomesReady ==
  /\ judge.at = "waiting" /\ judge' = [judge EXCEPT !.at = "ready"]
  /\ UNCHANGED <<asked, session, verdict>>

NotReady ==
  /\ judge.at = "waiting" /\ judge' = [judge EXCEPT !.at = "cleanup"]
  /\ verdict' = Verdict(FALSE, "judge-error") /\ UNCHANGED <<asked, session>>

\* _query_session answers, fails, or raises past the judge's errors (an
\* answer that is not JSON).
SessionAnswers(answer) ==
  /\ judge.at = "ready" /\ judge' = [judge EXCEPT !.at = "cleanup", !.answer = answer]
  /\ verdict' = Verdict(Extracted(answer, asked.key), "judge") /\ UNCHANGED <<asked, session>>

QueryFails ==
  /\ judge.at = "ready" /\ judge' = [judge EXCEPT !.at = "cleanup"]
  /\ verdict' = Verdict(FALSE, "judge-error") /\ UNCHANGED <<asked, session>>

QueryRaises ==
  /\ judge.at = "ready" /\ judge' = [judge EXCEPT !.at = "cleanup", !.raises = TRUE]
  /\ UNCHANGED <<asked, session, verdict>>

Over == [judge EXCEPT !.at = IF judge.raises THEN "raised" ELSE "over"]

StopsSession ==
  /\ judge.at = "cleanup" /\ session' = "stopped" /\ judge' = [judge EXCEPT !.at = "stopped"]
  /\ UNCHANGED <<asked, verdict>>

DeletesSession ==
  /\ judge.at = "stopped" /\ session' = "none" /\ judge' = Over
  /\ UNCHANGED <<asked, verdict>>

\* Either call fails: the session stays, and the verdict stands.
CleanupFails ==
  /\ judge.at \in {"cleanup", "stopped"} /\ session' = "kept" /\ judge' = Over
  /\ UNCHANGED <<asked, verdict>>

JudgeNext ==
  \/ Decides \/ CannotCreate \/ CreatesSession \/ BecomesReady \/ NotReady
  \/ (\E answer \in Answer : SessionAnswers(answer))
  \/ QueryFails \/ QueryRaises \/ StopsSession \/ DeletesSession \/ CleanupFails

JudgeSpec == JudgeInit /\ [][JudgeNext]_judgeVars

-----------------------------------------------------------------------------
\* A call that is over left no session behind unless its cleanup failed, and
\* says "stop" or "page" only if that was earned: every entry of a checklist
\* that has some was met, the loop is at a cap, or the session that was
\* asked, for which there was prose, said so; a session that was never
\* created, never ready or never answered says neither.
VerdictIsEarned ==
  judge.at \in {"over", "raised"} =>
    /\ session \in {"none", "kept"}
    /\ verdict.fired =>
         \/ asked.key = "done" /\ asked.objective # <<>>
              /\ {path \in DOMAIN asked.objective : ~EntryMet(asked.envelope[path], asked.objective[path])} = {}
         \/ asked.key = "escalate" /\ asked.cap
         \/ asked.prose /\ \E i \in DOMAIN judge.answer :
              asked.key \in DOMAIN judge.answer[i] /\ judge.answer[i][asked.key]
=============================================================================
