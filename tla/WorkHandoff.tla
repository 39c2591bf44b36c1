---------------------------- MODULE WorkHandoff ----------------------------
(***************************************************************************)
(* What the runner registry promises the caller of enqueue and the runners *)
(* that poll: a work item is handed to at most one runner, its caller gets *)
(* one answer, a runner's answer comes from the runner that holds the item,*)
(* and the registry refuses only what nobody holds.                        *)
(***************************************************************************)
CONSTANTS Item, Runner, Nobody

VARIABLES
  answer,   \* what the caller of each item knows
  holder    \* the runner each item was handed to

handoffVars == <<answer, holder>>

HandoffInit ==
  /\ answer = [i \in Item |-> "new"]
  /\ holder = [i \in Item |-> Nobody]

Ask(i) == answer[i] = "new" /\ answer' = [answer EXCEPT ![i] = "waiting"] /\ UNCHANGED holder

Hand(i) ==
  /\ answer[i] # "new" /\ holder[i] = Nobody
  /\ \E r \in Runner : holder' = [holder EXCEPT ![i] = r]
  /\ UNCHANGED answer

RunnerAnswers(i) ==
  /\ answer[i] = "waiting" /\ holder[i] # Nobody
  /\ \E a \in {"ok", "failed"} : answer' = [answer EXCEPT ![i] = a]
  /\ UNCHANGED holder

CallerGivesUp(i) ==
  answer[i] = "waiting" /\ answer' = [answer EXCEPT ![i] = "timeout"] /\ UNCHANGED holder

\* one removal of a runner may refuse several items
RegistryRefuses ==
  /\ \E gone \in SUBSET {i \in Item : answer[i] = "waiting" /\ holder[i] = Nobody} :
       answer' = [i \in Item |-> IF i \in gone THEN "refused" ELSE answer[i]]
  /\ UNCHANGED holder

HandoffNext ==
  \/ \E i \in Item : Ask(i) \/ Hand(i) \/ RunnerAnswers(i) \/ CallerGivesUp(i)
  \/ RegistryRefuses

HandoffSpec == HandoffInit /\ [][HandoffNext]_handoffVars
=============================================================================
