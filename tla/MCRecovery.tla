----------------------------- MODULE MCRecovery -----------------------------
(***************************************************************************)
(* What survives crashes, for TLC, one part in each behaviour: the stages  *)
(* of the inbox, and the hub's tokens, messages and loops.  The author of  *)
(* the inbox writes two captures of different contents, one of which no    *)
(* verdict can be made of; two of the same; one that is refused and one    *)
(* that is not; or one capture and a file that is none.                    *)
(***************************************************************************)
EXTENDS InboxPipeline, HubState

VARIABLE part

Writes(items, refused, furniture) ==
    [owner : BOOLEAN, item : {items}, refused : {refused}, furniture : {furniture}]

Authors ==
    UNION {Writes(<<"clear", "vague", "vague">>, {}, {}), Writes(<<"clear", "clear", "vague">>, {}, {}),
           Writes(<<"clear", "vague", "vague">>, {1}, {}), Writes(<<"vague", "clear", "vague">>, {}, {1}),
           Writes(<<"vague", "vague", "clear">>, {}, {1, 2})}
NoOne == Writes(<<"clear", "vague", "vague">>, {}, {})

\* A third file is there only behind two that are no captures.
Two == place'[3] # "author" => author.furniture = {1, 2}

RecoveryInit ==
    /\ InboxInit /\ HubStateInit
    /\ part \in {"inbox", "tokens", "messages", "loops"}
    /\ part # "inbox" => author \in NoOne /\ author.owner

HubPart ==
    /\ HubStateNext
    /\ part # "loops" => task' = task
    /\ part = "loops" => issued' = {}
    /\ part = "tokens" => issued' \subseteq Gateway
    /\ part = "messages" => issued' \subseteq Session

RecoveryNext ==
    /\ UNCHANGED part
    /\ \/ part = "inbox" /\ InboxNext /\ Two /\ UNCHANGED hubStateVars
       \/ part # "inbox" /\ HubPart /\ UNCHANGED inboxVars

recoveryVars == <<inboxVars, hubStateVars, part>>
RecoverySpec == RecoveryInit /\ [][RecoveryNext]_recoveryVars
\* Fairness is the inbox's; what is said of the hub are invariants.
FairRecoverySpec == RecoverySpec /\ InboxFairness

RecoveryTypeOK == InboxTypeOK /\ HubStateTypeOK
=============================================================================
