----------------------------- MODULE MCEventBus -----------------------------
(***************************************************************************)
(* The event log for TLC: who reads it, and what fills it from afar, the   *)
(* outbox of the desktop app.  They share nothing but the log, the past of *)
(* which nobody writes, so each is checked against its own growth of it:   *)
(* "part" says whose steps a behaviour has.                                *)
(***************************************************************************)
EXTENDS EventRules, OsSink, Outbox

VARIABLE part

OneWebhook == [r \in Rule |-> <<"webhook">>]

busVars == <<vars, sinkVars, outboxVars, part>>

BusInit == Init /\ SinkInit /\ OutboxInit /\ part \in {"rules", "sink", "outbox"}

BusNext ==
    /\ UNCHANGED part
    /\ \/ part = "rules" /\ Next /\ UNCHANGED <<sinkVars, outboxVars>>
       \/ part = "sink" /\ SinkNext /\ UNCHANGED <<rulesVars, outboxVars>>
       \/ part = "outbox" /\ OutboxNext /\ UNCHANGED <<vars, sinkVars>>

BusSpec == BusInit /\ [][BusNext]_busVars
\* In a part that is not played no step is enabled that these would owe.
FairBusSpec == BusSpec /\ Fairness /\ SinkFairness /\ OutboxFairness

BusTypeOK == TypeOK /\ SinkTypeOK /\ OutboxTypeOK

(* Nobody stays behind: a visible event is passed by the cursor of the     *)
(* rules and by the sink's, and an execution that is queued gets a worker, *)
(* as long as the hub stays up; an envelope leaves the outbox as long as   *)
(* the app does.                                                           *)
EventsGetThrough == EventsMatched /\ QueuedRuns /\ SinkCatchesUp /\ OutboxDrains
\* Neither cursor passes an event that its reader has not dealt with.
ReadersSkipNothing == NothingSkipped /\ SinkSkipsNothing
=============================================================================
