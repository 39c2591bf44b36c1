----------------------------- MODULE MCServices -----------------------------
(***************************************************************************)
(* The pool of MCP server connections and the pull between nodes for TLC.  *)
(* They share no state, and in the pull events and owner rows do not meet: *)
(* "part" says whose steps a behaviour has.                                *)
(***************************************************************************)
EXTENDS GatewayPool, NodeSync

VARIABLE part

Mutual == [n \in Node |-> Node \ {n}]

\* Nodes and names are alike: the first write may as well be that of a fixed one.
FirstWrite == written = 0 /\ written' = 1 =>
    runner'[CHOOSE n \in Node : TRUE][CHOOSE r \in RunnerName : TRUE] # NoRow

\* Bound: a pull fails, or there is one write more.
FewWrites == written' + failures' <= MaxWrites

servicesVars == <<poolVars, syncVars, part>>

ServicesInit == PoolInit /\ SyncInit /\ part \in {"pool", "events", "rows"}

ServicesNext ==
    /\ UNCHANGED part
    /\ \/ part = "pool" /\ PoolNext /\ UNCHANGED syncVars
       \/ part = "events" /\ UNCHANGED <<poolVars, rowVars>> /\ SyncNext
       \/ part = "rows" /\ UNCHANGED <<poolVars, eventVars>> /\ SyncNext
                          /\ FirstWrite /\ FewWrites

ServicesSpec == ServicesInit /\ [][ServicesNext]_servicesVars

\* SyncFairness, of the behaviours in which nodes pull at all: a pull that is
\* only not taken because its part is not played must not be owed.
PartsFairness ==
    /\ PoolFairness
    /\ \A n \in Node : WF_syncVars(PullStep(n)) /\ \A p \in Peers[n] :
                          SF_servicesVars(part # "pool" /\ PullEvents(n, p) /\ UNCHANGED <<poolVars, part>>)
FairServicesSpec == ServicesSpec /\ PartsFairness

ServicesTypeOK == PoolTypeOK /\ SyncTypeOK
=============================================================================
