----------------------------- MODULE GatewayCalls ----------------------------
(***************************************************************************)
(* What the pool of MCP connections promises of a call, whatever           *)
(* connections it makes, loses and evicts for it: it goes on a wire once,  *)
(* on one connection that has nothing else on it, and only while its       *)
(* caller is there; before that it may be refused, and only a call on the  *)
(* wire of a connection that ends can be lost.                             *)
(***************************************************************************)

CONSTANTS Caller, Conn, None, Cancelled

VARIABLES
    open,       \* callers whose call has no answer
    lost,       \* those of them whose connection ended under their call
    running     \* connection -> the caller it works for, Cancelled for one who left

callsVars == <<open, lost, running>>

CallsInit == open = {} /\ lost = {} /\ running = [n \in Conn |-> None]

OnWire == {running[n] : n \in Conn}

Ask(c) == c \notin open /\ open' = open \cup {c} /\ UNCHANGED <<lost, running>>

Start(c, n) ==
    /\ c \in open \ (lost \cup OnWire) /\ running[n] = None
    /\ running' = [running EXCEPT ![n] = c]
    /\ UNCHANGED <<open, lost>>

Finish(n) ==
    /\ running[n] # None
    /\ running' = [running EXCEPT ![n] = None]
    /\ open' = open \ {running[n]} /\ UNCHANGED lost

\* an error, before anything is executed
Refuse(callers) ==
    /\ callers \subseteq open \ (lost \cup OnWire)
    /\ open' = open \ callers /\ UNCHANGED <<lost, running>>

\* The caller goes; what is on the wire cannot be recalled.
Withdraw(c) ==
    /\ c \in open
    /\ open' = open \ {c} /\ lost' = lost \ {c}
    /\ running' = [n \in Conn |-> IF running[n] = c THEN Cancelled ELSE running[n]]

\* A connection ends: its queue is refused, what was on the wire is lost.
End(n, queued) ==
    /\ queued \subseteq open \ (lost \cup OnWire)
    /\ open' = open \ queued
    /\ lost' = lost \cup ({running[n]} \cap Caller)
    /\ running' = [running EXCEPT ![n] = None]

CallsNext ==
    \/ \E c \in Caller : Ask(c) \/ Withdraw(c) \/ Refuse({c})
    \/ \E n \in Conn : Finish(n) \/ \E c \in Caller : Start(c, n)
    \/ \E n \in Conn, queued \in SUBSET Caller : End(n, queued)

CallsSpec == CallsInit /\ [][CallsNext]_callsVars
=============================================================================
