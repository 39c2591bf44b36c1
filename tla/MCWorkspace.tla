----------------------------- MODULE MCWorkspace ----------------------------
(***************************************************************************)
(* What goes on in a session's container, for TLC, one part in each        *)
(* behaviour: how created sessions get their tasks and report on them, and *)
(* the relay of a browser to the session's terminal.  Calls differ by      *)
(* nothing but their names, so the first of them goes first and has the    *)
(* first of the roles.                                                     *)
(***************************************************************************)
EXTENDS SessionTasks, TerminalRelay

CONSTANTS First, MainRole

VARIABLE part

InTurn ==
    /\ \A c \in Create : request'[c] # None => request'[First] # None
    /\ request'[First] # None => request'[First].role = MainRole /\ request'[First].kind # "continue"
    /\ \A c \in Create : request'[c] # None /\ request'[c].role # MainRole => request'[c].kind = "task"

WorkspaceInit ==
    /\ SessionTasksInit /\ RelayInit
    /\ part \in {"tasks", "relay"} /\ (part = "tasks" => tty.up)

WorkspaceNext ==
    /\ UNCHANGED part
    /\ \/ part = "tasks" /\ SessionTasksNext /\ InTurn /\ UNCHANGED relayVars
       \/ part = "relay" /\ RelayNext /\ UNCHANGED taskVars

\* In the part that is not played no step of RelayFairness and none of
\* SessionTasksFairness is enabled: its system is in its initial state.
FairWorkspaceSpec ==
    /\ WorkspaceInit /\ [][WorkspaceNext]_<<taskVars, relayVars, part>>
    /\ SessionTasksFairness /\ RelayFairness

=============================================================================
