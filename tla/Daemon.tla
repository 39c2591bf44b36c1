-------------------------------- MODULE Daemon ------------------------------
(***************************************************************************)
(* The daemon's start, stop and restart commands: processes of their own   *)
(* that know of each other and of the daemon only through the PID file.    *)
(***************************************************************************)
EXTENDS Integers

CONSTANTS
    Cli,           \* commands that are run
    MaxPid,        \* bound: processes ever launched
    NoFile, Empty  \* the PID file: absent, or truncated and not yet written

ASSUME DaemonAssumption == MaxPid \in Nat /\ {NoFile, Empty} \cap (0..MaxPid) = {}

Pid == 1..MaxPid

VARIABLES
    file,          \* the PID file: NoFile, Empty or the process it names
    process,       \* pid -> where the process is
    launched,      \* processes launched so far
    cli,           \* command -> where it is, what it saw in the file
    disturbed      \* history: commands overlapped, one was killed in between,
                   \* or a process outlived SIGKILL's two seconds

daemonVars == <<file, process, launched, cli, disturbed>>

NoCommand == [pc |-> "idle", cmd |-> "none", saw |-> NoFile]

DaemonTypeOK ==
    /\ file \in Pid \cup {NoFile, Empty} /\ launched \in 0..MaxPid
    /\ process \in [Pid -> {"none", "booting", "serving", "stopping", "killed", "gone"}]
    /\ cli \in [Cli -> [pc : {"idle", "reading", "judging", "clearing", "launching", "settling", "writing",
                              "terminating", "waiting", "killing", "done"},
                        cmd : {"none", "start", "stop", "restart"}, saw : Pid \cup {NoFile, Empty}]]
    /\ disturbed \in BOOLEAN

DaemonInit ==
    /\ file = NoFile /\ launched = 0 /\ disturbed = FALSE
    /\ process = [p \in Pid |-> "none"]
    /\ cli = [c \in Cli |-> NoCommand]

CommandUnderWay(c) == cli[c].pc \notin {"idle", "done"}
ProcessAlive(p) == process[p] \notin {"none", "gone"}
CommandAt(c, pc) == cli[c].pc = pc
CommandGoes(c, pc) == cli' = [cli EXCEPT ![c].pc = pc]
-----------------------------------------------------------------------------
(* status(), which start and stop begin with.                              *)

Command(c, cmd) ==
    /\ CommandAt(c, "idle")
    /\ cli' = [cli EXCEPT ![c] = [NoCommand EXCEPT !.pc = "reading", !.cmd = cmd]]
    /\ disturbed' = (disturbed \/ \E d \in Cli : CommandUnderWay(d))
    /\ UNCHANGED <<file, process, launched>>

ReadsFile(c) ==
    /\ CommandAt(c, "reading")
    /\ cli' = [cli EXCEPT ![c].pc = "judging", ![c].saw = file]
    /\ UNCHANGED <<file, process, launched, disturbed>>

\* A file that is cut short, or that names no process, is removed.
Running(c) == cli[c].saw \in Pid /\ ProcessAlive(cli[c].saw)
NextAfterStatus_Unasked(c) ==    \* mutant: start does not ask whether a daemon is running
    IF cli[c].cmd = "start" THEN "clearing" ELSE IF Running(c) THEN "terminating" ELSE
    IF cli[c].cmd = "restart" THEN "clearing" ELSE "done"
NextAfterStatus(c) ==
    IF Running(c) THEN IF cli[c].cmd = "start" THEN "done" ELSE "terminating"
    ELSE IF cli[c].cmd = "stop" THEN "done" ELSE "clearing"
JudgesStatus(c) ==
    /\ CommandAt(c, "judging")
    /\ file' = IF cli[c].saw # NoFile /\ ~Running(c) THEN NoFile ELSE file
    /\ CommandGoes(c, NextAfterStatus(c))
    /\ UNCHANGED <<process, launched, disturbed>>
-----------------------------------------------------------------------------
(* start, and the second half of restart.                                  *)

\* restart goes through start's own status() once more.
ClearsStale(c) ==
    /\ CommandAt(c, "clearing")
    /\ IF cli[c].cmd = "restart"
       THEN cli' = [cli EXCEPT ![c].pc = "reading", ![c].cmd = "start"] /\ UNCHANGED file
       ELSE CommandGoes(c, "launching") /\ file' = NoFile
    /\ UNCHANGED <<process, launched, disturbed>>

Launches(c) ==
    /\ CommandAt(c, "launching") /\ launched < MaxPid
    /\ launched' = launched + 1
    /\ process' = [process EXCEPT ![launched'] = "booting"]
    /\ cli' = [cli EXCEPT ![c].pc = "settling", ![c].saw = launched']
    /\ UNCHANGED <<file, disturbed>>

\* Half a second later: it has exited already, or the file is opened for writing.
Settles(c) ==
    /\ CommandAt(c, "settling")
    /\ IF ProcessAlive(cli[c].saw) THEN CommandGoes(c, "writing") /\ file' = Empty
                            ELSE CommandGoes(c, "done") /\ UNCHANGED file
    /\ UNCHANGED <<process, launched, disturbed>>

WritesFile(c) ==
    /\ CommandAt(c, "writing") /\ file' = cli[c].saw /\ CommandGoes(c, "done")
    /\ UNCHANGED <<process, launched, disturbed>>

\* The file cannot be written: the process is killed.
WriteFails(c) ==
    /\ CommandAt(c, "writing") /\ CommandGoes(c, "done")
    /\ process' = [process EXCEPT ![cli[c].saw] = IF ProcessAlive(cli[c].saw) THEN "killed" ELSE @]
    /\ UNCHANGED <<file, launched, disturbed>>
-----------------------------------------------------------------------------
(* stop, and the first half of restart.                                    *)

AfterStop(c) == IF cli[c].cmd = "restart" THEN "clearing" ELSE "done"

\* _cleanup_pid_file removes whatever file there is by now.
Stopped(c) == file' = NoFile /\ CommandGoes(c, AfterStop(c))

Terminates(c) ==
    /\ CommandAt(c, "terminating")
    /\ IF ProcessAlive(cli[c].saw)
       THEN /\ process' = [process EXCEPT ![cli[c].saw] = IF @ = "killed" THEN @ ELSE "stopping"]
            /\ CommandGoes(c, "waiting") /\ UNCHANGED file
       ELSE Stopped(c) /\ UNCHANGED process
    /\ UNCHANGED <<launched, disturbed>>

WaitEnds(c) ==
    /\ CommandAt(c, "waiting")
    /\ IF ProcessAlive(cli[c].saw)
       THEN /\ process' = [process EXCEPT ![cli[c].saw] = "killed"]
            /\ CommandGoes(c, "killing") /\ UNCHANGED file
       ELSE Stopped(c) /\ UNCHANGED process
    /\ UNCHANGED <<launched, disturbed>>

\* It is gone, or two seconds have passed.
KillEnds(c) ==
    /\ CommandAt(c, "killing") /\ Stopped(c)
    /\ disturbed' = (disturbed \/ ProcessAlive(cli[c].saw))
    /\ UNCHANGED <<process, launched>>

\* The command is interrupted.
CliDies(c) ==
    /\ CommandUnderWay(c) /\ CommandGoes(c, "done") /\ disturbed' = TRUE
    /\ UNCHANGED <<file, process, launched>>
-----------------------------------------------------------------------------
(* Daemon processes.  All bind one port.                                   *)

Becomes(p, state) ==
    process' = [process EXCEPT ![p] = state] /\ UNCHANGED <<file, launched, cli, disturbed>>

PortTaken == \E q \in Pid : process[q] \in {"serving", "stopping", "killed"}

Binds(p) == process[p] = "booting" /\ Becomes(p, IF PortTaken THEN "gone" ELSE "serving")
Exits(p) == ProcessAlive(p) /\ Becomes(p, "gone")

DaemonNext ==
    \/ \E c \in Cli, cmd \in {"start", "stop", "restart"} : Command(c, cmd)
    \/ \E c \in Cli : \/ ReadsFile(c) \/ JudgesStatus(c) \/ ClearsStale(c) \/ Launches(c) \/ Settles(c)
                      \/ WritesFile(c) \/ WriteFails(c) \/ Terminates(c) \/ WaitEnds(c) \/ KillEnds(c)
                      \/ CliDies(c)
    \/ \E p \in Pid : Binds(p) \/ Exits(p)

DaemonSpec == DaemonInit /\ [][DaemonNext]_daemonVars
-----------------------------------------------------------------------------
\* The daemon can be found: while no command is under way, the process that
\* serves, or is about to, is the one the PID file names - unless commands have
\* overlapped, one was interrupted, or a process outlived SIGKILL.
DaemonIsFound ==
    ~disturbed /\ (\A c \in Cli : ~CommandUnderWay(c)) =>
        \A p \in Pid : process[p] \in {"booting", "serving", "stopping"} => file = p
=============================================================================
