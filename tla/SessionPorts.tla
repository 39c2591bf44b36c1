---------------------------- MODULE SessionPorts ----------------------------
(***************************************************************************)
(* The host ports of the docker sessions: the scan for a free one before a *)
(* container is created, the container that binds it when it is started,   *)
(* the session entry that remembers it, and the address the terminal proxy *)
(* makes of the entry (lifecycle.provision, DockerBackend, _session_       *)
(* endpoint of api.py).                                                    *)
(*                                                                         *)
(* The lock covers the scan only: two creates may be told the same port,   *)
(* the daemon takes both containers and refuses to start the second.  A    *)
(* create that failed leaves its container and its entry behind.           *)
(***************************************************************************)
EXTENDS Naturals, FiniteSets

CONSTANTS
  Name,         \* session names
  Role,         \* roles; a container is named <role>-<name>
  DefaultRole,  \* settings.role
  Job,          \* requests, each made once
  FirstPort,    \* 7681
  Custom,       \* host ports callers ask for, bound besides the terminal's
  CustomFirst,  \* whether their container ports are listed before 7681/tcp
  MaxRestarts   \* bound on restarts of the hub

ASSUME PortsAssumption ==
  /\ DefaultRole \in Role /\ FirstPort \in Nat \ {0} /\ Custom \subseteq Nat \ {0}
  /\ CustomFirst \in BOOLEAN /\ "none" \notin Role

VARIABLES
  box,      \* the containers, by role and name
  entry,    \* _sessions: per name the role and the port
  job,      \* the requests under way
  restarts

portVars == <<box, entry, job, restarts>>

Box == Role \X Name
Port == FirstPort..(FirstPort + Cardinality(Job) + Cardinality(Custom))
NoBox == [state |-> "none", terminal |-> 0, custom |-> 0]
NoEntry == [role |-> "none", port |-> 0]
NotAsked == [does |-> "nothing", at |-> "start"]
Finished == [does |-> "nothing", at |-> "end"]

\* 0 stands for no custom port.
HostPorts(b) == {box[b].terminal, box[b].custom} \ {0}
Up == {b \in Box : box[b].state = "up"}
InUse == UNION {HostPorts(b) : b \in Up}

\* docker lists published ports in the order of the containers' ports
FirstListed(b) == IF CustomFirst /\ box[b].custom # 0 THEN box[b].custom ELSE box[b].terminal

PortsInit ==
  /\ box = [b \in Box |-> NoBox] /\ entry = [n \in Name |-> NoEntry]
  /\ job = [j \in Job |-> NotAsked] /\ restarts = 0

JobGoes(j, at) == job' = [job EXCEPT ![j].at = at]
JobEnds(j) == job' = [job EXCEPT ![j] = Finished]
JobAt(j, does, at) == job[j].does \in does /\ job[j].at = at
Mine(j) == <<job[j].role, job[j].name>>

-----------------------------------------------------------------------------
(* provision *)

\* POST /api/create with a role, or /api/start with the name of a container,
\* whose session gets a container of the default role
Asked(j, n, r, custom) ==
  /\ job[j] = NotAsked
  /\ \/ job' = [job EXCEPT ![j] = [does |-> "create", at |-> "scan", name |-> n, role |-> r, old |-> r,
                                   port |-> 0, custom |-> custom]]
     \/ /\ custom = 0
        /\ job' = [job EXCEPT ![j] = [does |-> "start", at |-> "scan", name |-> n, role |-> DefaultRole,
                                      old |-> r, port |-> 0, custom |-> 0]]
  /\ UNCHANGED <<box, entry, restarts>>

FirstFree == CHOOSE p \in Port \ InUse : \A q \in Port \ InUse : p <= q

\* _find_available_port under _port_lock: what running containers bind.  If
\* docker cannot be asked it is the first port.
Scans(j) ==
  /\ JobAt(j, {"create", "start"}, "scan")
  /\ \E p \in {FirstFree, FirstPort} :
       job' = [job EXCEPT ![j].at = "clear", ![j].port = p]
  /\ UNCHANGED <<box, entry, restarts>>

\* DockerBackend.provision: a container of that name is removed ...
Clears(j) ==
  /\ JobAt(j, {"create", "start"}, "clear") /\ JobGoes(j, "make")
  /\ box' = [box EXCEPT ![Mine(j)] = NoBox]
  /\ UNCHANGED <<entry, restarts>>

\* ... and one created, unless another request has been faster; the entry of
\* the session is put in as the call returns.
Makes_EntersFirst(j) ==    \* mutant: the entry is there before the container has its name
  /\ JobAt(j, {"create", "start"}, "make") /\ JobGoes(j, "run")
  /\ box' = [box EXCEPT ![Mine(j)] = IF @ = NoBox THEN [state |-> "made", terminal |-> job[j].port, custom |-> job[j].custom] ELSE @]
  /\ entry' = [entry EXCEPT ![job[j].name] = [role |-> job[j].role, port |-> job[j].port]]
  /\ UNCHANGED restarts

Makes(j) ==
  /\ JobAt(j, {"create", "start"}, "make") /\ box[Mine(j)] = NoBox
  /\ box' = [box EXCEPT ![Mine(j)] = [state |-> "made", terminal |-> job[j].port, custom |-> job[j].custom]]
  /\ entry' = [entry EXCEPT ![job[j].name] = [role |-> job[j].role, port |-> job[j].port]]
  /\ JobGoes(j, "run") /\ UNCHANGED restarts

\* docker binds the ports as it starts a container
CanStart(b) == box[b].state = "made" /\ HostPorts(b) \cap InUse = {}
                 /\ box[b].terminal # box[b].custom
Start(b) == box' = [box EXCEPT ![b].state = "up"]

\* DockerBackend.start: the container of that name, whoever made it
Runs(j) ==
  /\ JobAt(j, {"create", "start"}, "run") /\ JobEnds(j)
  /\ \/ box[Mine(j)].state = "up" /\ UNCHANGED box
     \/ CanStart(Mine(j)) /\ Start(Mine(j))
  /\ UNCHANGED <<entry, restarts>>

\* What /api/start does when the pipeline has raised: it starts the container
\* it was given the name of.
FallsBack(j) ==
  LET b == <<job[j].old, job[j].name>>
  IN  IF job[j].does = "start" /\ CanStart(b) THEN Start(b) ELSE UNCHANGED box

\* The image is not there, or cosign is enforced and does not verify it.
Refused(j) ==
  /\ JobAt(j, {"create", "start"}, "clear") /\ JobEnds(j) /\ FallsBack(j)
  /\ UNCHANGED <<entry, restarts>>

\* docker raises, or configuring does; the container stays as it is.
Raises(j) ==
  /\ job[j].does \in {"create", "start"} /\ job[j].at \in {"make", "run"}
  /\ JobEnds(j) /\ FallsBack(j)
  /\ UNCHANGED <<entry, restarts>>

-----------------------------------------------------------------------------
(* Deletion, and the hub's restart *)

\* recycle: the container of the entry it finds is stopped and removed, either
\* of which may fail, and then whatever entry there is
Deleted(j, n) ==
  /\ job[j] = NotAsked
  /\ job' = [job EXCEPT ![j] = [does |-> "delete", at |-> IF entry[n] = NoEntry THEN "pop" ELSE "stop",
                                name |-> n, role |-> entry[n].role, old |-> entry[n].role,
                                port |-> 0, custom |-> 0]]
  /\ UNCHANGED <<box, entry, restarts>>

Removes(j) ==
  /\ JobAt(j, {"delete"}, "stop") /\ JobGoes(j, "pop")
  /\ box' \in {box, [box EXCEPT ![Mine(j)] = NoBox],
               [box EXCEPT ![Mine(j)].state = IF @ = "up" THEN "made" ELSE @]}
  /\ UNCHANGED <<entry, restarts>>

PopsEntry(j) ==
  /\ JobAt(j, {"delete"}, "pop") /\ JobEnds(j)
  /\ entry' = [entry EXCEPT ![job[j].name] = NoEntry]
  /\ UNCHANGED <<box, restarts>>

\* recover_sessions_from_docker: the first of the running containers of a name,
\* with the first port it lists
Recovered(n) ==
  LET of == {r \in Role : <<r, n>> \in Up}
  IN  IF of = {} THEN {NoEntry} ELSE {[role |-> r, port |-> FirstListed(<<r, n>>)] : r \in of}

HubRestarts ==
  /\ restarts < MaxRestarts /\ restarts' = restarts + 1
  /\ \E e \in [Name -> UNION {Recovered(n) : n \in Name}] :
       /\ \A n \in Name : e[n] \in Recovered(n)
       /\ entry' \in {e, [n \in Name |-> NoEntry]}    \* nothing if docker cannot be asked
  /\ job' = [j \in Job |-> IF job[j] = NotAsked THEN NotAsked ELSE Finished]
  /\ UNCHANGED box

-----------------------------------------------------------------------------
PortsNext ==
  \/ \E j \in Job, n \in Name, r \in Role, c \in Custom \cup {0} : Asked(j, n, r, c)
  \/ \E j \in Job :
       \/ Scans(j) \/ Clears(j) \/ Refused(j) \/ Makes(j) \/ Runs(j) \/ Raises(j)
       \/ Removes(j) \/ PopsEntry(j)
       \/ \E n \in Name : Deleted(j, n)
  \/ HubRestarts

PortsSpec == PortsInit /\ [][PortsNext]_portVars

-----------------------------------------------------------------------------
(* Properties *)

\* _session_endpoint, of a session the hub has an entry of
Endpoint(n) == entry[n].port

(* The terminal proxy finds a running session: while the container runs     *)
(* that the entry of a session is about, the port of the entry is the one   *)
(* the container's own terminal is bound to, however creates of one name,   *)
(* deletions and restarts of the hub follow and overtake each other.        *)
AddressIsOwn ==
  \A n \in Name : LET b == <<entry[n].role, n>> IN b \in Up => Endpoint(n) = box[b].terminal
=============================================================================
