----------------------------- MODULE UtmBackend -----------------------------
(***************************************************************************)
(* The UTM backend: virtual machines cloned from a template, one per       *)
(* session name.  A clone is found again through a forwarded SSH port, or  *)
(* through its MAC address: a session directory named after the MAC is     *)
(* written before the machine boots, the machine writes its IP there, and  *)
(* configure waits for it.                                                 *)
(***************************************************************************)
EXTENDS Naturals, FiniteSets

CONSTANTS
    Name,          \* session names with backend "utm"
    Mode,          \* the network of the templates, of {"nat", "bridged", "script", "plain"}
    Mac,           \* MAC addresses that can be generated
    TemplateMac,   \* the address written in the template
    BasePort,      \* settings.utm.ssh_base_port
    Published,     \* host ports of the running docker containers
    NoName

ASSUME UtmAssumption ==
    /\ Mode \subseteq {"nat", "bridged", "script", "plain"}
    /\ TemplateMac \notin Mac /\ "none" \notin Mac \cup {TemplateMac} /\ NoName \notin Name
    /\ BasePort \in Nat \ {0} /\ Published \subseteq Nat /\ IsFiniteSet(Published)

NoMac == "none"
Address == Mac \cup {TemplateMac, NoMac}
NoVm == [mode |-> "none", port |-> 0, mac |-> NoMac, runs |-> FALSE]

VARIABLES
    vm,            \* the .utm packages and whether they run
    session,       \* the pipelines: step, port found, MAC and machine reached
    fresh,         \* addresses not generated so far
    dirs,          \* session directories in the share
    ipfile         \* MAC -> the machine that wrote its IP there

utmVars == <<vm, session, fresh, dirs, ipfile>>

UtmTypeOK ==
    /\ vm \in [Name -> [mode : Mode \cup {"none"}, port : Nat, mac : Address, runs : BOOLEAN]]
    /\ session \in [Name -> [pc : {"idle", "scanned", "cloned", "written", "waiting", "ready",
                                   "up", "failed"},
                             port : Nat, mac : Address, reached : Name \cup {NoName}]]
    /\ fresh \subseteq Mac /\ dirs \subseteq Address
    /\ ipfile \in [Address -> Name \cup {NoName}]

NoSession == [pc |-> "idle", port |-> 0, mac |-> NoMac, reached |-> NoName]

UtmInit ==
    /\ vm = [n \in Name |-> NoVm]
    /\ session = [n \in Name |-> NoSession]
    /\ fresh = Mac /\ dirs = {}
    /\ ipfile = [a \in Address |-> NoName]

-----------------------------------------------------------------------------
\* _find_available_ssh_port reads config["Qemu"]["Network"]["PortForward"] of every clone,
\* and the clones have their forwards in config["Network"][0]: only docker's ports are seen
Taken == Published
FreePort == CHOOSE x \in BasePort..(BasePort + Cardinality(Taken)) :
                x \notin Taken /\ BasePort..(x - 1) \subseteq Taken

\* utmctl stop and delete, whose failures nobody looks at: the machine may stay, and may run on
Deleted(n) == {[vm EXCEPT ![n] = NoVm], [vm EXCEPT ![n].runs = FALSE], vm}

\* provision: an existing machine of that name goes (its session directory stays), then the scan
Scans(n) ==
    /\ session[n].pc \in {"idle", "up", "failed"}
    /\ vm' \in Deleted(n)
    /\ session' = [session EXCEPT ![n] = [NoSession EXCEPT !.pc = "scanned", !.port = FreePort]]
    /\ UNCHANGED <<fresh, dirs, ipfile>>

\* the address a clone gets: drawn by AppleScript or by us, none behind a forwarded port, and
\* the template's own for an Apple machine when mcp_utm is not installed
MacFor_Template(mode, a) == IF mode = "nat" THEN NoMac ELSE TemplateMac    \* mutant: never drawn anew
MacFor(mode, a) == CASE mode = "nat" -> NoMac [] mode = "plain" -> TemplateMac [] OTHER -> a

\* UTM makes no second package of a name
Clones(n) ==
    /\ session[n].pc = "scanned" /\ vm[n] = NoVm
    /\ \E mode \in Mode, a \in fresh :
          /\ fresh' = IF mode \in {"bridged", "script"} THEN fresh \ {a} ELSE fresh
          /\ vm' = [vm EXCEPT ![n] = [mode |-> mode, mac |-> MacFor(mode, a), runs |-> FALSE,
                                      port |-> IF mode = "nat" THEN session[n].port ELSE 0]]
          /\ session' = [session EXCEPT ![n].pc = "cloned", ![n].mac = MacFor(mode, a)]
    /\ UNCHANGED <<dirs, ipfile>>

Reset(a) == [ipfile EXCEPT ![a] = NoName]

\* the session directory is written, and an ip file of an earlier machine removed
WritesDir(n) ==
    /\ session[n].pc = "cloned"
    /\ LET a == session[n].mac
       IN IF a = NoMac THEN UNCHANGED <<dirs, ipfile>>
          ELSE dirs' = dirs \cup {a} /\ ipfile' = Reset(a)
    /\ session' = [session EXCEPT ![n].pc = "written"]
    /\ UNCHANGED <<vm, fresh>>

\* configure boots the machine; two machines cannot forward the same host port
PortFree(n) == \A m \in Name \ {n} : vm[m].runs /\ vm[m].mode = "nat" => vm[m].port # vm[n].port

Boots(n) ==
    /\ session[n].pc = "written" /\ vm[n] # NoVm
    /\ vm[n].mode = "nat" => PortFree(n)
    /\ vm' = [vm EXCEPT ![n].runs = TRUE]
    /\ session' = [session EXCEPT ![n].pc = "waiting"]
    /\ UNCHANGED <<fresh, dirs, ipfile>>

\* init.sh in the guest writes the IP into the directory of its MAC
GuestReports(n) ==
    /\ vm[n].runs /\ vm[n].mac \in dirs
    /\ ipfile' = [ipfile EXCEPT ![vm[n].mac] = n]
    /\ UNCHANGED <<vm, session, fresh, dirs>>

\* a QEMU machine is asked by name through its guest agent, whatever its network; an Apple
\* machine is looked for through the ip file, then in the ARP table
Candidates(n) ==
    LET a == session[n].mac
    IN IF a = NoMac \/ vm[n].mode = "bridged" THEN {n} \cap {m \in Name : vm[m].runs}
       ELSE {m \in Name : ipfile[a] = m \/ (vm[m].runs /\ vm[m].mac = a)}

Reaches(n) ==
    /\ session[n].pc = "waiting"
    /\ \E m \in Candidates(n) :
          session' = [session EXCEPT ![n].pc = "ready", ![n].reached = m]
    /\ UNCHANGED <<vm, fresh, dirs, ipfile>>

StartsAgent(n) ==
    /\ session[n].pc = "ready"
    /\ session' = [session EXCEPT ![n].pc = "up"]
    /\ UNCHANGED <<vm, fresh, dirs, ipfile>>

\* utmctl, ssh or the waiting time fails: what was made stays
UtmFails(n) ==
    /\ session[n].pc \in {"scanned", "cloned", "written", "waiting", "ready"}
    /\ session' = [session EXCEPT ![n].pc = "failed"]
    /\ UNCHANGED <<vm, fresh, dirs, ipfile>>

\* stop and remove, for a session that is listed
Removes(n) ==
    /\ session[n].pc \in {"written", "waiting", "ready", "up", "failed"}
    /\ vm' \in Deleted(n)
    /\ dirs' = dirs \ {session[n].mac}
    /\ ipfile' = [ipfile EXCEPT ![session[n].mac] = NoName]
    /\ session' = [session EXCEPT ![n].pc = IF @ = "up" THEN "idle" ELSE @]
    /\ UNCHANGED fresh

UtmNext == \E n \in Name :
    \/ Scans(n) \/ Clones(n) \/ WritesDir(n) \/ Boots(n) \/ GuestReports(n)
    \/ Reaches(n) \/ StartsAgent(n) \/ UtmFails(n) \/ Removes(n)

UtmSpec == UtmInit /\ [][UtmNext]_utmVars

-----------------------------------------------------------------------------
(* The machine a session is configured through is its own, whatever became *)
(* of the machines before it and next to it, those included that could not *)
(* be deleted (addresses drawn anew).                                      *)
ReachesOwnVm == \A n \in Name : session[n].reached \in {n, NoName}

(* The port a scan finds is available: no other clone forwards it.  The    *)
(* scan looks where provision writes nothing: no run checks it.             *)
PortIsAvailable ==
    [][\A n, m \in Name :
          n # m /\ session[n].pc # "scanned" /\ session'[n].pc = "scanned" /\ vm[m].mode = "nat"
              => session'[n].port # vm[m].port]_utmVars
=============================================================================
