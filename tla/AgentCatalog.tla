---------------------------- MODULE AgentCatalog ----------------------------
(***************************************************************************)
(* The agent definitions of registry.py: what the hub has in memory        *)
(* (_agents, _role_prompts) and the files it is loaded from at the next    *)
(* start, <name>.json and roles/<name>.md under the agents directory.      *)
(*                                                                         *)
(* The routes call create_agent, update_agent and delete_agent on the      *)
(* event loop, so no two of them interleave; but each writes one file      *)
(* after the other and the memory last, a write truncates the file before  *)
(* it fills it, and it may fail or the process may end in between.         *)
(*                                                                         *)
(* Every file that names an agent bears that agent's name, as the four     *)
(* that are shipped do.  An empty image is no image to load_agents, and    *)
(* update_agent patches its copy without validating it, so the settings a  *)
(* caller may give are not all settings that can be loaded again.          *)
(***************************************************************************)
EXTENDS Naturals, FiniteSets

CONSTANTS
  Agent,       \* names of agents
  Builtin,     \* _BUILTIN_AGENTS
  Setting,     \* values of image, spawn_mode, claude_effort and the like
  Wellformed,  \* those the model AgentDefinition accepts
  Loadable,    \* those of them with an image, which load_agents asks for
  Prompt,      \* contents of role prompts
  MaxCalls,    \* bound on calls
  MaxMishaps   \* bound on failed writes and crashes

ASSUME CatalogAssumption ==
  /\ Builtin \subseteq Agent /\ Loadable \subseteq Wellformed /\ Wellformed \subseteq Setting
  /\ {"none", "torn"} \cap Setting = {} /\ {"none", "", "cut"} \cap Prompt = {}

VARIABLES
  definition,  \* <name>.json: a definition, Unknown (no file) or Torn
  role,        \* roles/<name>.md: "none", "cut" (truncated) or a prompt
  agents,      \* _agents
  prompts,     \* _role_prompts
  call,        \* the call under way
  acked,       \* per agent what the calls that were answered with success add up to
  doubt,       \* agents a call has failed on, or was cut off, since the last load
  calls, mishaps

catalogVars == <<definition, role, agents, prompts, call, acked, doubt, calls, mishaps>>

Definition == [setting : Setting, prompted : BOOLEAN]
NotOne(why) == [setting |-> why, prompted |-> FALSE]
Unknown == NotOne("none")
Torn == NotOne("torn")
Idle == [does |-> "idle"]

\* load_agents on what is on disk of one agent
Loads(n) ==
  IF definition[n].setting \in Loadable THEN definition[n] ELSE Unknown
LoadsPrompt(n) == IF Loads(n) # Unknown /\ Loads(n).prompted THEN role[n] ELSE "none"
Loaded(n) == <<Loads(n), LoadsPrompt(n)>>

CatalogInit ==
  /\ definition \in [Agent -> {Unknown} \cup [setting : Loadable, prompted : {TRUE}]]
  /\ \A n \in Agent : definition[n] # Unknown <=> n \in Builtin
  /\ role \in [Agent -> {"none"} \cup Prompt]
  /\ \A n \in Agent : role[n] # "none" <=> n \in Builtin
  /\ agents = [n \in Agent |-> Loads(n)] /\ prompts = [n \in Agent |-> LoadsPrompt(n)]
  /\ call = Idle /\ acked = [n \in Agent |-> Loaded(n)] /\ doubt = {}
  /\ calls = 0 /\ mishaps = 0

-----------------------------------------------------------------------------
Asks(n, does, wanted, prompt) ==
  /\ call = Idle /\ calls < MaxCalls /\ calls' = calls + 1
  /\ call' = [does |-> does, name |-> n, wanted |-> wanted, prompt |-> prompt, at |-> "prompt"]
  /\ UNCHANGED <<definition, role, agents, prompts, acked, doubt, mishaps>>

\* prompt is "none" for no content
Creates(n, s, p) ==
  /\ agents[n] = Unknown /\ s \in Wellformed
  /\ Asks(n, "create", [setting |-> s, prompted |-> p # "none"], p)

\* prompt is "none" to leave it and "" to clear it
Updates(n, s, p) ==
  /\ agents[n] # Unknown
  /\ Asks(n, "update",
          [setting |-> s, prompted |-> IF p = "none" THEN agents[n].prompted ELSE p # ""], p)

Deletes(n) ==
  /\ n \notin Builtin /\ agents[n] # Unknown
  /\ Asks(n, "delete", agents[n], "none")

At(does, at) == call # Idle /\ call.does \in does /\ call.at = at
Goes(at) == call' = [call EXCEPT !.at = at]

-----------------------------------------------------------------------------
(* create and update: the prompt, then the definition, then the memory *)

\* What the prompt's step does to roles/<name>.md; update_agent clears the one
\* its agent has.
RoleWritten ==
  CASE call.prompt = "none" -> role[call.name]
    [] call.prompt = "" -> IF agents[call.name].prompted THEN "none" ELSE role[call.name]
    [] OTHER -> call.prompt

\* update_agent has the prompt in memory at once, create_agent at the end.
Remembered ==
  IF call.prompt = "none" THEN prompts[call.name] ELSE IF call.prompt = "" THEN "none" ELSE call.prompt

WritesPrompt ==
  /\ At({"create", "update"}, "prompt") /\ Goes("definition")
  /\ role' = [role EXCEPT ![call.name] = RoleWritten]
  /\ prompts' = IF call.does = "update" THEN [prompts EXCEPT ![call.name] = Remembered] ELSE prompts
  /\ UNCHANGED <<definition, agents, acked, doubt, calls, mishaps>>

WritesDefinition_Patch ==    \* mutant: writes what it has, not what it has made of it
  /\ At({"create", "update"}, "definition") /\ Goes("memory")
  /\ definition' = [definition EXCEPT ![call.name] = IF agents[call.name] = Unknown THEN call.wanted ELSE agents[call.name]]
  /\ UNCHANGED <<role, agents, prompts, acked, doubt, calls, mishaps>>

WritesDefinition ==
  /\ At({"create", "update"}, "definition") /\ Goes("memory")
  /\ definition' = [definition EXCEPT ![call.name] = call.wanted]
  /\ UNCHANGED <<role, agents, prompts, acked, doubt, calls, mishaps>>

(* delete: the definition, then the prompt, then the memory *)

UnlinksDefinition ==
  /\ At({"delete"}, "prompt") /\ Goes("role")
  /\ definition' = [definition EXCEPT ![call.name] = Unknown]
  /\ UNCHANGED <<role, agents, prompts, acked, doubt, calls, mishaps>>

UnlinksPrompt ==
  /\ At({"delete"}, "role") /\ Goes("memory")
  /\ role' = [role EXCEPT ![call.name] = "none"]
  /\ UNCHANGED <<definition, agents, prompts, acked, doubt, calls, mishaps>>

\* The last of it is in memory and in the answer.  An answer settles the
\* definition, and the prompt unless it was left as it is.
Answers ==
  LET n == call.name
      kept == IF call.does = "delete" THEN Unknown ELSE call.wanted
  IN  /\ At({"create", "update", "delete"}, "memory") /\ call' = Idle
      /\ agents' = [agents EXCEPT ![n] = kept]
      /\ prompts' = [prompts EXCEPT ![n] = IF kept = Unknown THEN "none" ELSE Remembered]
      /\ acked' = [acked EXCEPT ![n] = <<kept, IF kept = Unknown THEN "none" ELSE Remembered>>]
      /\ doubt' = IF call.does # "update" \/ call.prompt # "none" THEN doubt \ {n} ELSE doubt
      /\ UNCHANGED <<definition, role, calls, mishaps>>

-----------------------------------------------------------------------------
(* Writes that fail, and the end of the process *)

\* The file the call is at: as it was, or truncated.
Tears ==
  /\ role' \in {role} \cup (IF At({"create", "update"}, "prompt") /\ call.prompt \notin {"none", ""}
                            THEN {[role EXCEPT ![call.name] = "cut"]} ELSE {})
  /\ definition' \in {definition} \cup (IF At({"create", "update"}, "definition")
                                        THEN {[definition EXCEPT ![call.name] = Torn]} ELSE {})

\* An OSError of a write, an unlink or create's chmod ends the call.
Fails ==
  /\ call # Idle /\ mishaps < MaxMishaps /\ mishaps' = mishaps + 1
  /\ call.at = "memory" => call.does = "create"
  /\ call.at = "prompt" => call.does = "delete" \/ call.prompt # "none"
  /\ Tears /\ call' = Idle /\ doubt' = doubt \cup {call.name}
  /\ UNCHANGED <<agents, prompts, acked, calls>>

\* The process ends and the next one loads what is on disk, which is how it is
\* from then on for the agents that were in doubt.
Restarts ==
  LET open == doubt \cup (IF call = Idle THEN {} ELSE {call.name})
  IN  /\ mishaps < MaxMishaps /\ mishaps' = mishaps + 1
      /\ Tears /\ call' = Idle /\ doubt' = {}
      /\ agents' = [n \in Agent |-> Loads(n)'] /\ prompts' = [n \in Agent |-> LoadsPrompt(n)']
      /\ acked' = [n \in Agent |-> IF n \in open THEN Loaded(n)' ELSE acked[n]]
      /\ UNCHANGED calls

CatalogNext ==
  \/ \E n \in Agent, s \in Setting, p \in Prompt \cup {"none"} : Creates(n, s, p)
  \/ \E n \in Agent, s \in Setting, p \in Prompt \cup {"none", ""} : Updates(n, s, p)
  \/ \E n \in Agent : Deletes(n)
  \/ WritesPrompt \/ WritesDefinition \/ UnlinksDefinition \/ UnlinksPrompt \/ Answers
  \/ Fails \/ Restarts

CatalogSpec == CatalogInit /\ [][CatalogNext]_catalogVars

CatalogTypeOK ==
  /\ definition \in [Agent -> {Unknown, Torn} \cup Definition]
  /\ role \in [Agent -> {"none", "cut"} \cup Prompt]
  /\ agents \in [Agent -> {Unknown} \cup Definition]
  /\ prompts \in [Agent -> {"none", "cut"} \cup Prompt]
  /\ doubt \subseteq Agent /\ calls \in 0..MaxCalls /\ mishaps \in 0..MaxMishaps

(* Whatever calls on other agents failed, and wherever the process ended:   *)
(* an agent no call failed on is, in memory and at the next start, what the *)
(* answered calls made it, and a deleted one stays deleted.                 *)
CatalogLasts ==
  call = Idle =>
    \A n \in Agent \ doubt : acked[n] = <<agents[n], prompts[n]>> /\ acked[n] = Loaded(n)
=============================================================================
