------------------------------- MODULE Gateway ------------------------------
(***************************************************************************)
(* The MCP gateway of one profile: agents' tokens and the residency policy *)
(* before the pool of connections.  A request is verified, its identity is *)
(* read and it is checked; then it goes to the pool, where a connection    *)
(* may still have the destinations of older credentials.                   *)
(***************************************************************************)
EXTENDS GatewayPool, TrustPolicy

CONSTANT Env       \* profile envs: server -> the hosts its variables name

ASSUME GatewayAssumption == Catalog = Server /\ Env \subseteq [Server -> SUBSET Host]

VARIABLES
    envs,          \* the stored env as of each edit, from 0
    token,         \* caller -> the token it presents
    request        \* caller -> what was decided when its request was checked

gatewayVars == <<poolVars, policyVars, envs, token, request>>

NoToken == [valid |-> FALSE, ceiling |-> Unset, scope |-> {}]
NoRequest == [pc |-> "none", todo |-> {}, edits |-> 0, closing |-> FALSE, lapsed |-> FALSE, may |-> {}]

GatewayTypeOK ==
    /\ PoolTypeOK /\ PolicyTypeOK
    /\ envs \in [0..MaxEdits -> Env]
    /\ token \in [Caller -> [valid : BOOLEAN, ceiling : Zone \cup {Unset}, scope : SUBSET Server]]
    /\ request \in [Caller ->
         [pc : {"none", "verified", "checked"}, todo : SUBSET Server, edits : 0..MaxEdits,
          closing : BOOLEAN, lapsed : BOOLEAN, may : SUBSET Host]]

GatewayInit ==
    /\ PoolInit /\ PolicyInit
    /\ \E e \in Env : envs = [n \in 0..MaxEdits |-> e]
    /\ token = [c \in Caller |-> NoToken]
    /\ request = [c \in Caller |-> NoRequest]
-----------------------------------------------------------------------------
(* Tokens.  An empty scope is every tool.                                  *)

MintToken(c, ceiling, scope) ==
    /\ ~token[c].valid /\ request[c].pc = "none"
    /\ token' = [token EXCEPT ![c] = [valid |-> TRUE, ceiling |-> ceiling, scope |-> scope]]
    /\ UNCHANGED <<poolVars, policyVars, envs, request>>

\* A session is given a token of the profile's default ceiling, while a server is on.
SessionCeiling == IF CeilingForProfile = PUBLIC THEN Unset ELSE CeilingForProfile
MintSessionToken(c) == enabled # {} /\ MintToken(c, SessionCeiling, {})

\* Revoked, or past its expiry.
TokenLapses(c) ==
    /\ token[c].valid
    /\ token' = [token EXCEPT ![c].valid = FALSE]
    /\ UNCHANGED <<poolVars, policyVars, envs, request>>
-----------------------------------------------------------------------------
(* A request: the transport verifies the bearer, the handler reads its     *)
(* identity and checks it; to the first server it goes without suspending. *)

Verify(c) ==
    /\ request[c].pc = "none" /\ caller[c].pc = "idle" /\ token[c].valid
    /\ request' = [request EXCEPT ![c].pc = "verified"]
    /\ UNCHANGED <<poolVars, policyVars, envs, token>>

\* A token that has lapsed since has no ceiling any more.
IdentityCeiling(c) == IF token[c].valid THEN token[c].ceiling ELSE Unset

InScope(c, s) == token[c].scope = {} \/ s \in token[c].scope
WithinResidency(c, s) ==
    IdentityCeiling(c) # Unset => Within(ServerZone(s, envs[edits][s]), IdentityCeiling(c))

Reachable(c) == {s \in enabled : Effective(s, envs[edits][s]) /\ WithinResidency(c, s)}
Admitted(c) == {s \in Reachable(c) : InScope(c, s)}

\* The hosts that the token's ceiling, and the profile's where no override
\* speaks, let a server be sent to: what was decided, kept for the properties.
Trusted(c) == {h \in Host : token[c].ceiling # Unset => ZoneOf(h) <= token[c].ceiling}

Checked(c, rest) ==
    request' = [request EXCEPT ![c] =
        [pc |-> "checked", todo |-> rest, edits |-> edits, lapsed |-> ~token[c].valid, may |-> Trusted(c),
         closing |-> \E e \in Editor : editor[e].pc = "closing"]]

Forwards(c, s) == CallCached(c, s) \/ CallConnects(c, s)

\* A listing leaves out a server that failed recently.
Skips(s) == s \in failed /\ cached[s] = 0 /\ UNCHANGED poolVars

CallTool(c, s) ==
    /\ request[c].pc = "verified" /\ s \in Admitted(c)
    /\ Forwards(c, s)
    /\ Checked(c, {})
    /\ UNCHANGED <<policyVars, envs, token>>

\* list_gateway_tools checks all servers first and asks them one by one; the scope only
\* takes tools out of what they answer.
ListTools(c) ==
    /\ request[c].pc = "verified"
    /\ IF Reachable(c) = {} THEN request' = [request EXCEPT ![c] = NoRequest] /\ UNCHANGED poolVars
       ELSE \E s \in Reachable(c) :
               /\ Skips(s) \/ Forwards(c, s)
               /\ Checked(c, Reachable(c) \ {s})
    /\ UNCHANGED <<policyVars, envs, token>>

ListsNext(c, s) ==
    /\ request[c].pc = "checked" /\ caller[c].pc = "idle" /\ s \in request[c].todo
    /\ Skips(s) \/ Forwards(c, s)
    /\ request' = [request EXCEPT ![c].todo = @ \ {s}]
    /\ UNCHANGED <<policyVars, envs, token>>

\* Answered, refused by a check, by a negative-cache entry or by a 401.
Ends(c) ==
    /\ request[c].pc # "none" /\ caller[c].pc = "idle" /\ request[c].todo = {}
    /\ request' = [request EXCEPT ![c] = NoRequest]
    /\ UNCHANGED <<poolVars, policyVars, envs, token>>

\* The client goes away.
Cancels(c) ==
    /\ request[c].pc # "none" /\ CancelCall(c)
    /\ request' = [request EXCEPT ![c] = NoRequest]
    /\ UNCHANGED <<policyVars, envs, token>>
-----------------------------------------------------------------------------
\* The env is replaced, or deleted, and the profile's pool is closed.
PutEnv(env) ==
    /\ StoreEdit
    /\ envs' = [n \in 0..MaxEdits |-> IF n > edits THEN env ELSE envs[n]]
    /\ UNCHANGED <<policyVars, token, request>>

PoolRuns ==
    /\ \/ \E c \in Caller : CallerStep(c)
       \/ \E s \in Server : FailureExpires(s)
       \/ \E n \in Conn : OwnerStep(n) \/ OrphanStarts(n) \/ TransportFails(n)
       \/ \E e \in Editor : EditorStep(e)
    /\ UNCHANGED <<policyVars, envs, token, request>>

GatewayNext ==
    \/ \E c \in Caller, z \in Zone \cup {Unset}, scope \in SUBSET Server : MintToken(c, z, scope)
    \/ \E c \in Caller : \/ MintSessionToken(c) \/ TokenLapses(c) \/ Verify(c)
                         \/ ListTools(c) \/ Ends(c) \/ Cancels(c)
    \/ \E c \in Caller, s \in Server : CallTool(c, s) \/ ListsNext(c, s)
    \/ \E env \in Env : PutEnv(env)
    \/ PoolRuns
    \/ PolicyNext /\ UNCHANGED <<poolVars, envs, token, request>>

GatewaySpec == GatewayInit /\ [][GatewayNext]_gatewayVars
-----------------------------------------------------------------------------
\* The request met an edit of the credentials: stored since it was checked, still
\* evicting when it was, or stored while the connection was being started.
Raced(c, n) ==
    \/ request[c].edits # edits \/ request[c].closing
    \/ \E e \in Editor : n \in editor[e].racing

\* No data above the ceiling: a request that a server is working on goes to
\* hosts that the token's ceiling allowed when it was checked - unless it met
\* an edit of the credentials, or its token lapsed between verify and check.
ResidencyKept == \A n \in Conn : LET c == conn[n].serving IN
    conn[n].pc = "serving" /\ c \in Caller =>
        \/ envs[conn[n].env][conn[n].server] \subseteq request[c].may
        \/ Raced(c, n) \/ request[c].lapsed
=============================================================================
