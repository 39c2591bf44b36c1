----------------------------- MODULE MCGateway ------------------------------
(***************************************************************************)
(* The gateway, the bundles it spawns servers with, the runner registry    *)
(* and the daemon's commands for TLC. They share no state: "part" says     *)
(* whose steps a behaviour has. In "policy" the operator's rules and the   *)
(* default ceiling take every value; in "requests" calls, edits of the env *)
(* and the pool run under the policies that matter to one server with two  *)
(* destinations.                                                           *)
(***************************************************************************)
EXTENDS Gateway, BundleCache, RunnerRegistry, Daemon, TLC

CONSTANTS Loop, Lan, Web, Star, Exact, GlobA, GlobB, TheServer

VARIABLE part

TheHosts == {Loop, Lan, Web}
ThePatterns == {Star, Exact, GlobA, GlobB}
TheCovers == (Star :> TheHosts) @@ (Exact :> {Loop}) @@ (GlobA :> {Lan}) @@ (GlobB :> {Lan, Web})
TheSpecificity == (Star :> 0) @@ (Exact :> 5) @@ (GlobA :> 2) @@ (GlobB :> 2)
TheOrder == <<Star, GlobA, GlobB, Exact>>
TheBase == <<[pattern |-> Exact, zone |-> 0], [pattern |-> Star, zone |-> 3]>>
TheHint == (TheServer :> 2)
\* A capability that every provider has is left out.
TheProviders == <<[host |-> Web, caps |-> {"vision"}], [host |-> Lan, caps |-> {}],
                  [host |-> Loop, caps |-> {"cheap"}]>>
TheCapabilities == {"cheap", "vision"}
TheEnvs == {(TheServer :> {}), (TheServer :> {Lan}), (TheServer :> {Lan, Web})}

otherVars == <<bundleVars, daemonVars>>
platformVars == <<gatewayVars, vars, otherVars, part>>

\* The LAN trusted or not, tokens of ceiling 1 or none.
FewPolicies ==
    /\ \A p \in Pattern : rules'[p] # Unset => p = GlobA /\ rules'[p] = 1
    /\ defaultCeiling' \in {Unset, 1}
    /\ override' = override
FewTokens == \A c \in Caller : token'[c].ceiling \in {Unset, 1} /\ token'[c].scope = {}

PlatformInit ==
    /\ GatewayInit /\ BundleInit /\ Init /\ DaemonInit
    /\ part \in {"policy", "requests", "bundle", "runners", "daemon"}
    /\ envs[0] = (TheServer :> {Lan, Web}) /\ (part # "requests" => enabled = {})

PlatformNext ==
    /\ UNCHANGED part
    /\ \/ /\ part = "policy" /\ UNCHANGED <<poolVars, override, enabled, envs, token, request, vars, otherVars>>
          /\ PolicyNext
       \/ part = "requests" /\ GatewayNext /\ FewPolicies /\ FewTokens /\ UNCHANGED <<vars, otherVars>>
       \/ part = "bundle" /\ BundleNext /\ UNCHANGED <<gatewayVars, vars, daemonVars>>
       \/ part = "runners" /\ Next /\ UNCHANGED <<gatewayVars, otherVars>>
       \/ part = "daemon" /\ DaemonNext /\ UNCHANGED <<gatewayVars, vars, bundleVars>>

PlatformSpec == PlatformInit /\ [][PlatformNext]_platformVars

Symmetric == Permutations(Item)

\* Of every policy: MostSpecificWins and PlansComply.
PolicyIsRight == part = "policy" => MostSpecificWins /\ PlansComply
=============================================================================
