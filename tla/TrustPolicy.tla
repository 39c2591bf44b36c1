----------------------------- MODULE TrustPolicy ----------------------------
(***************************************************************************)
(* Where the data of one workspace profile may go.  The operator's rules   *)
(* place destinations in trust zones; a server's zone is that of its least *)
(* trusted destination; tokens and declared steps carry a ceiling, and an  *)
(* override of the operator's switches a server on or off.                 *)
(***************************************************************************)
EXTENDS Integers, FiniteSets, Sequences

CONSTANTS
    Host,          \* destinations
    Pattern,       \* the patterns rules may have
    Covers,        \* pattern -> the hosts its glob matches
    Specificity,   \* pattern -> rank of _specificity: exact, literals, catch-all
    Alphabetic,    \* the patterns in the order of their text
    BaseRules,     \* default_trust_map: a sequence of [pattern, zone]
    Catalog, Hint, \* catalog servers, and their curated zones
    Provider,      \* a sequence, in the order of names, of [host, caps]
    Capability,
    GlobalCeiling, \* settings.orchestration.default_ceiling
    Unset

Zone == 0..3       \* LOCAL < INFRA < VENDOR < PUBLIC
PUBLIC == 3

ASSUME PolicyAssumption ==
    /\ Covers \in [Pattern -> SUBSET Host] /\ Specificity \in [Pattern -> Nat]
    /\ BaseRules \in Seq([pattern : Pattern, zone : Zone])
    /\ Alphabetic \in Seq(Pattern) /\ \A p \in Pattern : \E i \in DOMAIN Alphabetic : Alphabetic[i] = p
    /\ Provider \in Seq([host : Host, caps : SUBSET Capability]) /\ IsFiniteSet(Capability)
    /\ Hint \in [Catalog -> Zone] /\ GlobalCeiling \in Zone
    /\ Unset \notin Zone /\ Unset \notin BOOLEAN

VARIABLES
    rules,         \* the profile's rows: pattern -> zone or Unset
    defaultCeiling,\* trust_profile_config: a zone, or Unset
    override,      \* profile_server_override: server -> TRUE, FALSE or Unset
    enabled        \* gateway_servers: the servers that are on

policyVars == <<rules, defaultCeiling, override, enabled>>

PolicyTypeOK ==
    /\ rules \in [Pattern -> Zone \cup {Unset}]
    /\ defaultCeiling \in Zone \cup {Unset}
    /\ override \in [Catalog -> BOOLEAN \cup {Unset}]
    /\ enabled \subseteq Catalog

PolicyInit ==
    /\ rules = [p \in Pattern |-> Unset] /\ defaultCeiling = Unset
    /\ override = [s \in Catalog |-> Unset]
    /\ enabled \in SUBSET Catalog
-----------------------------------------------------------------------------
(* Classification.                                                         *)

\* The profile's rows by text; a pattern without a row is passed over.
ProfileRules ==
    [i \in 1..Len(Alphabetic) |-> [pattern |-> Alphabetic[i], zone |-> rules[Alphabetic[i]]]]

MapForProfile == BaseRules \o ProfileRules

Matches(r, h) == r.zone # Unset /\ h \in Covers[r.pattern]

BetterOf_Earlier(h, best, r) ==    \* mutant: a rule must be strictly more specific
    IF Matches(r, h) /\ Specificity[r.pattern] > best.score
    THEN [score |-> Specificity[r.pattern], zone |-> r.zone] ELSE best
BetterOf(h, best, r) ==
    IF Matches(r, h) /\ Specificity[r.pattern] >= best.score
    THEN [score |-> Specificity[r.pattern], zone |-> r.zone] ELSE best

\* The best rule so far, rule by rule in the order of the map.
ZoneOf(h) ==
    LET map == MapForProfile
        best[i \in 0..Len(map)] == IF i = 0 THEN [score |-> -1, zone |-> PUBLIC]
                                   ELSE BetterOf(h, best[i - 1], map[i])
    IN  best[Len(map)].zone

Within(zone, ceiling) == zone <= ceiling

CeilingForProfile == IF defaultCeiling = Unset THEN GlobalCeiling ELSE defaultCeiling

\* hosts: the destinations the server's own variables name in the profile's env.
ServerZone(s, hosts) ==
    IF hosts = {} THEN Hint[s]
    ELSE CHOOSE z \in {ZoneOf(h) : h \in hosts} : \A h \in hosts : ZoneOf(h) <= z

Effective(s, hosts) ==
    IF override[s] = Unset THEN Within(ServerZone(s, hosts), CeilingForProfile) ELSE override[s]
-----------------------------------------------------------------------------
(* Plans: a declared step is compiled to a provider within its ceiling.    *)

ProviderResources ==
    [i \in 1..Len(Provider) |-> [zone |-> ZoneOf(Provider[i].host), caps |-> Provider[i].caps]]

IsEligible(resource, req) ==
    Within(resource.zone, req.ceiling) /\ req.requires \subseteq resource.caps

RankKey(resource, req) ==
    <<-Cardinality(req.prefers \cap resource.caps), resource.zone>>

\* The first of the least keys; candidates are in the order of their names.
Blocked == 0
Resolve(candidates, req) ==
    LET eligible == {i \in 1..Len(candidates) : IsEligible(candidates[i], req)}
        key(i) == RankKey(candidates[i], req)
        Before(i, j) == \/ key(i)[1] < key(j)[1]
                        \/ key(i)[1] = key(j)[1] /\ key(i)[2] < key(j)[2]
                        \/ key(i) = key(j) /\ i <= j
    IN  IF eligible = {} THEN Blocked
        ELSE CHOOSE i \in eligible : \A j \in eligible : Before(i, j)

\* residency Unset: the step takes the profile's default ceiling.
CompileStep(candidates, residency, requires, prefers) ==
    Resolve(candidates, [ceiling |-> IF residency = Unset THEN CeilingForProfile ELSE residency,
                         requires |-> requires, prefers |-> prefers])
-----------------------------------------------------------------------------
(* What the operator may set.                                              *)

SetRule(p, z) ==
    /\ rules' = [rules EXCEPT ![p] = z]
    /\ UNCHANGED <<defaultCeiling, override, enabled>>

SetCeiling(z) ==
    /\ defaultCeiling' = z
    /\ UNCHANGED <<rules, override, enabled>>

SetOverride(s, on) ==
    /\ override' = [override EXCEPT ![s] = on]
    /\ UNCHANGED <<rules, defaultCeiling, enabled>>

Toggle(s) ==
    /\ enabled' = IF s \in enabled THEN enabled \ {s} ELSE enabled \cup {s}
    /\ UNCHANGED <<rules, defaultCeiling, override>>

PolicyNext ==
    \/ \E p \in Pattern, z \in Zone \cup {Unset} : SetRule(p, z)
    \/ \E z \in Zone : SetCeiling(z)
    \/ \E s \in Catalog, on \in BOOLEAN \cup {Unset} : SetOverride(s, on)
    \/ \E s \in Catalog : Toggle(s)
-----------------------------------------------------------------------------
\* The approved-processor list means what it says: whatever the order in which
\* rules were stored, a host is in the zone of one of the most specific rules
\* that match it, one of the profile's own where the base has a rule as specific.
MostSpecificWins == \A h \in Host :
    LET own  == {p \in Pattern : rules[p] # Unset /\ h \in Covers[p]}
        base == {r \in {BaseRules[i] : i \in 1..Len(BaseRules)} : h \in Covers[r.pattern]}
        tops == {p \in own : /\ \A q \in own : Specificity[q] <= Specificity[p]
                             /\ \A r \in base : Specificity[r.pattern] <= Specificity[p]}
        under == {r \in base : \A q \in base : Specificity[q.pattern] <= Specificity[r.pattern]}
    IN  IF tops # {} THEN ZoneOf(h) \in {rules[p] : p \in tops}
        ELSE ZoneOf(h) \in {r.zone : r \in under} \cup (IF base = {} THEN {PUBLIC} ELSE {})

\* A compiled step is blocked exactly when no provider complies; otherwise its
\* provider complies, and no compliant one matches more of the preferences, or
\* as many and is more trusted.
PlansComply ==
    LET candidates == ProviderResources IN
    \A residency \in Zone \cup {Unset}, requires, prefers \in SUBSET Capability :
    LET ceiling == IF residency = Unset THEN CeilingForProfile ELSE residency
        complies == {i \in 1..Len(Provider) :
                       candidates[i].zone <= ceiling /\ \A c \in requires : c \in Provider[i].caps}
        chosen == CompileStep(candidates, residency, requires, prefers)
        met(i) == Cardinality(Provider[i].caps \cap prefers)
    IN  IF complies = {} THEN chosen = Blocked
        ELSE /\ chosen \in complies
             /\ \A i \in complies :
                  /\ met(i) <= met(chosen)
                  /\ met(i) = met(chosen) => candidates[chosen].zone <= candidates[i].zone
=============================================================================
