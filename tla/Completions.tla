---------------------------- MODULE Completions -----------------------------
(***************************************************************************)
(* The hub's one door to language models, brainbox.llm: a call walks the   *)
(* chain of backends its target and policy give until one answers, and is  *)
(* metered.  The ollama backend borrows an instance of the pool, whose     *)
(* entries runners replace while calls are in flight; the claude_oauth     *)
(* backend makes a session for one query and tears it down through the     *)
(* hub's own API.                                                          *)
(***************************************************************************)
EXTENDS Naturals, Sequences, FiniteSets

CONSTANTS
    Call,           \* calls of complete()
    Runner,         \* runners that offer an ollama
    Fallback,       \* the instance of the settings
    Anywhere,
    Target,         \* what calls may ask for
    MaxInstances    \* bound: instance objects ever made

Host == Runner \cup {Fallback}
Instances == 1..MaxInstances

Wants == [provider : {"any", "ollama", "claude", "codex"}, quality : {"cheap", "high"},
          paid : BOOLEAN, runner : Runner \cup {Anywhere}]

ASSUME CompletionsAssumption ==
    Fallback \notin Runner /\ Anywhere \notin Host /\ Target \subseteq Wants
    /\ MaxInstances \in Nat \ {0} /\ IsFiniteSet(Call)

VARIABLES
    instance,    \* the instance objects
    made,        \* how many there are
    pool,        \* OllamaPool._instances: the object of each name
    checking,    \* objects a health check has read and awaits an answer from
    call,        \* the calls: target, chain left, where it is, the object in use
    tried,       \* the attempts of each call
    metered,     \* records emitted for each call
    ephemeral,   \* the ephemeral sessions that exist, by the call that made them
    leaked       \* ghost: calls whose create or cleanup went wrong

poolVars == <<instance, made, pool, checking>>
callVars == <<call, tried, metered, ephemeral, leaked>>
completionVars == <<poolVars, callVars>>

Object == [healthy : BOOLEAN, stocked : BOOLEAN, flight : 0..Cardinality(Call)]
New == [healthy |-> FALSE, stocked |-> FALSE, flight |-> 0]
Backend == {"ollama", "claude_oauth", "claude_api"}
Place == {"idle", "next", "ollama", "creating", "waiting", "stopping", "deleting", "answered", "failed"}

CompletionsTypeOK ==
    /\ instance \in [Instances -> Object] /\ made \in 0..MaxInstances
    /\ pool \in [Host -> 0..MaxInstances] /\ checking \subseteq Instances
    /\ DOMAIN call = Call /\ DOMAIN tried = Call
    /\ \A k \in Call : /\ call[k].want \in Wants /\ call[k].at \in Place
                       /\ call[k].links \in Seq(Backend)
                       /\ call[k].uses \in 0..MaxInstances /\ call[k].good \in BOOLEAN
                       /\ tried[k] \in Seq(Backend \X BOOLEAN)
    /\ metered \in [Call -> 0..2] /\ ephemeral \subseteq Call /\ leaked \subseteq Call

\* start() registers the fallback
CompletionsInit ==
    /\ instance = [i \in Instances |-> New] /\ made = 1
    /\ pool = [h \in Host |-> IF h = Fallback THEN 1 ELSE 0]
    /\ checking = {}
    /\ \E want \in [Call -> Target] :
           call = [k \in Call |-> [want |-> want[k], links |-> <<>>, at |-> "idle",
                                   uses |-> 0, good |-> FALSE]]
    /\ tried = [k \in Call |-> <<>>] /\ metered = [k \in Call |-> 0]
    /\ ephemeral = {} /\ leaked = {}

-----------------------------------------------------------------------------
(* The pool.                                                               *)

\* a runner registers or comes back at another address: a new object takes the name
AddsRunner(r) ==
    /\ made < MaxInstances
    /\ made' = made + 1 /\ pool' = [pool EXCEPT ![r] = made + 1]
    /\ UNCHANGED <<instance, checking, callVars>>

RemovesRunner(r) ==
    /\ pool[r] # 0 /\ pool' = [pool EXCEPT ![r] = 0]
    /\ UNCHANGED <<instance, made, checking, callVars>>

\* _check_one holds on to the object it read before the request
Checks(h) ==
    /\ pool[h] # 0 /\ checking' = checking \cup {pool[h]}
    /\ UNCHANGED <<instance, made, pool, callVars>>

CheckAnswered(i) ==
    /\ i \in checking /\ checking' = checking \ {i}
    /\ \E found \in {<<TRUE, TRUE>>, <<TRUE, FALSE>>, <<FALSE, FALSE>>} :
           instance' = [instance EXCEPT ![i].healthy = found[1], ![i].stocked = found[2]]
    /\ UNCHANGED <<made, pool, callVars>>

Pooled == {pool[h] : h \in Host} \ {0}
Healthy == {i \in Pooled : instance[i].healthy}
Preferred == IF \E i \in Healthy : instance[i].stocked
             THEN {i \in Healthy : instance[i].stocked} ELSE Healthy

\* the healthy instance of that runner, or the least loaded of the healthy ones,
\* those with models first, or the fallback so that the error is a real one
Picks(runner) ==
    IF runner # Anywhere THEN {pool[runner]} \cap Healthy
    ELSE IF Healthy = {} THEN {pool[Fallback]}
    ELSE {i \in Preferred : \A j \in Preferred : instance[i].flight <= instance[j].flight}

\* the object the call acquired, whatever the name stands for by now
Released(i) == [instance EXCEPT ![i].flight = IF @ = 0 THEN 0 ELSE @ - 1]

-----------------------------------------------------------------------------
(* complete(): the chain.                                                  *)

Registered == Backend
Costs(link) == link = "claude_api"

ChainNames(w) ==
    LET free == IF w.provider = "codex" THEN "codex"
                ELSE IF w.provider = "ollama" \/ (w.provider = "any" /\ w.quality = "cheap")
                     THEN "ollama" ELSE "claude_oauth"
    IN  IF w.paid /\ w.provider \in {"any", "claude"} THEN <<free, "claude_api">> ELSE <<free>>

\* what is registered, and paid only where the policy allows it
Allowed(w, names, i) ==
    IF i \in DOMAIN names /\ names[i] \in Registered /\ (Costs(names[i]) => w.paid)
    THEN <<names[i]>> ELSE <<>>
ChainOf(w) == Allowed(w, ChainNames(w), 1) \o Allowed(w, ChainNames(w), 2)

At(k, place) == call[k].at = place
Link(k) == Head(call[k].links)
Emits(k) == metered' = [metered EXCEPT ![k] = @ + 1]

MovesTo(k, place) == call' = [call EXCEPT ![k].at = place]

\* the attempt failed: the rest of the chain is tried, then the failure is recorded
Fails(k) ==
    /\ tried' = [tried EXCEPT ![k] = Append(@, <<Link(k), FALSE>>)]
    /\ call' = [call EXCEPT ![k].links = Tail(@), ![k].uses = 0,
                            ![k].at = IF Tail(call[k].links) = <<>> THEN "failed" ELSE "next"]
    /\ IF Tail(call[k].links) = <<>> THEN Emits(k) ELSE UNCHANGED metered

Succeeds(k) ==
    /\ tried' = [tried EXCEPT ![k] = Append(@, <<Link(k), TRUE>>)]
    /\ call' = [call EXCEPT ![k].at = "answered", ![k].uses = 0]
    /\ Emits(k)

Begins(k) ==
    /\ At(k, "idle")
    /\ LET chain == ChainOf(call[k].want) IN
           /\ call' = [call EXCEPT ![k].links = chain,
                                   ![k].at = IF chain = <<>> THEN "failed" ELSE "next"]
           /\ IF chain = <<>> THEN Emits(k) ELSE UNCHANGED metered
    /\ UNCHANGED <<poolVars, tried, ephemeral, leaked>>

AsksPaid(k) ==
    /\ At(k, "next") /\ Link(k) = "claude_api"
    /\ Fails(k) \/ Succeeds(k)
    /\ UNCHANGED <<poolVars, ephemeral, leaked>>

AsksOllama(k) ==
    /\ At(k, "next") /\ Link(k) = "ollama"
    /\ \/ /\ Picks(call[k].want.runner) = {}
          /\ Fails(k) /\ UNCHANGED <<instance, ephemeral, leaked>>
       \/ \E i \in Picks(call[k].want.runner) :
              /\ instance' = [instance EXCEPT ![i].flight = @ + 1]
              /\ call' = [call EXCEPT ![k].at = "ollama", ![k].uses = i]
              /\ UNCHANGED <<tried, metered, ephemeral, leaked>>
    /\ UNCHANGED <<made, pool, checking>>

OllamaEnds(k) ==
    /\ At(k, "ollama")
    /\ instance' = Released(call[k].uses)
    /\ Fails(k) \/ Succeeds(k)
    /\ UNCHANGED <<made, pool, checking, ephemeral, leaked>>

-----------------------------------------------------------------------------
(* A session for one query.                                                *)

AsksSession(k) ==
    /\ At(k, "next") /\ Link(k) = "claude_oauth"
    /\ MovesTo(k, "creating")
    /\ UNCHANGED <<poolVars, tried, metered, ephemeral, leaked>>

SessionMade(k) ==
    /\ At(k, "creating") /\ MovesTo(k, "waiting")
    /\ ephemeral' = ephemeral \cup {k}
    /\ UNCHANGED <<poolVars, tried, metered, leaked>>

\* the create failed or its answer was lost: nothing is torn down
CreateLost(k) ==
    /\ At(k, "creating") /\ Fails(k)
    /\ ephemeral' \in {ephemeral, ephemeral \cup {k}}
    /\ leaked' = leaked \cup {k}
    /\ UNCHANGED poolVars

\* ready and answered; or never ready, or the query failed
AfterQuery_OnlyGood(good) == IF good THEN "stopping" ELSE "quits"    \* mutant: no finally
AfterQuery(good) == "stopping"

QueryEnds(k) ==
    /\ At(k, "waiting")
    /\ \E good \in BOOLEAN :
           IF AfterQuery(good) = "stopping"
           THEN /\ call' = [call EXCEPT ![k].at = "stopping", ![k].good = good]
                /\ UNCHANGED <<tried, metered>>
           ELSE Fails(k)
    /\ UNCHANGED <<poolVars, ephemeral, leaked>>

CleanedUp(k) == IF call[k].good THEN Succeeds(k) ELSE Fails(k)

\* the stop tears the session down; a refusal is not looked at
Stops(k) ==
    /\ At(k, "stopping") /\ MovesTo(k, "deleting")
    /\ ephemeral' \in {ephemeral, ephemeral \ {k}}
    /\ UNCHANGED <<poolVars, tried, metered, leaked>>

\* the delete too; only a refusal of both leaves the session
DeletesIt(k) ==
    /\ At(k, "deleting") /\ CleanedUp(k)
    /\ \/ ephemeral' = ephemeral \ {k} /\ UNCHANGED leaked
       \/ k \in ephemeral /\ UNCHANGED ephemeral /\ leaked' = leaked \cup {k}
    /\ UNCHANGED poolVars

\* a request that raises ends the cleanup: after a failing stop there is no delete
CleanupFails(k) ==
    /\ At(k, "stopping") \/ At(k, "deleting")
    /\ CleanedUp(k) /\ leaked' = leaked \cup {k}
    /\ UNCHANGED <<poolVars, ephemeral>>

-----------------------------------------------------------------------------
CallStep(k) ==
    \/ Begins(k) \/ AsksPaid(k) \/ AsksOllama(k) \/ OllamaEnds(k)
    \/ AsksSession(k) \/ SessionMade(k) \/ CreateLost(k) \/ QueryEnds(k)
    \/ Stops(k) \/ DeletesIt(k) \/ CleanupFails(k)

CompletionsNext ==
    \/ \E k \in Call : CallStep(k)
    \/ \E r \in Runner : AddsRunner(r) \/ RemovesRunner(r)
    \/ \E h \in Host : Checks(h)
    \/ \E i \in Instances : CheckAnswered(i)

CompletionsSpec == CompletionsInit /\ [][CompletionsNext]_completionVars

Over(k) == call[k].at \in {"answered", "failed"}

\* The load of an instance, by which callers are spread, is the number of calls
\* that hold it: also where its runner was replaced or removed under them.
FlightsCounted ==
    \A i \in Instances : instance[i].flight = Cardinality({k \in Call : call[k].uses = i})

\* A call is metered when it is over and once only, and it pays for an answer only
\* if it may and after the free backend of its chain has failed it.
MeteredOnce ==
    \A k \in Call :
        /\ metered[k] = IF Over(k) THEN 1 ELSE 0
        /\ \A n \in DOMAIN tried[k] : tried[k][n][1] = "claude_api" =>
               call[k].want.paid /\ n = 2 /\ ~tried[k][1][2]

\* A call that is over has left no session behind, whatever went wrong in it; save
\* where the create's answer or a request of the cleanup itself was lost.
NoSessionLeft == \A k \in ephemeral : Over(k) => k \in leaked

\* Every call to a language model is accounted for.
CompletionsAccounted == FlightsCounted /\ MeteredOnce /\ NoSessionLeft
=============================================================================
