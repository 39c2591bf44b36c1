------------------------------ MODULE MCControl ------------------------------
(***************************************************************************)
(* The loops, their judge, the agent definitions, the ports of the docker  *)
(* sessions, the patterns of the event rules, and the bearers of tokens    *)
(* and pairing tickets for TLC.  They share no state: "part" says whose    *)
(* steps a behaviour has.                                                  *)
(***************************************************************************)
EXTENDS LoopRunner, AgentCatalog, SessionPorts, EventMatch, LoopVerdict, Bearers, TLC

VARIABLE part

controlVars == <<vars, catalogVars, portVars, match, judgeVars, bearerVars, part>>

-----------------------------------------------------------------------------
(* What the patterns and the events of "matching" hold *)

S(letters) == [type |-> "string", string |-> letters]
N(n) == [type |-> "number", number |-> n]
List(s) == [type |-> "array", array |-> s]
Object(v) == [type |-> "object", object |-> [inner |-> v]]

SomeScalars == {Null, Boolean(TRUE), Boolean(FALSE), N(0), N(1), N(2), S(<<"a">>), S(<<"a", "b">>)}
Listed2 == {Null, Boolean(TRUE), N(1), S(<<"a">>), S(<<"a", "b">>), Object(N(1)), Object(Null)}
TheValues ==
  SomeScalars \cup {Object(v) : v \in SomeScalars} \cup {List(<<>>)}
    \cup {List(<<x>>) : x \in Listed2} \cup {List(<<x, y>>) : x \in Listed2, y \in Listed2}

Range1(op, n) == List(<<[op |-> op, n |-> n]>>)
Range2(op, n, op2, n2) == List(<<[op |-> op, n |-> n], [op |-> op2, n |-> n2]>>)
Flat ==
  {Literal(v) : v \in SomeScalars \cup {List(<<N(1)>>)}}
    \cup {Operator("exists", v) : v \in {Boolean(TRUE), Boolean(FALSE), N(1), Null}}
    \cup {Operator(op, v) : op \in {"prefix", "suffix"}, v \in {S(<<>>), S(<<"a">>), S(<<"b">>), N(1), List(<<>>)}}
    \cup {Operator("anything-but", List(s)) : s \in {<<>>, <<N(1)>>, <<S(<<"a">>), Boolean(TRUE)>>, <<Object(N(1))>>}}
    \cup {Operator("numeric", v) : v \in
           {Range1(op, N(1)) : op \in {"<", "<=", ">", ">=", "=", "!=", "~"}}
             \cup {Range2(">", N(0), "<=", N(1)), Range2(">=", N(1), "<", S(<<"a">>)), List(<<>>), N(1), S(<<"a">>)}}
TheElements ==
  Flat \cup {Nested([inner |-> <<e>>]) : e \in Flat}
       \cup {Nested(<<>>), Nested([inner |-> <<>>]), Nested([other |-> <<Operator("exists", Boolean(FALSE))>>])}

-----------------------------------------------------------------------------
(* What objectives and envelopes of "verdict" hold *)

Some(n) == [type |-> "number", v |-> n]
Text == [type |-> "text", v |-> 0]
NoValue == [type |-> "none", v |-> 0]
TheHeld == {Some(0), Some(1), Some(2), Text, NoValue}
Comparison(c) == [is |-> "comparisons", comparisons |-> <<c>>]
TheExpected ==
  {[is |-> "value", value |-> Some(1)], [is |-> "value", value |-> NoValue],
   [is |-> "truth", truth |-> TRUE], [is |-> "truth", truth |-> FALSE]}
    \cup {Comparison([op |-> op, than |-> 1]) : op \in {">=", "<=", ">", "<"}}
    \cup {Comparison([op |-> "in", among |-> {Some(1), Text}])}
    \cup {Comparison([op |-> "not_empty", wanted |-> b]) : b \in BOOLEAN}
TheAnswers ==
  {<<>>, <<[done |-> TRUE]>>, <<[reason |-> TRUE], [done |-> FALSE], [done |-> TRUE]>>,
   <<[done |-> FALSE, escalate |-> TRUE]>>}

-----------------------------------------------------------------------------
TheBindings == ("p1" :> "a") @@ ("p2" :> "b") @@ ("t1" :> "a") @@ ("t0" :> "none")
TheGrants == ("p1" :> {"read"}) @@ ("p2" :> {"read", "write"}) @@ ("t1" :> {"messaging"}) @@ ("t0" :> {"messaging"})

\* Tickets and requests have nothing to do with each other.
BearersStep ==
  /\ part = "bearers" => <<ticket, claims>>' = <<ticket, claims>>
  /\ part = "pairing" => <<rows, holders, minted, inquiry>>' = <<rows, holders, minted, inquiry>>

\* The requests of "ports" come in turn, the first for "x"; "y" has one role.
InTurn ==
  \A j \in Job :
    /\ j > 1 /\ job'[j] # NotAsked => job'[j - 1] # NotAsked
    /\ job[j] = NotAsked /\ job'[j] # NotAsked =>
         /\ j = 1 => job'[j].name = "x"
         /\ job'[j].name = "y" => job'[j].old = "d"

\* Objectives of two entries are of few shapes.
Few == {[is |-> "truth", truth |-> TRUE], Comparison([op |-> ">=", than |-> 1])}

ControlInit ==
  /\ part \in {"loops", "agents", "ports", "matching", "verdict", "bearers", "pairing"}
  /\ Init /\ CatalogInit /\ PortsInit /\ BearersInit
  /\ IF part = "matching" THEN MatchInit ELSE match = [v |-> Null, e |-> Literal(Null)]
  /\ part # "agents" => definition["b"].setting = "s" /\ role["b"] = "x"
  /\ IF part = "verdict"
     THEN JudgeInit /\ (Cardinality(DOMAIN asked.objective) = 2 => asked.objective \in [Path -> Few])
     ELSE /\ asked = <<>> /\ judge = [at |-> "none"] /\ session = "none" /\ verdict = Undecided

ControlNext ==
  /\ UNCHANGED part
  /\ \/ part = "loops" /\ Next /\ UNCHANGED <<catalogVars, portVars, match, judgeVars, bearerVars>>
     \/ part = "agents" /\ CatalogNext /\ UNCHANGED <<vars, portVars, match, judgeVars, bearerVars>>
     \/ part = "ports" /\ PortsNext /\ InTurn /\ UNCHANGED <<vars, catalogVars, match, judgeVars, bearerVars>>
     \/ part = "verdict" /\ JudgeNext /\ UNCHANGED <<vars, catalogVars, portVars, match, bearerVars>>
     \/ part \in {"bearers", "pairing"} /\ BearersNext /\ BearersStep
        /\ UNCHANGED <<vars, catalogVars, portVars, match, judgeVars>>

ControlSpec == ControlInit /\ [][ControlNext]_controlVars /\ Fairness
=============================================================================
