------------------------------- MODULE Bearers -------------------------------
(***************************************************************************)
(* Who may act in whose rooms: profile tokens, which are rows of a table   *)
(* until they are revoked; the tokens of tasks, which live in memory; the  *)
(* check of a request's key or bearer (auth.py and the dependencies of the *)
(* conversation routes), the profile it is confined to (_scoped_profile)   *)
(* and what it does then; and the pairing tickets a runner exchanges for   *)
(* the operator's key (PairingStore).                                      *)
(*                                                                         *)
(* The dependencies run in threads, ahead of the route: a token may be     *)
(* revoked between its two validations and before the request acts.  Ids   *)
(* are never issued twice.  There is a room of every profile.              *)
(***************************************************************************)
EXTENDS FiniteSets

CONSTANTS
  Profile,
  ProfileToken, TaskToken,
  BoundTo,    \* a token's profile; "none" for the task of no profile
  Grants,     \* a token's capabilities, of "read", "write" and "messaging"
  Request, Ticket, Claimer

Bearer == ProfileToken \cup TaskToken

ASSUME BearersAssumption ==
  /\ "none" \notin Profile /\ "key" \notin Bearer
  /\ BoundTo \in [Bearer -> Profile \cup {"none"}]
  /\ \A t \in ProfileToken : BoundTo[t] # "none"    \* issue_profile_token asks for one

VARIABLES
  rows,      \* profile_tokens
  holders,   \* registry._tokens of tasks
  minted,
  inquiry,   \* the requests
  roster,    \* who joined which room by its token
  ticket,    \* PairingStore._tickets: "none", "open", "late" (its time is over), "gone"
  claims     \* the tickets' claims that were answered, and when

bearerVars == <<rows, holders, minted, inquiry, roster, ticket, claims>>

NoInquiry == [at |-> "none"]

BearersInit ==
  /\ rows = {} /\ holders = {} /\ minted = {}
  /\ inquiry = [q \in Request |-> NoInquiry]
  /\ roster = {} /\ ticket = [k \in Ticket |-> "none"] /\ claims = {}

-----------------------------------------------------------------------------
(* Tokens *)

MintsProfileToken(t) ==
  /\ t \in ProfileToken \ minted
  /\ rows' = rows \cup {t} /\ minted' = minted \cup {t}
  /\ UNCHANGED <<holders, inquiry, roster, ticket, claims>>

RevokesProfileToken(t) ==
  /\ t \in rows /\ rows' = rows \ {t}
  /\ UNCHANGED <<holders, minted, inquiry, roster, ticket, claims>>

TaskIsGiven(t) ==
  /\ t \in TaskToken \ minted
  /\ holders' = holders \cup {t} /\ minted' = minted \cup {t}
  /\ UNCHANGED <<rows, inquiry, roster, ticket, claims>>

\* revoked with the end of the task, or found past its expiry
TaskTokenEnds(t) ==
  /\ t \in holders /\ holders' = holders \ {t}
  /\ UNCHANGED <<rows, minted, inquiry, roster, ticket, claims>>

\* validate_token: what is in memory, or else the row of the hash; no row if
\* the database cannot be asked
Validated(t) ==
  IF t \in holders THEN {TRUE} ELSE IF t \in rows THEN BOOLEAN ELSE {FALSE}

-----------------------------------------------------------------------------
(* A request: the dependency, the profile, the room *)

\* asks is the profile in the request, "none" if it names none
Begins(q, does, by, asks, room) ==
  /\ inquiry[q] = NoInquiry
  /\ inquiry' = [inquiry EXCEPT ![q] =
       [at |-> "strict", does |-> does, by |-> by, asks |-> asks, room |-> room, scope |-> "none",
        valid |-> by \in rows \cup holders]]
  /\ UNCHANGED <<rows, holders, minted, roster, ticket, claims>>

Refuses(q) == inquiry' = [inquiry EXCEPT ![q].at = "refused"]
Moves(q, at) == inquiry' = [inquiry EXCEPT ![q].at = at]

\* require_capability; require_token of the join, which no key opens and
\* which takes either capability
Strict(q) ==
  LET i == inquiry[q]
  IN  /\ i.at = "strict"
      /\ IF i.by = "key"
         THEN IF i.does = "join" THEN Refuses(q) ELSE Moves(q, "scope")
         ELSE \E found \in Validated(i.by) :
                CASE ~found -> Refuses(q)
                  [] found /\ i.does = "join" ->
                       IF Grants[i.by] \cap {"messaging", "write"} # {} THEN Moves(q, "scope") ELSE Refuses(q)
                  [] OTHER -> IF i.does \in Grants[i.by] THEN Moves(q, "scope") ELSE Moves(q, "widened")
      /\ UNCHANGED <<rows, holders, minted, roster, ticket, claims>>

\* _require_conversation_capability: it looks the token up again
Widened(q) ==
  /\ inquiry[q].at = "widened"
  /\ \E found \in Validated(inquiry[q].by) :
       IF found /\ "messaging" \in Grants[inquiry[q].by] THEN Moves(q, "scope") ELSE Refuses(q)
  /\ UNCHANGED <<rows, holders, minted, roster, ticket, claims>>

Confined(i) == i.by # "key" /\ BoundTo[i.by] # "none"

Scopes_Asked(q) ==    \* mutant: takes the profile that was asked for
  LET i == inquiry[q]
      scope == IF i.asks # "none" THEN i.asks ELSE IF Confined(i) THEN BoundTo[i.by] ELSE "none"
  IN  /\ i.at = "scope"
      /\ IF scope = "none" THEN Refuses(q)
         ELSE inquiry' = [inquiry EXCEPT ![q].at = "acts", ![q].scope = scope]
      /\ UNCHANGED <<rows, holders, minted, roster, ticket, claims>>

\* _scoped_profile: a bearer is confined to the profile of its token or task
\* and refused another; the key, and the token of a task that has no profile,
\* act where they ask to.
Scopes(q) ==
  LET i == inquiry[q]
      scope == IF Confined(i) THEN BoundTo[i.by] ELSE i.asks
  IN  /\ i.at = "scope"
      /\ IF scope = "none" \/ (Confined(i) /\ i.asks \notin {"none", scope}) THEN Refuses(q)
         ELSE inquiry' = [inquiry EXCEPT ![q].at = "acts", ![q].scope = scope]
      /\ UNCHANGED <<rows, holders, minted, roster, ticket, claims>>

\* The store filters on the profile; a join adds the session under the name
\* that its token stands for.
Acts(q) ==
  LET i == inquiry[q]
  IN  /\ i.at = "acts"
      /\ IF i.room # i.scope THEN Refuses(q) /\ UNCHANGED roster
         ELSE /\ Moves(q, "served")
              /\ roster' = IF i.does = "join" THEN roster \cup {<<i.room, i.by>>} ELSE roster
      /\ UNCHANGED <<rows, holders, minted, ticket, claims>>

-----------------------------------------------------------------------------
(* Pairing *)

Swept == [k \in Ticket |-> IF ticket[k] = "late" THEN "gone" ELSE ticket[k]]

StartsPairing(k) ==
  /\ ticket[k] = "none" /\ ticket' = [Swept EXCEPT ![k] = "open"]
  /\ UNCHANGED <<rows, holders, minted, inquiry, roster, claims>>

TtlPasses(k) ==
  /\ ticket[k] = "open" /\ ticket' = [ticket EXCEPT ![k] = "late"]
  /\ UNCHANGED <<rows, holders, minted, inquiry, roster, claims>>

\* Two runners may have the same token.
Claims(c, k) ==
  /\ ticket' = [Swept EXCEPT ![k] = IF @ = "open" THEN "gone" ELSE @]
  /\ claims' = IF Swept[k] = "open" THEN claims \cup {[by |-> c, of |-> k, at |-> ticket[k]]} ELSE claims
  /\ UNCHANGED <<rows, holders, minted, inquiry, roster>>

\* Requests are cut off and tickets gone; the rows stay, and the tokens of
\* tasks but for the latest.
HubRestarted ==
  /\ inquiry' = [q \in Request |-> IF inquiry[q].at \in {"none", "served", "refused"} THEN inquiry[q]
                                   ELSE [inquiry[q] EXCEPT !.at = "refused"]]
  /\ ticket' = [k \in Ticket |-> IF ticket[k] = "none" THEN "none" ELSE "gone"]
  /\ holders' \in SUBSET holders
  /\ UNCHANGED <<rows, minted, roster, claims>>

BearersNext ==
  \/ \E t \in Bearer : MintsProfileToken(t) \/ RevokesProfileToken(t) \/ TaskIsGiven(t) \/ TaskTokenEnds(t)
  \/ \E q \in Request :
       \/ \E does \in {"read", "write", "join"}, by \in minted \cup {"key"},
            asks \in Profile \cup {"none"}, room \in Profile : Begins(q, does, by, asks, room)
       \/ Strict(q) \/ Widened(q) \/ Scopes(q) \/ Acts(q)
  \/ \E k \in Ticket : StartsPairing(k) \/ TtlPasses(k) \/ \E c \in Claimer : Claims(c, k)
  \/ HubRestarted

BearersSpec == BearersInit /\ [][BearersNext]_bearerVars

-----------------------------------------------------------------------------
(* Properties *)

\* A request served under a token came while the token was good, acted in the
\* room of the token's profile, and did what the token grants; sessions that
\* joined are in rooms of their own profile.
RoomsAreOwn ==
  /\ \A q \in Request :
       LET i == inquiry[q]
       IN  i.at = "served" /\ i.by # "key" =>
             /\ i.valid /\ BoundTo[i.by] \in {"none", i.room}
             /\ Grants[i.by] \cap {"messaging", IF i.does = "join" THEN "write" ELSE i.does} # {}
  /\ \A entered \in roster : BoundTo[entered[2]] \in {"none", entered[1]}

\* A ticket gives the operator's key to one runner, and only in its time.
TicketsOnce ==
  \A one \in claims : one.at = "open" /\ \A other \in claims : other.of = one.of => other = one

(* No request acts in a room its bearer is not meant for, however tokens    *)
(* are minted and revoked meanwhile, and no pairing ticket is worth more    *)
(* than one claim.                                                          *)
BearersKept == RoomsAreOwn /\ TicketsOnce
=============================================================================
