---------------------------- MODULE TerminalRelay ---------------------------
(***************************************************************************)
(* A browser's terminal of a session: the WebSocket of the browser, the    *)
(* handler that relays it, and the WebSocket to the session's ttyd that it *)
(* speaks over the pipes of an nc process.  Two coroutines pump messages,  *)
(* one each way; the handler waits for both of them.                       *)
(***************************************************************************)
EXTENDS Integers, Sequences, SequencesExt

CONSTANTS
    MaxTyped,      \* bound: messages of the browser
    MaxFrames      \* bound: data frames and pings of ttyd

VARIABLES
    browser,       \* open, the messages it typed, those on their way, what it saw
    tty,           \* open, its frames on their way, the messages it sent and got
    relay,         \* the handler, its pumps, the frames of a message so far
    nc,            \* nc processes that run
    emitted        \* frames ttyd has sent: counts against MaxFrames

relayVars == <<browser, tty, relay, nc, emitted>>

Paths == 2         \* candidate_paths: with the base path and without it
Data == {"first", "more", "last", "only"}

RelayTypeOK ==
    /\ browser \in [open : BOOLEAN, typed : 0..MaxTyped, inbox : Seq(1..MaxTyped), saw : Seq(Seq(Nat))]
    /\ tty \in [up : BOOLEAN, open : BOOLEAN, queue : Seq([kind : Data \cup {"ping", "close"}, n : Nat]),
                sent : Seq(Seq(Nat)), part : Seq(Nat), got : Seq(1..MaxTyped)]
    /\ relay \in [pc : {"none", "connecting", "relaying", "ended"}, tries : 0..Paths,
                  up : BOOLEAN, down : BOOLEAN, buffer : Seq(Nat)]
    /\ nc \in 0..1 /\ emitted \in 0..MaxFrames

RelayInit ==
    /\ browser = [open |-> TRUE, typed |-> 0, inbox |-> <<>>, saw |-> <<>>]
    /\ tty \in [up : BOOLEAN, open : {FALSE}, queue : {<<>>}, sent : {<<>>}, part : {<<>>}, got : {<<>>}]
    /\ relay = [pc |-> "none", tries |-> 0, up |-> FALSE, down |-> FALSE, buffer |-> <<>>]
    /\ nc = 0 /\ emitted = 0
-----------------------------------------------------------------------------
(* The browser and ttyd.                                                   *)

Types ==
    /\ browser.open /\ browser.typed < MaxTyped /\ relay.pc = "relaying"
    /\ browser' = [browser EXCEPT !.typed = @ + 1, !.inbox = Append(@, browser.typed + 1)]
    /\ UNCHANGED <<tty, relay, nc, emitted>>

BrowserLeaves ==
    /\ browser.open /\ browser' = [browser EXCEPT !.open = FALSE]
    /\ UNCHANGED <<tty, relay, nc, emitted>>

TtyEmits(kind) ==
    /\ tty.open /\ emitted < MaxFrames
    /\ emitted' = emitted + 1
    /\ tty' = [tty EXCEPT !.queue = Append(@, [kind |-> kind, n |-> emitted'])]

\* A frame of a message that may come in fragments, and between them a ping.
EmitsData(fin) ==
    LET message == Append(tty.part, emitted + 1) IN
    /\ tty.open /\ emitted < MaxFrames /\ emitted' = emitted + 1
    /\ tty' = [tty EXCEPT
         !.queue = Append(@, [n |-> emitted', kind |-> IF tty.part = <<>> THEN IF fin THEN "only" ELSE "first"
                                                       ELSE IF fin THEN "last" ELSE "more"]),
         !.part = IF fin THEN <<>> ELSE message,
         !.sent = IF fin THEN Append(@, message) ELSE @]
    /\ UNCHANGED <<browser, relay, nc>>

EmitsPing == TtyEmits("ping") /\ UNCHANGED <<browser, relay, nc>>

\* It closes the connection, or goes away with its container.
TtyCloses(kind) ==
    /\ tty.up
    /\ tty' = [tty EXCEPT !.up = FALSE, !.open = FALSE,
                          !.queue = IF tty.open /\ kind = "close" THEN Append(@, [kind |-> "close", n |-> 0]) ELSE @]
    /\ UNCHANGED <<browser, relay, nc, emitted>>

TtyStarts ==
    /\ ~tty.up /\ ~tty.open /\ relay.pc \in {"none", "connecting"} /\ tty' = [tty EXCEPT !.up = TRUE]
    /\ UNCHANGED <<browser, relay, nc, emitted>>
-----------------------------------------------------------------------------
(* The handler: an nc process and a handshake for each path in turn.       *)

Arrives ==
    /\ relay.pc = "none" /\ browser.open
    /\ relay' = [relay EXCEPT !.pc = "connecting"] /\ nc' = 1
    /\ UNCHANGED <<browser, tty, emitted>>

Connected ==
    /\ relay.pc = "connecting" /\ tty.up
    /\ relay' = [relay EXCEPT !.pc = "relaying", !.up = TRUE, !.down = TRUE]
    /\ tty' = [tty EXCEPT !.open = TRUE]
    /\ UNCHANGED <<browser, nc, emitted>>

\* Refused, rejected or timed out: nc is killed, and the next path has one of
\* its own; after the last the browser's WebSocket is accepted and closed.
ConnectFails ==
    /\ relay.pc = "connecting"
    /\ IF relay.tries + 1 < Paths
       THEN relay' = [relay EXCEPT !.tries = @ + 1] /\ UNCHANGED <<browser, nc>>
       ELSE /\ relay' = [relay EXCEPT !.pc = "ended", !.tries = @ + 1]
            /\ browser' = [browser EXCEPT !.open = FALSE] /\ nc' = 0
    /\ UNCHANGED <<tty, emitted>>

\* to_backend.  What is written to a connection that has died is lost, or raises.
PumpsUp ==
    /\ relay.pc = "relaying" /\ relay.up /\ browser.inbox # <<>>
    /\ browser' = [browser EXCEPT !.inbox = Tail(@)]
    /\ IF tty.open THEN tty' = [tty EXCEPT !.got = Append(@, Head(browser.inbox))] /\ UNCHANGED relay
       ELSE relay' \in {relay, [relay EXCEPT !.up = FALSE]} /\ UNCHANGED tty
    /\ UNCHANGED <<nc, emitted>>

UpEnds ==
    /\ relay.pc = "relaying" /\ relay.up /\ browser.inbox = <<>> /\ ~browser.open
    /\ relay' = [relay EXCEPT !.up = FALSE]
    /\ UNCHANGED <<browser, tty, nc, emitted>>

\* recv: a ping is answered and a message put together around it.
AfterPing_Fresh == <<>>    \* mutant: a control frame starts the message anew
AfterPing == relay.buffer

Received(message) ==
    IF browser.open
    THEN browser' = [browser EXCEPT !.saw = Append(@, message)] /\ relay' = [relay EXCEPT !.buffer = <<>>]
    ELSE relay' = [relay EXCEPT !.down = FALSE] /\ UNCHANGED browser

PumpsDown ==
    /\ relay.pc = "relaying" /\ relay.down /\ tty.queue # <<>>
    /\ tty' = [tty EXCEPT !.queue = Tail(@)]
    /\ LET f == Head(tty.queue) IN
       \/ /\ f.kind = "ping" /\ UNCHANGED browser
          /\ IF tty.open THEN relay' = [relay EXCEPT !.buffer = AfterPing]
             ELSE relay' \in {[relay EXCEPT !.buffer = AfterPing], [relay EXCEPT !.down = FALSE]}
       \/ f.kind = "close" /\ relay' = [relay EXCEPT !.down = FALSE] /\ UNCHANGED browser
       \/ f.kind = "first" /\ relay' = [relay EXCEPT !.buffer = <<f.n>>] /\ UNCHANGED browser
       \/ f.kind = "more" /\ relay' = [relay EXCEPT !.buffer = Append(@, f.n)] /\ UNCHANGED browser
       \/ f.kind = "last" /\ Received(Append(relay.buffer, f.n))
       \/ f.kind = "only" /\ Received(<<f.n>>)
    /\ UNCHANGED <<nc, emitted>>

\* End of file: the pipe of an nc whose peer has gone.
DownEnds_Unread ==    \* mutant: end of file is taken for an empty read
    /\ relay.pc = "relaying" /\ relay.down /\ tty.queue = <<>> /\ ~tty.open
    /\ UNCHANGED relayVars
DownEnds ==
    /\ relay.pc = "relaying" /\ relay.down /\ tty.queue = <<>> /\ ~tty.open
    /\ relay' = [relay EXCEPT !.down = FALSE]
    /\ UNCHANGED <<browser, tty, nc, emitted>>

\* gather has both pumps: the backend is closed and nc killed, then the browser.
Closes ==
    /\ relay.pc = "relaying" /\ ~relay.up /\ ~relay.down
    /\ relay' = [relay EXCEPT !.pc = "ended"] /\ nc' = 0
    /\ tty' = [tty EXCEPT !.open = FALSE]
    /\ browser' = [browser EXCEPT !.open = FALSE]
    /\ UNCHANGED emitted

HandlerStep == ConnectFails \/ PumpsUp \/ UpEnds \/ PumpsDown \/ DownEnds \/ Closes

RelayNext ==
    \/ Arrives \/ Connected \/ HandlerStep
    \/ Types \/ BrowserLeaves \/ EmitsPing \/ TtyStarts
    \/ \E fin \in BOOLEAN : EmitsData(fin)
    \/ \E kind \in {"close", "eof"} : TtyCloses(kind)

RelaySpec == RelayInit /\ [][RelayNext]_relayVars

\* The event loop runs both pumps; a connect attempt has a timeout.
RelayFairness ==
    /\ WF_relayVars(PumpsUp) /\ WF_relayVars(UpEnds) /\ WF_relayVars(PumpsDown)
    /\ WF_relayVars(DownEnds) /\ WF_relayVars(Closes) /\ WF_relayVars(ConnectFails)
-----------------------------------------------------------------------------
\* Fragments, pings between them and a connection that dies at any point: the
\* browser sees messages of ttyd whole and in their order, ttyd those of the
\* browser, and no nc outlives its handler.
RelaysFaithfully ==
    /\ IsPrefix(browser.saw, tty.sent)
    /\ \A i \in 1..Len(tty.got) : tty.got[i] = i
    /\ relay.pc = "ended" => nc = 0

\* The relay ends once both sides have gone.  (One that has gone is noticed only
\* when the other speaks: a browser that left keeps the relay of an idle tty.)
RelayEnds == (relay.pc = "relaying" /\ ~browser.open /\ ~tty.open) ~> relay.pc = "ended"
=============================================================================
