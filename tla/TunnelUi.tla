------------------------------- MODULE TunnelUi -------------------------------
(***************************************************************************)
(* What the user is shown of the system tunnel.  The daemon pushes its     *)
(* engine's states to the client of the application, whose read_loop keeps *)
(* the last one and emits it to the window as an event; commands and the   *)
(* poll of the window (hooks/useSystemTunnel.ts) are answered on their     *)
(* own, and an answer is emitted as an event as well.  Pushed states are   *)
(* read, and events arrive, in the order they were sent.  An answer may    *)
(* overtake or be overtaken by pushed states: a task of its own puts those *)
(* on the connection, and the task that asked emits the answer.            *)
(*                                                                         *)
(* One connection at a time: that a new one may replace one whose reader   *)
(* has not ended is TunnelClient's matter, as are timeouts and the prompt  *)
(* that replaces a daemon of another build.                                *)
(***************************************************************************)
EXTENDS Naturals, Sequences

CONSTANTS Proxies,
          Clicks,      \* commands of the user in progress at once
          Polls,       \* queries in progress at once, the background loop's too
          MaxMoves,    \* bound: clicks, engine moves and daemon exits
          MaxEvents    \* bound: events on their way when a poll is made

ASSUME MovesAssumption == MaxMoves \in Nat
ASSUME CallsAssumption == Clicks \cap Polls = {}
ASSUME EventsAssumption == MaxEvents \in Nat \ {0}

VARIABLES
    link,     \* the connection: "down", "up", or "closing" until its reader has ended
    engine,   \* the daemon's tunnel state
    pushed,   \* states the daemon has pushed, not read yet
    cached,   \* the client's state
    events,   \* tunnel://state-changed on their way to the window
    shown,    \* globalState
    busy,     \* globalBusy
    call,     \* commands in progress
    moves

vars == <<link, engine, pushed, cached, events, shown, busy, call, moves>>
daemonVars == <<link, engine, pushed>>
clientVars == <<cached, events>>
windowVars == <<shown, busy>>

None == "none"
State(status, proxy) == [status |-> status, proxy |-> proxy, code |-> None]
Error(code) == [status |-> "error", proxy |-> None, code |-> code]
Disconnected == State("disconnected", None)
Requesting == State("requesting_privileges", None)
Codes == {"conflicting_vpn", "privilege_elevation_denied", "quota_exhausted", "internal_error"}
Internal == Error("internal_error")
Denied == Error("privilege_elevation_denied")

Calls == Clicks \cup Polls
IdleCall == [kind |-> None, at |-> "idle", proxy |-> None, again |-> FALSE, got |-> Disconnected]

Init ==
    /\ link = "down"
    /\ engine = Disconnected
    /\ pushed = <<>>
    /\ cached = Disconnected
    /\ events = <<>>
    /\ shown = Disconnected
    /\ busy = FALSE
    /\ call = [c \in Calls |-> IdleCall]
    /\ moves = 0

Move == moves < MaxMoves /\ moves' = moves + 1

\* emit_state
Emit(s) == cached' = s /\ events' = Append(events, s)

Goto(c, at) == call' = [call EXCEPT ![c].at = at]
Answer(c, at, s) == call' = [call EXCEPT ![c].at = at, ![c].got = s]
Reply(c, s) ==
    call' = [call EXCEPT ![c] = [IdleCall EXCEPT !.kind = call[c].kind, !.at = "reply", !.got = s]]
Ends(c) == call' = [call EXCEPT ![c] = IdleCall]
At(c, kind, at) == call[c].kind = kind /\ call[c].at = at

\* isTunnelActive: everything but disconnected.
Active(s) == s.status # "disconnected"

-----------------------------------------------------------------------------
(* The window: TunnelToggleButton, SystemTunnelBanner, useSystemTunnel.    *)

SameProxy(p) == shown = State("connected", p)
InProgress ==
    busy \/ shown.status \in {"requesting_privileges", "configuring_routes", "reconnecting"}
PermissionError == shown = Denied

Begin(c, kind, at, p) ==
    /\ call[c].at = "idle"
    /\ call' = [call EXCEPT ![c] = [IdleCall EXCEPT !.kind = kind, !.at = at, !.proxy = p]]

\* The button first has the session's bridge started, without being busy.
ToggleOn(c, p) ==
    /\ ~InProgress /\ ~SameProxy(p)
    /\ Begin(c, "enable", "prepare", p)
    /\ Move
    /\ UNCHANGED <<daemonVars, clientVars, windowVars>>

Enable(c) ==
    /\ At(c, "enable", "prepare")
    /\ \/ busy' = TRUE /\ Goto(c, "asked")
       \/ Ends(c) /\ UNCHANGED busy
    /\ UNCHANGED <<daemonVars, clientVars, shown, moves>>

Disable(c) ==
    /\ Begin(c, "disable", "asked", None)
    /\ busy' = TRUE
    /\ Move
    /\ UNCHANGED <<daemonVars, clientVars, shown>>

ToggleOff(c) == ~InProgress /\ (\E p \in Proxies : SameProxy(p)) /\ Disable(c)

\* The banner is there for as long as the tunnel is not disconnected; its
\* button disconnects, or dismisses an error about permissions.
Banner(b) == Active(shown) /\ ~busy /\ b = PermissionError
BannerOff(c) == Banner(FALSE) /\ Disable(c)

DismissError ==
    /\ Banner(TRUE)
    /\ shown' = Disconnected
    /\ UNCHANGED <<daemonVars, clientVars, busy, call, moves>>

\* Mutant: no polls while a tunnel is shown.
Poll_OnlyIdle(c) ==
    /\ Len(events) < MaxEvents /\ ~Active(shown)
    /\ Begin(c, "poll", "asked", None)
    /\ UNCHANGED <<daemonVars, clientVars, windowVars, moves>>

Poll(c) ==
    /\ Len(events) < MaxEvents
    /\ Begin(c, "poll", "asked", None)
    /\ UNCHANGED <<daemonVars, clientVars, windowVars, moves>>

\* The listener of tunnel://state-changed.
Deliver ==
    /\ events # <<>>
    /\ shown' = Head(events) /\ events' = Tail(events)
    /\ UNCHANGED <<daemonVars, cached, busy, call, moves>>

\* refreshTunnelState: an error shown is kept when the daemon is disconnected.
PollReturns(c) ==
    LET got == call[c].got IN
    /\ At(c, "poll", "reply")
    /\ shown' = IF shown.status = "error" /\ got = Disconnected THEN shown ELSE got
    /\ Ends(c)
    /\ UNCHANGED <<daemonVars, clientVars, busy, moves>>

\* Mutant: busy is not reset after an error.
Return_StaysBusy(c, next) ==
    /\ call[c].at = "reply"
    /\ shown' = next
    /\ busy' = (busy /\ next.status = "error")
    /\ Ends(c)
    /\ UNCHANGED <<daemonVars, clientVars, moves>>

\* The answer of a command is shown, and so is an error, as a generic one;
\* enable keeps the error it finds shown already when it is the same.
Return(c, next) ==
    /\ call[c].at = "reply"
    /\ shown' = next
    /\ busy' = FALSE
    /\ Ends(c)
    /\ UNCHANGED <<daemonVars, clientVars, moves>>

EnableReturns(c) ==
    LET got == call[c].got IN
    /\ call[c].kind = "enable"
    /\ Return(c, IF got.status = "error" /\ got # shown THEN Internal ELSE got)

DisableReturns(c) ==
    LET got == call[c].got IN
    /\ call[c].kind = "disable"
    /\ Return(c, IF got.status = "error" THEN Internal ELSE got)

CommandReturns(c) == EnableReturns(c) \/ DisableReturns(c)

-----------------------------------------------------------------------------
(* The commands and the client: commands/tunnel.rs, tunnel_client.rs.      *)

\* Mutant: the error's code is passed on as it is.
NotStarted_RawCode(c) ==
    /\ At(c, "enable", "asked") /\ ~call[c].again
    /\ Emit(Error("no_bridge"))
    /\ Reply(c, Error("no_bridge"))
    /\ UNCHANGED <<daemonVars, windowVars, moves>>

\* enable_system_tunnel without a bridge, a relay address or a valid setting:
\* the error is emitted and returned.
NotStarted(c) ==
    /\ At(c, "enable", "asked") /\ ~call[c].again
    /\ Emit(Internal)
    /\ Reply(c, Internal)
    /\ UNCHANGED <<daemonVars, windowVars, moves>>

\* Whoever would connect waits for the prompt of one who does.
Prompting == \E d \in Calls : call[d].at = "prompt"

\* A start asks for privileges when there is no daemon, or none that answers.
Elevates(c) ==
    /\ At(c, "enable", "asked") /\ link = "down" /\ ~Prompting
    /\ Emit(Requesting)
    /\ Goto(c, "prompt")
    /\ UNCHANGED <<daemonVars, windowVars, moves>>

\* Mutant: a refused prompt is only answered.
Prompted_Unheard(c) ==
    /\ At(c, "enable", "prompt")
    /\ \/ link' = "up" /\ Goto(c, "sent")
       \/ Reply(c, Denied) /\ UNCHANGED link
    /\ UNCHANGED <<engine, pushed, clientVars, windowVars, moves>>

\* The daemon installed is connected to, unless it is refused or does not come up.
Prompted(c) ==
    /\ At(c, "enable", "prompt")
    /\ \/ link' = "up" /\ Goto(c, "sent") /\ UNCHANGED clientVars
       \/ Emit(Denied) /\ Reply(c, Denied) /\ UNCHANGED link
    /\ UNCHANGED <<engine, pushed, windowVars, moves>>

\* A command that fails here returns an error and emits nothing; a status is then
\* the last state the client has.
Fails(c) ==
    CASE call[c].kind \in {"enable", "disable"} -> Reply(c, Internal)
      [] call[c].kind = "poll" -> Reply(c, cached)
      [] call[c].kind = "refresh" -> Ends(c)

\* The daemon cannot be reached: a stop and a status never prompt, nor does a
\* start when the daemon is there but out of reach.
Unreachable(c) ==
    /\ call[c].at = "asked" /\ link = "down" /\ ~Prompting
    /\ Fails(c)
    /\ UNCHANGED <<daemonVars, clientVars, windowVars, moves>>

\* A call that finds no connection opens one, if the daemon is there.  A write to
\* one that is closing may go unnoticed; a start finds out by its ping.
Send(c) ==
    /\ call[c].at = "asked"
    /\ \/ link = "down" /\ ~Prompting /\ link' = "up"
       \/ link = "up" /\ UNCHANGED link
       \/ link = "closing" /\ call[c].kind # "enable" /\ UNCHANGED link
    /\ Goto(c, "sent")
    /\ UNCHANGED <<engine, pushed, clientVars, windowVars, moves>>

\* A request is sent once more, by way of ensure_connected, when the connection
\* ends before its answer.
Retries(c) ==
    /\ call[c].at = "lost" /\ ~call[c].again
    /\ call' = [call EXCEPT ![c].at = "asked", ![c].again = TRUE]
    /\ UNCHANGED <<daemonVars, clientVars, windowVars, moves>>

Unanswered(c) ==
    /\ call[c].at = "lost" /\ call[c].again
    /\ Fails(c)
    /\ UNCHANGED <<daemonVars, clientVars, windowVars, moves>>

\* The daemon's answer to a start or a query is emitted before it is returned,
\* but a stop's error is only returned.
Answered(c) ==
    LET t == call[c] IN
    /\ t.at = "answered"
    /\ IF t.kind = "disable" /\ t.got.status = "error" THEN UNCHANGED clientVars ELSE Emit(t.got)
    /\ IF t.kind = "refresh" THEN Ends(c) ELSE Reply(c, t.got)
    /\ UNCHANGED <<daemonVars, windowVars, moves>>

\* The background loop reconnects and asks for the state.
Reconnect ==
    /\ link = "down" /\ ~Prompting /\ link' = "up"
    /\ \E c \in Polls : Begin(c, "refresh", "asked", None)
    /\ UNCHANGED <<engine, pushed, clientVars, windowVars, moves>>

\* read_loop: a pushed state is emitted.
ReadFrame ==
    /\ pushed # <<>> /\ Len(events) < MaxEvents
    /\ Emit(Head(pushed)) /\ pushed' = Tail(pushed)
    /\ UNCHANGED <<link, engine, windowVars, call, moves>>

Waiting(c) == call[c].at \in {"sent", "starting", "answered"}

\* The end of read_loop: requests without an answer are given up, those whose
\* answer it has handed over are not; an error is shown if a tunnel was active.
ReadEnd ==
    /\ link = "closing" /\ pushed = <<>>
    /\ link' = "down"
    /\ \E handed \in SUBSET {c \in Calls : call[c].at = "answered"} :
         call' = [c \in Calls |-> IF Waiting(c) /\ c \notin handed
                                 THEN [call[c] EXCEPT !.at = "lost", !.got = Disconnected]
                                 ELSE call[c]]
    /\ IF Active(cached) THEN Emit(Internal) ELSE UNCHANGED clientVars
    /\ UNCHANGED <<engine, pushed, windowVars, moves>>

-----------------------------------------------------------------------------
(* The daemon.  It handles a connection's requests one after another.      *)

\* The engine enters the states ss, the last of which stays.
Become(ss) == engine' = ss[Len(ss)] /\ pushed' = pushed \o ss
Working == engine.status = "configuring_routes"
Handles(c, kinds) ==
    link = "up" /\ call[c].kind \in kinds /\ call[c].at = "sent" /\ ~Working

GetState(c) ==
    /\ Handles(c, {"poll", "refresh"})
    /\ Answer(c, "answered", engine)
    /\ UNCHANGED <<daemonVars, clientVars, windowVars, moves>>

\* A stop that fails leaves the tunnel, or an error.
StopTunnel(c) ==
    /\ Handles(c, {"disable"})
    /\ \/ /\ IF Active(engine) THEN Become(<<Disconnected>>) ELSE UNCHANGED <<engine, pushed>>
          /\ Answer(c, "answered", Disconnected)
       \/ /\ Active(engine)
          /\ Become(<<Internal>>) \/ UNCHANGED <<engine, pushed>>
          /\ Answer(c, "answered", Internal)
    /\ UNCHANGED <<link, clientVars, windowVars, moves>>

\* A tunnel in error is stopped first.
StartTunnel(c) ==
    /\ Handles(c, {"enable"})
    /\ Become((IF engine.status = "error" THEN <<Disconnected>> ELSE <<>>)
                \o <<State("configuring_routes", call[c].proxy)>>)
    /\ Goto(c, "starting")
    /\ UNCHANGED <<link, clientVars, windowVars, moves>>

Started(c) ==
    /\ link = "up" /\ At(c, "enable", "starting")
    /\ \E s \in {State("connected", call[c].proxy), Error("conflicting_vpn")} :
         Become(<<s>>) /\ Answer(c, "answered", s)
    /\ UNCHANGED <<link, clientVars, windowVars, moves>>

\* The tunnel breaks, is restored, or is refused by the relay.
EngineEvent ==
    /\ link = "up"
    /\ \/ engine.status = "connected" /\ Become(<<State("reconnecting", engine.proxy)>>)
       \/ engine.status = "reconnecting" /\ Become(<<State("connected", engine.proxy)>>)
       \/ engine.status \in {"connected", "reconnecting"} /\ Become(<<Error("quota_exhausted")>>)
    /\ Move
    /\ UNCHANGED <<link, clientVars, windowVars, call>>

\* The daemon exits; the last of the states it has pushed may be lost.
DaemonExits ==
    /\ link = "up" /\ link' = "closing"
    /\ engine' = Disconnected
    /\ \E n \in 0..Len(pushed) : pushed' = SubSeq(pushed, 1, n)
    /\ Move
    /\ UNCHANGED <<clientVars, windowVars, call>>

-----------------------------------------------------------------------------
User == (\E c \in Clicks : ToggleOff(c) \/ BannerOff(c) \/ \E p \in Proxies : ToggleOn(c, p)) \/ DismissError

Command(c) ==
    \/ Enable(c) \/ Send(c) \/ Unreachable(c) \/ Retries(c) \/ Unanswered(c)
    \/ Answered(c) \/ PollReturns(c) \/ CommandReturns(c)
    \/ GetState(c) \/ StopTunnel(c) \/ StartTunnel(c) \/ Started(c)

Next ==
    \/ User
    \/ \E c \in Calls : Command(c) \/ NotStarted(c) \/ Elevates(c) \/ Prompted(c)
    \/ \E c \in Polls : Poll(c)
    \/ Deliver \/ Reconnect \/ ReadFrame \/ ReadEnd \/ EngineEvent \/ DaemonExits

\* Whatever is in progress goes on, and the window polls.  A privilege prompt may
\* stay open, and the daemon away, for ever.
Fairness ==
    /\ \A c \in Calls : WF_vars(Command(c))
    /\ \A c \in Polls : WF_vars(Poll(c))
    /\ WF_vars(Deliver) /\ WF_vars(ReadFrame) /\ WF_vars(ReadEnd)

Spec == Init /\ [][Next]_vars /\ Fairness

-----------------------------------------------------------------------------
(* Properties.                                                             *)

States ==
    [status : {"disconnected", "requesting_privileges"}, proxy : {None}, code : {None}]
    \cup [status : {"configuring_routes", "connected", "reconnecting"}, proxy : Proxies,
          code : {None}]
    \cup [status : {"error"}, proxy : {None}, code : Codes]

TypeOK ==
    /\ link \in {"down", "up", "closing"} /\ busy \in BOOLEAN
    /\ engine \in States /\ cached \in States /\ shown \in States
    /\ pushed \in Seq(States) /\ events \in Seq(States)
    /\ call \in [Calls -> [kind : {None, "enable", "disable", "poll", "refresh"},
                           at : {"idle", "prepare", "asked", "prompt", "sent", "starting",
                                 "answered", "lost", "reply"},
                           proxy : Proxies \cup {None}, again : BOOLEAN, got : States]]
    /\ moves \in 0..MaxMoves

\* The buttons are not left disabled: busy is set only while a command the
\* window waits for is on its way.
BusyIsAnswered ==
    busy => \E c \in Clicks : call[c].at \notin {"idle", "prepare"}

\* Answers and pushed states overtake each other, answers are lost and asked for
\* again, and the daemon exits: in the end, if the daemon is there, the window
\* shows what the engine is doing, or the error that kept it from starting; and,
\* daemon or not, it is not left asking for privileges, its buttons disabled, once
\* no prompt is open.
ShownSettles ==
    <>[](/\ link = "up" => shown = engine \/ (engine = Disconnected /\ shown.status = "error")
         /\ shown = Requesting => Prompting)

\* The comment in refreshTunnelState: an error shown is not wiped because the
\* daemon says it is disconnected.  While a poll's answer says so, and the user has no
\* command in progress, only the user's dismissal takes the error away.
ErrorKept ==
    [][\A c \in Polls :
         /\ At(c, "poll", "reply") /\ call[c].got = Disconnected
         /\ shown.status = "error" /\ shown' = Disconnected
         /\ \A d \in Clicks : call[d].at = "idle"
         => DismissError]_vars
=============================================================================
