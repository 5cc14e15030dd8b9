----------------------------- MODULE TunnelUiProofs -----------------------------
(***************************************************************************)
(* Proofs about TunnelUi, for any number of commands and polls in progress *)
(* at once: the types, and the buttons that are given back.                *)
(***************************************************************************)
EXTENDS TunnelUi, TLAPS

Kinds == {None, "enable", "disable", "poll", "refresh"}
Ats == {"idle", "prepare", "asked", "prompt", "sent", "starting", "answered",
        "lost", "reply"}
Records == [kind : Kinds, at : Ats, proxy : Proxies \cup {None}, again : BOOLEAN, got : States]

\* Commands are the user's, queries the window's or the client's.
OwnKind(c, r) ==
    /\ r.kind \in {"enable", "disable"} => c \in Clicks
    /\ r.kind \in {"poll", "refresh"} => c \in Polls
    /\ r.kind = None => r.at = "idle"
    /\ r.kind = "enable" /\ r.at # "reply" => r.proxy \in Proxies

CallsOK == call \in [Calls -> Records] /\ \A c \in Calls : OwnKind(c, call[c])

StatesOK ==
    /\ link \in {"down", "up", "closing"} /\ busy \in BOOLEAN
    /\ engine \in States /\ cached \in States /\ shown \in States
    /\ pushed \in Seq(States) /\ events \in Seq(States)
    /\ moves \in 0..MaxMoves

UiInv == CallsOK /\ StatesOK /\ BusyIsAnswered

Served(c) == call[c].at \notin {"idle", "prepare"}

-----------------------------------------------------------------------------
(* What the steps are made of.                                             *)

LEMMA GoodStates ==
    /\ Disconnected \in States /\ Requesting \in States
    /\ Internal \in States /\ Denied \in States
    /\ \A c \in Codes : Error(c) \in States
    /\ \A p \in Proxies, s \in {"configuring_routes", "connected", "reconnecting"} :
         State(s, p) \in States
BY DEF Disconnected, Requesting, Internal, Denied, Error, State, States, Codes, None

LEMMA IdleRecord ==
    IdleCall \in Records /\ (\A c \in Calls : OwnKind(c, IdleCall)) /\ IdleCall.at = "idle"
BY GoodStates DEF IdleCall, Records, Kinds, Ats, OwnKind, None

LEMMA Emits ==
    ASSUME NEW s \in States, events \in Seq(States), Emit(s)
    PROVE  cached' \in States /\ events' \in Seq(States)
BY DEF Emit

LEMMA Moves ==
    ASSUME moves \in 0..MaxMoves, Move
    PROVE  moves' \in 0..MaxMoves
BY MovesAssumption DEF Move

LEMMA Becomes ==
    ASSUME NEW ss \in Seq(States) \ {<<>>}, pushed \in Seq(States), Become(ss)
    PROVE  engine' \in States /\ pushed' \in Seq(States)
<1>1. Len(ss) \in 1..Len(ss)
  OBVIOUS
<1>2. ss[Len(ss)] \in States
  BY <1>1
<1> QED BY <1>2 DEF Become

\* A call's record is replaced by one that is its own.
LEMMA Replaced ==
    ASSUME CallsOK, NEW c \in Calls, NEW r \in Records, OwnKind(c, r),
           call' = [call EXCEPT ![c] = r]
    PROVE  /\ CallsOK'
           /\ call'[c] = r
           /\ \A d \in Calls \ {c} : call'[d] = call[d]
BY DEF CallsOK

\* A call that is not over goes on, with an answer or without.
LEMMA GoesOn ==
    ASSUME CallsOK, NEW c \in Calls, NEW at \in Ats, NEW s \in States,
           Goto(c, at) \/ Answer(c, at, s), call[c].at \notin {"idle", "reply"}
    PROVE  /\ CallsOK'
           /\ call'[c].at = at
           /\ \A d \in Calls \ {c} : call'[d] = call[d]
<1>1. PICK r \in Records :
        /\ call' = [call EXCEPT ![c] = r]
        /\ r.at = at /\ r.kind = call[c].kind /\ r.proxy = call[c].proxy
  <2> DEFINE kept == [call[c] EXCEPT !.at = at]
             answered == [call[c] EXCEPT !.at = at, !.got = s]
  <2>1. kept \in Records /\ answered \in Records
    BY DEF CallsOK, Records
  <2>2. \A r \in {kept, answered} :
           r.at = at /\ r.kind = call[c].kind /\ r.proxy = call[c].proxy
    BY DEF CallsOK, Records
  <2>3. call' = [call EXCEPT ![c] = kept] \/ call' = [call EXCEPT ![c] = answered]
    BY DEF Goto, Answer, CallsOK
  <2> HIDE DEF kept, answered
  <2> QED BY <2>1, <2>2, <2>3
<1>2. OwnKind(c, r)
  BY <1>1 DEF CallsOK, OwnKind
<1> QED BY <1>1, <1>2, Replaced

LEMMA RepliesGo ==
    ASSUME CallsOK, NEW c \in Calls, NEW s \in States, Reply(c, s), call[c].at # "idle"
    PROVE  /\ CallsOK'
           /\ call'[c].at = "reply"
           /\ \A d \in Calls \ {c} : call'[d] = call[d]
<1> DEFINE r == [IdleCall EXCEPT !.kind = call[c].kind, !.at = "reply", !.got = s]
<1>1. r \in Records /\ r.kind = call[c].kind /\ r.at = "reply"
  BY IdleRecord DEF CallsOK, Records, Ats
<1>2. call' = [call EXCEPT ![c] = r]
  BY DEF Reply
<1> HIDE DEF r
<1>3. OwnKind(c, r)
  BY <1>1 DEF CallsOK, OwnKind, None
<1> QED BY <1>1, <1>2, <1>3, Replaced

LEMMA GoesIdle ==
    ASSUME CallsOK, NEW c \in Calls, Ends(c)
    PROVE  CallsOK' /\ \A d \in Calls \ {c} : call'[d] = call[d]
BY IdleRecord, Replaced DEF Ends

LEMMA Begins ==
    ASSUME CallsOK, NEW c \in Calls, NEW kind \in Kinds \ {None}, NEW at \in Ats,
           NEW p \in Proxies \cup {None}, Begin(c, kind, at, p),
           kind \in {"enable", "disable"} => c \in Clicks,
           kind \in {"poll", "refresh"} => c \in Polls,
           kind = "enable" => p \in Proxies
    PROVE  /\ CallsOK'
           /\ call[c].at = "idle" /\ call'[c].at = at
           /\ \A d \in Calls \ {c} : call'[d] = call[d]
<1> DEFINE r == [IdleCall EXCEPT !.kind = kind, !.at = at, !.proxy = p]
<1>1. r \in Records /\ r.kind = kind /\ r.at = at /\ r.proxy = p
  BY IdleRecord DEF Records
<1>2. call' = [call EXCEPT ![c] = r] /\ call[c].at = "idle"
  BY DEF Begin
<1> HIDE DEF r
<1>3. OwnKind(c, r)
  BY <1>1 DEF OwnKind
<1> QED BY <1>1, <1>2, <1>3, Replaced

\* A command that is being served goes on being so.
LEMMA StaysServed ==
    ASSUME BusyIsAnswered, busy' => busy, \A c \in Clicks : Served(c) => Served(c)'
    PROVE  BusyIsAnswered'
BY DEF BusyIsAnswered, Served

-----------------------------------------------------------------------------
(* The window's steps.                                                     *)

LEMMA DisableStep ==
    ASSUME UiInv, NEW c \in Clicks, Disable(c)
    PROVE  UiInv'
<1> USE DEF UiInv
<1>1. c \in Calls /\ Begin(c, "disable", "asked", None)
  BY DEF Disable, Calls
<1>2. CallsOK' /\ call'[c].at = "asked"
  BY <1>1, Begins DEF Kinds, Ats, None
<1>3. StatesOK'
  BY Moves DEF Disable, StatesOK, daemonVars, clientVars
<1>4. BusyIsAnswered'
  BY <1>2 DEF BusyIsAnswered
<1> QED BY <1>2, <1>3, <1>4

LEMMA ToggleOnStep ==
    ASSUME UiInv, NEW c \in Clicks, NEW p \in Proxies, ToggleOn(c, p)
    PROVE  UiInv'
<1> USE DEF UiInv
<1>1. c \in Calls /\ Begin(c, "enable", "prepare", p) /\ UNCHANGED busy
  BY DEF ToggleOn, Calls, windowVars
<1>2. CallsOK' /\ call[c].at = "idle" /\ \A d \in Calls \ {c} : call'[d] = call[d]
  BY <1>1, Begins DEF Kinds, Ats, None
<1>3. StatesOK'
  BY Moves DEF ToggleOn, StatesOK, daemonVars, clientVars, windowVars
<1>4. BusyIsAnswered'
  BY <1>1, <1>2, StaysServed DEF Served, Calls
<1> QED BY <1>2, <1>3, <1>4

LEMMA DismissStep ==
    ASSUME UiInv, DismissError
    PROVE  UiInv'
BY GoodStates DEF UiInv, DismissError, daemonVars, clientVars, CallsOK, StatesOK, BusyIsAnswered

LEMMA EnableStep ==
    ASSUME UiInv, NEW c \in Calls, Enable(c)
    PROVE  UiInv'
<1> USE DEF UiInv
<1>1. c \in Clicks /\ call[c].at = "prepare"
  BY DEF Enable, At, CallsOK, OwnKind
<1>2. StatesOK'
  BY DEF Enable, StatesOK, daemonVars, clientVars
<1>3. CASE busy' = TRUE /\ Goto(c, "asked")
  <2>1. CallsOK' /\ call'[c].at = "asked"
    BY <1>1, <1>3, GoesOn, GoodStates DEF Ats
  <2> QED BY <1>1, <1>2, <2>1 DEF BusyIsAnswered
<1>4. CASE Ends(c) /\ UNCHANGED busy
  <2>1. CallsOK' /\ \A d \in Calls \ {c} : call'[d] = call[d]
    BY <1>4, GoesIdle
  <2>2. BusyIsAnswered'
    BY <1>1, <1>4, <2>1, StaysServed DEF Served, Calls
  <2> QED BY <1>2, <2>1, <2>2
<1> QED BY <1>3, <1>4 DEF Enable

\* What a query answers is a state, and its call was no command.
LEMMA PollReturnsStep ==
    ASSUME UiInv, NEW c \in Calls, PollReturns(c)
    PROVE  UiInv'
<1> USE DEF UiInv
<1>1. c \notin Clicks /\ call[c].got \in States
  BY CallsAssumption DEF PollReturns, At, CallsOK, OwnKind, Records
<1>2. CallsOK' /\ \A d \in Calls \ {c} : call'[d] = call[d]
  BY GoesIdle DEF PollReturns
<1>3. StatesOK'
  BY <1>1 DEF PollReturns, StatesOK, daemonVars, clientVars
<1>4. BusyIsAnswered'
  BY <1>1, <1>2, StaysServed DEF PollReturns, Served, Calls
<1> QED BY <1>2, <1>3, <1>4

\* The answer of a command gives the buttons back.
LEMMA CommandReturnsStep ==
    ASSUME UiInv, NEW c \in Calls, CommandReturns(c)
    PROVE  UiInv'
<1> USE DEF UiInv
<1>1. PICK next \in States : Return(c, next)
  BY GoodStates DEF CommandReturns, EnableReturns, DisableReturns, CallsOK, Records
<1>2. CallsOK'
  BY <1>1, GoesIdle DEF Return
<1>3. StatesOK'
  BY <1>1 DEF Return, StatesOK, daemonVars, clientVars
<1>4. BusyIsAnswered'
  BY <1>1 DEF Return, BusyIsAnswered
<1> QED BY <1>2, <1>3, <1>4

LEMMA PollStep ==
    ASSUME UiInv, NEW c \in Polls, Poll(c)
    PROVE  UiInv'
<1> USE DEF UiInv
<1>1. c \in Calls /\ c \notin Clicks /\ Begin(c, "poll", "asked", None)
  BY CallsAssumption DEF Poll, Calls
<1>2. CallsOK' /\ \A d \in Calls \ {c} : call'[d] = call[d]
  BY <1>1, Begins DEF Kinds, Ats, None
<1>3. StatesOK'
  BY DEF Poll, StatesOK, daemonVars, clientVars, windowVars
<1>4. BusyIsAnswered'
  BY <1>1, <1>2, StaysServed DEF Poll, Served, Calls, windowVars
<1> QED BY <1>2, <1>3, <1>4

LEMMA DeliverStep ==
    ASSUME UiInv, Deliver
    PROVE  UiInv'
<1> USE DEF UiInv
<1>1. shown' \in States /\ events' \in Seq(States)
  BY DEF Deliver, StatesOK
<1> QED BY <1>1 DEF Deliver, daemonVars, StatesOK, CallsOK, BusyIsAnswered

-----------------------------------------------------------------------------
(* The client's and the daemon's steps.                                    *)

\* Of a command or a query that goes on, and whose step emits a state or none.
LEMMA ProgressStep ==
    ASSUME UiInv, NEW c \in Calls, NEW at \in Ats \ {"idle", "prepare"}, NEW s \in States,
           Goto(c, at) \/ Answer(c, at, s), call[c].at \notin {"idle", "reply"}, StatesOK', UNCHANGED busy
    PROVE  UiInv'
<1> USE DEF UiInv
<1>1. CallsOK' /\ call'[c].at = at /\ \A d \in Calls \ {c} : call'[d] = call[d]
  BY GoesOn
<1>2. BusyIsAnswered'
  BY <1>1, StaysServed DEF Served, Calls
<1> QED BY <1>1, <1>2

LEMMA ReplyStep ==
    ASSUME UiInv, NEW c \in Calls, NEW s \in States, Reply(c, s), call[c].at # "idle", StatesOK', UNCHANGED busy
    PROVE  UiInv'
<1> USE DEF UiInv
<1>1. CallsOK' /\ call'[c].at = "reply" /\ \A d \in Calls \ {c} : call'[d] = call[d]
  BY RepliesGo
<1>2. BusyIsAnswered'
  BY <1>1, StaysServed DEF Served, Calls
<1> QED BY <1>1, <1>2

\* A query that ends without an answer was no command.
LEMMA QueryEnds ==
    ASSUME UiInv, NEW c \in Calls, call[c].kind \in {"poll", "refresh"},
           Ends(c), StatesOK', UNCHANGED busy
    PROVE  UiInv'
<1> USE DEF UiInv
<1>1. c \notin Clicks
  BY CallsAssumption DEF CallsOK, OwnKind
<1>2. CallsOK' /\ \A d \in Calls \ {c} : call'[d] = call[d]
  BY GoesIdle
<1>3. BusyIsAnswered'
  BY <1>1, <1>2, StaysServed DEF Served, Calls
<1> QED BY <1>2, <1>3

LEMMA StartStep ==
    ASSUME UiInv, NEW c \in Calls, NotStarted(c) \/ Elevates(c)
    PROVE  UiInv'
<1> USE GoodStates DEF UiInv
<1>1. CASE NotStarted(c)
  <2>1. StatesOK' /\ UNCHANGED busy
    BY <1>1, Emits DEF NotStarted, StatesOK, daemonVars, windowVars
  <2>2. Reply(c, Internal) /\ call[c].at = "asked"
    BY <1>1 DEF NotStarted, At
  <2> QED BY <2>1, <2>2, ReplyStep
<1>2. CASE Elevates(c)
  <2>1. StatesOK' /\ UNCHANGED busy
    BY <1>2, Emits DEF Elevates, StatesOK, daemonVars, windowVars
  <2> QED BY <1>2, <2>1, ProgressStep DEF Elevates, At, Ats
<1> QED BY <1>1, <1>2

LEMMA PromptedStep ==
    ASSUME UiInv, NEW c \in Calls, Prompted(c)
    PROVE  UiInv'
<1> USE GoodStates DEF UiInv
<1>1. UNCHANGED busy /\ call[c].at = "prompt"
  BY DEF Prompted, windowVars, At
<1>2. CASE link' = "up" /\ Goto(c, "sent") /\ UNCHANGED clientVars
  <2>1. StatesOK'
    BY <1>2 DEF Prompted, StatesOK, clientVars, windowVars
  <2> QED BY <1>1, <1>2, <2>1, ProgressStep DEF Ats
<1>3. CASE Emit(Denied) /\ Reply(c, Denied) /\ UNCHANGED link
  <2>1. StatesOK'
    BY <1>3, Emits DEF Prompted, StatesOK, windowVars
  <2> QED BY <1>1, <1>3, <2>1, ReplyStep
<1> QED BY <1>2, <1>3 DEF Prompted

LEMMA SendStep ==
    ASSUME UiInv, NEW c \in Calls, Send(c) \/ Retries(c)
    PROVE  UiInv'
<1> USE GoodStates DEF UiInv
<1>1. CASE Send(c)
  <2>1. StatesOK' /\ UNCHANGED busy
    BY <1>1 DEF Send, StatesOK, clientVars, windowVars
  <2> QED BY <1>1, <2>1, ProgressStep DEF Send, Ats
<1>2. CASE Retries(c)
  <2> DEFINE r == [call[c] EXCEPT !.at = "asked", !.again = TRUE]
  <2>1. r \in Records /\ r.at = "asked" /\ r.kind = call[c].kind /\ r.proxy = call[c].proxy
    BY DEF CallsOK, Records, Ats
  <2>2. call' = [call EXCEPT ![c] = r] /\ call[c].at = "lost"
    BY <1>2 DEF Retries, CallsOK
  <2> HIDE DEF r
  <2>3. OwnKind(c, r)
    BY <2>1, <2>2 DEF CallsOK, OwnKind
  <2>4. CallsOK' /\ call'[c].at = "asked" /\ \A d \in Calls \ {c} : call'[d] = call[d]
    BY <2>1, <2>2, <2>3, Replaced
  <2>5. StatesOK' /\ UNCHANGED busy
    BY <1>2 DEF Retries, StatesOK, daemonVars, clientVars, windowVars
  <2>6. BusyIsAnswered'
    BY <2>4, <2>5, StaysServed DEF Served, Calls
  <2> QED BY <2>4, <2>5, <2>6
<1> QED BY <1>1, <1>2

LEMMA FailsStep ==
    ASSUME UiInv, NEW c \in Calls, Unreachable(c) \/ Unanswered(c)
    PROVE  UiInv'
<1> USE GoodStates DEF UiInv
<1>1. /\ StatesOK' /\ UNCHANGED busy /\ cached \in States
      /\ Fails(c) /\ call[c].at \in {"asked", "lost"}
  BY DEF Unreachable, Unanswered, StatesOK, daemonVars, clientVars, windowVars
<1>2. CASE call[c].kind \in {"enable", "disable"}
  <2>1. Reply(c, Internal)
    BY <1>1, <1>2 DEF Fails
  <2> QED BY <1>1, <2>1, ReplyStep
<1>3. CASE call[c].kind = "poll"
  <2>1. Reply(c, cached)
    BY <1>1, <1>3 DEF Fails
  <2> QED BY <1>1, <2>1, ReplyStep
<1>4. CASE call[c].kind = "refresh"
  <2>1. Ends(c)
    BY <1>1, <1>4 DEF Fails
  <2> QED BY <1>1, <1>4, <2>1, QueryEnds
<1>5. call[c].kind # None
  BY <1>1 DEF CallsOK, OwnKind
<1> QED BY <1>2, <1>3, <1>4, <1>5 DEF CallsOK, Records, Kinds

LEMMA AnsweredStep ==
    ASSUME UiInv, NEW c \in Calls, Answered(c)
    PROVE  UiInv'
<1> USE DEF UiInv
<1>1. call[c].got \in States
  BY DEF CallsOK, Records
<1>2. StatesOK' /\ UNCHANGED busy
  BY <1>1, Emits DEF Answered, StatesOK, daemonVars, clientVars, windowVars
<1>3. CASE call[c].kind = "refresh"
  BY <1>2, <1>3, QueryEnds DEF Answered
<1>4. CASE call[c].kind # "refresh"
  BY <1>1, <1>2, <1>4, ReplyStep DEF Answered
<1> QED BY <1>3, <1>4

LEMMA ReconnectStep ==
    ASSUME UiInv, Reconnect
    PROVE  UiInv'
<1> USE DEF UiInv
<1>1. PICK c \in Polls : Begin(c, "refresh", "asked", None)
  BY DEF Reconnect
<1>2. c \in Calls /\ c \notin Clicks
  BY CallsAssumption DEF Calls
<1>3. CallsOK' /\ \A d \in Calls \ {c} : call'[d] = call[d]
  BY <1>1, <1>2, Begins DEF Kinds, Ats, None
<1>4. StatesOK' /\ UNCHANGED busy
  BY DEF Reconnect, StatesOK, clientVars, windowVars
<1>5. BusyIsAnswered'
  BY <1>2, <1>3, <1>4, StaysServed DEF Served, Calls
<1> QED BY <1>3, <1>4, <1>5

LEMMA ReadFrameStep ==
    ASSUME UiInv, ReadFrame
    PROVE  UiInv'
<1> USE DEF UiInv
<1>1. pushed # <<>> /\ pushed \in Seq(States)
  BY DEF ReadFrame, StatesOK
<1>2. Head(pushed) \in States /\ Tail(pushed) \in Seq(States)
  BY <1>1
<1>3. StatesOK' /\ UNCHANGED <<call, busy>>
  BY <1>2, Emits DEF ReadFrame, StatesOK, windowVars
<1> QED BY <1>3 DEF CallsOK, BusyIsAnswered

\* The end of the connection takes no call away from the window.
LEMMA ReadEndStep ==
    ASSUME UiInv, ReadEnd
    PROVE  UiInv'
<1> USE GoodStates DEF UiInv
<1>1. StatesOK' /\ UNCHANGED busy
  BY Emits DEF ReadEnd, StatesOK, clientVars, windowVars
<1>2. PICK handed \in SUBSET {c \in Calls : call[c].at = "answered"} :
        call' = [c \in Calls |-> IF Waiting(c) /\ c \notin handed
                                THEN [call[c] EXCEPT !.at = "lost", !.got = Disconnected]
                                ELSE call[c]]
  BY DEF ReadEnd
<1>3. ASSUME NEW c \in Calls
      PROVE  /\ call'[c] \in Records /\ OwnKind(c, call'[c])
             /\ Served(c) => call'[c].at \notin {"idle", "prepare"}
  <2> DEFINE r == [call[c] EXCEPT !.at = "lost", !.got = Disconnected]
  <2>1. (call'[c] = r /\ Waiting(c)) \/ call'[c] = call[c]
    BY <1>2
  <2>2. /\ r \in Records /\ r.at = "lost"
        /\ r.kind = call[c].kind /\ r.proxy = call[c].proxy
    BY DEF CallsOK, Records, Ats
  <2> HIDE DEF r
  <2>3. CASE call'[c] = r /\ Waiting(c)
    BY <2>2, <2>3 DEF CallsOK, OwnKind, Waiting
  <2>4. CASE call'[c] = call[c]
    BY <2>4 DEF CallsOK, Served
  <2> QED BY <2>1, <2>3, <2>4
<1>4. CallsOK'
  BY <1>2, <1>3 DEF CallsOK
<1>5. BusyIsAnswered'
  BY <1>1, <1>3, StaysServed DEF Served, Calls
<1> QED BY <1>1, <1>4, <1>5

LEMMA DaemonStep ==
    ASSUME UiInv, NEW c \in Calls,
           GetState(c) \/ StopTunnel(c) \/ StartTunnel(c) \/ Started(c)
    PROVE  UiInv'
<1> USE GoodStates DEF UiInv
<1>1. CASE GetState(c)
  <2>1. StatesOK' /\ engine \in States /\ UNCHANGED busy
    BY <1>1 DEF GetState, StatesOK, daemonVars, clientVars, windowVars
  <2> QED BY <1>1, <2>1, ProgressStep DEF GetState, Handles, Ats
<1>2. CASE StopTunnel(c)
  <2>1. engine' \in States /\ pushed' \in Seq(States)
    <3>1. <<Disconnected>> \in Seq(States) \ {<<>>} /\ <<Internal>> \in Seq(States) \ {<<>>}
      OBVIOUS
    <3> QED BY <1>2, <3>1, Becomes DEF StopTunnel, StatesOK
  <2>2. StatesOK' /\ UNCHANGED busy
    BY <1>2, <2>1 DEF StopTunnel, StatesOK, clientVars, windowVars
  <2>3. (\E s \in States : Answer(c, "answered", s)) /\ call[c].at = "sent"
    BY <1>2 DEF StopTunnel, Handles
  <2> QED BY <2>2, <2>3, ProgressStep DEF Ats
<1>3. CASE StartTunnel(c)
  <2>1. call[c].kind = "enable" /\ call[c].at = "sent"
    BY <1>3 DEF StartTunnel, Handles
  <2>2. call[c].proxy \in Proxies
    BY <2>1 DEF CallsOK, OwnKind
  <2> DEFINE entered == State("configuring_routes", call[c].proxy)
             ss == (IF engine.status = "error" THEN <<Disconnected>> ELSE <<>>) \o <<entered>>
  <2>3. entered \in States
    BY <2>2
  <2>4. Become(ss)
    BY <1>3 DEF StartTunnel
  <2> HIDE DEF entered
  <2>5. ss \in Seq(States) \ {<<>>}
    BY <2>3
  <2> HIDE DEF ss
  <2>6. engine' \in States /\ pushed' \in Seq(States)
    BY <2>4, <2>5, Becomes DEF StatesOK
  <2>7. StatesOK' /\ UNCHANGED busy
    BY <1>3, <2>6 DEF StartTunnel, StatesOK, clientVars, windowVars
  <2> QED BY <1>3, <2>1, <2>7, ProgressStep DEF StartTunnel, Ats
<1>4. CASE Started(c)
  <2>1. call[c].kind = "enable" /\ call[c].at = "starting"
    BY <1>4 DEF Started, At
  <2>2. call[c].proxy \in Proxies
    BY <2>1 DEF CallsOK, OwnKind
  <2>3. PICK s \in States : Become(<<s>>) /\ Answer(c, "answered", s)
    BY <1>4, <2>2 DEF Started, Codes
  <2>4. <<s>> \in Seq(States) \ {<<>>}
    OBVIOUS
  <2>5. engine' \in States /\ pushed' \in Seq(States)
    BY <2>3, <2>4, Becomes DEF StatesOK
  <2>6. StatesOK' /\ UNCHANGED busy
    BY <1>4, <2>5 DEF Started, StatesOK, clientVars, windowVars
  <2> QED BY <2>1, <2>3, <2>6, ProgressStep DEF Ats
<1> QED BY <1>1, <1>2, <1>3, <1>4

LEMMA EngineStep ==
    ASSUME UiInv, EngineEvent
    PROVE  UiInv'
<1> USE GoodStates DEF UiInv
<1>1. engine.status \in {"connected", "reconnecting"} => engine.proxy \in Proxies
  BY DEF StatesOK, States
<1>2. PICK s \in States : Become(<<s>>)
  BY <1>1 DEF EngineEvent, Codes
<1>3. <<s>> \in Seq(States) \ {<<>>}
  OBVIOUS
<1>4. engine' \in States /\ pushed' \in Seq(States)
  BY <1>2, <1>3, Becomes DEF StatesOK
<1>5. StatesOK' /\ UNCHANGED <<call, busy>>
  BY <1>4, Moves DEF EngineEvent, StatesOK, clientVars, windowVars
<1> QED BY <1>5 DEF CallsOK, BusyIsAnswered

LEMMA ExitStep ==
    ASSUME UiInv, DaemonExits
    PROVE  UiInv'
<1> USE GoodStates DEF UiInv
<1>1. PICK n \in 0..Len(pushed) : pushed' = SubSeq(pushed, 1, n)
  BY DEF DaemonExits
<1>2. pushed' \in Seq(States)
  BY <1>1 DEF StatesOK
<1>3. StatesOK' /\ UNCHANGED <<call, busy>>
  BY <1>2, Moves DEF DaemonExits, StatesOK, clientVars, windowVars
<1> QED BY <1>3 DEF CallsOK, BusyIsAnswered

-----------------------------------------------------------------------------
LEMMA UiInvariant == Spec => []UiInv
<1>1. Init => UiInv
  <2> SUFFICES ASSUME Init PROVE UiInv
    OBVIOUS
  <2>1. CallsOK
    <3>1. call = [c \in Calls |-> IdleCall]
      BY DEF Init
    <3> QED BY <3>1, IdleRecord DEF CallsOK
  <2>2. StatesOK
    <3>1. /\ link = "down" /\ busy = FALSE /\ moves = 0 /\ pushed = <<>> /\ events = <<>>
          /\ engine = Disconnected /\ cached = Disconnected /\ shown = Disconnected
      BY DEF Init
    <3>2. link \in {"down", "up", "closing"} /\ busy \in BOOLEAN
      BY <3>1
    <3>3. engine \in States /\ cached \in States /\ shown \in States
      BY <3>1, GoodStates
    <3>4. pushed \in Seq(States) /\ events \in Seq(States) /\ moves \in 0..MaxMoves
      <4>1. <<>> \in Seq(States)
        OBVIOUS
      <4> QED BY <3>1, <4>1, MovesAssumption
    <3> QED BY <3>2, <3>3, <3>4 DEF StatesOK
  <2>3. BusyIsAnswered
    BY DEF Init, BusyIsAnswered
  <2> QED BY <2>1, <2>2, <2>3 DEF UiInv
<1>2. UiInv /\ [Next]_vars => UiInv'
  <2> SUFFICES ASSUME UiInv, [Next]_vars PROVE UiInv'
    OBVIOUS
  <2>1. CASE User
    BY <2>1, ToggleOnStep, DisableStep, DismissStep DEF User, ToggleOff, BannerOff
  <2>2. CASE \E c \in Calls : Command(c) \/ NotStarted(c) \/ Elevates(c) \/ Prompted(c)
    BY <2>2, EnableStep, StartStep, PromptedStep, SendStep, FailsStep, AnsweredStep,
       PollReturnsStep, CommandReturnsStep, DaemonStep DEF Command
  <2>3. CASE (\E c \in Polls : Poll(c)) \/ Deliver
    BY <2>3, PollStep, DeliverStep
  <2>4. CASE Reconnect \/ ReadFrame \/ ReadEnd \/ EngineEvent \/ DaemonExits
    BY <2>4, ReconnectStep, ReadFrameStep, ReadEndStep, EngineStep, ExitStep
  <2>5. CASE UNCHANGED vars
    BY <2>5 DEF vars, UiInv, CallsOK, StatesOK, BusyIsAnswered
  <2> QED BY <2>1, <2>2, <2>3, <2>4, <2>5 DEF Next
<1> QED BY <1>1, <1>2, PTL DEF Spec

\* Every state shown, emitted or answered is one the window has a rendering for,
\* in particular each error has one of the daemon's codes.
THEOREM TypeCorrect == Spec => []TypeOK
<1>1. UiInv => TypeOK
  BY DEF UiInv, CallsOK, StatesOK, TypeOK, Records, Kinds, Ats
<1> QED BY <1>1, UiInvariant, PTL

\* However many commands and polls overlap, and whenever the daemon exits, the
\* buttons of useSystemTunnel are held back only while a command is on its way.
THEOREM ButtonsComeBack == Spec => []BusyIsAnswered
<1>1. UiInv => BusyIsAnswered
  BY DEF UiInv
<1> QED BY <1>1, UiInvariant, PTL
=============================================================================
