---------------------------- MODULE MarketBridges ----------------------------
(***************************************************************************)
(* How the market page (src/pages/MarketPage.tsx) keeps one local bridge   *)
(* per open proxy session.  A reconciliation lists the backend's sessions, *)
(* stops the bridges of saved sessions that are gone and starts those that *)
(* are missing; reconciliations of one page are queued, but buying,        *)
(* closing, tunnelling and opening a session work on the same bridges and  *)
(* the same saved ports beside the queue.                                  *)
(*                                                                         *)
(* Handlers are cut where they await.  What a page keeps in refs dies with *)
(* it, but its handlers run on after it is left, so every page mounted in  *)
(* turn has its own.  The registry of bridges is used as BridgeMap         *)
(* promises it (BridgeRegistry implements that); a new bridge gets any     *)
(* free port, whichever port the page asks for first.                      *)
(***************************************************************************)
EXTENDS Naturals

CONSTANTS Sids,       \* proxy sessions
          Handlers,   \* click handlers in progress at once
          Ports,
          MaxPage     \* bound: pages mounted in turn

ASSUME PortsAssumption == Ports \subseteq Nat \ {0}
ASSUME PageAssumption == MaxPage \in Nat \ {0}

VARIABLES
    status,    \* the backend's sessions
    bridge,    \* the registry: the port of each session's bridge
    store,     \* bridge_ports in the settings store
    page,      \* the page mounted now
    listed,    \* sessions: the rows of the mounted page
    shown,     \* bridgePortsRef (and bridgePorts, set with it), per page
    queued,    \* reconcileQueue has a run waiting, per page
    run,       \* the run in progress, per page
    task       \* click handlers

vars == <<status, bridge, store, page, listed, shown, queued, run, task>>
uiVars == <<page, listed>>

Pages == 1..MaxPage
NoPort == 0
NoPorts == [s \in Sids |-> NoPort]
NoSid == "none"

Open == {s \in Sids : status[s] = "open"}

IdleRun == [at |-> "idle", active |-> {}, todo |-> {}, merged |-> NoPorts]
IdleTask == [at |-> "idle", kind |-> NoSid, page |-> 1, sid |-> NoSid, port |-> NoPort,
             ports |-> NoPorts]

Init ==
    /\ status = [s \in Sids |-> "new"]
    /\ bridge = NoPorts
    /\ store = NoPorts
    /\ page = 1
    /\ listed = {}
    /\ shown = [p \in Pages |-> NoPorts]
    /\ queued = [p \in Pages |-> p = 1]
    /\ run = [p \in Pages |-> IdleRun]
    /\ task = [h \in Handlers |-> IdleTask]

\* fetchSessions.  A run queued behind one that has not begun would see nothing
\* that one does not.
Enqueue(p) == queued' = [queued EXCEPT ![p] = TRUE]

\* saveBridgePorts: a write that fails goes unnoticed.
SaveBridgePorts(ports) == store' \in {ports, store}

\* ensureBridge: the running bridge's port, else a bridge is started; no port
\* when that fails.
Ensure(s, got) ==
    \/ bridge[s] # NoPort /\ got = bridge[s] /\ UNCHANGED bridge
    \/ /\ bridge[s] = NoPort /\ got # NoPort
       /\ \A u \in Sids : bridge[u] # got
       /\ bridge' = [bridge EXCEPT ![s] = got]
    \/ bridge[s] = NoPort /\ got = NoPort /\ UNCHANGED bridge

-----------------------------------------------------------------------------
(* fetchSessions: one run of the queue of page p.                          *)

RunStep(p, r) == run' = [run EXCEPT ![p] = r]

\* Mutant: only sessions that have a saved port are looked after.
List_OnlySaved(p) ==
    /\ run[p].at = "idle" /\ queued[p]
    /\ queued' = [queued EXCEPT ![p] = FALSE]
    /\ LET active == {s \in Open : store[s] # NoPort} IN
       \/ /\ listed' = IF p = page THEN Open ELSE listed
          /\ RunStep(p, [IdleRun EXCEPT !.at = "load", !.active = active]) \/ UNCHANGED run
       \/ UNCHANGED <<listed, run>>
    /\ UNCHANGED <<status, bridge, store, page, shown, task>>

\* A run ends here without the backend's answer, or once it has shown the sessions
\* without a token.
List(p) ==
    /\ run[p].at = "idle" /\ queued[p]
    /\ queued' = [queued EXCEPT ![p] = FALSE]
    /\ \/ /\ listed' = IF p = page THEN Open ELSE listed
          /\ RunStep(p, [IdleRun EXCEPT !.at = "load", !.active = Open]) \/ UNCHANGED run
       \/ UNCHANGED <<listed, run>>
    /\ UNCHANGED <<status, bridge, store, page, shown, task>>

\* loadBridgePorts: what cannot be read counts as empty.  Saved sessions the
\* backend no longer lists are to be stopped.
Load(p) ==
    LET r == run[p] IN
    /\ r.at = "load"
    /\ \E saved \in {store, NoPorts} :
         RunStep(p, [r EXCEPT !.at = "stop", !.merged = shown[p],
                              !.todo = {s \in Sids : saved[s] # NoPort} \ r.active])
    /\ UNCHANGED <<status, bridge, store, shown, queued, task, uiVars>>

StopGone(p) ==
    LET r == run[p] IN
    /\ r.at = "stop"
    /\ \E s \in r.todo :
         /\ bridge' = [bridge EXCEPT ![s] = NoPort]
         /\ RunStep(p, [r EXCEPT !.todo = @ \ {s}, !.merged[s] = NoPort])
    /\ UNCHANGED <<status, store, shown, queued, task, uiVars>>

EnsureListed(p) ==
    LET r == run[p] IN
    /\ r.at = "stop" /\ r.todo = {}
    /\ \E s \in r.active, got \in Ports \cup {NoPort} :
         /\ Ensure(s, got)
         /\ RunStep(p, [r EXCEPT !.active = @ \ {s}, !.merged[s] = got])
    /\ UNCHANGED <<status, store, shown, queued, task, uiVars>>

\* Mutant: the ports are laid over those shown, so none is ever taken away.
Publish_KeepsOthers(p) ==
    LET r == run[p] IN
    /\ r.at = "stop" /\ r.todo = {} /\ r.active = {}
    /\ shown' = [shown EXCEPT ![p] =
                    [s \in Sids |-> IF r.merged[s] = NoPort THEN @[s] ELSE r.merged[s]]]
    /\ RunStep(p, [r EXCEPT !.at = "save"])
    /\ UNCHANGED <<status, bridge, store, queued, task, uiVars>>

Publish(p) ==
    LET r == run[p] IN
    /\ r.at = "stop" /\ r.todo = {} /\ r.active = {}
    /\ shown' = [shown EXCEPT ![p] = r.merged]
    /\ RunStep(p, [r EXCEPT !.at = "save"])
    /\ UNCHANGED <<status, bridge, store, queued, task, uiVars>>

Save(p) ==
    /\ run[p].at = "save"
    /\ SaveBridgePorts(run[p].merged)
    /\ RunStep(p, IdleRun)
    /\ UNCHANGED <<status, bridge, shown, queued, task, uiVars>>

Run(p) == List(p) \/ Load(p) \/ StopGone(p) \/ EnsureListed(p) \/ Publish(p) \/ Save(p)

-----------------------------------------------------------------------------
(* Click handlers of the mounted page.                                     *)

\* A session's row, with its buttons; its modal shows the local address.
Row(s) == s \in listed
LocalPort(s) == shown[page][s]

Goto(h, at) == task' = [task EXCEPT ![h].at = at]
Finish(h) == task' = [task EXCEPT ![h] = IdleTask]
ToRefetch(h) == task' = [task EXCEPT ![h] = [IdleTask EXCEPT !.at = "refetch", !.page = task[h].page]]

Click(h, kind, s, at, port) ==
    /\ task[h].at = "idle"
    /\ task' = [task EXCEPT ![h] = [IdleTask EXCEPT !.at = at, !.kind = kind, !.page = page,
                                                    !.sid = s, !.port = port]]
    /\ UNCHANGED <<bridge, store, shown, queued, run, uiVars>>

\* createSession; a page without a token yet leaves the bridge to the queue.
\* A call that fails ends the handler.
ClickBuy(h, s) ==
    /\ status[s] = "new"
    /\ status' = [status EXCEPT ![s] = "open"]
    /\ \/ Click(h, "buy", s, "ensure", NoPort)
       \/ Click(h, NoSid, NoSid, "refetch", NoPort)

\* closeSession, which fails when the session is gone.
ClickClose(h, s) ==
    /\ Row(s) /\ status[s] = "open"
    /\ status' = [status EXCEPT ![s] = "closed"]
    /\ Click(h, "close", s, "stop", NoPort)

ClickTunnel(h, s) == Row(s) /\ Click(h, "tunnel", s, "ensure", NoPort) /\ UNCHANGED status

\* Mutant: the effect does not look whether it was given a port.
ClickRow_AnyPort(h, s) == Row(s) /\ Click(h, "row", s, "set", bridge[s]) /\ UNCHANGED status

\* The modal's effect asks for the bridge's port.
ClickRow(h, s) ==
    /\ Row(s) /\ bridge[s] # NoPort
    /\ Click(h, "row", s, "set", bridge[s])
    /\ UNCHANGED status

CloseBridge(h) ==
    /\ task[h].at = "stop"
    /\ bridge' = [bridge EXCEPT ![task[h].sid] = NoPort]
    /\ Goto(h, "set")
    /\ UNCHANGED <<status, store, shown, queued, run, uiVars>>

\* Without a bridge a purchase is left to the queue and a tunnel is not enabled.
EnsureBridge(h) ==
    LET t == task[h] IN
    /\ t.at = "ensure"
    /\ \E got \in Ports \cup {NoPort} :
         /\ Ensure(t.sid, got)
         /\ \/ got # NoPort /\ task' = [task EXCEPT ![h].at = "set", ![h].port = got]
            \/ got = NoPort /\ t.kind = "buy" /\ ToRefetch(h)
            \/ got = NoPort /\ t.kind = "tunnel" /\ Finish(h)
    /\ UNCHANGED <<status, store, shown, queued, run, uiVars>>

\* setPorts with the session's port added, or removed by a close.  The modal's
\* effect adds a port only to a page that is still there and shows none.
SetPorts(h) ==
    LET t == task[h]
        ports == [shown[t.page] EXCEPT ![t.sid] = t.port]
        skip == t.kind = "row" /\ (shown[t.page][t.sid] # NoPort \/ page # t.page) IN
    /\ t.at = "set"
    /\ \/ /\ ~skip
          /\ shown' = [shown EXCEPT ![t.page] = ports]
          /\ task' = [task EXCEPT ![h] = [t EXCEPT !.at = "save", !.port = NoPort, !.ports = ports]]
       \/ skip /\ Finish(h) /\ UNCHANGED shown
    /\ UNCHANGED <<status, bridge, store, queued, run, uiVars>>

SavePorts(h) ==
    LET t == task[h] IN
    /\ t.at = "save"
    /\ SaveBridgePorts(t.ports)
    /\ IF t.kind \in {"buy", "close"} THEN ToRefetch(h) ELSE Finish(h)
    /\ UNCHANGED <<status, bridge, shown, queued, run, uiVars>>

Refetch(h) ==
    /\ task[h].at = "refetch"
    /\ Enqueue(task[h].page)
    /\ Finish(h)
    /\ UNCHANGED <<status, bridge, store, shown, run, uiVars>>

Task(h) == CloseBridge(h) \/ EnsureBridge(h) \/ SetPorts(h) \/ SavePorts(h) \/ Refetch(h)

-----------------------------------------------------------------------------
(* What happens around the page.                                           *)

\* A session expires, or is closed by a logout or from elsewhere.
Expire(s) ==
    /\ status[s] = "open"
    /\ status' = [status EXCEPT ![s] = "closed"]
    /\ UNCHANGED <<bridge, store, shown, queued, run, task, uiVars>>

\* The minute timer, a SessionUpdate event, a change of tab.
Refresh ==
    /\ Enqueue(page)
    /\ UNCHANGED <<status, bridge, store, shown, run, task, uiVars>>

Mount ==
    /\ page < MaxPage
    /\ page' = page + 1
    /\ listed' = {}

\* handleRotate changes the session's address at the backend only.
ClickRotate(s) == Row(s) /\ status[s] = "open" /\ Refresh

\* The page is left and mounted again; what runs in between runs as well after.
Revisit ==
    /\ Mount
    /\ Enqueue(page + 1)
    /\ UNCHANGED <<status, bridge, store, shown, run, task>>

\* The application ends, at any point, and is started again.
Restart ==
    /\ Mount
    /\ bridge' = NoPorts
    /\ queued' = [p \in Pages |-> p = page + 1]
    /\ run' = [p \in Pages |-> IdleRun]
    /\ task' = [h \in Handlers |-> IdleTask]
    /\ shown' = [p \in Pages |-> NoPorts]
    /\ UNCHANGED <<status, store>>

User ==
    \/ \E h \in Handlers, s \in Sids :
         ClickBuy(h, s) \/ ClickClose(h, s) \/ ClickTunnel(h, s) \/ ClickRow(h, s)
    \/ \E s \in Sids : ClickRotate(s)
    \/ Revisit \/ Restart

Next ==
    \/ \E p \in Pages : Run(p)
    \/ \E h \in Handlers : Task(h)
    \/ \E s \in Sids : Expire(s)
    \/ Refresh
    \/ User

\* The timer of the mounted page fires again and again, its reconciliation goes
\* on, and a call it makes again and again (getToken too) does not fail every time.
\* Nothing is asked of click handlers, nor of a page that was left: they may hang.
Lists == List(page) /\ run'[page].at = "load"
Starts(s) == EnsureListed(page) /\ bridge'[s] # bridge[s]

Fairness ==
    /\ WF_vars(Refresh) /\ WF_vars(Run(page)) /\ SF_vars(Lists)
    /\ \A s \in Sids : SF_vars(Starts(s))

Spec == Init /\ [][Next]_vars /\ Fairness

-----------------------------------------------------------------------------
(* Properties.                                                             *)

Kinds == {"buy", "close", "tunnel", "row"}
PortMap == [Sids -> Ports \cup {NoPort}]

\* Every reference of the page holds what its code expects: a port about to be
\* shown is one, a handler has only the steps of its kind.
TypeOK ==
    /\ status \in [Sids -> {"new", "open", "closed"}]
    /\ bridge \in PortMap /\ store \in PortMap
    /\ page \in Pages
    /\ listed \subseteq Sids
    /\ shown \in [Pages -> PortMap]
    /\ queued \in [Pages -> BOOLEAN]
    /\ run \in [Pages -> [at : {"idle", "load", "stop", "save"}, active : SUBSET Sids,
                          todo : SUBSET Sids, merged : PortMap]]
    /\ task \in [Handlers -> {IdleTask}
                   \cup [at : {"ensure"}, kind : {"buy", "tunnel"}, page : Pages, sid : Sids,
                         port : {NoPort}, ports : {NoPorts}]
                   \cup [at : {"stop", "set"}, kind : {"close"}, page : Pages, sid : Sids,
                         port : {NoPort}, ports : {NoPorts}]
                   \cup [at : {"set"}, kind : {"buy", "tunnel", "row"}, page : Pages,
                         sid : Sids, port : Ports, ports : {NoPorts}]
                   \cup [at : {"save"}, kind : Kinds, page : Pages, sid : Sids,
                         port : {NoPort}, ports : PortMap]
                   \cup [at : {"refetch"}, kind : {NoSid}, page : Pages, sid : {NoSid},
                         port : {NoPort}, ports : {NoPorts}]]

Agrees == \A s \in Open : bridge[s] # NoPort /\ LocalPort(s) = bridge[s]

\* Whatever handlers raced, pages were left and calls failed: in the end every
\* open session has its bridge and the page shows its port.
Converges == <>[]Agrees

AtRest ==
    /\ \A p \in Pages : run[p] = IdleRun /\ ~queued[p]
    /\ \A h \in Handlers : task[h] = IdleTask

\* When the first page is at rest, a port it shows for an open session is the
\* one the session's bridge listens on.  (A later page is raced by the queue
\* its predecessor left behind, and can show a port nothing listens on.)
ShownPortServes ==
    AtRest /\ page = 1 =>
        \A s \in Open : LocalPort(s) \in {NoPort, bridge[s]}

\* The comments in fetchSessions: reconciliations are serialised so that a
\* purchase can never race their stop/start cycle, and healthy bridges are never
\* restarted.  The bridge of an open session is left alone while its page is.
HealthyBridgeKept ==
    [][\A s \in Open : bridge[s] # NoPort /\ page' = page => bridge'[s] = bridge[s]]_vars
=============================================================================
