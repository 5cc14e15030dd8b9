------------------------- MODULE MarketBridgesProofs -------------------------
(***************************************************************************)
(* Proofs about MarketBridges, for any sessions, handlers, ports, pages:   *)
(* its types, that the first page shows no port but its bridge's, and what *)
(* would keep reconciliations off healthy bridges.                         *)
(***************************************************************************)
EXTENDS MarketBridges, TLAPS

(* A click handler, by where it stands.                                    *)
AskTasks == [at : {"ensure"}, kind : {"buy", "tunnel"}, page : Pages, sid : Sids,
             port : {NoPort}, ports : {NoPorts}]
CloseTasks == [at : {"stop", "set"}, kind : {"close"}, page : Pages, sid : Sids,
               port : {NoPort}, ports : {NoPorts}]
SetTasks == [at : {"set"}, kind : {"buy", "tunnel", "row"}, page : Pages, sid : Sids,
             port : Ports, ports : {NoPorts}]
SaveTasks == [at : {"save"}, kind : Kinds, page : Pages, sid : Sids, port : {NoPort},
              ports : PortMap]
RefetchTasks == [at : {"refetch"}, kind : {NoSid}, page : Pages, sid : {NoSid},
                 port : {NoPort}, ports : {NoPorts}]
Tasks ==
    {IdleTask} \cup AskTasks \cup CloseTasks \cup SetTasks \cup SaveTasks \cup RefetchTasks

Runs == [at : {"idle", "load", "stop", "save"}, active : SUBSET Sids, todo : SUBSET Sids,
         merged : PortMap]

TasksTyped == task \in [Handlers -> Tasks]
QueueTyped == queued \in [Pages -> BOOLEAN] /\ run \in [Pages -> Runs]
MapsTyped == bridge \in PortMap /\ store \in PortMap /\ shown \in [Pages -> PortMap]
RestTyped ==
    status \in [Sids -> {"new", "open", "closed"}] /\ page \in Pages /\ listed \subseteq Sids

TypeParts == TasksTyped /\ QueueTyped /\ MapsTyped /\ RestTyped

LEMMA SameTypes == (TypeOK <=> TypeParts) /\ (TypeOK' <=> TypeParts')
BY DEF TypeOK, TypeParts, TasksTyped, QueueTyped, MapsTyped, RestTyped, Tasks, AskTasks, CloseTasks,
       SetTasks, SaveTasks, RefetchTasks, Runs

LEMMA FirstPage == 1 \in Pages
BY PageAssumption DEF Pages

LEMMA NoPortsTyped == NoPorts \in PortMap /\ NoPort \notin Ports
BY PortsAssumption DEF NoPorts, PortMap, NoPort

LEMMA IdleTyped == IdleRun \in Runs /\ IdleTask \in Tasks
BY NoPortsTyped DEF IdleRun, Runs, Tasks

(* Where a handler stands tells what it holds.                             *)
LEMMA TaskAt ==
    ASSUME NEW t \in Tasks
    PROVE  /\ t.page \in Pages
           /\ t.at = "ensure" => t \in AskTasks
           /\ t.at = "stop" => t \in CloseTasks
           /\ t.at = "set" => t \in CloseTasks \cup SetTasks
           /\ t.at = "save" => t \in SaveTasks
BY FirstPage DEF Tasks, IdleTask, AskTasks, CloseTasks, SetTasks, SaveTasks, RefetchTasks

LEMMA ToRefetchTyped ==
    ASSUME TasksTyped, NEW h \in Handlers, ToRefetch(h) \/ Finish(h)
    PROVE  TasksTyped'
<1>1. task[h].page \in Pages
  BY TaskAt DEF TasksTyped
<1>2. [IdleTask EXCEPT !.at = "refetch", !.page = task[h].page] \in RefetchTasks
  BY <1>1 DEF IdleTask, RefetchTasks
<1> QED BY <1>2, IdleTyped DEF ToRefetch, Finish, TasksTyped, Tasks

LEMMA EnsureTyped ==
    ASSUME bridge \in PortMap, NEW s \in Sids, NEW got \in Ports \cup {NoPort}, Ensure(s, got)
    PROVE  bridge' \in PortMap
BY DEF Ensure, PortMap

-----------------------------------------------------------------------------
LEMMA RunTypes ==
    ASSUME TypeOK, NEW p \in Pages, Run(p)
    PROVE  TypeOK'
<1> USE SameTypes DEF TypeParts
<1>1. run[p] \in Runs
  BY DEF QueueTyped
<1>2. CASE List(p)
  <2>1. [IdleRun EXCEPT !.at = "load", !.active = Open] \in Runs
    BY NoPortsTyped DEF IdleRun, Runs, Open
  <2>2. QueueTyped'
    BY <1>2, <2>1 DEF List, RunStep, QueueTyped
  <2> QED BY <1>2, <2>2 DEF List, TasksTyped, MapsTyped, RestTyped, Open
<1>3. CASE Load(p)
  <2>1. PICK saved \in {store, NoPorts} :
          run' = [run EXCEPT ![p] = [run[p] EXCEPT !.at = "stop", !.merged = shown[p],
                              !.todo = {s \in Sids : saved[s] # NoPort} \ run[p].active]]
    BY <1>3 DEF Load, RunStep
  <2>2. run'[p] \in Runs
    BY <1>1, <2>1 DEF Runs, MapsTyped, QueueTyped
  <2> QED BY <1>3, <2>1, <2>2 DEF Load, QueueTyped, TasksTyped, MapsTyped, RestTyped, uiVars
<1>4. CASE StopGone(p)
  <2>1. PICK s \in run[p].todo :
          /\ bridge' = [bridge EXCEPT ![s] = NoPort]
          /\ run' = [run EXCEPT ![p] = [run[p] EXCEPT !.todo = run[p].todo \ {s},
                                                      !.merged[s] = NoPort]]
    BY <1>4 DEF StopGone, RunStep
  <2>2. bridge' \in PortMap
    BY <2>1 DEF MapsTyped, PortMap
  <2>3. [run[p] EXCEPT !.todo = run[p].todo \ {s}, !.merged[s] = NoPort] \in Runs
    BY <1>1 DEF Runs, PortMap
  <2> QED BY <1>4, <2>1, <2>2, <2>3
          DEF StopGone, QueueTyped, TasksTyped, MapsTyped, RestTyped, uiVars
<1>5. CASE EnsureListed(p)
  <2>1. PICK s \in run[p].active, got \in Ports \cup {NoPort} :
          /\ Ensure(s, got)
          /\ run' = [run EXCEPT ![p] = [run[p] EXCEPT !.active = run[p].active \ {s},
                                                      !.merged[s] = got]]
    BY <1>5 DEF EnsureListed, RunStep
  <2>2. bridge' \in PortMap
    BY <1>1, <2>1, EnsureTyped DEF MapsTyped, Runs
  <2>3. [run[p] EXCEPT !.active = run[p].active \ {s}, !.merged[s] = got] \in Runs
    BY <1>1 DEF Runs, PortMap
  <2> QED BY <1>5, <2>1, <2>2, <2>3
          DEF EnsureListed, QueueTyped, TasksTyped, MapsTyped, RestTyped, uiVars
<1>6. CASE Publish(p)
  <2>1. [run[p] EXCEPT !.at = "save"] \in Runs /\ run[p].merged \in PortMap
    BY <1>1 DEF Runs
  <2> QED BY <1>6, <2>1 DEF Publish, RunStep, QueueTyped, TasksTyped, MapsTyped, RestTyped, uiVars
<1>7. CASE Save(p)
  <2>1. run[p].merged \in PortMap
    BY <1>1 DEF Runs
  <2> QED BY <1>7, <2>1, IdleTyped
          DEF Save, SaveBridgePorts, RunStep, QueueTyped, TasksTyped, MapsTyped, RestTyped, uiVars
<1> QED BY <1>2, <1>3, <1>4, <1>5, <1>6, <1>7 DEF Run

LEMMA TaskTypes ==
    ASSUME TypeOK, NEW h \in Handlers, Task(h)
    PROVE  TypeOK'
<1> USE SameTypes DEF TypeParts
<1> DEFINE t == task[h]
<1>1. t \in Tasks
  BY DEF TasksTyped
<1>2. CASE CloseBridge(h)
  <2>1. t \in CloseTasks
    BY <1>1, <1>2, TaskAt DEF CloseBridge
  <2>2. [t EXCEPT !.at = "set"] \in CloseTasks
    BY <2>1 DEF CloseTasks
  <2>3. TasksTyped'
    BY <1>2, <2>2 DEF CloseBridge, Goto, TasksTyped, Tasks
  <2>4. bridge' \in PortMap
    BY <1>2 DEF CloseBridge, MapsTyped, PortMap
  <2> QED BY <1>2, <2>3, <2>4 DEF CloseBridge, QueueTyped, MapsTyped, RestTyped, uiVars
<1>3. CASE EnsureBridge(h)
  <2>1. t \in AskTasks
    BY <1>1, <1>3, TaskAt DEF EnsureBridge
  <2>2. PICK got \in Ports \cup {NoPort} :
          /\ Ensure(t.sid, got)
          /\ \/ got # NoPort /\ task' = [task EXCEPT ![h] = [t EXCEPT !.at = "set", !.port = got]]
             \/ ToRefetch(h)
             \/ Finish(h)
    BY <1>3 DEF EnsureBridge
  <2>3. bridge' \in PortMap
    BY <2>1, <2>2, EnsureTyped DEF MapsTyped, AskTasks
  <2>4. got # NoPort => [t EXCEPT !.at = "set", !.port = got] \in SetTasks
    BY <2>1 DEF AskTasks, SetTasks
  <2>5. TasksTyped'
    BY <2>2, <2>4, ToRefetchTyped DEF TasksTyped, Tasks
  <2> QED BY <1>3, <2>3, <2>5 DEF EnsureBridge, QueueTyped, MapsTyped, RestTyped, uiVars
<1>4. CASE SetPorts(h)
  <2> DEFINE ports == [shown[t.page] EXCEPT ![t.sid] = t.port]
  <2>1. t \in CloseTasks \cup SetTasks
    BY <1>1, <1>4, TaskAt DEF SetPorts
  <2>2. t.page \in Pages /\ t.port \in Ports \cup {NoPort}
    BY <2>1 DEF CloseTasks, SetTasks
  <2>3. ports \in PortMap
    BY <2>2 DEF MapsTyped, PortMap
  <2>4. [t EXCEPT !.at = "save", !.port = NoPort, !.ports = ports] \in SaveTasks
    BY <2>1, <2>3 DEF CloseTasks, SetTasks, SaveTasks, Kinds
  <2>5. \/ /\ shown' = [shown EXCEPT ![t.page] = ports]
           /\ task' = [task EXCEPT ![h] = [t EXCEPT !.at = "save", !.port = NoPort, !.ports = ports]]
        \/ Finish(h) /\ UNCHANGED shown
    BY <1>4 DEF SetPorts
  <2> HIDE DEF ports
  <2>6. TasksTyped'
    BY <2>4, <2>5, ToRefetchTyped DEF TasksTyped, Tasks
  <2>7. shown' \in [Pages -> PortMap]
    BY <2>2, <2>3, <2>5 DEF MapsTyped
  <2> QED BY <1>4, <2>6, <2>7 DEF SetPorts, QueueTyped, MapsTyped, RestTyped, uiVars
<1>5. CASE SavePorts(h)
  <2>1. t.ports \in PortMap
    BY <1>1, <1>5, TaskAt DEF SavePorts, SaveTasks
  <2>2. TasksTyped'
    BY <1>5, ToRefetchTyped DEF SavePorts
  <2> QED BY <1>5, <2>1, <2>2
          DEF SavePorts, SaveBridgePorts, QueueTyped, MapsTyped, RestTyped, uiVars
<1>6. CASE Refetch(h)
  <2>1. TasksTyped'
    BY <1>6, ToRefetchTyped DEF Refetch
  <2> QED BY <1>6, <2>1 DEF Refetch, Enqueue, QueueTyped, MapsTyped, RestTyped, uiVars
<1> QED BY <1>2, <1>3, <1>4, <1>5, <1>6 DEF Task

LEMMA ClickTypes ==
    ASSUME TypeOK, NEW h \in Handlers, NEW s \in Sids,
           ClickBuy(h, s) \/ ClickClose(h, s) \/ ClickTunnel(h, s) \/ ClickRow(h, s)
    PROVE  TypeOK'
<1> USE SameTypes DEF TypeParts
<1>1. PICK kind, sid, at, port :
        /\ Click(h, kind, sid, at, port)
        /\ [IdleTask EXCEPT !.at = at, !.kind = kind, !.page = page, !.sid = sid, !.port = port]
             \in Tasks
  <2> USE DEF IdleTask, RestTyped
  <2>1. CASE ClickBuy(h, s)
    <3>1. [IdleTask EXCEPT !.at = "ensure", !.kind = "buy", !.page = page, !.sid = s,
                           !.port = NoPort] \in AskTasks
      BY DEF AskTasks
    <3>2. [IdleTask EXCEPT !.at = "refetch", !.kind = NoSid, !.page = page, !.sid = NoSid,
                           !.port = NoPort] \in RefetchTasks
      BY DEF RefetchTasks
    <3> QED BY <2>1, <3>1, <3>2 DEF ClickBuy, Tasks
  <2>2. CASE ClickClose(h, s)
    <3>1. [IdleTask EXCEPT !.at = "stop", !.kind = "close", !.page = page, !.sid = s,
                           !.port = NoPort] \in CloseTasks
      BY DEF CloseTasks
    <3> QED BY <2>2, <3>1 DEF ClickClose, Tasks
  <2>3. CASE ClickTunnel(h, s)
    <3>1. [IdleTask EXCEPT !.at = "ensure", !.kind = "tunnel", !.page = page, !.sid = s,
                           !.port = NoPort] \in AskTasks
      BY DEF AskTasks
    <3> QED BY <2>3, <3>1 DEF ClickTunnel, Tasks
  <2>4. CASE ClickRow(h, s)
    <3>1. [IdleTask EXCEPT !.at = "set", !.kind = "row", !.page = page, !.sid = s,
                           !.port = bridge[s]] \in SetTasks
      BY <2>4 DEF ClickRow, SetTasks, MapsTyped, PortMap
    <3> QED BY <2>4, <3>1 DEF ClickRow, Tasks
  <2> QED BY <2>1, <2>2, <2>3, <2>4
<1>2. TasksTyped'
  BY <1>1 DEF Click, TasksTyped
<1>3. status' \in [Sids -> {"new", "open", "closed"}]
  BY DEF ClickBuy, ClickClose, ClickTunnel, ClickRow, RestTyped
<1> QED BY <1>1, <1>2, <1>3 DEF Click, QueueTyped, MapsTyped, RestTyped, uiVars

LEMMA PageTypes ==
    ASSUME TypeOK, \/ Refresh \/ Revisit \/ Restart
                   \/ \E s \in Sids : Expire(s) \/ ClickRotate(s)
    PROVE  TypeOK'
<1> USE SameTypes DEF TypeParts
<1>1. CASE Refresh \/ \E s \in Sids : ClickRotate(s)
  BY <1>1 DEF ClickRotate, Refresh, Enqueue, TasksTyped, QueueTyped, MapsTyped, RestTyped, uiVars
<1>2. CASE \E s \in Sids : Expire(s)
  BY <1>2 DEF Expire, TasksTyped, QueueTyped, MapsTyped, RestTyped, uiVars
<1>3. ASSUME Mount PROVE page' \in Pages /\ listed' \subseteq Sids
  BY <1>3, PageAssumption DEF Mount, RestTyped, Pages
<1>4. CASE Revisit
  BY <1>3, <1>4 DEF Revisit, Enqueue, TasksTyped, QueueTyped, MapsTyped, RestTyped
<1>5. CASE Restart
  <2>1. queued' \in [Pages -> BOOLEAN]
    BY <1>5 DEF Restart
  <2> QED BY <1>3, <1>5, <2>1, IdleTyped, NoPortsTyped
          DEF Restart, TasksTyped, QueueTyped, MapsTyped, RestTyped
<1> QED BY <1>1, <1>2, <1>4, <1>5

\* Every reference of the market page holds what its code expects: ports that are
\* shown are ports, and a handler has only the steps and the data of its kind.
THEOREM TypeCorrect == Spec => []TypeOK
<1>1. ASSUME Init PROVE TypeOK
  <2>1. queued \in [Pages -> BOOLEAN]
    BY <1>1 DEF Init
  <2> QED BY <1>1, <2>1, SameTypes, IdleTyped, NoPortsTyped, FirstPage
          DEF Init, TypeParts, TasksTyped, QueueTyped, MapsTyped, RestTyped
<1>2. TypeOK /\ [Next]_vars => TypeOK'
  <2> SUFFICES ASSUME TypeOK, [Next]_vars PROVE TypeOK'
    OBVIOUS
  <2>1. CASE UNCHANGED vars
    BY <2>1, SameTypes DEF TypeParts, vars, uiVars, TasksTyped, QueueTyped, MapsTyped, RestTyped
  <2> QED BY <2>1, RunTypes, TaskTypes, ClickTypes, PageTypes DEF Next, User
<1> QED BY <1>1, <1>2, PTL DEF Spec
-----------------------------------------------------------------------------
(* While the page that started first is still mounted.                     *)

Asks(h, s) == task[h].sid = s /\ task[h].at \in {"ensure", "set"}

\* The other pages have not run, and no handler is of theirs.
FirstPageOnly ==
    /\ \A p \in Pages \ {1} : run[p].at = "idle" /\ ~queued[p]
    /\ \A h \in Handlers : task[h].page = 1

\* A session not bought yet, or whose purchase has not shown its bridge yet.
Young(s) ==
    \/ status[s] = "new"
    \/ s \in Open \ listed /\ \E h \in Handlers : Asks(h, s)

\* Its purchase is all there is of it.
Untouched(s) ==
    /\ store[s] = NoPort /\ shown[1][s] = NoPort /\ run[1].merged[s] = NoPort
    /\ s \notin listed \cup run[1].active \cup run[1].todo
    /\ \A h \in Handlers : task[h].ports[s] = NoPort
    /\ \A g, h \in Handlers : Asks(g, s) /\ Asks(h, s) => g = h
    /\ status[s] = "new" => \A h \in Handlers : ~Asks(h, s)

YoungUntouched == \A s \in Sids : Young(s) => Untouched(s)

\* A reconciliation works on the rows shown, and stops the bridges of others.
RunFollowsList ==
    /\ run[1].at = "load" => run[1].active = listed
    /\ run[1].at = "stop" => run[1].active \subseteq listed /\ run[1].todo \cap listed = {}

\* What it publishes is what bridges listen on, and so is what is shown until
\* it begins to change them.
ShownServes == run[1].at # "stop" => \A s \in Open : shown[1][s] \in {NoPort, bridge[s]}
MergedServes == run[1].at = "stop" => \A s \in Open : run[1].merged[s] \in {NoPort, bridge[s]}

\* A handler is about to show the port of the session's bridge.
PortsServe == \A h \in Handlers :
    task[h].at = "set" /\ task[h].sid \in Open => task[h].port = bridge[task[h].sid]

ClosedFirst == \A h \in Handlers : task[h].kind = "close" => status[task[h].sid] = "closed"

\* No handler waits for a bridge that a reconciliation is about to stop.
GoneNotAsked ==
    run[1].at = "stop" => \A s \in run[1].todo \cap Open, h \in Handlers : ~Asks(h, s)

Serve ==
    /\ FirstPageOnly /\ YoungUntouched /\ RunFollowsList /\ ShownServes /\ MergedServes
    /\ PortsServe /\ ClosedFirst /\ GoneNotAsked

ServeInv == page = 1 => Serve

-----------------------------------------------------------------------------
(* ensureBridge gives the port of the bridge there is afterwards, and leaves *)
(* a running one alone.                                                    *)
LEMMA EnsureServes ==
    ASSUME bridge \in PortMap, NEW s \in Sids, NEW got \in Ports \cup {NoPort}, Ensure(s, got)
    PROVE  /\ bridge'[s] = got
           /\ \A u \in Sids : bridge[u] # NoPort \/ u # s => bridge'[u] = bridge[u]
BY DEF Ensure, PortMap

LEMMA OpenSetsPort ==
    ASSUME TypeOK, ClosedFirst, NEW h \in Handlers, task[h].at = "set", task[h].sid \in Open
    PROVE  task[h].port \in Ports /\ task[h].sid \in Sids
<1>1. task[h] \in CloseTasks \cup SetTasks
  BY SameTypes, TaskAt DEF TypeParts, TasksTyped
<1>2. task[h].kind # "close"
  BY DEF ClosedFirst, Open
<1> QED BY <1>1, <1>2 DEF CloseTasks, SetTasks, Open

(* Ensuring a bridge keeps what is shown, merged or about to be shown.      *)
LEMMA EnsureKeeps ==
    ASSUME TypeOK, Serve, NEW s \in Sids, NEW got \in Ports \cup {NoPort}, Ensure(s, got)
    PROVE  /\ \A u \in Open : shown[1][u] \in {NoPort, bridge[u]}
                                => shown[1][u] \in {NoPort, bridge'[u]}
           /\ \A u \in Open : run[1].merged[u] \in {NoPort, bridge[u]}
                                => run[1].merged[u] \in {NoPort, bridge'[u]}
           /\ \A h \in Handlers : task[h].at = "set" /\ task[h].sid \in Open
                                    => task[h].port = bridge'[task[h].sid]
<1>1. \A u \in Sids : bridge[u] # NoPort => bridge'[u] = bridge[u]
  BY EnsureServes, SameTypes DEF TypeParts, MapsTyped
<1>2. ASSUME NEW h \in Handlers, task[h].at = "set", task[h].sid \in Open
      PROVE  task[h].port = bridge'[task[h].sid]
  <2>1. task[h].port \in Ports /\ task[h].sid \in Sids
    BY <1>2, OpenSetsPort DEF Serve
  <2>2. task[h].port = bridge[task[h].sid]
    BY <1>2 DEF Serve, PortsServe
  <2> QED BY <1>1, <2>1, <2>2, NoPortsTyped
<1> QED BY <1>1, <1>2 DEF Open

(* Steps that touch only what no part of the invariant looks at, or only   *)
(* let sessions end.                                                       *)
LEMMA SameServes ==
    ASSUME TypeOK, Serve, UNCHANGED <<bridge, store, listed, shown, run, task>>,
           \A p \in Pages \ {1} : ~queued'[p],
           \A s \in Sids : \/ status'[s] = status[s]
                           \/ status[s] = "open" /\ status'[s] = "closed"
    PROVE  Serve'
<1>1. Open' \subseteq Open
  BY DEF Open
<1>2. \A s \in Sids : Young(s)' => Young(s)
  BY <1>1 DEF Young, Asks
<1>3. \A s \in Sids : Untouched(s) /\ Young(s)' => Untouched(s)'
  BY DEF Untouched, Asks
<1>4. YoungUntouched'
  BY <1>2, <1>3 DEF Serve, YoungUntouched
<1>5. ShownServes' /\ MergedServes' /\ PortsServe' /\ GoneNotAsked'
  BY <1>1 DEF Serve, ShownServes, MergedServes, PortsServe, GoneNotAsked, Asks
<1>6. FirstPageOnly' /\ RunFollowsList'
  BY DEF Serve, FirstPageOnly, RunFollowsList
<1>7. ClosedFirst'
  <2>1. \A s \in Sids : status[s] = "closed" => status'[s] = "closed"
    OBVIOUS
  <2>2. \A h \in Handlers : task[h].kind = "close" => task[h].sid \in Sids
    BY SameTypes DEF TypeParts, TasksTyped, Tasks, IdleTask, AskTasks, CloseTasks, SetTasks,
                     SaveTasks, RefetchTasks, NoSid
  <2> QED BY <2>1, <2>2 DEF Serve, ClosedFirst
<1> QED BY <1>4, <1>5, <1>6, <1>7 DEF Serve

-----------------------------------------------------------------------------
LEMMA RunServes ==
    ASSUME TypeOK, Serve, page = 1, NEW p \in Pages, Run(p)
    PROVE  Serve'
<1> USE SameTypes DEF TypeParts
<1>1. p = 1
  <2>1. queued[p] \/ run[p].at # "idle"
    BY DEF Run, List, Load, StopGone, EnsureListed, Publish, Save
  <2> QED BY <2>1 DEF Serve, FirstPageOnly
<1>2. run[1] \in Runs /\ UNCHANGED <<status, task>> /\ UNCHANGED Open
  BY <1>1 DEF Run, List, Load, StopGone, EnsureListed, Publish, Save, QueueTyped, Open
<1>3. \A s \in Sids, h \in Handlers : Asks(h, s)' <=> Asks(h, s)
  BY <1>2 DEF Asks
<1>4. FirstPageOnly' /\ ClosedFirst'
  <2>1. \A q \in Pages \ {1} : run'[q] = run[q]
    <3>1. ASSUME NEW r, RunStep(1, r) PROVE \A q \in Pages \ {1} : run'[q] = run[q]
      BY <3>1 DEF RunStep, QueueTyped
    <3>2. UNCHANGED run \/ \E r : RunStep(1, r)
      BY <1>1, Zenon DEF Run, List, Load, StopGone, EnsureListed, Publish, Save
    <3> QED BY <3>1, <3>2
  <2>2. \A q \in Pages \ {1} : queued'[q] = queued[q]
    <3>1. queued' = queued \/ queued' = [queued EXCEPT ![1] = FALSE]
      BY <1>1 DEF Run, List, Load, StopGone, EnsureListed, Publish, Save
    <3> QED BY <3>1 DEF QueueTyped
  <2> QED BY <1>2, <2>1, <2>2 DEF Serve, FirstPageOnly, ClosedFirst
<1>5. CASE List(1)
  <2>1. \/ /\ listed' = Open
           /\ run'[1] = [IdleRun EXCEPT !.at = "load", !.active = Open]
        \/ listed' \in {Open, listed} /\ UNCHANGED run
    BY <1>5, FirstPage DEF List, RunStep, QueueTyped
  <2>2. UNCHANGED <<bridge, store, shown>> /\ run[1].at = "idle"
    BY <1>5 DEF List
  <2>3. CASE listed' \in {Open, listed} /\ UNCHANGED run
    <3>1. YoungUntouched'
      <4> SUFFICES ASSUME NEW s \in Sids, Young(s)' PROVE Untouched(s)'
        BY DEF YoungUntouched
      <4>1. Young(s) /\ (listed' = Open => s \notin Open)
        BY <1>2, <2>3 DEF Young, Asks, Open
      <4>2. Untouched(s)
        BY <4>1 DEF Serve, YoungUntouched
      <4> QED BY <1>2, <2>2, <2>3, <4>1, <4>2 DEF Untouched, Asks
    <3>2. RunFollowsList' /\ ShownServes' /\ MergedServes'
      BY <1>2, <2>2, <2>3 DEF Serve, RunFollowsList, ShownServes, MergedServes, Open
    <3>3. PortsServe' /\ GoneNotAsked'
      BY <1>2, <2>2, <2>3 DEF Serve, PortsServe, GoneNotAsked, Open, Asks
    <3> QED BY <1>3, <1>4, <3>1, <3>2, <3>3 DEF Serve
  <2>4. CASE /\ listed' = Open
             /\ run'[1] = [IdleRun EXCEPT !.at = "load", !.active = Open]
    <3>1. /\ run'[1].at = "load" /\ run'[1].active = Open /\ run'[1].todo = {}
          /\ run'[1].merged = NoPorts
      BY <2>4 DEF IdleRun
    <3>2. YoungUntouched'
      <4> SUFFICES ASSUME NEW s \in Sids, Young(s)' PROVE Untouched(s)'
        BY DEF YoungUntouched
      <4>1. status[s] = "new" /\ s \notin Open
        BY <1>2, <2>4 DEF Young, Open
      <4>2. Untouched(s)
        BY <4>1 DEF Serve, YoungUntouched, Young
      <4> QED BY <1>2, <1>3, <2>2, <2>4, <3>1, <4>1, <4>2 DEF Untouched, NoPorts
    <3> QED BY <1>2, <1>3, <1>4, <2>2, <2>4, <3>1, <3>2 DEF Serve,
            RunFollowsList, ShownServes, MergedServes, PortsServe, GoneNotAsked
  <2> QED BY <2>1, <2>3, <2>4
<1>6. CASE Load(1)
  <2>1. PICK saved \in {store, NoPorts} :
          run' = [run EXCEPT ![1] = [run[1] EXCEPT !.at = "stop", !.merged = shown[1],
                              !.todo = {s \in Sids : saved[s] # NoPort} \ run[1].active]]
    BY <1>6 DEF Load, RunStep
  <2>2. /\ run'[1].at = "stop" /\ run'[1].active = listed /\ run'[1].merged = shown[1]
        /\ run'[1].todo = {s \in Sids : saved[s] # NoPort} \ listed
        /\ run[1].at = "load" /\ run[1].active = listed
    BY <1>2, <1>6, <2>1, FirstPage DEF Load, QueueTyped, Runs, Serve, RunFollowsList
  <2>3. UNCHANGED <<bridge, store, shown, listed>>
    BY <1>6 DEF Load, uiVars
  <2>4. \A s \in Sids : saved[s] # NoPort => store[s] # NoPort
    BY DEF NoPorts
  <2>5. YoungUntouched'
    <3> SUFFICES ASSUME NEW s \in Sids, Young(s)' PROVE Untouched(s)'
      BY DEF YoungUntouched
    <3>1. Untouched(s)
      BY <1>2, <1>3, <2>3 DEF Young, Serve, YoungUntouched
    <3> QED BY <1>2, <1>3, <2>2, <2>3, <2>4, <3>1 DEF Untouched
  <2>6. GoneNotAsked'
    <3> SUFFICES ASSUME NEW s \in run'[1].todo \cap Open, NEW h \in Handlers, Asks(h, s)
                 PROVE  FALSE
      BY <1>2, <1>3 DEF GoneNotAsked, Open
    <3>1. s \in Sids /\ s \notin listed /\ store[s] # NoPort
      BY <2>2, <2>4
    <3>2. Young(s)
      BY <3>1 DEF Young
    <3> QED BY <3>1, <3>2 DEF Serve, YoungUntouched, Untouched
  <2>7. RunFollowsList' /\ ShownServes' /\ MergedServes' /\ PortsServe'
    BY <1>2, <2>2, <2>3 DEF Serve, RunFollowsList, ShownServes, MergedServes, PortsServe
  <2> QED BY <1>4, <2>5, <2>6, <2>7 DEF Serve
<1>7. CASE StopGone(1)
  <2>1. PICK s \in run[1].todo :
          /\ bridge' = [bridge EXCEPT ![s] = NoPort]
          /\ run' = [run EXCEPT ![1] = [run[1] EXCEPT !.todo = run[1].todo \ {s},
                                                      !.merged[s] = NoPort]]
    BY <1>7 DEF StopGone, RunStep
  <2>2. s \in Sids /\ run[1].at = "stop"
    BY <1>2, <1>7 DEF Runs, StopGone
  <2>3. /\ run'[1].at = "stop" /\ run'[1].active = run[1].active
        /\ run'[1].todo = run[1].todo \ {s}
        /\ \A u \in Sids : run'[1].merged[u] = IF u = s THEN NoPort ELSE run[1].merged[u]
        /\ \A u \in Sids : bridge'[u] = IF u = s THEN NoPort ELSE bridge[u]
    BY <1>2, <2>1, <2>2, FirstPage DEF QueueTyped, MapsTyped, PortMap, Runs
  <2>4. UNCHANGED <<store, shown, listed>>
    BY <1>7 DEF StopGone, uiVars
  <2>5. YoungUntouched'
    <3> SUFFICES ASSUME NEW u \in Sids, Young(u)' PROVE Untouched(u)'
      BY DEF YoungUntouched
    <3>1. Untouched(u)
      BY <1>2, <1>3, <2>4 DEF Young, Serve, YoungUntouched
    <3> QED BY <1>2, <1>3, <2>3, <2>4, <3>1 DEF Untouched
  <2>6. PortsServe'
    <3> SUFFICES ASSUME NEW h \in Handlers, task[h].at = "set", task[h].sid \in Open
                 PROVE  task[h].port = bridge'[task[h].sid]
      BY <1>2 DEF PortsServe
    <3>1. task[h].sid # s
      BY <2>2 DEF Serve, GoneNotAsked, Asks
    <3> QED BY <2>3, <3>1 DEF Serve, PortsServe, Open
  <2>7. RunFollowsList' /\ ShownServes' /\ MergedServes' /\ GoneNotAsked'
    BY <1>2, <1>3, <2>2, <2>3, <2>4
       DEF Serve, RunFollowsList, ShownServes, MergedServes, GoneNotAsked, Open
  <2> QED BY <1>4, <2>5, <2>6, <2>7 DEF Serve
<1>8. CASE EnsureListed(1)
  <2>1. PICK s \in run[1].active, got \in Ports \cup {NoPort} :
          /\ Ensure(s, got)
          /\ run' = [run EXCEPT ![1] = [run[1] EXCEPT !.active = run[1].active \ {s},
                                                      !.merged[s] = got]]
    BY <1>8 DEF EnsureListed, RunStep
  <2>2. s \in Sids /\ run[1].at = "stop"
    BY <1>2, <1>8 DEF Runs, EnsureListed
  <2>3. /\ run'[1].at = "stop" /\ run'[1].active = run[1].active \ {s}
        /\ run'[1].todo = run[1].todo
        /\ \A u \in Sids : run'[1].merged[u] = IF u = s THEN got ELSE run[1].merged[u]
    BY <1>2, <2>1, <2>2, FirstPage DEF QueueTyped, Runs, PortMap
  <2>4. UNCHANGED <<store, shown, listed>>
    BY <1>8 DEF EnsureListed, uiVars
  <2>5. YoungUntouched'
    <3> SUFFICES ASSUME NEW u \in Sids, Young(u)' PROVE Untouched(u)'
      BY DEF YoungUntouched
    <3>1. Untouched(u)
      BY <1>2, <1>3, <2>4 DEF Young, Serve, YoungUntouched
    <3> QED BY <1>2, <1>3, <2>3, <2>4, <3>1 DEF Untouched
  <2>6. bridge'[s] = got
    BY <2>1, <2>2, EnsureServes DEF MapsTyped
  <2>7. PortsServe' /\ MergedServes'
    BY <1>2, <2>1, <2>2, <2>3, <2>6, EnsureKeeps DEF Serve, PortsServe, MergedServes, Open
  <2>8. GoneNotAsked'
    BY <1>2, <1>3, <2>2, <2>3 DEF Serve, GoneNotAsked, Open
  <2>9. RunFollowsList' /\ ShownServes'
    BY <2>2, <2>3, <2>4 DEF Serve, RunFollowsList, ShownServes
  <2> QED BY <1>4, <2>5, <2>7, <2>8, <2>9 DEF Serve
<1>9. CASE Publish(1)
  <2>1. /\ run[1].at = "stop" /\ shown'[1] = run[1].merged
        /\ run'[1] = [run[1] EXCEPT !.at = "save"]
    BY <1>9, FirstPage DEF Publish, RunStep, QueueTyped, MapsTyped
  <2>2. /\ run'[1].at = "save" /\ run'[1].active = run[1].active /\ run'[1].todo = run[1].todo
        /\ run'[1].merged = run[1].merged
    BY <1>2, <2>1 DEF Runs
  <2>3. UNCHANGED <<bridge, store, listed>>
    BY <1>9 DEF Publish, uiVars
  <2>4. YoungUntouched'
    <3> SUFFICES ASSUME NEW u \in Sids, Young(u)' PROVE Untouched(u)'
      BY DEF YoungUntouched
    <3>1. Untouched(u)
      BY <1>2, <1>3, <2>3 DEF Young, Serve, YoungUntouched
    <3> QED BY <1>2, <1>3, <2>1, <2>2, <2>3, <3>1 DEF Untouched
  <2> QED BY <1>2, <1>4, <2>1, <2>2, <2>3, <2>4 DEF Serve, RunFollowsList, ShownServes,
          MergedServes, PortsServe, GoneNotAsked
<1>10. CASE Save(1)
  <2>1. /\ run[1].at = "save" /\ store' \in {run[1].merged, store} /\ run'[1] = IdleRun
    BY <1>10, FirstPage DEF Save, SaveBridgePorts, RunStep, QueueTyped
  <2>2. /\ run'[1].at = "idle" /\ run'[1].active = {} /\ run'[1].todo = {}
        /\ run'[1].merged = NoPorts
    BY <2>1 DEF IdleRun
  <2>3. UNCHANGED <<bridge, shown, listed>>
    BY <1>10 DEF Save, uiVars
  <2>4. YoungUntouched'
    <3> SUFFICES ASSUME NEW u \in Sids, Young(u)' PROVE Untouched(u)'
      BY DEF YoungUntouched
    <3>1. Untouched(u)
      BY <1>2, <1>3, <2>3 DEF Young, Serve, YoungUntouched
    <3> QED BY <1>2, <1>3, <2>1, <2>2, <2>3, <3>1 DEF Untouched, NoPorts
  <2> QED BY <1>2, <1>4, <2>1, <2>2, <2>3, <2>4 DEF Serve, RunFollowsList, ShownServes,
          MergedServes, PortsServe, GoneNotAsked
<1> QED BY <1>1, <1>5, <1>6, <1>7, <1>8, <1>9, <1>10 DEF Run

-----------------------------------------------------------------------------
(* A handler's record changes, or a new one is made.                       *)
LEMMA TaskPoint ==
    ASSUME TypeOK, NEW h \in Handlers, NEW t, task' = [task EXCEPT ![h] = t]
    PROVE  /\ task'[h] = t
           /\ \A g \in Handlers \ {h} : task'[g] = task[g]
           /\ \A g \in Handlers \ {h}, s \in Sids : Asks(g, s)' <=> Asks(g, s)
BY SameTypes DEF TypeParts, TasksTyped, Asks

(* A handler that asks for nothing any more, or for what it asked for.     *)
LEMMA TaskKeepsYoung ==
    ASSUME TypeOK, Serve, NEW h \in Handlers, NEW t, task' = [task EXCEPT ![h] = t],
           UNCHANGED <<status, listed, run>>,
           \A s \in Sids : t.sid = s /\ t.at \in {"ensure", "set"} =>
               Asks(h, s) \/ status[s] = "closed",
           \A s \in Sids : Young(s) /\ (Asks(h, s) => t.sid = s /\ t.at \in {"ensure", "set"})
               => store'[s] = NoPort /\ shown'[1][s] = NoPort /\ t.ports[s] = NoPort
    PROVE  YoungUntouched'
<1> SUFFICES ASSUME NEW s \in Sids, Young(s)' PROVE Untouched(s)'
  BY DEF YoungUntouched
<1>1. status[s] # "closed" /\ Open' = Open
  BY DEF Young, Open
<1>2. \A g \in Handlers : Asks(g, s)' => Asks(g, s)
  BY <1>1, TaskPoint DEF Asks
<1>3. Young(s) /\ Untouched(s)
  BY <1>1, <1>2 DEF Young, Serve, YoungUntouched
<1>4. Asks(h, s) => t.sid = s /\ t.at \in {"ensure", "set"}
  <2>0. Asks(h, s)' <=> t.sid = s /\ t.at \in {"ensure", "set"}
    <3>1. task'[h] = t
      BY TaskPoint
    <3> QED BY <3>1 DEF Asks
  <2> SUFFICES ASSUME Asks(h, s), ~Asks(h, s)' PROVE FALSE
    BY <2>0
  <2>1. status[s] # "new"
    BY <1>3 DEF Untouched
  <2>2. PICK g \in Handlers : Asks(g, s)'
    BY <2>1 DEF Young
  <2>3. g = h
    BY <1>2, <1>3, <2>2 DEF Untouched
  <2> QED BY <2>2, <2>3
<1>5. store'[s] = NoPort /\ shown'[1][s] = NoPort /\ t.ports[s] = NoPort
  BY <1>3, <1>4
<1>6. \A g \in Handlers : task'[g].ports[s] = NoPort
  BY <1>3, <1>5, TaskPoint DEF Untouched
<1> QED BY <1>2, <1>3, <1>5, <1>6 DEF Untouched

LEMMA TaskServes ==
    ASSUME TypeOK, Serve, page = 1, NEW h \in Handlers, Task(h)
    PROVE  Serve'
<1> USE SameTypes DEF TypeParts
<1> DEFINE t == task[h]
<1>1. /\ t \in Tasks /\ t.page = 1 /\ UNCHANGED <<status, run, listed>> /\ Open' = Open
      /\ \A s \in Sids : Young(s) => Untouched(s)
  BY DEF Task, CloseBridge, EnsureBridge, SetPorts, SavePorts, Refetch, TasksTyped, uiVars, Serve,
         FirstPageOnly, Open, YoungUntouched
<1>2. \A p \in Pages \ {1} : ~queued'[p]
  BY <1>1 DEF Task, CloseBridge, EnsureBridge, SetPorts, SavePorts, Refetch, Enqueue, QueueTyped,
     Serve, FirstPageOnly
<1>3. CASE CloseBridge(h)
  <2>1. t \in CloseTasks /\ status[t.sid] = "closed" /\ t.at = "stop" /\ t.kind = "close"
    BY <1>1, <1>3, TaskAt DEF CloseBridge, CloseTasks, Serve, ClosedFirst
  <2> DEFINE new == [t EXCEPT !.at = "set"]
  <2>2. task' = [task EXCEPT ![h] = new] /\ bridge' = [bridge EXCEPT ![t.sid] = NoPort]
    BY <1>3 DEF CloseBridge, Goto
  <2>3. new.at = "set" /\ new.sid = t.sid /\ new.kind = "close" /\ new.page = 1 /\ new.ports = t.ports
    BY <1>1, <2>1 DEF CloseTasks
  <2> HIDE DEF new
  <2>4. UNCHANGED <<store, shown>>
    BY <1>3 DEF CloseBridge
  <2>5. YoungUntouched'
    <3>1. \A s \in Sids : Young(s) => store'[s] = NoPort /\ shown'[1][s] = NoPort
                                      /\ new.ports[s] = NoPort
      BY <1>1, <2>3, <2>4 DEF Untouched
    <3>2. \A s \in Sids : new.sid = s /\ new.at \in {"ensure", "set"} =>
                           Asks(h, s) \/ status[s] = "closed"
      BY <2>1, <2>3
    <3>3. \A s \in Sids :
            Young(s) /\ (Asks(h, s) => new.sid = s /\ new.at \in {"ensure", "set"})
            => store'[s] = NoPort /\ shown'[1][s] = NoPort /\ new.ports[s] = NoPort
      BY <3>1
    <3>4. task' = [task EXCEPT ![h] = new] /\ UNCHANGED <<status, listed, run>>
      BY <1>1, <2>2
    <3> QED BY <3>2, <3>3, <3>4, TaskKeepsYoung, ZenonT(30)
  <2>6. \A s \in Open : s # t.sid /\ bridge'[s] = bridge[s]
    BY <2>1, <2>2 DEF Open, MapsTyped, PortMap
  <2>7. PortsServe' /\ GoneNotAsked'
    BY <1>1, <2>2, <2>3, <2>6, TaskPoint DEF Serve, PortsServe, GoneNotAsked, Asks, Open
  <2>8. FirstPageOnly' /\ ClosedFirst'
    BY <1>1, <1>2, <2>1, <2>2, <2>3, TaskPoint DEF Serve, FirstPageOnly, ClosedFirst
  <2>9. RunFollowsList' /\ ShownServes' /\ MergedServes'
    BY <1>1, <2>4, <2>6 DEF Serve, RunFollowsList, ShownServes, MergedServes
  <2> QED BY <2>5, <2>7, <2>8, <2>9 DEF Serve
<1>4. CASE EnsureBridge(h)
  <2>1. t \in AskTasks /\ t.sid \in Sids
    BY <1>1, <1>4, TaskAt DEF EnsureBridge, AskTasks
  <2>2. UNCHANGED <<store, shown>> /\ t.at = "ensure"
    BY <1>4 DEF EnsureBridge
  <2>3. PICK got, new :
          /\ got \in Ports \cup {NoPort}
          /\ Ensure(t.sid, got)
          /\ task' = [task EXCEPT ![h] = new]
          /\ new.page = 1 /\ new.ports = NoPorts /\ new.kind # "close"
          /\ \/ new.at = "set" /\ new.port = got /\ new.sid = t.sid
             \/ new.at \in {"refetch", "idle"} /\ new.sid = NoSid
    <3>2. PICK got \in Ports \cup {NoPort} :
            /\ Ensure(t.sid, got)
            /\ \/ task' = [task EXCEPT ![h] = [t EXCEPT !.at = "set", !.port = got]]
               \/ ToRefetch(h)
               \/ Finish(h)
      BY <1>4 DEF EnsureBridge
    <3> DEFINE set == [t EXCEPT !.at = "set", !.port = got]
               refetch == [IdleTask EXCEPT !.at = "refetch", !.page = task[h].page]
    <3>3. set.page = 1 /\ set.ports = NoPorts /\ set.kind # "close" /\ set.at = "set"
          /\ set.port = got /\ set.sid = t.sid
      BY <1>1, <2>1 DEF AskTasks
    <3>4. refetch.page = 1 /\ refetch.ports = NoPorts /\ refetch.kind # "close"
          /\ refetch.at = "refetch" /\ refetch.sid = NoSid
      BY <1>1 DEF IdleTask, NoSid
    <3>5. IdleTask.page = 1 /\ IdleTask.ports = NoPorts /\ IdleTask.kind # "close"
          /\ IdleTask.at = "idle" /\ IdleTask.sid = NoSid
      BY DEF IdleTask, NoSid
    <3> HIDE DEF set, refetch
    <3> QED BY <3>2, <3>3, <3>4, <3>5 DEF ToRefetch, Finish, set, refetch
  <2>4. YoungUntouched'
    <3>1. \A s \in Sids : Young(s) => store'[s] = NoPort /\ shown'[1][s] = NoPort
                                      /\ new.ports[s] = NoPort
      BY <1>1, <2>2, <2>3 DEF Untouched, NoPorts
    <3>2. \A s \in Sids : new.sid = s /\ new.at \in {"ensure", "set"} => Asks(h, s)
      BY <2>2, <2>3 DEF Asks
    <3> QED BY <1>1, <2>3, <3>1, <3>2, TaskKeepsYoung
  <2>5. bridge'[t.sid] = got
    BY <2>1, <2>3, EnsureServes DEF MapsTyped
  <2>6. PortsServe'
    BY <1>1, <2>1, <2>3, <2>5, EnsureKeeps, TaskPoint DEF PortsServe
  <2>7. GoneNotAsked'
    BY <1>1, <2>2, <2>3, TaskPoint DEF Serve, GoneNotAsked, Asks
  <2>8. FirstPageOnly' /\ ClosedFirst'
    BY <1>1, <1>2, <2>3, TaskPoint DEF Serve, FirstPageOnly, ClosedFirst
  <2>9. RunFollowsList' /\ ShownServes' /\ MergedServes'
    BY <1>1, <2>1, <2>2, <2>3, EnsureKeeps DEF Serve, RunFollowsList, ShownServes, MergedServes
  <2> QED BY <2>4, <2>6, <2>7, <2>8, <2>9 DEF Serve
<1>5. CASE SetPorts(h)
  <2> DEFINE ports == [shown[1] EXCEPT ![t.sid] = t.port]
             new == [t EXCEPT !.at = "save", !.port = NoPort, !.ports = ports]
  <2>1. /\ t \in CloseTasks \cup SetTasks /\ t.sid \in Sids /\ t.at = "set"
        /\ UNCHANGED <<bridge, store>>
    BY <1>1, <1>5, TaskAt DEF SetPorts, CloseTasks, SetTasks
  <2>2. \/ /\ shown' = [shown EXCEPT ![1] = ports]
           /\ task' = [task EXCEPT ![h] = new]
        \/ Finish(h) /\ UNCHANGED shown
    BY <1>1, <1>5 DEF SetPorts
  <2>3. CASE Finish(h) /\ UNCHANGED shown
    <3>1. task' = [task EXCEPT ![h] = IdleTask] /\ IdleTask.at = "idle" /\ IdleTask.page = 1
          /\ IdleTask.kind # "close" /\ IdleTask.ports = NoPorts
      BY <2>3 DEF Finish, IdleTask, NoSid
    <3>2. YoungUntouched'
      BY <1>1, <2>1, <2>3, <3>1, TaskKeepsYoung DEF Untouched, NoPorts
    <3>3. PortsServe' /\ GoneNotAsked'
      BY <1>1, <2>1, <3>1, TaskPoint DEF Serve, PortsServe, GoneNotAsked, Asks
    <3>4. FirstPageOnly' /\ ClosedFirst'
      BY <1>1, <1>2, <3>1, TaskPoint DEF Serve, FirstPageOnly, ClosedFirst
    <3>5. RunFollowsList' /\ ShownServes' /\ MergedServes'
      BY <1>1, <2>1, <2>3 DEF Serve, RunFollowsList, ShownServes, MergedServes
    <3> QED BY <3>2, <3>3, <3>4, <3>5 DEF Serve
  <2>4. CASE shown' = [shown EXCEPT ![1] = ports] /\ task' = [task EXCEPT ![h] = new]
    <3>1. /\ new.at = "save" /\ new.page = 1 /\ new.kind = t.kind /\ new.sid = t.sid
          /\ new.ports = ports
      BY <1>1, <2>1 DEF CloseTasks, SetTasks
    <3>2. shown'[1] = ports
      BY <2>4, FirstPage DEF MapsTyped
    <3>3. \A s \in Sids : ports[s] = IF s = t.sid THEN t.port ELSE shown[1][s]
      BY <2>1, FirstPage DEF MapsTyped, PortMap
    <3> HIDE DEF new, ports
    <3>4. YoungUntouched'
      <4>1. ASSUME NEW s \in Sids, Young(s), ~Asks(h, s)
            PROVE  store'[s] = NoPort /\ shown'[1][s] = NoPort /\ new.ports[s] = NoPort
        <5>1. s # t.sid
          BY <2>1, <4>1 DEF Asks
        <5> QED BY <1>1, <2>1, <3>1, <3>2, <3>3, <4>1, <5>1 DEF Untouched
      <4> QED BY <1>1, <2>4, <3>1, <4>1, TaskKeepsYoung
    <3>5. PortsServe' /\ GoneNotAsked'
      BY <1>1, <2>1, <2>4, <3>1, TaskPoint DEF Serve, PortsServe, GoneNotAsked, Asks
    <3>6. FirstPageOnly' /\ ClosedFirst'
      BY <1>1, <1>2, <2>4, <3>1, TaskPoint DEF Serve, FirstPageOnly, ClosedFirst
    <3>7. ShownServes'
      <4>1. t.sid \in Open => t.port = bridge[t.sid]
        BY <2>1 DEF Serve, PortsServe
      <4> QED BY <1>1, <2>1, <3>2, <3>3, <4>1 DEF Serve, ShownServes, Open
    <3>8. RunFollowsList' /\ MergedServes'
      BY <1>1, <2>1 DEF Serve, RunFollowsList, MergedServes
    <3> QED BY <3>4, <3>5, <3>6, <3>7, <3>8 DEF Serve
  <2> QED BY <2>2, <2>3, <2>4
<1>6. CASE SavePorts(h) \/ Refetch(h)
  <2>1. /\ UNCHANGED <<bridge, shown>> /\ store' \in {t.ports, store}
        /\ t.at \in {"save", "refetch"}
    BY <1>6 DEF SavePorts, Refetch, SaveBridgePorts
  <2>2. PICK new :
          /\ task' = [task EXCEPT ![h] = new]
          /\ new.at \in {"refetch", "idle"} /\ new.page = 1 /\ new.ports = NoPorts
          /\ new.kind # "close"
    <3> DEFINE refetch == [IdleTask EXCEPT !.at = "refetch", !.page = task[h].page]
    <3>1. refetch.page = 1 /\ refetch.ports = NoPorts /\ refetch.kind # "close"
          /\ refetch.at = "refetch"
      BY <1>1 DEF IdleTask, NoSid
    <3>2. IdleTask.page = 1 /\ IdleTask.ports = NoPorts /\ IdleTask.kind # "close"
          /\ IdleTask.at = "idle"
      BY DEF IdleTask, NoSid
    <3>3. ToRefetch(h) \/ Finish(h)
      BY <1>6 DEF SavePorts, Refetch
    <3> HIDE DEF refetch
    <3> QED BY <3>1, <3>2, <3>3 DEF ToRefetch, Finish, refetch
  <2>3. YoungUntouched'
    <3>1. \A s \in Sids : Young(s) => store'[s] = NoPort /\ shown'[1][s] = NoPort
                                      /\ new.ports[s] = NoPort
      BY <1>1, <2>1, <2>2 DEF Untouched, NoPorts
    <3>2. new.at \notin {"ensure", "set"}
      BY <2>2
    <3> QED BY <1>1, <2>2, <3>1, <3>2, TaskKeepsYoung
  <2>4. PortsServe' /\ GoneNotAsked'
    BY <1>1, <2>1, <2>2, TaskPoint DEF Serve, PortsServe, GoneNotAsked, Asks
  <2>5. FirstPageOnly' /\ ClosedFirst'
    BY <1>1, <1>2, <2>2, TaskPoint DEF Serve, FirstPageOnly, ClosedFirst
  <2>6. RunFollowsList' /\ ShownServes' /\ MergedServes'
    BY <1>1, <2>1 DEF Serve, RunFollowsList, ShownServes, MergedServes
  <2> QED BY <2>3, <2>4, <2>5, <2>6 DEF Serve
<1> QED BY <1>3, <1>4, <1>5, <1>6 DEF Task

-----------------------------------------------------------------------------
(* A click makes a handler that asks for the bridge of a row that is       *)
(* there, of a session that was not there before, or for none.             *)
LEMMA ClickServes ==
    ASSUME TypeOK, Serve, page = 1, NEW h \in Handlers, NEW s \in Sids,
           ClickBuy(h, s) \/ ClickClose(h, s) \/ ClickTunnel(h, s) \/ ClickRow(h, s)
    PROVE  Serve'
<1> USE SameTypes DEF TypeParts
<1>1. /\ UNCHANGED <<bridge, store, shown, queued, run, listed>>
      /\ \A u \in Sids : Young(u) => Untouched(u)
  BY DEF ClickBuy, ClickClose, ClickTunnel, ClickRow, Click, uiVars, Serve, YoungUntouched
<1>2. PICK new :
        /\ task' = [task EXCEPT ![h] = new] /\ new.page = 1 /\ new.ports = NoPorts
        /\ \/ /\ status[s] = "new" /\ status' = [status EXCEPT ![s] = "open"]
              /\ new.kind # "close"
              /\ (new.at = "ensure" /\ new.sid = s) \/ new.at = "refetch"
           \/ /\ status[s] = "open" /\ status' = [status EXCEPT ![s] = "closed"]
              /\ new.at = "stop" /\ new.kind = "close" /\ new.sid = s
           \/ /\ s \in listed /\ UNCHANGED status
              /\ new.kind # "close" /\ new.sid = s
              /\ new.at = "ensure" \/ (new.at = "set" /\ new.port = bridge[s])
  <2> DEFINE made(at, kind, sid, port) ==
        [IdleTask EXCEPT !.at = at, !.kind = kind, !.page = page, !.sid = sid, !.port = port]
  <2>1. \A at, kind, sid, port :
          /\ made(at, kind, sid, port).at = at /\ made(at, kind, sid, port).kind = kind
          /\ made(at, kind, sid, port).page = 1 /\ made(at, kind, sid, port).sid = sid
          /\ made(at, kind, sid, port).port = port
          /\ made(at, kind, sid, port).ports = NoPorts
    BY DEF IdleTask
  <2>2. \A at, kind, sid, port : Click(h, kind, sid, at, port)
          => task' = [task EXCEPT ![h] = made(at, kind, sid, port)]
    BY DEF Click
  <2> HIDE DEF made
  <2>3. CASE ClickBuy(h, s)
    <3>1. NoSid # "close"
      BY DEF NoSid
    <3> QED BY <2>1, <2>2, <2>3, <3>1 DEF ClickBuy
  <2>4. CASE ClickClose(h, s)
    <3> DEFINE closing == made("stop", "close", s, NoPort)
    <3>1. task' = [task EXCEPT ![h] = closing]
      BY <2>2, <2>4 DEF ClickClose
    <3>2. status[s] = "open" /\ status' = [status EXCEPT ![s] = "closed"]
      BY <2>4 DEF ClickClose
    <3>3. /\ closing.page = 1 /\ closing.ports = NoPorts
          /\ closing.at = "stop" /\ closing.kind = "close" /\ closing.sid = s
      BY <2>1
    <3> HIDE DEF closing
    <3> QED BY <3>1, <3>2, <3>3
  <2>5. CASE ClickTunnel(h, s)
    BY <2>1, <2>2, <2>5 DEF ClickTunnel, Row
  <2>6. CASE ClickRow(h, s)
    BY <2>1, <2>2, <2>6 DEF ClickRow, Row
  <2> QED BY <2>3, <2>4, <2>5, <2>6
<1>3. Asks(h, s)' <=> new.sid = s /\ new.at \in {"ensure", "set"}
  BY <1>2, TaskPoint DEF Asks
<1>4. /\ task'[h] = new
      /\ \A g \in Handlers \ {h} : task'[g] = task[g]
      /\ \A g \in Handlers \ {h}, u \in Sids : Asks(g, u)' <=> Asks(g, u)
      /\ \A u \in Sids : Asks(h, u)' => u = s
  BY <1>2, TaskPoint DEF Asks
<1>5. FirstPageOnly'
  BY <1>1, <1>2, <1>4 DEF Serve, FirstPageOnly
<1>6. \A u \in Sids \ {s} : status'[u] = status[u]
  BY <1>2 DEF RestTyped
<1>7. RunFollowsList'
  BY <1>1 DEF Serve, RunFollowsList
<1>8. \A g \in Handlers : task[g].kind = "close" => task[g].sid \in Sids
  BY DEF TasksTyped, Tasks, IdleTask, AskTasks, CloseTasks, SetTasks, SaveTasks, RefetchTasks, NoSid
<1>9. \A u \in Sids, g \in Handlers : Untouched(u) /\ task'[g].ports[u] # NoPort => FALSE
  BY <1>2, <1>4 DEF Untouched, NoPorts
<1>10. CASE status[s] = "new" /\ status' = [status EXCEPT ![s] = "open"] /\ new.kind # "close"
            /\ new.at \in {"ensure", "refetch"}
  <2>1. Open' = Open \cup {s} /\ s \notin Open /\ Untouched(s) /\ status'[s] = "open"
    BY <1>1, <1>10 DEF Open, Young, RestTyped
  <2>2. \A g \in Handlers : ~Asks(g, s)
    BY <1>10, <2>1 DEF Untouched
  <2>3. YoungUntouched'
    <3> SUFFICES ASSUME NEW u \in Sids, Young(u)' PROVE Untouched(u)'
      BY DEF YoungUntouched
    <3>1. CASE u = s
      BY <1>1, <1>4, <1>9, <2>1, <2>2, <3>1 DEF Untouched
    <3>2. CASE u # s
      <4>1. Young(u)
        BY <1>1, <1>4, <1>6, <2>1, <3>2 DEF Young
      <4> QED BY <1>1, <1>4, <1>6, <1>9, <3>2, <4>1 DEF Untouched
    <3> QED BY <3>1, <3>2
  <2>4. ShownServes' /\ MergedServes'
    BY <1>1, <2>1 DEF Serve, ShownServes, MergedServes, Untouched
  <2>5. PortsServe'
    <3> SUFFICES ASSUME NEW g \in Handlers, task'[g].at = "set", task'[g].sid \in Open'
                 PROVE  task'[g].port = bridge[task'[g].sid]
      BY <1>1 DEF PortsServe
    <3>1. g # h
      BY <1>4, <1>10
    <3>2. task'[g].sid # s
      BY <1>4, <2>2, <3>1 DEF Asks
    <3> QED BY <1>4, <2>1, <3>1, <3>2 DEF Serve, PortsServe
  <2>6. GoneNotAsked'
    BY <1>1, <1>4, <2>1 DEF Serve, GoneNotAsked, Untouched, Open
  <2>7. ClosedFirst'
    BY <1>4, <1>6, <1>8, <1>10 DEF Serve, ClosedFirst
  <2> QED BY <1>5, <1>7, <2>3, <2>4, <2>5, <2>6, <2>7 DEF Serve
<1>11. CASE status[s] = "open" /\ status' = [status EXCEPT ![s] = "closed"]
            /\ new.at = "stop" /\ new.kind = "close" /\ new.sid = s
  <2>1. Open' = Open \ {s} /\ status'[s] = "closed" /\ \A u \in Sids : ~Asks(h, u)'
    BY <1>4, <1>11 DEF Open, RestTyped, Asks
  <2>2. YoungUntouched'
    <3> SUFFICES ASSUME NEW u \in Sids, Young(u)' PROVE Untouched(u)'
      BY DEF YoungUntouched
    <3>1. u # s
      BY <2>1 DEF Young
    <3>2. Young(u)
      BY <1>1, <1>4, <1>6, <2>1, <3>1 DEF Young
    <3> QED BY <1>1, <1>4, <1>6, <1>9, <2>1, <3>1, <3>2 DEF Untouched
  <2>3. ShownServes' /\ MergedServes'
    BY <1>1, <2>1 DEF Serve, ShownServes, MergedServes
  <2>4. PortsServe'
    BY <1>1, <1>4, <1>11, <2>1 DEF Serve, PortsServe
  <2>5. GoneNotAsked'
    BY <1>1, <1>4, <2>1 DEF Serve, GoneNotAsked, Open
  <2>6. ClosedFirst'
    BY <1>4, <1>6, <1>8, <1>11, <2>1 DEF Serve, ClosedFirst
  <2> QED BY <1>5, <1>7, <2>2, <2>3, <2>4, <2>5, <2>6 DEF Serve
<1>12. CASE s \in listed /\ UNCHANGED status /\ new.kind # "close" /\ new.sid = s
            /\ (new.at = "ensure" \/ (new.at = "set" /\ new.port = bridge[s]))
  <2>1. Open' = Open
    BY <1>12 DEF Open
  <2>2. YoungUntouched'
    <3> SUFFICES ASSUME NEW u \in Sids, Young(u)' PROVE Untouched(u)'
      BY DEF YoungUntouched
    <3>1. u # s
      BY <1>1, <1>12 DEF Young, Untouched
    <3>2. Young(u)
      BY <1>1, <1>4, <1>12, <2>1, <3>1 DEF Young
    <3> QED BY <1>1, <1>4, <1>9, <1>12, <3>1, <3>2 DEF Untouched
  <2>3. ShownServes' /\ MergedServes'
    BY <1>1, <2>1 DEF Serve, ShownServes, MergedServes
  <2>4. PortsServe'
    BY <1>1, <1>4, <1>12, <2>1 DEF Serve, PortsServe
  <2>5. GoneNotAsked'
    BY <1>1, <1>4, <1>12, <2>1 DEF Serve, GoneNotAsked, RunFollowsList, Open
  <2>6. ClosedFirst'
    BY <1>4, <1>8, <1>12 DEF Serve, ClosedFirst
  <2> QED BY <1>5, <1>7, <2>2, <2>3, <2>4, <2>5, <2>6 DEF Serve
<1> QED BY <1>2, <1>10, <1>11, <1>12

-----------------------------------------------------------------------------
LEMMA PageServes ==
    ASSUME TypeOK, Serve, page = 1, page' = 1,
           \/ Refresh \/ Revisit \/ Restart
           \/ \E s \in Sids : Expire(s) \/ ClickRotate(s)
    PROVE  Serve'
<1> USE SameTypes DEF TypeParts
<1>1. ~Revisit /\ ~Restart
  BY DEF Revisit, Restart, Mount
<1>2. CASE Refresh \/ \E s \in Sids : ClickRotate(s)
  <2>1. /\ UNCHANGED <<bridge, store, listed, shown, run, task, status>>
        /\ queued' = [queued EXCEPT ![1] = TRUE]
    BY <1>2 DEF ClickRotate, Refresh, Enqueue, uiVars
  <2>2. \A p \in Pages \ {1} : ~queued'[p]
    BY <2>1 DEF Serve, FirstPageOnly, QueueTyped
  <2> QED BY <2>1, <2>2, SameServes
<1>3. CASE \E s \in Sids : Expire(s)
  <2>1. PICK s \in Sids : status[s] = "open" /\ status' = [status EXCEPT ![s] = "closed"]
    BY <1>3 DEF Expire
  <2>2. UNCHANGED <<bridge, store, listed, shown, run, task, queued>>
    BY <1>3 DEF Expire, uiVars
  <2>3. \A u \in Sids : \/ status'[u] = status[u]
                        \/ status[u] = "open" /\ status'[u] = "closed"
    BY <2>1 DEF RestTyped
  <2>4. \A p \in Pages \ {1} : ~queued'[p]
    BY <2>2 DEF Serve, FirstPageOnly
  <2> QED BY <2>2, <2>3, <2>4, SameServes
<1> QED BY <1>1, <1>2, <1>3

\* The page mounted first after the application's start may, at rest, show no port
\* for an open session but the one its bridge listens on: whatever reconciliations,
\* purchases, closes, tunnels and rows overlapped, failed or found it expired.
THEOREM ShownServed == Spec => []ShownPortServes
<1>1. ASSUME Init PROVE ServeInv
  <2> USE <1>1, FirstPage DEF Init
  <2>1. /\ run[1].at = "idle" /\ run[1].active = {} /\ run[1].todo = {}
        /\ run[1].merged = NoPorts
    BY DEF IdleRun
  <2>2. \A h \in Handlers : task[h] = IdleTask
    OBVIOUS
  <2>3. IdleTask.at = "idle" /\ IdleTask.page = 1 /\ IdleTask.kind # "close"
        /\ IdleTask.ports = NoPorts
    BY DEF IdleTask, NoSid
  <2>4. FirstPageOnly
    BY <2>2, <2>3 DEF FirstPageOnly, IdleRun
  <2>5. YoungUntouched
    BY <2>1, <2>2, <2>3 DEF YoungUntouched, Untouched, Asks, NoPorts
  <2>6. Open = {}
    BY DEF Open
  <2> QED BY <2>1, <2>2, <2>3, <2>4, <2>5, <2>6 DEF ServeInv, Serve, RunFollowsList, ShownServes,
          MergedServes, PortsServe, ClosedFirst, GoneNotAsked
<1>2. TypeOK /\ ServeInv /\ [Next]_vars => ServeInv'
  <2> SUFFICES ASSUME TypeOK, ServeInv, [Next]_vars, page' = 1 PROVE Serve'
    BY DEF ServeInv
  <2>1. page = 1
    <3>1. page' = page \/ (page' = page + 1 /\ page \in Pages)
      BY SameTypes DEF TypeParts, RestTyped, Next, User, Run, Task, List, Load, StopGone,
         EnsureListed, Publish, Save, CloseBridge, EnsureBridge, SetPorts, SavePorts, Refetch,
         Expire, Refresh, ClickBuy, ClickClose, ClickTunnel, ClickRow, Click, ClickRotate, Revisit,
         Restart, Mount, vars, uiVars
    <3> QED BY <3>1, PageAssumption DEF Pages
  <2>2. Serve
    BY <2>1 DEF ServeInv
  <2>3. CASE UNCHANGED vars
    BY <2>2, <2>3, SameServes DEF vars, uiVars, Serve, FirstPageOnly
  <2>4. CASE \E p \in Pages : Run(p)
    BY <2>1, <2>2, <2>4, RunServes
  <2>5. CASE \E h \in Handlers : Task(h)
    BY <2>1, <2>2, <2>5, TaskServes
  <2>6. CASE \E h \in Handlers, s \in Sids :
               ClickBuy(h, s) \/ ClickClose(h, s) \/ ClickTunnel(h, s) \/ ClickRow(h, s)
    BY <2>1, <2>2, <2>6, ClickServes
  <2>7. CASE \/ Refresh \/ Revisit \/ Restart
             \/ \E s \in Sids : Expire(s) \/ ClickRotate(s)
    BY <2>1, <2>2, <2>7, PageServes
  <2> QED BY <2>3, <2>4, <2>5, <2>6, <2>7 DEF Next, User
<1>3. ServeInv => ShownPortServes
  <2> SUFFICES ASSUME Serve, AtRest, page = 1, NEW s \in Open
               PROVE  LocalPort(s) \in {NoPort, bridge[s]}
    BY DEF ServeInv, ShownPortServes
  <2>1. run[1].at # "stop"
    BY FirstPage DEF AtRest, IdleRun
  <2> QED BY <2>1 DEF Serve, ShownServes, LocalPort
<1> QED BY <1>1, <1>2, <1>3, TypeCorrect, PTL DEF Spec
-----------------------------------------------------------------------------
(* What would make the comments of fetchSessions true: no purchase between  *)
(* a reconciliation's list and its reading of the saved ports.             *)

PurchasesApart == [][\A p \in Pages : run[p].at = "load" => Open' \subseteq Open]_vars

\* Nothing knows of a session that has not been bought.
Unseen(s) ==
    /\ store[s] = NoPort /\ s \notin listed
    /\ \A p \in Pages : /\ shown[p][s] = NoPort /\ run[p].merged[s] = NoPort
                        /\ s \notin run[p].active \cup run[p].todo
    /\ \A h \in Handlers : /\ task[h].ports[s] = NoPort
                           /\ task[h].at \in {"ensure", "stop", "set"} => task[h].sid # s

NewUnseen == \A s \in Sids : status[s] = "new" => Unseen(s)

\* A list is complete until it is used, and what it stops is not open.
ListsComplete == \A p \in Pages :
    /\ run[p].at = "load" => Open \subseteq run[p].active
    /\ run[p].at = "stop" => run[p].todo \cap Open = {}

KeptInv == NewUnseen /\ ListsComplete /\ ClosedFirst

\* The next step leaves the bridges of open sessions alone.
Keeps == \A s \in Open : bridge[s] # NoPort /\ page' = page => bridge'[s] = bridge[s]

\* What a reconciliation leaves is as the invariant wants it.
Fits(r) ==
    /\ \A s \in Sids : status[s] = "new" /\ Unseen(s) =>
         /\ r.merged[s] = NoPort /\ s \notin r.active \cup r.todo /\ s \notin listed'
         /\ store'[s] = NoPort /\ \A q \in Pages : shown'[q][s] = NoPort
    /\ r.at = "load" => Open \subseteq r.active
    /\ r.at = "stop" => r.todo \cap Open = {}

LEMMA RunFits ==
    ASSUME TypeOK, KeptInv, NEW p \in Pages, NEW r, run' = [run EXCEPT ![p] = r], Fits(r),
           UNCHANGED <<status, task>>
    PROVE  KeptInv'
<1>1. run'[p] = r /\ \A q \in Pages \ {p} : run'[q] = run[q]
  BY SameTypes DEF TypeParts, QueueTyped
<1>2. NewUnseen'
  <2> SUFFICES ASSUME NEW s \in Sids, status[s] = "new" PROVE Unseen(s)'
    BY DEF NewUnseen
  <2>1. Unseen(s)
    BY DEF KeptInv, NewUnseen
  <2> QED BY <1>1, <2>1 DEF Unseen, Fits
<1>3. ListsComplete'
  <2>1. Open' = Open
    BY DEF Open
  <2> QED BY <1>1, <2>1 DEF KeptInv, ListsComplete, Fits
<1>4. ClosedFirst'
  BY DEF KeptInv, ClosedFirst
<1> QED BY <1>2, <1>3, <1>4 DEF KeptInv

LEMMA RunKeeps ==
    ASSUME TypeOK, KeptInv, NEW p \in Pages, Run(p)
    PROVE  KeptInv' /\ Keeps
<1> USE SameTypes DEF TypeParts
<1>1. run[p] \in Runs
  BY DEF QueueTyped
<1>2. UNCHANGED <<status, task>>
  BY DEF Run, List, Load, StopGone, EnsureListed, Publish, Save
<1>3. CASE List(p)
  <2>1. PICK r \in {run[p], [IdleRun EXCEPT !.at = "load", !.active = Open]} :
          /\ run' = [run EXCEPT ![p] = r] /\ listed' \in {Open, listed}
    BY <1>3 DEF List, RunStep, QueueTyped
  <2>2. UNCHANGED <<bridge, store, shown>> /\ run[p].at = "idle"
    BY <1>3 DEF List
  <2>3. CASE r = run[p]
    <3>1. \A s \in Sids : status[s] = "new" => s \notin Open
      BY DEF Open
    <3>2. Fits(r)
      BY <2>1, <2>2, <2>3, <3>1 DEF Fits, Unseen
    <3> QED BY <1>2, <2>1, <2>2, <3>2, RunFits DEF Keeps
  <2>4. CASE r = [IdleRun EXCEPT !.at = "load", !.active = Open]
    <3>1. r.at = "load" /\ r.active = Open /\ r.todo = {} /\ r.merged = NoPorts
      BY <2>4 DEF IdleRun
    <3>2. \A s \in Sids : NoPorts[s] = NoPort /\ (status[s] = "new" => s \notin Open)
      BY DEF Open, NoPorts
    <3>3. Fits(r)
      BY <2>1, <2>2, <3>1, <3>2 DEF Fits, Unseen
    <3> QED BY <1>2, <2>1, <2>2, <3>3, RunFits DEF Keeps
  <2> QED BY <2>1, <2>3, <2>4
<1>4. CASE Load(p)
  <2>1. PICK saved \in {store, NoPorts} :
          run' = [run EXCEPT ![p] = [run[p] EXCEPT !.at = "stop", !.merged = shown[p],
                              !.todo = {s \in Sids : saved[s] # NoPort} \ run[p].active]]
    BY <1>4 DEF Load, RunStep
  <2> DEFINE r == [run[p] EXCEPT !.at = "stop", !.merged = shown[p],
                                 !.todo = {s \in Sids : saved[s] # NoPort} \ run[p].active]
  <2>2. /\ r.at = "stop" /\ r.active = run[p].active /\ r.merged = shown[p]
        /\ r.todo = {s \in Sids : saved[s] # NoPort} \ run[p].active
    BY <1>1 DEF Runs
  <2>3. \A s \in Sids : saved[s] # NoPort => store[s] # NoPort
    BY DEF NoPorts
  <2>4. UNCHANGED <<bridge, store, shown, listed>> /\ Open \subseteq run[p].active
    BY <1>4 DEF Load, uiVars, KeptInv, ListsComplete
  <2>5. run' = [run EXCEPT ![p] = r]
    BY <2>1
  <2> HIDE DEF r
  <2>6. Fits(r)
    BY <2>2, <2>3, <2>4 DEF Fits, Unseen
  <2> QED BY <1>2, <2>4, <2>5, <2>6, RunFits DEF Keeps
<1>5. CASE StopGone(p)
  <2>1. PICK s \in run[p].todo :
          /\ bridge' = [bridge EXCEPT ![s] = NoPort]
          /\ run' = [run EXCEPT ![p] = [run[p] EXCEPT !.todo = run[p].todo \ {s},
                                                      !.merged[s] = NoPort]]
    BY <1>5 DEF StopGone, RunStep
  <2> DEFINE r == [run[p] EXCEPT !.todo = run[p].todo \ {s}, !.merged[s] = NoPort]
  <2>2. s \in Sids \ Open /\ run[p].at = "stop" /\ run[p].todo \cap Open = {}
    BY <1>1, <1>5 DEF Runs, StopGone, KeptInv, ListsComplete
  <2>3. /\ r.at = "stop" /\ r.active = run[p].active /\ r.todo = run[p].todo \ {s}
        /\ \A u \in Sids : run[p].merged[u] = NoPort => r.merged[u] = NoPort
    BY <1>1, <2>2 DEF Runs, PortMap
  <2>4. UNCHANGED <<store, shown, listed>> /\ Keeps
    BY <1>5, <2>1, <2>2 DEF StopGone, uiVars, Keeps, Open, MapsTyped, PortMap
  <2>5. run' = [run EXCEPT ![p] = r]
    BY <2>1
  <2> HIDE DEF r
  <2>6. Fits(r)
    BY <2>2, <2>3, <2>4 DEF Fits, Unseen
  <2> QED BY <1>2, <2>4, <2>5, <2>6, RunFits
<1>6. CASE EnsureListed(p)
  <2>1. PICK s \in run[p].active, got \in Ports \cup {NoPort} :
          /\ Ensure(s, got)
          /\ run' = [run EXCEPT ![p] = [run[p] EXCEPT !.active = run[p].active \ {s},
                                                      !.merged[s] = got]]
    BY <1>6 DEF EnsureListed, RunStep
  <2> DEFINE r == [run[p] EXCEPT !.active = run[p].active \ {s}, !.merged[s] = got]
  <2>2. s \in Sids /\ run[p].at = "stop" /\ run[p].todo \cap Open = {}
    BY <1>1, <1>6 DEF Runs, EnsureListed, KeptInv, ListsComplete
  <2>3. /\ r.at = "stop" /\ r.active = run[p].active \ {s} /\ r.todo = run[p].todo
        /\ \A u \in Sids : u # s => r.merged[u] = run[p].merged[u]
    BY <1>1, <2>2 DEF Runs, PortMap
  <2>4. UNCHANGED <<store, shown, listed>> /\ Keeps
    BY <1>6, <2>1, <2>2, EnsureServes DEF EnsureListed, uiVars, Keeps, Open, MapsTyped
  <2>5. run' = [run EXCEPT ![p] = r]
    BY <2>1
  <2> HIDE DEF r
  <2>6. Fits(r)
    BY <2>1, <2>2, <2>3, <2>4 DEF Fits, Unseen
  <2> QED BY <1>2, <2>4, <2>5, <2>6, RunFits
<1>7. CASE Publish(p)
  <2> DEFINE r == [run[p] EXCEPT !.at = "save"]
  <2>1. r.at = "save" /\ r.active = run[p].active /\ r.todo = run[p].todo
        /\ r.merged = run[p].merged
    BY <1>1 DEF Runs
  <2>2. /\ UNCHANGED <<bridge, store, listed>> /\ run' = [run EXCEPT ![p] = r]
        /\ \A q \in Pages : shown'[q] \in {shown[q], run[p].merged}
    BY <1>7 DEF Publish, RunStep, uiVars, MapsTyped
  <2> HIDE DEF r
  <2>3. \A s \in Sids, q \in Pages : Unseen(s) => shown'[q][s] = NoPort
    BY <2>2 DEF Unseen
  <2>4. Fits(r)
    BY <2>1, <2>2, <2>3 DEF Fits, Unseen
  <2> QED BY <1>2, <2>2, <2>4, RunFits DEF Keeps
<1>8. CASE Save(p)
  <2>1. /\ IdleRun.at = "idle" /\ IdleRun.active = {} /\ IdleRun.todo = {}
        /\ IdleRun.merged = NoPorts
    BY DEF IdleRun
  <2>2. /\ UNCHANGED <<bridge, shown, listed>> /\ run' = [run EXCEPT ![p] = IdleRun]
        /\ store' \in {run[p].merged, store}
    BY <1>8 DEF Save, SaveBridgePorts, RunStep, uiVars
  <2>3. \A s \in Sids : Unseen(s) => store'[s] = NoPort /\ NoPorts[s] = NoPort
    BY <2>2 DEF Unseen, NoPorts
  <2>4. Fits(IdleRun)
    BY <2>1, <2>2, <2>3 DEF Fits, Unseen
  <2> QED BY <1>2, <2>2, <2>4, RunFits DEF Keeps
<1> QED BY <1>3, <1>4, <1>5, <1>6, <1>7, <1>8 DEF Run

(* A handler's step, or its start: it shows and saves nothing of a session *)
(* not bought.                                                             *)
LEMMA HandlerFits ==
    ASSUME TypeOK, KeptInv, NEW h \in Handlers, NEW t, task' = [task EXCEPT ![h] = t],
           UNCHANGED <<listed, run>>, Open' \subseteq Open \/ (\A p \in Pages : run[p].at # "load"),
           \A s \in Sids : \/ status'[s] = status[s]
                           \/ status[s] = "open" /\ status'[s] = "closed"
                           \/ status[s] = "new" /\ status'[s] = "open",
           \A s \in Sids : status'[s] = "new" /\ Unseen(s) =>
               /\ store'[s] = NoPort /\ t.ports[s] = NoPort
               /\ \A p \in Pages : shown'[p][s] = NoPort
               /\ t.at \in {"ensure", "stop", "set"} => t.sid # s,
           t.kind = "close" => t.sid \in Sids /\ status'[t.sid] = "closed"
    PROVE  KeptInv'
<1>1. task'[h] = t /\ \A g \in Handlers \ {h} : task'[g] = task[g]
  BY TaskPoint
<1>2. \A s \in Sids : status'[s] = "new" => status[s] = "new" /\ Unseen(s)
  BY DEF KeptInv, NewUnseen
<1>3. NewUnseen'
  BY <1>1, <1>2 DEF NewUnseen, Unseen
<1>4. ListsComplete'
  <2>1. \A s \in Open' : s \in Open \/ status[s] = "new"
    BY DEF Open
  <2>2. \A s \in Sids, p \in Pages : status[s] = "new" => s \notin run[p].todo
    BY DEF KeptInv, NewUnseen, Unseen
  <2>3. Open' \subseteq Sids
    BY DEF Open
  <2> QED BY <2>1, <2>2, <2>3 DEF KeptInv, ListsComplete
<1>5. ClosedFirst'
  <2>1. \A g \in Handlers : task[g].kind = "close" => task[g].sid \in Sids
    BY SameTypes DEF TypeParts, TasksTyped, Tasks, IdleTask, AskTasks, CloseTasks, SetTasks,
                     SaveTasks, RefetchTasks, NoSid
  <2>2. \A g \in Handlers : task[g].kind = "close" => status[task[g].sid] = "closed"
    BY DEF KeptInv, ClosedFirst
  <2>3. \A g \in Handlers : task[g].kind = "close" => status'[task[g].sid] = "closed"
    <3> SUFFICES ASSUME NEW g \in Handlers, task[g].kind = "close"
                 PROVE  status'[task[g].sid] = "closed"
      OBVIOUS
    <3>1. task[g].sid \in Sids /\ status[task[g].sid] = "closed"
      BY <2>1, <2>2
    <3> QED BY <3>1
  <2> QED BY <1>1, <2>3 DEF ClosedFirst
<1> QED BY <1>3, <1>4, <1>5 DEF KeptInv

LEMMA TaskKeeps ==
    ASSUME TypeOK, KeptInv, NEW h \in Handlers, Task(h)
    PROVE  KeptInv' /\ Keeps
<1> USE SameTypes DEF TypeParts
<1> DEFINE t == task[h]
<1>1. t \in Tasks
  BY DEF TasksTyped
<1>2. /\ UNCHANGED <<status, listed, run>> /\ Open' = Open
      /\ \A s \in Sids : status[s] = "new" => Unseen(s)
  BY DEF Task, CloseBridge, EnsureBridge, SetPorts, SavePorts, Refetch, uiVars, Open, KeptInv,
         NewUnseen
<1>3. CASE CloseBridge(h)
  <2> DEFINE new == [t EXCEPT !.at = "set"]
  <2>1. t \in CloseTasks
    BY <1>1, <1>3, TaskAt DEF CloseBridge
  <2>2. t.sid \in Sids /\ status[t.sid] = "closed"
    BY <2>1 DEF CloseTasks, KeptInv, ClosedFirst
  <2>3. new.ports = t.ports /\ new.sid = t.sid
    BY <2>1 DEF CloseTasks
  <2>4. /\ UNCHANGED <<store, shown>> /\ task' = [task EXCEPT ![h] = new]
        /\ bridge' = [bridge EXCEPT ![t.sid] = NoPort]
    BY <1>3 DEF CloseBridge, Goto
  <2>5. Keeps
    BY <2>2, <2>4 DEF Keeps, Open, MapsTyped, PortMap
  <2>6. t.at = "stop"
    BY <1>3 DEF CloseBridge
  <2> HIDE DEF new
  <2>7. \A s \in Sids : status'[s] = "new" /\ Unseen(s) =>
          /\ store'[s] = NoPort /\ new.ports[s] = NoPort
          /\ \A p \in Pages : shown'[p][s] = NoPort
          /\ new.at \in {"ensure", "stop", "set"} => new.sid # s
    BY <2>3, <2>4, <2>6 DEF Unseen
  <2> QED BY <1>2, <2>2, <2>3, <2>4, <2>5, <2>7, HandlerFits
<1>4. ASSUME UNCHANGED shown, ToRefetch(h) \/ Finish(h),
             \A s \in Sids : Unseen(s) => store'[s] = NoPort
      PROVE  KeptInv'
  <2>1. PICK new :
          /\ task' = [task EXCEPT ![h] = new]
          /\ new.at \in {"refetch", "idle"} /\ new.ports = NoPorts /\ new.kind # "close"
    <3> DEFINE refetch == [IdleTask EXCEPT !.at = "refetch", !.page = task[h].page]
    <3>1. refetch.ports = NoPorts /\ refetch.kind # "close" /\ refetch.at = "refetch"
      BY DEF IdleTask, NoSid
    <3>2. IdleTask.ports = NoPorts /\ IdleTask.kind # "close" /\ IdleTask.at = "idle"
      BY DEF IdleTask, NoSid
    <3> HIDE DEF refetch
    <3> QED BY <1>4, <3>1, <3>2 DEF ToRefetch, Finish, refetch
  <2>2. \A s \in Sids : NoPorts[s] = NoPort
    BY DEF NoPorts
  <2> QED BY <1>2, <1>4, <2>1, <2>2, HandlerFits DEF Unseen
<1>5. CASE EnsureBridge(h)
  <2>1. t \in AskTasks
    BY <1>1, <1>5, TaskAt DEF EnsureBridge
  <2>2. PICK got \in Ports \cup {NoPort} :
          /\ Ensure(t.sid, got)
          /\ \/ got # NoPort /\ task' = [task EXCEPT ![h] = [t EXCEPT !.at = "set", !.port = got]]
             \/ ToRefetch(h)
             \/ Finish(h)
    BY <1>5 DEF EnsureBridge
  <2> DEFINE new == [t EXCEPT !.at = "set", !.port = got]
  <2>3. new.at = "set" /\ new.ports = t.ports /\ new.sid = t.sid /\ new.kind # "close"
    BY <2>1 DEF AskTasks
  <2>4. Keeps
    BY <2>1, <2>2, EnsureServes DEF Keeps, Open, MapsTyped, AskTasks
  <2>5. UNCHANGED <<store, shown>> /\ t.at = "ensure"
    BY <1>5 DEF EnsureBridge
  <2> HIDE DEF new
  <2>6. CASE task' = [task EXCEPT ![h] = new]
    <3>1. \A s \in Sids : status'[s] = "new" /\ Unseen(s) =>
            /\ store'[s] = NoPort /\ new.ports[s] = NoPort
            /\ \A p \in Pages : shown'[p][s] = NoPort
            /\ new.at \in {"ensure", "stop", "set"} => new.sid # s
      BY <2>3, <2>5 DEF Unseen
    <3>2. new.kind = "close" => new.sid \in Sids /\ status'[new.sid] = "closed"
      BY <2>3
    <3>3. KeptInv'
      BY <1>2, <2>6, <3>1, <3>2, HandlerFits
    <3> QED BY <2>4, <3>3
  <2>7. CASE ToRefetch(h) \/ Finish(h)
    BY <1>4, <2>4, <2>5, <2>7 DEF Unseen
  <2> QED BY <2>2, <2>6, <2>7 DEF new
<1>6. CASE SetPorts(h)
  <2> DEFINE ports == [shown[t.page] EXCEPT ![t.sid] = t.port]
             new == [t EXCEPT !.at = "save", !.port = NoPort, !.ports = ports]
  <2>1. t \in CloseTasks \cup SetTasks /\ t.at = "set" /\ t.page \in Pages
    BY <1>1, <1>6, TaskAt DEF SetPorts
  <2>2. new.at = "save" /\ new.ports = ports /\ new.kind = t.kind /\ new.sid = t.sid
    BY <2>1 DEF CloseTasks, SetTasks
  <2>3. \A s \in Sids : s # t.sid => ports[s] = shown[t.page][s]
    BY <2>1 DEF MapsTyped, PortMap
  <2>4. new.kind = "close" => new.sid \in Sids /\ status[new.sid] = "closed"
    BY <2>1, <2>2 DEF CloseTasks, SetTasks, KeptInv, ClosedFirst
  <2>5. UNCHANGED <<store, bridge>> /\ Keeps
    BY <1>6 DEF SetPorts, Keeps
  <2>6. \/ /\ shown' = [shown EXCEPT ![t.page] = ports]
           /\ task' = [task EXCEPT ![h] = new]
        \/ Finish(h) /\ UNCHANGED shown
    BY <1>6 DEF SetPorts
  <2>7. CASE Finish(h) /\ UNCHANGED shown
    BY <1>4, <2>5, <2>7 DEF Unseen
  <2>8. CASE shown' = [shown EXCEPT ![t.page] = ports] /\ task' = [task EXCEPT ![h] = new]
    <3>1. \A p \in Pages : shown'[p] = shown[p] \/ shown'[p] = ports
      BY <2>8 DEF MapsTyped
    <3>2. \A s \in Sids : Unseen(s) => /\ s # t.sid /\ ports[s] = NoPort
                                       /\ \A p \in Pages : shown'[p][s] = NoPort
      BY <2>1, <2>3, <3>1 DEF Unseen
    <3> HIDE DEF ports, new
    <3>3. \A s \in Sids : status'[s] = "new" /\ Unseen(s) =>
            /\ store'[s] = NoPort /\ new.ports[s] = NoPort
            /\ \A p \in Pages : shown'[p][s] = NoPort
            /\ new.at \in {"ensure", "stop", "set"} => new.sid # s
      BY <2>2, <2>5, <3>2 DEF Unseen
    <3> QED BY <1>2, <2>4, <2>5, <2>8, <3>3, HandlerFits
  <2> QED BY <2>6, <2>7, <2>8
<1>7. CASE SavePorts(h) \/ Refetch(h)
  <2>1. /\ UNCHANGED <<bridge, shown>> /\ store' \in {t.ports, store}
        /\ ToRefetch(h) \/ Finish(h)
    BY <1>7 DEF SavePorts, Refetch, SaveBridgePorts
  <2>2. \A s \in Sids : Unseen(s) => store'[s] = NoPort
    BY <2>1 DEF Unseen
  <2>3. KeptInv'
    BY <1>4, <2>1, <2>2
  <2> QED BY <2>1, <2>3 DEF Keeps
<1> QED BY <1>3, <1>5, <1>6, <1>7 DEF Task

LEMMA ClickKeeps ==
    ASSUME TypeOK, KeptInv, NEW h \in Handlers, NEW s \in Sids,
           ClickBuy(h, s) \/ ClickClose(h, s) \/ ClickTunnel(h, s) \/ ClickRow(h, s),
           \A p \in Pages : run[p].at = "load" => Open' \subseteq Open
    PROVE  KeptInv' /\ Keeps
<1> USE SameTypes DEF TypeParts
<1>1. UNCHANGED <<bridge, store, shown, run, listed>> /\ Keeps
  BY DEF ClickBuy, ClickClose, ClickTunnel, ClickRow, Click, uiVars, Keeps
<1> DEFINE made(at, kind, sid, port) ==
        [IdleTask EXCEPT !.at = at, !.kind = kind, !.page = page, !.sid = sid, !.port = port]
<1>2. \A at, kind, sid, port :
        /\ made(at, kind, sid, port).at = at /\ made(at, kind, sid, port).kind = kind
        /\ made(at, kind, sid, port).sid = sid /\ made(at, kind, sid, port).ports = NoPorts
  BY DEF IdleTask
<1>3. PICK at, kind, sid, port :
        /\ task' = [task EXCEPT ![h] = made(at, kind, sid, port)]
        /\ \/ /\ status[s] = "new" /\ status' = [status EXCEPT ![s] = "open"]
              /\ kind # "close" /\ (sid = s \/ at = "refetch")
           \/ /\ status[s] = "open" /\ status' = [status EXCEPT ![s] = "closed"] /\ sid = s
           \/ s \in listed /\ UNCHANGED status /\ kind # "close" /\ sid = s
  <2> HIDE DEF made
  <2>1. \A a, k, i, q : Click(h, k, i, a, q) => task' = [task EXCEPT ![h] = made(a, k, i, q)]
    BY DEF Click, made
  <2>2. CASE ClickBuy(h, s)
    <3>1. NoSid # "close"
      BY DEF NoSid
    <3> QED BY <2>1, <2>2, <3>1 DEF ClickBuy
  <2>3. CASE ClickClose(h, s)
    BY <2>1, <2>3 DEF ClickClose
  <2>4. CASE ClickTunnel(h, s)
    BY <2>1, <2>4 DEF ClickTunnel, Row
  <2>5. CASE ClickRow(h, s)
    BY <2>1, <2>5 DEF ClickRow, Row
  <2> QED BY <2>2, <2>3, <2>4, <2>5
<1> DEFINE new == made(at, kind, sid, port)
<1>4. new.at = at /\ new.kind = kind /\ new.sid = sid /\ new.ports = NoPorts
  BY <1>2
<1> HIDE DEF new, made
<1>5. task' = [task EXCEPT ![h] = new]
  BY <1>3 DEF new
<1>6. Open' \subseteq Open \/ \A p \in Pages : run[p].at # "load"
  OBVIOUS
<1>7. \A u \in Sids : \/ status'[u] = status[u]
                      \/ status[u] = "open" /\ status'[u] = "closed"
                      \/ status[u] = "new" /\ status'[u] = "open"
  BY <1>3 DEF RestTyped
<1>8. \A u \in Sids : status'[u] = "new" /\ Unseen(u) =>
        /\ store'[u] = NoPort /\ new.ports[u] = NoPort
        /\ \A p \in Pages : shown'[p][u] = NoPort
        /\ new.at \in {"ensure", "stop", "set"} => new.sid # u
  <2> SUFFICES ASSUME NEW u \in Sids, status'[u] = "new", Unseen(u)
               PROVE  /\ store'[u] = NoPort /\ new.ports[u] = NoPort
                      /\ \A p \in Pages : shown'[p][u] = NoPort
                      /\ new.at \in {"ensure", "stop", "set"} => new.sid # u
    OBVIOUS
  <2>1. u # s \/ at = "refetch"
    BY <1>3 DEF RestTyped, Unseen
  <2>2. sid = s \/ at = "refetch"
    BY <1>3
  <2> QED BY <1>1, <1>4, <2>1, <2>2 DEF Unseen, NoPorts
<1>9. new.kind = "close" => new.sid \in Sids /\ status'[new.sid] = "closed"
  BY <1>3, <1>4 DEF RestTyped
<1> QED BY <1>1, <1>5, <1>6, <1>7, <1>8, <1>9, HandlerFits

LEMMA PageKeeps ==
    ASSUME TypeOK, KeptInv, \/ Refresh \/ Revisit \/ Restart
                            \/ \E s \in Sids : Expire(s) \/ ClickRotate(s)
    PROVE  KeptInv' /\ Keeps
<1> USE SameTypes DEF TypeParts
<1>1. CASE Refresh \/ Revisit \/ \E s \in Sids : ClickRotate(s)
  <2>1. UNCHANGED <<bridge, store, shown, run, task, status>> /\ listed' \in {{}, listed}
    BY <1>1 DEF ClickRotate, Refresh, Enqueue, Revisit, Mount, uiVars
  <2>2. NewUnseen'
    BY <2>1 DEF KeptInv, NewUnseen, Unseen
  <2>3. ListsComplete' /\ ClosedFirst' /\ Keeps
    BY <2>1 DEF KeptInv, ListsComplete, ClosedFirst, Keeps, Open
  <2> QED BY <2>2, <2>3 DEF KeptInv
<1>2. CASE Restart
  <2>1. /\ UNCHANGED <<status, store>> /\ listed' = {} /\ page' # page
        /\ \A p \in Pages : run'[p] = IdleRun /\ shown'[p] = NoPorts
        /\ \A h \in Handlers : task'[h] = IdleTask
    BY <1>2 DEF Restart, Mount, RestTyped, Pages
  <2>2. /\ IdleRun.at = "idle" /\ IdleRun.active = {} /\ IdleRun.todo = {}
        /\ IdleRun.merged = NoPorts
    BY DEF IdleRun
  <2>3. IdleTask.at = "idle" /\ IdleTask.ports = NoPorts /\ IdleTask.kind # "close"
    BY DEF IdleTask, NoSid
  <2>4. NewUnseen'
    BY <2>1, <2>2, <2>3 DEF KeptInv, NewUnseen, Unseen, NoPorts
  <2>5. ListsComplete' /\ ClosedFirst'
    BY <2>1, <2>2, <2>3 DEF ListsComplete, ClosedFirst
  <2> QED BY <2>1, <2>4, <2>5 DEF KeptInv, Keeps
<1>3. CASE \E s \in Sids : Expire(s)
  <2>1. PICK s \in Sids : status[s] = "open" /\ status' = [status EXCEPT ![s] = "closed"]
    BY <1>3 DEF Expire
  <2>2. UNCHANGED <<bridge, store, listed, shown, run, task>>
    BY <1>3 DEF Expire, uiVars
  <2>3. \A u \in Sids : \/ status'[u] = status[u]
                        \/ status[u] = "open" /\ status'[u] = "closed"
    BY <2>1 DEF RestTyped
  <2>4. NewUnseen'
    BY <2>2, <2>3 DEF KeptInv, NewUnseen, Unseen
  <2>5. ListsComplete' /\ Keeps
    <3>1. Open' \subseteq Open
      BY <2>3 DEF Open
    <3> QED BY <2>2, <3>1 DEF KeptInv, ListsComplete, Keeps
  <2>6. ClosedFirst'
    <3>1. \A h \in Handlers : task[h].kind = "close" => task[h].sid \in Sids
      BY DEF TasksTyped, Tasks, IdleTask, AskTasks, CloseTasks, SetTasks, SaveTasks, RefetchTasks,
             NoSid
    <3>2. ClosedFirst /\ \A u \in Sids : status[u] = "closed" => status'[u] = "closed"
      BY <2>3 DEF KeptInv
    <3> QED BY <2>2, <3>1, <3>2 DEF ClosedFirst
  <2> QED BY <2>4, <2>5, <2>6 DEF KeptInv
<1> QED BY <1>1, <1>2, <1>3

\* A reconciliation never restarts a healthy bridge, as its comments have it, if
\* no purchase falls between its list of sessions and its use of the saved ports:
\* whatever else overlaps it, in any number of pages.
THEOREM HealthyKeptApart == Spec /\ PurchasesApart => HealthyBridgeKept
<1>1. ASSUME Init PROVE KeptInv
  <2> USE <1>1 DEF Init
  <2>1. /\ IdleRun.at = "idle" /\ IdleRun.active = {} /\ IdleRun.todo = {}
        /\ IdleRun.merged = NoPorts
    BY DEF IdleRun
  <2>2. IdleTask.at = "idle" /\ IdleTask.ports = NoPorts /\ IdleTask.kind # "close"
    BY DEF IdleTask, NoSid
  <2>3. NewUnseen
    BY <2>1, <2>2 DEF NewUnseen, Unseen, NoPorts
  <2>4. ListsComplete /\ ClosedFirst
    BY <2>1, <2>2 DEF ListsComplete, ClosedFirst
  <2> QED BY <2>3, <2>4 DEF KeptInv
<1>2. /\ TypeOK /\ KeptInv /\ [Next]_vars
      /\ [\A p \in Pages : run[p].at = "load" => Open' \subseteq Open]_vars
      => KeptInv' /\ [Keeps]_vars
  <2> SUFFICES ASSUME TypeOK, KeptInv, [Next]_vars,
                      [\A p \in Pages : run[p].at = "load" => Open' \subseteq Open]_vars
               PROVE  KeptInv' /\ [Keeps]_vars
    OBVIOUS
  <2>1. CASE UNCHANGED vars
    <3>1. UNCHANGED <<status, store, listed, shown, run, task>> /\ Open' = Open
      BY <2>1 DEF vars, Open
    <3>2. NewUnseen'
      BY <3>1 DEF KeptInv, NewUnseen, Unseen
    <3>3. ListsComplete' /\ ClosedFirst'
      BY <3>1 DEF KeptInv, ListsComplete, ClosedFirst
    <3> QED BY <2>1, <3>2, <3>3 DEF KeptInv
  <2>2. CASE Next /\ \A p \in Pages : run[p].at = "load" => Open' \subseteq Open
    BY <2>2, RunKeeps, TaskKeeps, ClickKeeps, PageKeeps DEF Next, User
  <2> QED BY <2>1, <2>2
<1> QED BY <1>1, <1>2, TypeCorrect, PTL DEF Spec, PurchasesApart, HealthyBridgeKept, Keeps
=============================================================================
