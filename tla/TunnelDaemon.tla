---------------------------- MODULE TunnelDaemon ----------------------------
(***************************************************************************)
(* The IPC server of proxybase-tunneld (ipc_server.rs): one task per GUI   *)
(* connection reads request frames and handles them one after another, all *)
(* tasks share one tunnel engine and one "owner" slot, and the connection  *)
(* that owns the tunnel takes it down when it closes.                      *)
(*                                                                         *)
(* A task is cut at its awaits: everything between two awaits is one       *)
(* action.  The engine is libproxybase::tunnel::SystemTunnelEngine, which  *)
(* is not in this repository; its calls are modelled from how the server   *)
(* uses their results (the Engine* operators).                             *)
(***************************************************************************)
EXTENDS Naturals

CONSTANTS Conns,     \* connection ids handed out by Service.next_id, never reused
          NoConn,    \* Option::None
          MaxUnread  \* bound: frames left unread on a connection its client closed

ASSUME NoConnAssumption == NoConn \notin Conns
ASSUME MaxUnreadAssumption == MaxUnread \in Nat

VARIABLES
    sock,        \* the client's end of each connection
    unread,      \* frames the client wrote before it closed, still to be read
    pc,          \* where each connection's task stands
    stopOnExit,  \* config.stop_on_gui_exit of the request in hand
    registered,  \* Service.connections
    lock,        \* the task holding Service.owner's mutex across an await
    owner,       \* Service.owner
    engine,      \* the engine's TunnelState
    starter      \* history: the StartTunnel the running tunnel comes from

vars == <<sock, unread, pc, stopOnExit, registered, lock, owner, engine, starter>>

\* A holder of the tunnel: a connection and the stop_on_gui_exit it asked for.
Holder == [conn : Conns, stop : BOOLEAN]
NoHolder == [conn |-> NoConn, stop |-> FALSE]

\* "Query" stands for every request the server answers without changing
\* anything: Ping, GetState, and a StartTunnel or HotSwapProxy whose config
\* does not validate.  "Garbage" is a frame that is not a JSON envelope.
Requests == [op : {"StartTunnel", "HotSwapProxy"}, stop : BOOLEAN]
            \cup [op : {"StopTunnel", "Query", "Garbage"}, stop : {FALSE}]

EngineStates == {"Disconnected", "Starting", "Connected", "Reconnecting", "Error"}

\* TunnelState::Connected | Reconnecting, the states a hot swap applies to.
Carrying == {"Connected", "Reconnecting"}
\* TunnelState::is_active.  "Starting" is every state between the start of
\* SystemTunnelEngine::start and its return.
Active == Carrying \cup {"Starting"}

StartPhases == {"start", "clear", "route", "swap_in", "begin", "starting", "own"}
SwapPhases == {"swap", "reown"}
StopPhases == {"stop", "disown"}
ClosePhases == {"close", "teardown"}
Phases == {"none", "read", "gone"} \cup StartPhases \cup SwapPhases
          \cup StopPhases \cup ClosePhases

-----------------------------------------------------------------------------
Init ==
    /\ sock = [c \in Conns |-> "fresh"]
    /\ unread = [c \in Conns |-> 0]
    /\ pc = [c \in Conns |-> "none"]
    /\ stopOnExit = [c \in Conns |-> FALSE]
    /\ registered = {}
    /\ lock = NoConn
    /\ owner = NoHolder
    /\ engine = "Disconnected"
    /\ starter = NoHolder

\* The writer task of a closed connection may already be dead, in which case
\* sending the reply fails and the task leaves its loop without reading on.
AfterReply(c) == IF sock[c] = "shut" THEN {"read", "close"} ELSE {"read"}

\* Return to the read loop with a reply.
Reply(c) ==
    /\ \E next \in AfterReply(c) : pc' = [pc EXCEPT ![c] = next]
    /\ stopOnExit' = [stopOnExit EXCEPT ![c] = FALSE]

Goto(c, phase) ==
    /\ pc' = [pc EXCEPT ![c] = phase]
    /\ UNCHANGED stopOnExit

-----------------------------------------------------------------------------
(* The GUI's side of a connection.                                         *)

Connect(c) ==
    /\ sock[c] = "fresh"
    /\ sock' = [sock EXCEPT ![c] = "open"]
    /\ pc' = [pc EXCEPT ![c] = "read"]
    /\ registered' = registered \cup {c}
    /\ UNCHANGED <<unread, stopOnExit, lock, owner, engine, starter>>

\* The GUI exits, crashes, or drops a connection it gave up on.  What an open
\* connection has sent is only known once it is read (Receive); closing it
\* fixes how many frames are still to come.
Hangup(c) ==
    /\ sock[c] = "open"
    /\ sock' = [sock EXCEPT ![c] = "shut"]
    /\ \E n \in 0..MaxUnread : unread' = [unread EXCEPT ![c] = n]
    /\ UNCHANGED <<pc, stopOnExit, registered, lock, owner, engine, starter>>

-----------------------------------------------------------------------------
(* handle_io: the read loop.                                               *)

\* Mutant: a hot swap is dispatched to a phase no handler serves.
FirstPhase_Unhandled(op) ==
    CASE op = "StartTunnel"  -> "start"
      [] op = "HotSwapProxy" -> "hotswap"
      [] op = "StopTunnel"   -> "stop"
      [] op = "Garbage"      -> "close"

FirstPhase(op) ==
    CASE op = "StartTunnel"  -> "start"
      [] op = "HotSwapProxy" -> "swap"
      [] op = "StopTunnel"   -> "stop"
      [] op = "Garbage"      -> "close"

Receive(c) ==
    /\ pc[c] = "read"
    /\ \/ sock[c] = "open" /\ UNCHANGED unread
       \/ unread[c] > 0 /\ unread' = [unread EXCEPT ![c] = @ - 1]
    /\ \E r \in Requests :
         \/ r.op = "Query" /\ Reply(c)
         \/ /\ r.op # "Query"
            /\ pc' = [pc EXCEPT ![c] = FirstPhase(r.op)]
            /\ stopOnExit' = [stopOnExit EXCEPT ![c] = r.stop]
    /\ UNCHANGED <<sock, registered, lock, owner, engine, starter>>

\* The client's end of file is seen only after every frame before it.
EndOfFile(c) ==
    /\ pc[c] = "read"
    /\ sock[c] = "shut" /\ unread[c] = 0
    /\ Goto(c, "close")
    /\ UNCHANGED <<sock, unread, registered, lock, owner, engine, starter>>

-----------------------------------------------------------------------------
(* The engine's calls, external.  stop() tears everything down and cancels *)
(* a start in progress; when it fails, kill-switch routes may remain.      *)

EngineStop ==
    /\ engine' \in {"Disconnected", "Error"}
    /\ (engine = "Disconnected") => (engine' = "Disconnected")
    /\ starter' = NoHolder

\* start() refuses a tunnel that is already active.
EngineStart(h) ==
    /\ engine \notin Active
    /\ engine' = "Starting"
    /\ starter' = h

EngineSwap(h) ==
    /\ engine \in Carrying
    /\ starter' = h
    /\ UNCHANGED engine

\* The running tunnel changes state by itself.
EngineEvent ==
    /\ \/ engine = "Connected" /\ engine' \in {"Reconnecting", "Error"}
       \/ engine = "Reconnecting" /\ engine' \in {"Connected", "Error"}
    /\ starter' = IF engine' = "Error" THEN NoHolder ELSE starter
    /\ UNCHANGED <<sock, unread, pc, stopOnExit, registered, lock, owner>>

-----------------------------------------------------------------------------
(* handle: StartTunnel.                                                    *)

\* First look at the engine: an error state is torn down before a new start.
StartCheck(c) ==
    /\ pc[c] = "start"
    /\ Goto(c, IF engine = "Error" THEN "clear" ELSE "route")
    /\ UNCHANGED <<sock, unread, registered, lock, owner, engine, starter>>

StartClear(c) ==
    /\ pc[c] = "clear"
    /\ EngineStop
    /\ Goto(c, "route")
    /\ UNCHANGED <<sock, unread, registered, lock, owner>>

\* Second look: hot swap a tunnel that is up, refuse one that is starting.
StartRoute(c) ==
    /\ pc[c] = "route"
    /\ \/ engine \in Carrying /\ Goto(c, "swap_in")
       \/ engine \in Active \ Carrying /\ Reply(c)
       \/ engine \notin Active /\ Goto(c, "begin")
    /\ UNCHANGED <<sock, unread, registered, lock, owner, engine, starter>>

StartSwap(c) ==
    /\ pc[c] = "swap_in"
    /\ EngineSwap([conn |-> c, stop |-> stopOnExit[c]])
    /\ Goto(c, "own")
    /\ UNCHANGED <<sock, unread, registered, lock, owner>>

StartBegin(c) ==
    /\ pc[c] = "begin"
    /\ EngineStart([conn |-> c, stop |-> stopOnExit[c]])
    /\ Goto(c, "starting")
    /\ UNCHANGED <<sock, unread, registered, lock, owner>>

\* start() is still the one in progress for this connection.
Starting(c) == engine = "Starting" /\ starter.conn = c

StartUp(c) ==
    /\ pc[c] = "starting"
    /\ Starting(c)
    /\ engine' = "Connected"
    /\ Goto(c, "own")
    /\ UNCHANGED <<sock, unread, registered, lock, owner, starter>>

\* The engine call returns an error: refused by the state it finds, failed
\* on its own, or cancelled by another connection's stop.
StartFails(c) ==
    /\ \/ /\ pc[c] = "swap_in"
          /\ UNCHANGED <<engine, starter>>
       \/ /\ pc[c] = "begin"
          /\ engine \in Active
          /\ UNCHANGED <<engine, starter>>
       \/ /\ pc[c] = "starting"
          /\ ~Starting(c)
          /\ UNCHANGED <<engine, starter>>
       \/ /\ pc[c] = "starting"
          /\ Starting(c)
          /\ engine' \in {"Disconnected", "Error"}
          /\ starter' = NoHolder
    /\ Reply(c)
    /\ UNCHANGED <<sock, unread, registered, lock, owner>>

\* Mutant: a connection that adopts a running tunnel by a hot swap does not
\* replace the config the owner slot holds.
StartOwn_KeepsOldConfig(c) ==
    /\ pc[c] = "own"
    /\ lock = NoConn
    /\ owner' = IF owner = NoHolder THEN [conn |-> c, stop |-> stopOnExit[c]] ELSE owner
    /\ Reply(c)
    /\ UNCHANGED <<sock, unread, registered, lock, engine, starter>>

StartOwn(c) ==
    /\ pc[c] = "own"
    /\ lock = NoConn
    /\ owner' = [conn |-> c, stop |-> stopOnExit[c]]
    /\ Reply(c)
    /\ UNCHANGED <<sock, unread, registered, lock, engine, starter>>

-----------------------------------------------------------------------------
(* handle: HotSwapProxy and StopTunnel.                                    *)

HotSwap(c) ==
    /\ pc[c] = "swap"
    /\ \/ /\ EngineSwap(IF starter.conn = c
                        THEN [conn |-> c, stop |-> stopOnExit[c]] ELSE starter)
          /\ Goto(c, "reown")
       \/ Reply(c) /\ UNCHANGED <<engine, starter>>
    /\ UNCHANGED <<sock, unread, registered, lock, owner>>

\* Only the owner's config follows a hot swap.
HotSwapReown(c) ==
    /\ pc[c] = "reown"
    /\ lock = NoConn
    /\ owner' = IF owner.conn = c THEN [conn |-> c, stop |-> stopOnExit[c]] ELSE owner
    /\ Reply(c)
    /\ UNCHANGED <<sock, unread, registered, lock, engine, starter>>

Stop(c) ==
    /\ pc[c] = "stop"
    /\ EngineStop
    /\ Goto(c, "disown")
    /\ UNCHANGED <<sock, unread, registered, lock, owner>>

StopDisown(c) ==
    /\ pc[c] = "disown"
    /\ lock = NoConn
    /\ owner' = NoHolder
    /\ Reply(c)
    /\ UNCHANGED <<sock, unread, registered, lock, engine, starter>>

-----------------------------------------------------------------------------
(* disconnect: leave the registry, take the owner slot if it is ours, and  *)
(* keep its mutex until the engine has stopped.                            *)

Unregister(c) ==
    /\ pc[c] = "close"
    /\ c \in registered
    /\ registered' = registered \ {c}
    /\ UNCHANGED <<sock, unread, pc, stopOnExit, lock, owner, engine, starter>>

\* Mutant: the owner slot is emptied only when the config asks for a teardown.
Disown_OnlyForTeardown(c) ==
    /\ pc[c] = "close"
    /\ c \notin registered
    /\ lock = NoConn
    /\ LET teardown == owner.conn = c /\ owner.stop IN
         /\ owner' = IF teardown THEN NoHolder ELSE owner
         /\ Goto(c, IF teardown THEN "teardown" ELSE "gone")
         /\ lock' = IF teardown THEN c ELSE lock
    /\ UNCHANGED <<sock, unread, registered, engine, starter>>

\* Mutant: the mutex guard is dropped before engine.stop is awaited.
Disown_DropsGuard(c) ==
    /\ pc[c] = "close"
    /\ c \notin registered
    /\ lock = NoConn
    /\ owner' = IF owner.conn = c THEN NoHolder ELSE owner
    /\ Goto(c, IF owner.conn = c /\ owner.stop THEN "teardown" ELSE "gone")
    /\ UNCHANGED <<sock, unread, registered, lock, engine, starter>>

Disown(c) ==
    /\ pc[c] = "close"
    /\ c \notin registered
    /\ lock = NoConn
    /\ owner' = IF owner.conn = c THEN NoHolder ELSE owner
    /\ LET teardown == owner.conn = c /\ owner.stop IN
         /\ Goto(c, IF teardown THEN "teardown" ELSE "gone")
         /\ lock' = IF teardown THEN c ELSE lock
    /\ UNCHANGED <<sock, unread, registered, engine, starter>>

\* Mutant: the mutex guard outlives the teardown.
Teardown_KeepsGuard(c) ==
    /\ pc[c] = "teardown"
    /\ EngineStop
    /\ Goto(c, "gone")
    /\ UNCHANGED <<sock, unread, registered, lock, owner>>

Teardown(c) ==
    /\ pc[c] = "teardown"
    /\ EngineStop
    /\ lock' = NoConn
    /\ Goto(c, "gone")
    /\ UNCHANGED <<sock, unread, registered, owner>>

-----------------------------------------------------------------------------
Gui(c) == Connect(c) \/ Hangup(c)

\* Every step of connection c's task.
Task(c) ==
    \/ Receive(c) \/ EndOfFile(c)
    \/ StartCheck(c) \/ StartClear(c) \/ StartRoute(c) \/ StartSwap(c)
    \/ StartBegin(c) \/ StartUp(c) \/ StartFails(c) \/ StartOwn(c)
    \/ HotSwap(c) \/ HotSwapReown(c)
    \/ Stop(c) \/ StopDisown(c)
    \/ Unregister(c) \/ Disown(c) \/ Teardown(c)

Next == EngineEvent \/ \E c \in Conns : Gui(c) \/ Task(c)

Spec == Init /\ [][Next]_vars

\* The runtime keeps polling a task that can go on, an engine call returns and
\* the owner's mutex, a FIFO queue, is granted; an open client need not send.
ServerStep(c) == Task(c) /\ (pc[c] = "read" => sock[c] = "shut")

FairSpec == Spec /\ \A c \in Conns : WF_vars(ServerStep(c))

-----------------------------------------------------------------------------
(* Properties.                                                             *)

\* Every variable has its type; the owner slot in particular holds a
\* connection together with its config, or nothing (Option<(u64, TunnelConfig)>).
TypeOK ==
    /\ sock \in [Conns -> {"fresh", "open", "shut"}]
    /\ unread \in [Conns -> 0..MaxUnread]
    /\ pc \in [Conns -> Phases]
    /\ stopOnExit \in [Conns -> BOOLEAN]
    /\ registered \in SUBSET Conns
    /\ lock \in Conns \cup {NoConn}
    /\ owner \in Holder \cup {NoHolder}
    /\ engine \in EngineStates
    /\ starter \in Holder \cup {NoHolder}

\* A connection whose task has ended leaves nothing of itself behind: it is
\* not broadcast to, does not own the tunnel and does not hold the owner's
\* mutex.  (handle runs to its end before disconnect, so no late reply can
\* make a dead connection the owner.)
FinishedLeavesNothing ==
    \A c \in Conns :
        pc[c] = "gone" => c \notin registered /\ owner.conn # c /\ lock # c

\* While the exit of one GUI takes the tunnel down, no connection is recorded
\* as its owner: the teardown in disconnect cannot hit a tunnel another
\* connection has already been given, because the owner's mutex is kept until
\* engine.stop returns.
NoOwnerDuringTeardown ==
    \A c \in Conns : pc[c] = "teardown" => owner = NoHolder

Lone(c) == \A d \in Conns \ {c} : sock[d] = "fresh"

\* The module comment of ipc_server.rs, for a daemon that has seen only one
\* GUI connection: whenever that connection is idle or closing while the
\* tunnel is up, the owner slot names it with the config in force, and once
\* it is gone a tunnel started with stop_on_gui_exit is down.
LoneGuiOwnsTunnel ==
    \A c \in Conns : Lone(c) /\ engine \in Active =>
        /\ starter.conn = c
        /\ pc[c] \in {"read", "close"} => owner = starter
        /\ pc[c] = "gone" => ~starter.stop

\* A closed connection's task always ends, whatever it had still to answer
\* and whoever holds the owner's mutex; and if it was the only GUI, its
\* stop_on_gui_exit tunnel is then down.
TornDown(c) == pc[c] = "gone" /\ (Lone(c) /\ engine \in Active => ~starter.stop)
ExitTearsDown == \A c \in Conns : sock[c] = "shut" ~> TornDown(c)

\* The module comment of ipc_server.rs as it stands, for any number of
\* connections: once the connection that issued StartTunnel with
\* stop_on_gui_exit is gone, its tunnel is down.
IssuerExitStopsTunnel ==
    \A c \in Conns :
        pc[c] = "gone" /\ engine \in Active /\ starter.conn = c => ~starter.stop
=============================================================================
