------------------------------- MODULE AndroidVpn -------------------------------
(***************************************************************************)
(* The system tunnel on Android.  The commands of android_vpn_jni.rs call  *)
(* VpnController.kt, which asks for consent and has the operating system   *)
(* start or stop ProxyBaseVpnService.kt; the service, on the main thread,  *)
(* opens the interface and spawns native tasks that start and stop the     *)
(* engine.  The engine is external; it is used as TunnelDaemon describes.  *)
(***************************************************************************)
EXTENDS Naturals, Sequences
Sequence == INSTANCE SequencesExt

CONSTANTS VpnCalls,    \* start and stop commands in progress at once
          MaxIntents,  \* bound: messages for the service, and native tasks
          MaxVpnMoves  \* bound: commands, dialogs, failures and process deaths

ASSUME VpnAssumption == MaxIntents \in Nat /\ MaxVpnMoves \in Nat

VARIABLES
    app,        \* the activity: not yet there in this process, open, or gone
    consent,    \* the user has allowed this application to be a VPN
    pendingConfig,
    dialogs,    \* consent dialogs open
    permissionDenied, killSwitch,   \* the flags of android_vpn_jni.rs
    command,    \* commands in progress
    intents,    \* messages to the service on the main thread
    service,    \* the service is alive
    tasks,      \* native tasks, in the order they were spawned
    engine,
    bridged,    \* bridge_events runs: the engine was made after the window's setup
    terminal,   \* a terminal failure bridge_events has not handled yet
    overtaken,  \* history: a task has run before one spawned earlier
    vpnMoves

vpnVars == <<app, consent, pendingConfig, dialogs, permissionDenied, killSwitch, command,
             intents, service, tasks, engine, bridged, terminal, overtaken, vpnMoves>>
controllerVars == <<app, consent, pendingConfig, dialogs, permissionDenied>>
engineVars == <<engine, bridged, terminal, overtaken>>

\* A configuration is its kill switch.
Configs == {"blocking", "passing"}
NoConfig == "none"
IdleCommand == [at |-> "idle", config |-> NoConfig]

VpnInit ==
    /\ app = "open" /\ consent \in BOOLEAN
    /\ pendingConfig = NoConfig /\ dialogs = 0
    /\ permissionDenied = FALSE /\ killSwitch = TRUE
    /\ command = [c \in VpnCalls |-> IdleCommand]
    /\ intents = <<>> /\ service = FALSE /\ tasks = <<>>
    /\ engine = "off" /\ bridged = TRUE /\ terminal = FALSE
    /\ overtaken = FALSE /\ vpnMoves = 0

VpnMove == vpnMoves < MaxVpnMoves /\ vpnMoves' = vpnMoves + 1

StartIntent(config) == [what |-> "start", config |-> config]
StopService == [what |-> "destroy", config |-> NoConfig]
Disconnect == [what |-> "halt", config |-> NoConfig]
StartTask(config) == StartIntent(config)
StopTask == StopService
Post(intent) == Len(intents) < MaxIntents /\ intents' = Append(intents, intent)
Spawn(t) == Len(tasks) < MaxIntents /\ tasks' = Append(tasks, t)
Later(c, at) == command' = [command EXCEPT ![c].at = at]
CommandEnds(c) == command' = [command EXCEPT ![c] = IdleCommand]

\* stop_vpn_service, from Rust: without a context it fails, and nobody looks.
StopVpn == IF app = "none" THEN UNCHANGED intents ELSE Post(StopService)

-----------------------------------------------------------------------------
(* Commands, cut where they await the engine.                              *)

StartVpnCommand(c) ==
    /\ app = "open" /\ command[c] = IdleCommand /\ VpnMove
    /\ \E config \in Configs :
         /\ command' = [command EXCEPT ![c] =
                [at |-> IF engine = "up" THEN "swap" ELSE "service", config |-> config]]
         /\ killSwitch' = (config = "blocking")
    /\ permissionDenied' = FALSE
    /\ UNCHANGED <<app, consent, pendingConfig, dialogs, intents, service, tasks, engineVars>>

\* The engine keeps its interface, or refuses.
HotSwap(c) ==
    /\ command[c].at = "swap" /\ CommandEnds(c)
    /\ UNCHANGED <<controllerVars, killSwitch, intents, service, tasks, engineVars, vpnMoves>>

\* startService may be refused, and nobody waits for what it starts.
StartService(config) == Post(StartIntent(config)) \/ UNCHANGED intents

\* startVpn: without consent a dialog is shown, if it can be; an activity that
\* is gone may be noticed or not.
StartVpn(c) ==
    LET config == command[c].config IN
    /\ command[c].at = "service" /\ CommandEnds(c)
    /\ pendingConfig' = config
    /\ \/ /\ app = "open" /\ ~consent /\ dialogs' = dialogs + 1
          /\ UNCHANGED <<intents, permissionDenied>>
       \/ ~consent /\ permissionDenied' = TRUE /\ UNCHANGED <<intents, dialogs>>
       \/ consent /\ permissionDenied' = FALSE /\ StartService(config) /\ UNCHANGED dialogs
       \/ app = "gone" /\ StartService(config) /\ UNCHANGED <<permissionDenied, dialogs>>
    /\ UNCHANGED <<app, consent, killSwitch, service, tasks, engineVars, vpnMoves>>

StopVpnCommand(c) ==
    /\ app = "open" /\ command[c] = IdleCommand /\ VpnMove
    /\ StopVpn
    /\ Later(c, "stop")
    /\ UNCHANGED <<controllerVars, killSwitch, service, tasks, engineVars>>

\* A start in progress is cancelled, and its task stops the service.
StopEngine ==
    /\ engine' = "off"
    /\ IF engine = "starting" THEN StopVpn ELSE UNCHANGED intents
    /\ UNCHANGED <<bridged, terminal>>

StopVpnReturns(c) ==
    /\ command[c].at = "stop" /\ CommandEnds(c)
    /\ StopEngine
    /\ UNCHANGED <<controllerVars, killSwitch, service, tasks, overtaken, vpnMoves>>

-----------------------------------------------------------------------------
(* The main thread.                                                        *)

\* onActivityResult: a second dialog finds no configuration.
DialogAnswered ==
    /\ dialogs > 0 /\ dialogs' = dialogs - 1
    /\ pendingConfig' = NoConfig
    /\ \E ok \in BOOLEAN :
         /\ consent' = (consent \/ ok)
         /\ IF ok /\ pendingConfig # NoConfig
            THEN StartService(pendingConfig) /\ permissionDenied' = FALSE
            ELSE permissionDenied' = TRUE /\ UNCHANGED intents
    /\ UNCHANGED <<app, killSwitch, command, service, tasks, engineVars, vpnMoves>>

\* The activity is closed, with its dialogs, or opened again.
ActivityMoves ==
    /\ VpnMove
    /\ \/ app = "open" /\ app' = "gone" /\ dialogs' = 0
       \/ app # "open" /\ app' = "open" /\ UNCHANGED dialogs
    /\ UNCHANGED <<consent, pendingConfig, permissionDenied, killSwitch, command, intents,
                   service, tasks, engineVars>>

Delivered(what) == intents # <<>> /\ Head(intents).what = what

\* onStartCommand and establishAndRunTunnel; stopSelf when no interface is given.
StartDelivered ==
    LET config == Head(intents).config IN
    /\ Delivered("start")
    /\ service' = TRUE
    /\ \/ /\ consent
          /\ killSwitch' = (config = "blocking")
          /\ Spawn(StartTask(config))
          /\ intents' = Tail(intents) /\ UNCHANGED permissionDenied
       \/ /\ permissionDenied' = TRUE
          /\ intents' = Append(Tail(intents), StopService)
          /\ UNCHANGED <<killSwitch, tasks>>
    /\ UNCHANGED <<app, consent, pendingConfig, dialogs, command, engineVars, vpnMoves>>

\* The Disconnect button of the notification.
ClickDisconnect ==
    /\ service /\ VpnMove /\ Post(Disconnect)
    /\ UNCHANGED <<controllerVars, killSwitch, command, service, tasks, engineVars>>

\* stopVpnTunnel; the service is created for it if it is not there.
HaltDelivered ==
    /\ Delivered("halt")
    /\ service' = TRUE
    /\ Spawn(StopTask)
    /\ intents' = Append(Tail(intents), StopService)
    /\ UNCHANGED <<controllerVars, killSwitch, command, engineVars, vpnMoves>>

\* onRevoke: another VPN took over, or the user took the permission back.
Revoked ==
    /\ service /\ consent /\ consent' = FALSE /\ VpnMove
    /\ Spawn(StopTask) /\ Post(StopService)
    /\ UNCHANGED <<app, pendingConfig, dialogs, permissionDenied, killSwitch, command, service,
                   engineVars>>

\* Mutant: onDestroy leaves the engine to whoever stopped the service.
Destroyed_LeavesEngine ==
    /\ Delivered("destroy") /\ intents' = Tail(intents)
    /\ service' = FALSE
    /\ UNCHANGED <<controllerVars, killSwitch, command, tasks, engineVars, vpnMoves>>

\* onDestroy, of a service that is there.
Destroyed ==
    /\ Delivered("destroy") /\ intents' = Tail(intents)
    /\ service' = FALSE
    /\ IF service THEN Spawn(StopTask) ELSE UNCHANGED tasks
    /\ UNCHANGED <<controllerVars, killSwitch, command, engineVars, vpnMoves>>

-----------------------------------------------------------------------------
(* Native tasks, which the runtime runs in any order, and the engine.      *)

TaskRuns(i) ==
    /\ tasks' = Sequence!RemoveAt(tasks, i)
    /\ overtaken' = (overtaken \/ i > 1)

\* start_with_device; an engine that is active refuses, one in an error may.  Of
\* what goes wrong, here or later, the service is stopped.
StartRuns(i) ==
    /\ tasks[i].what = "start" /\ TaskRuns(i)
    /\ \/ engine \in {"off", "error"} /\ engine' = "starting" /\ UNCHANGED intents
       \/ StopVpn /\ UNCHANGED engine
    /\ UNCHANGED <<controllerVars, killSwitch, command, service, bridged, terminal, vpnMoves>>

StopRuns(i) ==
    /\ tasks[i].what = "destroy" /\ TaskRuns(i)
    /\ StopEngine
    /\ UNCHANGED <<controllerVars, killSwitch, command, service, vpnMoves>>

StartEnds ==
    /\ engine = "starting"
    /\ \/ engine' = "up" /\ UNCHANGED <<intents, terminal>>
       \/ engine' = "error" /\ StopVpn /\ terminal' \in {terminal, bridged}
    /\ UNCHANGED <<controllerVars, killSwitch, command, service, tasks, bridged, overtaken,
                   vpnMoves>>

\* The relay refuses the tunnel for good.
EngineFails ==
    /\ engine = "up" /\ engine' = "error" /\ terminal' = bridged /\ VpnMove
    /\ UNCHANGED <<controllerVars, killSwitch, command, intents, service, tasks, bridged,
                   overtaken>>

\* bridge_events: traffic is not kept out for ever when the user wants none kept.
Bridged ==
    /\ terminal /\ terminal' = FALSE
    /\ IF killSwitch THEN UNCHANGED intents ELSE StopVpn
    /\ UNCHANGED <<controllerVars, killSwitch, command, service, tasks, engine, bridged,
                   overtaken, vpnMoves>>

\* The process dies; the system starts a service that was running again in a new
\* one, with its last intent.
ProcessDies ==
    /\ VpnMove
    /\ app' = "none" /\ pendingConfig' = NoConfig /\ dialogs' = 0
    /\ permissionDenied' = FALSE /\ killSwitch' = TRUE
    /\ command' = [c \in VpnCalls |-> IdleCommand]
    /\ \/ /\ service /\ \E config \in Configs : intents' = <<StartIntent(config)>>
          /\ bridged' \in BOOLEAN
       \/ intents' = <<>> /\ bridged' = TRUE
    /\ service' = FALSE /\ tasks' = <<>>
    /\ engine' = "off" /\ terminal' = FALSE
    /\ UNCHANGED <<consent, overtaken>>

VpnNext ==
    \/ \E c \in VpnCalls :
         StartVpnCommand(c) \/ HotSwap(c) \/ StartVpn(c) \/ StopVpnCommand(c) \/ StopVpnReturns(c)
    \/ DialogAnswered \/ ActivityMoves
    \/ StartDelivered \/ ClickDisconnect \/ HaltDelivered \/ Revoked \/ Destroyed
    \/ \E i \in DOMAIN tasks : StartRuns(i) \/ StopRuns(i)
    \/ StartEnds \/ EngineFails \/ Bridged \/ ProcessDies

VpnTypeOK ==
    /\ app \in {"none", "open", "gone"} /\ consent \in BOOLEAN
    /\ pendingConfig \in Configs \cup {NoConfig}
    /\ dialogs \in 0..MaxVpnMoves
    /\ {permissionDenied, killSwitch, service, bridged, terminal, overtaken} \subseteq BOOLEAN
    /\ command \in [VpnCalls -> [at : {"idle", "swap", "service", "stop"},
                                 config : Configs \cup {NoConfig}]]
    /\ \A i \in DOMAIN intents : intents[i].what \in {"start", "halt", "destroy"}
    /\ \A i \in DOMAIN tasks : tasks[i].what \in {"start", "destroy"}
    /\ engine \in {"off", "starting", "up", "error"}

VpnAtRest ==
    /\ \A c \in VpnCalls : command[c] = IdleCommand
    /\ intents = <<>> /\ tasks = <<>> /\ ~terminal

\* However commands, dialogs, the notification, revocation, failures and process
\* deaths overlapped: no engine is left running without the service that shows it
\* to the user and lets them end it, unless native tasks ran out of their order.
RunningHasService == VpnAtRest /\ engine \in {"starting", "up"} => service \/ overtaken
=============================================================================
