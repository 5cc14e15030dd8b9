--------------------------- MODULE AppShellProofs ----------------------------
(***************************************************************************)
(* Proofs about Android and about the application's parts together.        *)
(* AndroidVpn, for any number of commands, messages and native tasks: the  *)
(* engine does not run without its service.  ComplementRoutes, for         *)
(* addresses of any width and any networks: what the tunnel takes is what  *)
(* they leave.  Then these and WindowProofs' parts side by side.           *)
(***************************************************************************)
EXTENDS MCAppShell, WindowProofs, WellFoundedInduction

-----------------------------------------------------------------------------
(* Android.                                                                *)

VpnSpec == VpnInit /\ [][VpnNext]_vpnVars

Kept == Configs \cup {NoConfig}
Messages == [what : {"start", "halt", "destroy"}, config : Kept]
NativeTasks == [what : {"start", "destroy"}, config : Kept]
Commands == [at : {"idle", "swap", "service", "stop"}, config : Kept]

QueuesTyped ==
    /\ pendingConfig \in Kept
    /\ command \in [VpnCalls -> Commands]
    /\ intents \in Seq(Messages)
    /\ tasks \in Seq(NativeTasks)

\* The service left last, so the last task it spawned is the one of onDestroy,
\* which stops whatever engine the tasks before it start.
StopIsLast ==
    ~overtaken /\ ~service =>
        IF tasks = <<>> THEN engine \notin {"starting", "up"}
        ELSE tasks[Len(tasks)].what = "destroy"

VpnInv == QueuesTyped /\ service \in BOOLEAN /\ overtaken \in BOOLEAN /\ StopIsLast

-----------------------------------------------------------------------------
(* Queues.                                                                 *)

LEMMA RemoveAtParts ==
    ASSUME NEW S, NEW s \in Seq(S), NEW i \in 1..Len(s)
    PROVE  /\ Sequence!RemoveAt(s, i) \in Seq(S)
           /\ Len(Sequence!RemoveAt(s, i)) = Len(s) - 1
           /\ \A j \in 1..Len(s) - 1 : Sequence!RemoveAt(s, i)[j] = s[IF j < i THEN j ELSE j + 1]
<1> DEFINE front == SubSeq(s, 1, i - 1)
           back == SubSeq(s, i + 1, Len(s))
<1>1. /\ front \in Seq(S) /\ Len(front) = i - 1
      /\ \A j \in 1..i - 1 : front[j] = s[j]
  OBVIOUS
<1>2. /\ back \in Seq(S) /\ Len(back) = Len(s) - i
      /\ \A j \in 1..Len(s) - i : back[j] = s[j + i]
  OBVIOUS
<1>3. Sequence!RemoveAt(s, i) = front \o back
  BY DEF Sequence!RemoveAt
<1> HIDE DEF front, back
<1>4. Sequence!RemoveAt(s, i) \in Seq(S) /\ Len(Sequence!RemoveAt(s, i)) = Len(s) - 1
  BY <1>1, <1>2, <1>3
<1>5. ASSUME NEW j \in 1..Len(s) - 1
      PROVE  Sequence!RemoveAt(s, i)[j] = s[IF j < i THEN j ELSE j + 1]
  <2>1. CASE j < i
    <3>1. (front \o back)[j] = front[j]
      BY <1>1, <1>2, <2>1
    <3> QED BY <1>1, <1>3, <2>1, <3>1
  <2>2. CASE ~(j < i)
    <3>1. (front \o back)[j] = back[j - (i - 1)]
      BY <1>1, <1>2, <2>2
    <3>2. back[j - (i - 1)] = s[j + 1]
      BY <1>2, <2>2
    <3> QED BY <1>3, <2>2, <3>1, <3>2
  <2> QED BY <2>1, <2>2
<1> QED BY <1>4, <1>5

LEMMA Posts ==
    ASSUME QueuesTyped, NEW m \in Messages, Post(m) \/ UNCHANGED intents
    PROVE  intents' \in Seq(Messages)
BY DEF QueuesTyped, Post

LEMMA StopPosts ==
    ASSUME QueuesTyped, StopVpn \/ UNCHANGED intents
    PROVE  intents' \in Seq(Messages)
<1>1. StopService \in Messages
  BY DEF StopService, Messages, Kept
<1> QED BY <1>1, Posts DEF StopVpn

LEMMA StartPosts ==
    ASSUME QueuesTyped, NEW config \in Kept, StartService(config) \/ UNCHANGED intents
    PROVE  intents' \in Seq(Messages)
<1>1. StartIntent(config) \in Messages
  BY DEF StartIntent, Messages
<1> QED BY <1>1, Posts DEF StartService

LEMMA Spawns ==
    ASSUME QueuesTyped, NEW t \in NativeTasks, Spawn(t)
    PROVE  /\ tasks' \in Seq(NativeTasks) /\ tasks' # <<>>
           /\ tasks'[Len(tasks')] = t
BY DEF QueuesTyped, Spawn

LEMMA StopSpawns ==
    ASSUME QueuesTyped, Spawn(StopTask)
    PROVE  /\ tasks' \in Seq(NativeTasks) /\ tasks' # <<>>
           /\ tasks'[Len(tasks')].what = "destroy"
<1>1. StopTask \in NativeTasks /\ StopTask.what = "destroy"
  BY DEF StopTask, StopService, NativeTasks, Kept
<1> QED BY <1>1, Spawns

LEMMA Delivers ==
    ASSUME QueuesTyped, NEW what, Delivered(what)
    PROVE  /\ Head(intents) \in Messages
           /\ Tail(intents) \in Seq(Messages)
           /\ Append(Tail(intents), StopService) \in Seq(Messages)
<1>1. StopService \in Messages
  BY DEF StopService, Messages, Kept
<1>2. intents \in Seq(Messages) /\ intents # <<>>
  BY DEF QueuesTyped, Delivered
<1> QED BY <1>1, <1>2

-----------------------------------------------------------------------------
(* Commands, dialogs and the process.                                      *)

CommandSteps == \E c \in VpnCalls :
    StartVpnCommand(c) \/ HotSwap(c) \/ StartVpn(c) \/ StopVpnCommand(c) \/ StopVpnReturns(c)

LEMMA VpnCommandTypes ==
    ASSUME QueuesTyped, CommandSteps
    PROVE  QueuesTyped'
<1>1. PICK c \in VpnCalls :
        StartVpnCommand(c) \/ HotSwap(c) \/ StartVpn(c) \/ StopVpnCommand(c) \/ StopVpnReturns(c)
  BY DEF CommandSteps
<1>2. IdleCommand \in Commands /\ command[c] \in Commands /\ command[c].config \in Kept
  BY DEF QueuesTyped, IdleCommand, Commands, Kept
<1>3. command' \in [VpnCalls -> Commands]
  <2>1. CASE StartVpnCommand(c)
    <3>1. PICK config \in Configs : command' = [command EXCEPT ![c] =
                [at |-> IF engine = "up" THEN "swap" ELSE "service", config |-> config]]
      BY <2>1 DEF StartVpnCommand
    <3>2. [at |-> IF engine = "up" THEN "swap" ELSE "service", config |-> config] \in Commands
      BY DEF Commands, Kept
    <3> QED BY <3>1, <3>2 DEF QueuesTyped
  <2>2. CASE StopVpnCommand(c)
    <3>1. command' = [command EXCEPT ![c].at = "stop"]
      BY <2>2 DEF StopVpnCommand, Later
    <3> QED BY <1>2, <3>1 DEF QueuesTyped, Commands
  <2>3. CASE HotSwap(c) \/ StartVpn(c) \/ StopVpnReturns(c)
    BY <1>2, <2>3 DEF HotSwap, StartVpn, StopVpnReturns, CommandEnds, QueuesTyped
  <2> QED BY <1>1, <2>1, <2>2, <2>3
<1>4. intents' \in Seq(Messages)
  <2>1. CASE StartVpnCommand(c) \/ HotSwap(c)
    BY <2>1 DEF StartVpnCommand, HotSwap, QueuesTyped
  <2>2. CASE StartVpn(c)
    BY <1>2, <2>2, StartPosts DEF StartVpn
  <2>3. CASE StopVpnCommand(c) \/ StopVpnReturns(c)
    BY <2>3, StopPosts DEF StopVpnCommand, StopVpnReturns, StopEngine
  <2> QED BY <1>1, <2>1, <2>2, <2>3
<1>5. tasks' = tasks /\ pendingConfig' \in Kept
  BY <1>1, <1>2 DEF StartVpnCommand, HotSwap, StartVpn, StopVpnCommand, StopVpnReturns,
     controllerVars, QueuesTyped
<1> QED BY <1>3, <1>4, <1>5 DEF QueuesTyped

\* The only thing a command does to the engine is to stop it.
LEMMA VpnCommandStep ==
    ASSUME VpnInv, CommandSteps
    PROVE  VpnInv'
<1>1. UNCHANGED <<service, tasks, overtaken>> /\ engine' \in {engine, "off"}
  BY DEF CommandSteps, StartVpnCommand, HotSwap, StartVpn, StopVpnCommand, StopVpnReturns,
     StopEngine, engineVars
<1> QED BY <1>1, VpnCommandTypes DEF VpnInv, StopIsLast

LEMMA WindowStep ==
    ASSUME VpnInv, DialogAnswered \/ ActivityMoves \/ ClickDisconnect \/ Bridged \/ ProcessDies
    PROVE  VpnInv'
<1>1. CASE DialogAnswered
  <2>1. pendingConfig \in Kept /\ pendingConfig' \in Kept
    BY <1>1 DEF DialogAnswered, VpnInv, QueuesTyped, Kept
  <2>2. intents' \in Seq(Messages)
    BY <1>1, <2>1, StartPosts DEF DialogAnswered, VpnInv
  <2> QED BY <1>1, <2>1, <2>2 DEF DialogAnswered, VpnInv, QueuesTyped, StopIsLast, engineVars
<1>2. CASE ActivityMoves
  BY <1>2 DEF ActivityMoves, VpnInv, QueuesTyped, StopIsLast, engineVars
<1>3. CASE ClickDisconnect
  <2>1. Disconnect \in Messages
    BY DEF Disconnect, Messages, Kept
  <2>2. intents' \in Seq(Messages)
    BY <1>3, <2>1, Posts DEF ClickDisconnect, VpnInv
  <2> QED BY <1>3, <2>2
         DEF ClickDisconnect, VpnInv, QueuesTyped, StopIsLast, engineVars, controllerVars
<1>4. CASE Bridged
  <2>1. intents' \in Seq(Messages)
    BY <1>4, StopPosts DEF Bridged, VpnInv
  <2> QED BY <1>4, <2>1 DEF Bridged, VpnInv, QueuesTyped, StopIsLast, controllerVars
<1>5. CASE ProcessDies
  <2>1. /\ service' = FALSE /\ overtaken' = overtaken /\ tasks' = <<>> /\ engine' = "off"
        /\ pendingConfig' = NoConfig /\ command' = [c \in VpnCalls |-> IdleCommand]
    BY <1>5 DEF ProcessDies
  <2>2. IdleCommand \in Commands /\ NoConfig \in Kept
    BY DEF IdleCommand, Commands, Kept
  <2>3. \A config \in Configs : StartIntent(config) \in Messages
    BY DEF StartIntent, Messages, Kept
  <2>4. <<>> \in Seq(Messages) /\ <<>> \in Seq(NativeTasks)
    OBVIOUS
  <2>5. intents' \in Seq(Messages)
    <3>1. ASSUME NEW m \in Messages PROVE <<m>> \in Seq(Messages)
      OBVIOUS
    <3>2. intents' = <<>> \/ \E config \in Configs : intents' = <<StartIntent(config)>>
      BY <1>5 DEF ProcessDies
    <3> QED BY <2>3, <2>4, <3>1, <3>2
  <2>6. QueuesTyped'
    BY <2>1, <2>2, <2>4, <2>5 DEF QueuesTyped
  <2>7. StopIsLast'
    BY <2>1 DEF StopIsLast
  <2>8. service' \in BOOLEAN /\ overtaken' \in BOOLEAN
    BY <2>1 DEF VpnInv
  <2> QED BY <2>6, <2>7, <2>8 DEF VpnInv
<1> QED BY <1>1, <1>2, <1>3, <1>4, <1>5

-----------------------------------------------------------------------------
\* The service ends with a task that stops the engine.
LEMMA ServiceStep ==
    ASSUME VpnInv, StartDelivered \/ HaltDelivered \/ Revoked \/ Destroyed
    PROVE  VpnInv'
<1> USE DEF VpnInv
<1>1. CASE StartDelivered
  <2>1. /\ Head(intents).config \in Kept /\ Tail(intents) \in Seq(Messages)
        /\ Append(Tail(intents), StopService) \in Seq(Messages)
    BY <1>1, Delivers DEF StartDelivered, Messages
  <2>2. StartTask(Head(intents).config) \in NativeTasks
    BY <2>1 DEF StartTask, StartIntent, NativeTasks
  <2>3. intents' \in Seq(Messages) /\ tasks' \in Seq(NativeTasks)
    BY <1>1, <2>1, <2>2, Spawns DEF StartDelivered, QueuesTyped
  <2> QED BY <1>1, <2>3 DEF StartDelivered, QueuesTyped, StopIsLast, engineVars
<1>2. CASE HaltDelivered
  <2>1. intents' \in Seq(Messages)
    BY <1>2, Delivers DEF HaltDelivered
  <2>2. tasks' \in Seq(NativeTasks)
    BY <1>2, StopSpawns DEF HaltDelivered
  <2> QED BY <1>2, <2>1, <2>2 DEF HaltDelivered, QueuesTyped, StopIsLast, engineVars, controllerVars
<1>3. CASE Revoked
  <2>1. intents' \in Seq(Messages)
    BY <1>3, StopPosts, Posts DEF Revoked, StopService, Messages, Kept
  <2>2. tasks' \in Seq(NativeTasks)
    BY <1>3, StopSpawns DEF Revoked
  <2> QED BY <1>3, <2>1, <2>2 DEF Revoked, QueuesTyped, StopIsLast, engineVars
<1>4. CASE Destroyed
  <2>1. intents' \in Seq(Messages)
    BY <1>4, Delivers DEF Destroyed
  <2>2. UNCHANGED <<pendingConfig, command, engine, overtaken>> /\ service' = FALSE
    BY <1>4 DEF Destroyed, controllerVars, engineVars
  <2>3. CASE service
    <3>1. tasks' \in Seq(NativeTasks) /\ tasks' # <<>> /\ tasks'[Len(tasks')].what = "destroy"
      BY <1>4, <2>3, StopSpawns DEF Destroyed
    <3> QED BY <2>1, <2>2, <3>1 DEF QueuesTyped, StopIsLast
  <2>4. CASE ~service
    BY <1>4, <2>1, <2>2, <2>4 DEF Destroyed, QueuesTyped, StopIsLast
  <2> QED BY <2>3, <2>4
<1> QED BY <1>1, <1>2, <1>3, <1>4

(* A task that runs in its turn leaves the last one where it is.           *)
LEMMA TaskLeaves ==
    ASSUME VpnInv, NEW i \in DOMAIN tasks, TaskRuns(i)
    PROVE  /\ tasks' \in Seq(NativeTasks)
           /\ ~overtaken' => i = 1 /\ ~overtaken
           /\ i = 1 /\ tasks' = <<>> => tasks[Len(tasks)] = tasks[1]
           /\ i = 1 /\ tasks' # <<>> => tasks'[Len(tasks')] = tasks[Len(tasks)]
<1>1. tasks \in Seq(NativeTasks) /\ i \in 1..Len(tasks)
  BY DEF VpnInv, QueuesTyped
<1>2. tasks' = Sequence!RemoveAt(tasks, i)
  BY DEF TaskRuns
<1>3. /\ tasks' \in Seq(NativeTasks) /\ Len(tasks') = Len(tasks) - 1
      /\ \A j \in 1..Len(tasks) - 1 : tasks'[j] = tasks[IF j < i THEN j ELSE j + 1]
  BY <1>1, <1>2, RemoveAtParts
<1>4. ~overtaken' => i = 1 /\ ~overtaken
  <2>1. ~overtaken' => ~overtaken /\ ~(i > 1)
    BY Zenon DEF TaskRuns
  <2> QED BY <1>1, <2>1
<1>5. tasks' = <<>> => Len(tasks) = 1
  BY <1>1, <1>3
<1>6. i = 1 /\ tasks' # <<>> => tasks'[Len(tasks')] = tasks[Len(tasks)]
  BY <1>1, <1>3
<1> QED BY <1>3, <1>4, <1>5, <1>6

LEMMA NativeTaskStep ==
    ASSUME VpnInv, NEW i \in DOMAIN tasks, StartRuns(i) \/ StopRuns(i)
    PROVE  VpnInv'
<1>1. TaskRuns(i) /\ UNCHANGED <<pendingConfig, command, service>>
  BY DEF StartRuns, StopRuns, controllerVars
<1>2. overtaken' \in BOOLEAN
  BY <1>1, Zenon DEF TaskRuns
<1>3. intents' \in Seq(Messages)
  BY StopPosts DEF StartRuns, StopRuns, StopEngine, VpnInv
<1>4. QueuesTyped'
  BY <1>1, <1>3, TaskLeaves DEF VpnInv, QueuesTyped
<1>5. StopIsLast'
  <2> SUFFICES ASSUME ~overtaken', ~service'
               PROVE  IF tasks' = <<>> THEN engine' \notin {"starting", "up"}
                      ELSE tasks'[Len(tasks')].what = "destroy"
    BY DEF StopIsLast
  <2>1. i = 1 /\ tasks # <<>> /\ tasks[Len(tasks)].what = "destroy"
    BY <1>1, TaskLeaves DEF VpnInv, StopIsLast, QueuesTyped
  <2>2. CASE tasks' # <<>>
    BY <1>1, <2>1, <2>2, TaskLeaves
  <2>3. CASE tasks' = <<>>
    <3>1. tasks[1].what = "destroy"
      BY <1>1, <2>1, <2>3, TaskLeaves
    <3>2. engine' = "off"
      BY <2>1, <3>1 DEF StartRuns, StopRuns, StopEngine
    <3> QED BY <2>3, <3>2
  <2> QED BY <2>2, <2>3
<1> QED BY <1>1, <1>2, <1>4, <1>5 DEF VpnInv

LEMMA EngineStep ==
    ASSUME VpnInv, StartEnds \/ EngineFails
    PROVE  VpnInv'
<1>1. UNCHANGED <<pendingConfig, command, service, tasks, overtaken>>
  BY DEF StartEnds, EngineFails, controllerVars
<1>2. intents' \in Seq(Messages)
  BY StopPosts DEF StartEnds, EngineFails, VpnInv
<1>3. engine \in {"starting", "up"}
  BY DEF StartEnds, EngineFails
<1> QED BY <1>1, <1>2, <1>3 DEF VpnInv, QueuesTyped, StopIsLast

LEMMA VpnInvariant == VpnSpec => []VpnInv
<1>1. ASSUME VpnInit PROVE VpnInv
  <2>1. service \in BOOLEAN /\ overtaken \in BOOLEAN
    BY <1>1, Zenon DEF VpnInit
  <2>2. QueuesTyped
    BY <1>1 DEF VpnInit, QueuesTyped, IdleCommand, Commands, Kept
  <2>3. StopIsLast
    BY <1>1 DEF VpnInit, StopIsLast
  <2> QED BY <2>1, <2>2, <2>3 DEF VpnInv
<1>2. VpnInv /\ [VpnNext]_vpnVars => VpnInv'
  <2> SUFFICES ASSUME VpnInv, [VpnNext]_vpnVars PROVE VpnInv'
    OBVIOUS
  <2>1. CASE UNCHANGED vpnVars
    BY <2>1 DEF vpnVars, VpnInv, QueuesTyped, StopIsLast
  <2> QED BY <2>1, VpnCommandStep, WindowStep, ServiceStep, NativeTaskStep, EngineStep
          DEF VpnNext, CommandSteps
<1> QED BY <1>1, <1>2, PTL DEF VpnSpec

-----------------------------------------------------------------------------
\* However commands, dialogs, the notification's button, revocation, failures and
\* deaths of the process overlap (VpnController.kt, ProxyBaseVpnService.kt): unless
\* native tasks ran out of their order, no engine runs at rest without its service.
THEOREM EngineHasService == VpnSpec => []RunningHasService
<1>1. VpnInv => RunningHasService
  BY DEF VpnInv, StopIsLast, RunningHasService, VpnAtRest
<1> QED BY <1>1, VpnInvariant, PTL
-----------------------------------------------------------------------------
(* Types.  A dialog is opened by a command, and a command is a move: the   *)
(* commands that may still open one and the dialogs open are no more than  *)
(* the moves made.                                                         *)

Asking == {c \in VpnCalls : command[c].at \in {"swap", "service"}}

DialogsCounted ==
    /\ IsFiniteSet(Asking)
    /\ dialogs \in Nat /\ vpnMoves \in 0..MaxVpnMoves
    /\ Cardinality(Asking) + dialogs <= vpnMoves

LEMMA CommandsCounted ==
    ASSUME QueuesTyped, DialogsCounted, CommandSteps
    PROVE  DialogsCounted'
<1> USE DEF DialogsCounted
<1>1. PICK c \in VpnCalls :
        StartVpnCommand(c) \/ HotSwap(c) \/ StartVpn(c) \/ StopVpnCommand(c) \/ StopVpnReturns(c)
  BY DEF CommandSteps
<1>2. Cardinality(Asking) \in Nat /\ MaxVpnMoves \in Nat
  BY FS_CardinalityType, VpnAssumption
<1>3. CASE StartVpnCommand(c)
  <2>1. c \notin Asking /\ Asking' = Asking \cup {c}
    BY <1>3 DEF StartVpnCommand, IdleCommand, Asking, QueuesTyped
  <2>2. IsFiniteSet(Asking') /\ Cardinality(Asking') = Cardinality(Asking) + 1
    BY <2>1, FS_AddElement
  <2>3. dialogs' = dialogs /\ vpnMoves' = vpnMoves + 1 /\ vpnMoves < MaxVpnMoves
    BY <1>3 DEF StartVpnCommand, VpnMove
  <2> QED BY <1>2, <2>2, <2>3
<1>4. CASE HotSwap(c) \/ StartVpn(c)
  <2>1. c \in Asking /\ Asking' = Asking \ {c}
    BY <1>4 DEF HotSwap, StartVpn, CommandEnds, IdleCommand, Asking, QueuesTyped
  <2>2. IsFiniteSet(Asking') /\ Cardinality(Asking') = Cardinality(Asking) - 1
    BY <2>1, FS_RemoveElement
  <2>3. dialogs' \in {dialogs, dialogs + 1} /\ vpnMoves' = vpnMoves
    BY <1>4 DEF HotSwap, StartVpn, controllerVars
  <2> QED BY <1>2, <2>2, <2>3
<1>5. CASE StopVpnCommand(c) \/ StopVpnReturns(c)
  <2>1. Asking' = Asking
    BY <1>5 DEF StopVpnCommand, StopVpnReturns, Later, CommandEnds, IdleCommand, Asking,
       QueuesTyped, Commands
  <2>2. dialogs' = dialogs
    BY <1>5 DEF StopVpnCommand, StopVpnReturns, controllerVars
  <2>3. vpnMoves' = vpnMoves \/ (vpnMoves' = vpnMoves + 1 /\ vpnMoves < MaxVpnMoves)
    BY <1>5 DEF StopVpnCommand, StopVpnReturns, VpnMove
  <2> QED BY <1>2, <2>1, <2>2, <2>3
<1> QED BY <1>1, <1>3, <1>4, <1>5

LEMMA OthersCounted ==
    ASSUME DialogsCounted, VpnNext, ~CommandSteps
    PROVE  DialogsCounted'
<1> USE DEF DialogsCounted
<1>1. Cardinality(Asking) \in Nat /\ MaxVpnMoves \in Nat
  BY FS_CardinalityType, VpnAssumption
<1>2. CASE ProcessDies
  <2>1. Asking' = {}
    BY <1>2 DEF ProcessDies, Asking, IdleCommand
  <2>2. IsFiniteSet(Asking') /\ Cardinality(Asking') = 0
    BY <2>1, FS_EmptySet
  <2>3. dialogs' = 0 /\ vpnMoves' = vpnMoves + 1 /\ vpnMoves < MaxVpnMoves
    BY <1>2 DEF ProcessDies, VpnMove
  <2> QED BY <1>1, <2>2, <2>3
<1>3. CASE DialogAnswered \/ ActivityMoves
  <2>1. dialogs' \in Nat /\ dialogs' <= dialogs /\ command' = command
    BY <1>3 DEF DialogAnswered, ActivityMoves
  <2>2. vpnMoves' = vpnMoves \/ (vpnMoves' = vpnMoves + 1 /\ vpnMoves < MaxVpnMoves)
    BY <1>3 DEF DialogAnswered, ActivityMoves, VpnMove
  <2> QED BY <1>1, <2>1, <2>2 DEF Asking
<1>4. CASE StartDelivered \/ ClickDisconnect \/ HaltDelivered \/ Revoked \/ Destroyed
  <2>1. UNCHANGED <<dialogs, command>>
    BY <1>4 DEF StartDelivered, ClickDisconnect, HaltDelivered, Revoked, Destroyed,
       controllerVars
  <2>2. vpnMoves' = vpnMoves \/ (vpnMoves' = vpnMoves + 1 /\ vpnMoves < MaxVpnMoves)
    BY <1>4 DEF StartDelivered, ClickDisconnect, HaltDelivered, Revoked, Destroyed, VpnMove
  <2> QED BY <1>1, <2>1, <2>2 DEF Asking
<1>5. CASE (\E i \in DOMAIN tasks : StartRuns(i) \/ StopRuns(i))
           \/ StartEnds \/ EngineFails \/ Bridged
  <2>1. UNCHANGED <<dialogs, command>>
    BY <1>5 DEF StartRuns, StopRuns, StartEnds, EngineFails, Bridged, controllerVars
  <2>2. vpnMoves' = vpnMoves \/ (vpnMoves' = vpnMoves + 1 /\ vpnMoves < MaxVpnMoves)
    BY <1>5 DEF StartRuns, StopRuns, StartEnds, EngineFails, Bridged, VpnMove
  <2> QED BY <1>1, <2>1, <2>2 DEF Asking
<1> QED BY <1>2, <1>3, <1>4, <1>5 DEF VpnNext, CommandSteps

VpnFlags == {consent, permissionDenied, killSwitch, service, bridged, terminal, overtaken}
Engines == {"off", "starting", "up", "error"}

LEMMA VpnFlagsTyped ==
    ASSUME VpnFlags \subseteq BOOLEAN, VpnNext
    PROVE  VpnFlags' \subseteq BOOLEAN
<1> USE DEF VpnFlags, controllerVars, engineVars
<1>1. ASSUME NEW c \in VpnCalls,
             StartVpnCommand(c) \/ HotSwap(c) \/ StartVpn(c) \/ StopVpnCommand(c)
             \/ StopVpnReturns(c)
      PROVE  VpnFlags' \subseteq BOOLEAN
  BY <1>1, Zenon DEF StartVpnCommand, HotSwap, StartVpn, StopVpnCommand, StopVpnReturns,
     StopEngine
<1>2. CASE DialogAnswered
  BY <1>2, Zenon DEF DialogAnswered
<1>3. CASE ActivityMoves \/ ClickDisconnect \/ HaltDelivered
  BY <1>3, Zenon DEF ActivityMoves, ClickDisconnect, HaltDelivered
<1>4. CASE StartDelivered \/ Revoked \/ Destroyed
  BY <1>4, Zenon DEF StartDelivered, Revoked, Destroyed
<1>5. ASSUME NEW i \in DOMAIN tasks, StartRuns(i) \/ StopRuns(i)
      PROVE  VpnFlags' \subseteq BOOLEAN
  BY <1>5, Zenon DEF StartRuns, StopRuns, TaskRuns, StopEngine
<1>6. CASE StartEnds \/ EngineFails \/ Bridged
  BY <1>6, Zenon DEF StartEnds, EngineFails, Bridged
<1>7. CASE ProcessDies
  BY <1>7, Zenon DEF ProcessDies
<1> QED BY <1>1, <1>2, <1>3, <1>4, <1>5, <1>6, <1>7, Zenon DEF VpnNext

LEMMA PlacesTyped ==
    ASSUME app \in {"none", "open", "gone"}, engine \in Engines, VpnNext
    PROVE  app' \in {"none", "open", "gone"} /\ engine' \in Engines
BY DEF Engines, VpnNext, StartVpnCommand, HotSwap, StartVpn, StopVpnCommand, StopVpnReturns,
   StopEngine, DialogAnswered, ActivityMoves, StartDelivered, ClickDisconnect, HaltDelivered,
   Revoked, Destroyed, StartRuns, StopRuns, StartEnds, EngineFails, Bridged, ProcessDies,
   controllerVars, engineVars

LEMMA VpnTypes == VpnSpec => []VpnTypeOK
<1> DEFINE Types == /\ VpnFlags \subseteq BOOLEAN /\ DialogsCounted
                    /\ app \in {"none", "open", "gone"} /\ engine \in Engines
<1>1. VpnInit => Types
  <2>1. VpnInit => VpnFlags \subseteq BOOLEAN
    BY Zenon DEF VpnInit, VpnFlags
  <2>2. VpnInit => Asking = {}
    BY DEF VpnInit, Asking, IdleCommand
  <2>3. VpnInit => DialogsCounted
    BY <2>2, FS_EmptySet, VpnAssumption DEF VpnInit, DialogsCounted
  <2> QED BY <2>1, <2>3 DEF VpnInit, Engines
<1>2. VpnInv /\ Types /\ [VpnNext]_vpnVars => Types'
  <2>1. CASE VpnNext
    BY <2>1, VpnFlagsTyped, PlacesTyped, CommandsCounted, OthersCounted DEF VpnInv
  <2>2. CASE UNCHANGED vpnVars
    BY <2>2 DEF vpnVars, VpnFlags, DialogsCounted, Asking
  <2> QED BY <2>1, <2>2
<1>3. VpnInv /\ Types => VpnTypeOK
  <2> SUFFICES ASSUME VpnInv, Types PROVE VpnTypeOK
    OBVIOUS
  <2>1. dialogs \in 0..MaxVpnMoves
    <3>1. Cardinality(Asking) \in Nat
      BY FS_CardinalityType DEF DialogsCounted
    <3> QED BY <3>1, VpnAssumption DEF DialogsCounted
  <2>2. /\ \A i \in DOMAIN intents : intents[i].what \in {"start", "halt", "destroy"}
        /\ \A i \in DOMAIN tasks : tasks[i].what \in {"start", "destroy"}
    <3>1. /\ \A i \in DOMAIN intents : intents[i] \in Messages
          /\ \A i \in DOMAIN tasks : tasks[i] \in NativeTasks
      BY DEF VpnInv, QueuesTyped
    <3> QED BY <3>1 DEF Messages, NativeTasks
  <2> QED BY <2>1, <2>2 DEF VpnInv, QueuesTyped, Commands, Kept, VpnFlags, Engines, VpnTypeOK
<1> HIDE DEF Types
<1> QED BY <1>1, <1>2, <1>3, VpnInvariant, PTL DEF VpnSpec

-----------------------------------------------------------------------------
(* Routes, for addresses of any width: first induction, from the library's *)
(* theorem that the naturals are well-founded.                             *)

NatLess == {p \in Nat \X Nat : p[1] < p[2]}

LEMMA LeastNatural ==
    ASSUME NEW S \in SUBSET Nat, S # {}
    PROVE  \E x \in S : \A y \in S : x <= y
<1>1. IsWellFoundedOn(NatLess, Nat)
  BY NatLessThanWellFounded, Zenon DEF OpToRel, NatLess
<1>2. PICK x \in S : \A y \in S : ~(<<y, x>> \in NatLess)
  BY <1>1, WFMin
<1>3. \A y, z \in Nat : y < z => <<y, z>> \in NatLess
  BY DEF NatLess
<1>4. \A y \in S : ~(y < x)
  BY <1>2, <1>3, Zenon
<1> QED BY <1>2, <1>4

LEMMA FromZeroOn ==
    ASSUME NEW S, 0 \in S, \A n \in Nat : n \in S => n + 1 \in S
    PROVE  Nat \subseteq S
<1> SUFFICES ASSUME Nat \ S # {} PROVE FALSE
  OBVIOUS
<1>1. PICK x \in Nat \ S : \A y \in Nat \ S : x <= y
  BY LeastNatural
<1>2. x # 0 /\ x - 1 \in Nat /\ (x - 1) + 1 = x
  BY <1>1
<1>3. x - 1 \in S
  BY <1>1, <1>2
<1> QED BY <1>1, <1>2, <1>3

LEMMA LargestNatural ==
    ASSUME NEW n \in Nat, NEW S \in SUBSET (0..n), S # {}
    PROVE  \E x \in S : \A y \in S : y <= x
<1> DEFINE R == {r \in Nat : \E x \in S : r = n - x}
<1>1. R \in SUBSET Nat /\ R # {}
  <2>1. PICK x \in S : TRUE
    OBVIOUS
  <2>2. n - x \in R
    BY <2>1
  <2> QED BY <2>2
<1>2. PICK r \in R : \A q \in R : r <= q
  <2> HIDE DEF R
  <2> QED BY <1>1, LeastNatural
<1>3. PICK x \in S : r = n - x
  BY <1>2
<1>4. \A y \in S : n - y \in R
  OBVIOUS
<1> QED BY <1>2, <1>3, <1>4

-----------------------------------------------------------------------------
(* Routes: powers of two, by counting subsets.                             *)

TwoTo(n) == 2 ^ n

LEMMA TwoToZero == TwoTo(0) = 1
BY DEF TwoTo

LEMMA TwoToCounts ==
    ASSUME NEW n \in Nat
    PROVE  IsFiniteSet(SUBSET (1..n)) /\ Cardinality(SUBSET (1..n)) = TwoTo(n) /\ TwoTo(n) \in Nat
<1>1. IsFiniteSet(1..n) /\ Cardinality(1..n) = n
  BY FS_Interval
<1>2. IsFiniteSet(SUBSET (1..n)) /\ Cardinality(SUBSET (1..n)) = 2 ^ Cardinality(1..n)
  BY <1>1, FS_SUBSET
<1>3. Cardinality(SUBSET (1..n)) \in Nat
  BY <1>2, FS_CardinalityType
<1> QED BY <1>1, <1>2, <1>3 DEF TwoTo

\* The subsets of 1..n + 1 are those of 1..n, without n + 1 and with it.
LEMMA TwoToDoubles ==
    ASSUME NEW n \in Nat
    PROVE  TwoTo(n + 1) = 2 * TwoTo(n)
<1> DEFINE Without == SUBSET (1..n)
           With == {X \in SUBSET (1..n + 1) : n + 1 \in X}
           f == [X \in Without |-> X \cup {n + 1}]
<1>1. f \in [Without -> With]
  OBVIOUS
<1>2. \A X, Y \in Without : f[X] = f[Y] => X = Y
  OBVIOUS
<1>3. \A Z \in With : \E X \in Without : f[X] = Z
  <2> SUFFICES ASSUME NEW Z \in With PROVE \E X \in Without : f[X] = Z
    OBVIOUS
  <2>1. Z \ {n + 1} \in Without /\ (Z \ {n + 1}) \cup {n + 1} = Z
    OBVIOUS
  <2> QED BY <2>1
<1>4. ExistsBijection(Without, With)
  <2> HIDE DEF With, Without, f
  <2>1. f \in Bijection(Without, With)
    BY <1>1, <1>2, <1>3 DEF Bijection, Injection, Surjection, IsInjective
  <2> QED BY <2>1 DEF ExistsBijection
<1>5. Without \cup With = SUBSET (1..n + 1) /\ Without \cap With = {}
  OBVIOUS
<1> HIDE DEF With, Without, f
<1>6. IsFiniteSet(Without) /\ Cardinality(Without) = TwoTo(n) /\ TwoTo(n) \in Nat
  BY TwoToCounts DEF Without
<1>7. IsFiniteSet(With) /\ Cardinality(With) = TwoTo(n)
  BY <1>4, <1>6, FS_Bijection
<1>8. Cardinality(Without \cup With)
        = Cardinality(Without) + Cardinality(With) - Cardinality(Without \cap With)
  BY <1>6, <1>7, FS_Union
<1>9. Cardinality(Without \cap With) = 0
  BY <1>5, FS_EmptySet
<1>10. n + 1 \in Nat
  OBVIOUS
<1>11. TwoTo(n + 1) = Cardinality(Without \cup With)
  BY <1>5, <1>10, TwoToCounts
<1> QED BY <1>6, <1>7, <1>8, <1>9, <1>11

LEMMA TwoToPositive ==
    ASSUME NEW n \in Nat
    PROVE  TwoTo(n) \in Nat \ {0}
<1> DEFINE S == {m \in Nat : TwoTo(m) \in Nat \ {0}}
<1>1. 0 \in S
  BY TwoToZero
<1>2. ASSUME NEW m \in Nat, m \in S PROVE m + 1 \in S
  BY <1>2, TwoToDoubles
<1> HIDE DEF S
<1>3. Nat \subseteq S
  BY <1>1, <1>2, FromZeroOn
<1> QED BY <1>3 DEF S

LEMMA TwoToAdds ==
    ASSUME NEW i \in Nat, NEW j \in Nat
    PROVE  TwoTo(i + j) = TwoTo(i) * TwoTo(j)
<1> DEFINE S == {m \in Nat : TwoTo(i + m) = TwoTo(i) * TwoTo(m)}
<1>1. 0 \in S
  BY TwoToZero, TwoToPositive
<1>2. ASSUME NEW m \in Nat, m \in S PROVE m + 1 \in S
  <2>1. TwoTo((i + m) + 1) = 2 * TwoTo(i + m) /\ TwoTo(m + 1) = 2 * TwoTo(m)
    BY TwoToDoubles
  <2>2. (i + m) + 1 = i + (m + 1)
    OBVIOUS
  <2>3. TwoTo(i + m) = TwoTo(i) * TwoTo(m)
    BY <1>2
  <2>4. TwoTo(i) \in Nat /\ TwoTo(m) \in Nat
    BY TwoToPositive
  <2>5. 2 * (TwoTo(i) * TwoTo(m)) = TwoTo(i) * (2 * TwoTo(m))
    BY <2>4
  <2> QED BY <2>1, <2>2, <2>3, <2>5
<1> HIDE DEF S
<1>3. Nat \subseteq S
  BY <1>1, <1>2, FromZeroOn
<1> QED BY <1>3 DEF S

-----------------------------------------------------------------------------
(* Routes: multiples of a block's size.                                    *)

Aligned(x, m) == \E q \in Nat : x = m * q

LEMMA TimesLess ==
    ASSUME NEW m \in Nat \ {0}, NEW p \in Nat, NEW q \in Nat, p < q
    PROVE  m * p + m <= m * q
<1>1. PICK d \in Nat : q = p + 1 + d
  <2>1. q - p - 1 \in Nat /\ q = p + 1 + (q - p - 1)
    OBVIOUS
  <2> QED BY <2>1
<1>2. m * q = m * p + m + m * d /\ m * d \in Nat
  BY <1>1
<1> QED BY <1>2

LEMMA AlignedLess ==
    ASSUME NEW m \in Nat \ {0}, NEW x \in Nat, NEW y \in Nat, Aligned(x, m), Aligned(y, m)
    PROVE  x < y => x + m <= y
<1>1. PICK p \in Nat, q \in Nat : x = m * p /\ y = m * q
  BY DEF Aligned
<1>2. CASE p < q
  BY <1>1, <1>2, TimesLess
<1>3. CASE q < p
  <2>1. m * q + m <= m * p
    BY <1>3, TimesLess
  <2>2. m * q \in Nat /\ m * p \in Nat
    OBVIOUS
  <2> QED BY <1>1, <2>1, <2>2
<1> QED BY <1>1, <1>2, <1>3

LEMMA Rounding ==
    ASSUME NEW m \in Nat \ {0}, NEW x \in Nat
    PROVE  /\ x % m \in 0..(m - 1) /\ x - (x % m) \in 0..x
           /\ Aligned(x - (x % m), m)
           /\ x % m = 0 <=> Aligned(x, m)
<1>1. PICK q \in Nat : x = m * q + (x % m) /\ x % m \in 0..(m - 1)
  <2>1. x = m * (x \div m) + (x % m) /\ x % m \in 0..(m - 1) /\ x \div m \in Nat
    OBVIOUS
  <2> QED BY <2>1
<1>2. m * q \in Nat
  OBVIOUS
<1>3. x - (x % m) = m * q
  BY <1>1, <1>2
<1>4. Aligned(m * q, m)
  BY DEF Aligned
<1>5. x % m = 0 => Aligned(x, m)
  BY <1>3, <1>4
<1>6. Aligned(x, m) => x % m = 0
  <2> SUFFICES ASSUME Aligned(x, m), x % m # 0 PROVE FALSE
    OBVIOUS
  <2>1. m * q + m <= x
    BY <1>1, <1>2, <1>4, AlignedLess
  <2> QED BY <1>1, <1>2, <2>1
<1> QED BY <1>1, <1>2, <1>3, <1>4, <1>5, <1>6

LEMMA AlignedCoarser ==
    ASSUME NEW i \in Nat, NEW j \in Nat, i <= j, NEW x \in Nat, Aligned(x, TwoTo(j))
    PROVE  Aligned(x, TwoTo(i)) /\ TwoTo(i) <= TwoTo(j) /\ (i < j => 2 * TwoTo(i) <= TwoTo(j))
<1> DEFINE d == j - i
<1>1. d \in Nat /\ j = i + d
  OBVIOUS
<1>2. TwoTo(j) = TwoTo(i) * TwoTo(d) /\ TwoTo(d) \in Nat \ {0} /\ TwoTo(i) \in Nat \ {0}
  BY <1>1, TwoToAdds, TwoToPositive
<1> HIDE DEF d
<1>3. PICK q \in Nat : x = TwoTo(j) * q
  BY DEF Aligned
<1>4. x = TwoTo(i) * (TwoTo(d) * q) /\ TwoTo(d) * q \in Nat
  BY <1>2, <1>3
<1>5. TwoTo(i) * 1 <= TwoTo(i) * TwoTo(d)
  <2>1. CASE TwoTo(d) = 1
    BY <1>2, <2>1
  <2>2. CASE TwoTo(d) # 1
    <3>1. TwoTo(i) * 1 + TwoTo(i) <= TwoTo(i) * TwoTo(d)
      BY <1>2, <2>2, TimesLess
    <3> QED BY <1>2, <3>1
  <2> QED BY <2>1, <2>2
<1>6. ASSUME i < j PROVE 2 * TwoTo(i) <= TwoTo(j)
  <2>1. d - 1 \in Nat /\ d = (d - 1) + 1
    BY <1>1, <1>6
  <2>2. TwoTo(d) = 2 * TwoTo(d - 1) /\ TwoTo(d - 1) \in Nat \ {0}
    BY <2>1, TwoToDoubles, TwoToPositive
  <2>3. TwoTo(i) * 1 + TwoTo(i) <= TwoTo(i) * TwoTo(d)
    BY <1>2, <2>2, TimesLess
  <2> QED BY <1>2, <2>3
<1> QED BY <1>2, <1>4, <1>5, <1>6 DEF Aligned

-----------------------------------------------------------------------------
(* Routes: blocks and the networks they are.                               *)

LastAddress(b) == b.start + Size(b.prefix) - 1

LEMMA SizeTyped ==
    /\ \A p \in 0..Bits : Size(p) = TwoTo(Bits - p) /\ Bits - p \in Nat /\ Size(p) \in Nat \ {0}
    /\ \A e \in 0..Bits : 2 ^ e = TwoTo(e) /\ TwoTo(e) \in Nat \ {0} /\ Size(Bits - e) = TwoTo(e)
                          /\ Bits - e \in 0..Bits
    /\ Total = TwoTo(Bits) /\ Total \in Nat \ {0} /\ Size(0) = Total
    /\ Bits \in Nat \ {0}
<1>1. Bits \in Nat \ {0}
  BY BitsAssumption
<1>2. ASSUME NEW p \in 0..Bits
      PROVE  Size(p) = TwoTo(Bits - p) /\ Bits - p \in Nat /\ Size(p) \in Nat \ {0}
  <2>1. Bits - p \in Nat
    BY <1>1
  <2>2. Size(p) = TwoTo(Bits - p)
    BY DEF Size, TwoTo
  <2> QED BY <2>1, <2>2, TwoToPositive
<1>3. ASSUME NEW e \in 0..Bits
      PROVE  /\ 2 ^ e = TwoTo(e) /\ TwoTo(e) \in Nat \ {0} /\ Size(Bits - e) = TwoTo(e)
             /\ Bits - e \in 0..Bits
  <2>1. Bits - e \in 0..Bits /\ Bits - (Bits - e) = e
    BY <1>1
  <2>2. Size(Bits - e) = TwoTo(e)
    BY <1>2, <2>1
  <2> QED BY <2>1, <2>2, TwoToPositive DEF TwoTo
<1>4. Total = TwoTo(Bits) /\ Bits - 0 = Bits
  BY <1>1 DEF Total, TwoTo
<1>5. 0 \in 0..Bits /\ Size(0) = TwoTo(Bits)
  BY <1>1, <1>2, <1>4
<1> QED BY <1>1, <1>2, <1>3, <1>4, <1>5, TwoToPositive

\* A network is a block of the address space aligned to its size.
LEMMA NetworkIff ==
    ASSUME NEW b
    PROVE  b \in Networks <=> \E first \in Nat, prefix \in 0..Bits :
                                 /\ b = Block(first, prefix)
                                 /\ Aligned(first, Size(prefix))
                                 /\ first + Size(prefix) <= Total
<1>1. ASSUME NEW p \in 0..Bits
      PROVE  /\ TwoTo(p) \in Nat \ {0} /\ Size(p) \in Nat \ {0} /\ 2 ^ p = TwoTo(p)
             /\ Total = Size(p) * TwoTo(p)
  <2>1. Total = TwoTo((Bits - p) + p) /\ Bits - p \in Nat
    BY SizeTyped
  <2>2. TwoTo((Bits - p) + p) = TwoTo(Bits - p) * TwoTo(p)
    BY <2>1, TwoToAdds
  <2> QED BY <2>1, <2>2, SizeTyped
<1>2. ASSUME b \in Networks
      PROVE  \E first \in Nat, prefix \in 0..Bits :
                                 /\ b = Block(first, prefix)
                                 /\ Aligned(first, Size(prefix))
                                 /\ first + Size(prefix) <= Total
  <2>0. PICK p \in 0..Bits : \E n \in 0..(2 ^ p - 1) : b = Block(n * Size(p), p)
    BY <1>2 DEF Networks
  <2>1. PICK n \in 0..(2 ^ p - 1) : b = Block(n * Size(p), p)
    BY <2>0
  <2>2. n \in Nat /\ n < TwoTo(p)
    BY <1>1
  <2>3. Size(p) * n + Size(p) <= Total
    BY <1>1, <2>2, TimesLess
  <2>4. n * Size(p) = Size(p) * n /\ n * Size(p) \in Nat
    BY <1>1, <2>2
  <2> QED BY <2>1, <2>2, <2>3, <2>4 DEF Aligned
<1>3. ASSUME NEW first \in Nat, NEW p \in 0..Bits, b = Block(first, p),
             Aligned(first, Size(p)), first + Size(p) <= Total
      PROVE  b \in Networks
  <2>1. PICK n \in Nat : first = Size(p) * n
    BY <1>3 DEF Aligned
  <2>2. n < TwoTo(p)
    <3> SUFFICES ASSUME TwoTo(p) <= n PROVE FALSE
      BY <1>1
    <3>1. Size(p) * TwoTo(p) <= Size(p) * n
      <4>1. CASE TwoTo(p) = n
        BY <1>1, <4>1
      <4>2. CASE TwoTo(p) < n
        <5>1. Size(p) * TwoTo(p) + Size(p) <= Size(p) * n
          BY <1>1, <4>2, TimesLess
        <5>2. Size(p) * TwoTo(p) \in Nat /\ Size(p) * n \in Nat /\ Size(p) \in Nat
          BY <1>1
        <5> QED BY <5>1, <5>2
      <4> QED BY <1>1, <4>1, <4>2
    <3> QED BY <1>1, <1>3, <2>1, <3>1
  <2>3. n \in 0..(2 ^ p - 1) /\ n * Size(p) = first
    BY <1>1, <2>1, <2>2
  <2> QED BY <1>3, <2>3 DEF Networks
<1> QED BY <1>2, <1>3

LEMMA NetworkParts ==
    ASSUME NEW b \in Networks
    PROVE  /\ b.start \in Nat /\ b.prefix \in 0..Bits /\ b = Block(b.start, b.prefix)
           /\ Aligned(b.start, Size(b.prefix)) /\ Size(b.prefix) \in Nat \ {0}
           /\ LastAddress(b) \in Nat /\ b.start <= LastAddress(b) /\ LastAddress(b) < Total
           /\ Addresses(b) = b.start..LastAddress(b)
<1>1. PICK first \in Nat, prefix \in 0..Bits :
          b = Block(first, prefix) /\ Aligned(first, Size(prefix)) /\ first + Size(prefix) <= Total
  BY NetworkIff
<1>2. b.start = first /\ b.prefix = prefix
  BY <1>1 DEF Block
<1> QED BY <1>1, <1>2, SizeTyped DEF LastAddress, Addresses

\* A block lies within an interval when its ends do.
LEMMA BlockWithin ==
    ASSUME NEW b \in Networks, NEW x \in Nat, NEW y \in Int
    PROVE  /\ Addresses(b) \subseteq x..y <=> x <= b.start /\ LastAddress(b) <= y
           /\ b.start \in Addresses(b) /\ LastAddress(b) \in Addresses(b)
BY NetworkParts

\* Of two blocks that meet the smaller is part of the larger.
LEMMA BlocksNest ==
    ASSUME NEW b \in Networks, NEW c \in Networks, c.prefix <= b.prefix,
           b.start <= LastAddress(c), c.start <= LastAddress(b)
    PROVE  c.start <= b.start /\ LastAddress(b) <= LastAddress(c)
<1> DEFINE m == Size(b.prefix)
           i == Bits - b.prefix
           j == Bits - c.prefix
<1>1. /\ b.start \in Nat /\ c.start \in Nat /\ m \in Nat \ {0} /\ Size(c.prefix) \in Nat \ {0}
      /\ b.prefix \in 0..Bits /\ c.prefix \in 0..Bits
      /\ Aligned(b.start, m) /\ Aligned(c.start, Size(c.prefix))
  BY NetworkParts
<1>2. i \in Nat /\ j \in Nat /\ i <= j /\ m = TwoTo(i) /\ Size(c.prefix) = TwoTo(j)
  BY <1>1, SizeTyped
<1>3. Aligned(c.start, m)
  <2> HIDE DEF m, i, j
  <2> QED BY <1>1, <1>2, AlignedCoarser
<1>4. Aligned(c.start + Size(c.prefix), m) /\ c.start + Size(c.prefix) \in Nat
  <2>1. PICK q \in Nat : c.start = TwoTo(j) * q
    BY <1>1, <1>2 DEF Aligned
  <2>2. c.start + Size(c.prefix) = TwoTo(j) * (q + 1)
    BY <1>1, <1>2, <2>1
  <2>3. Aligned(c.start + Size(c.prefix), TwoTo(j))
    BY <2>2 DEF Aligned
  <2> HIDE DEF m, i, j
  <2> QED BY <1>1, <1>2, <2>3, AlignedCoarser
<1> HIDE DEF m, i, j
<1>5. b.start < c.start => b.start + m <= c.start
  BY <1>1, <1>3, AlignedLess
<1>6. b.start < c.start + Size(c.prefix) => b.start + m <= c.start + Size(c.prefix)
  BY <1>1, <1>4, AlignedLess
<1> QED BY <1>1, <1>5, <1>6 DEF LastAddress, m

-----------------------------------------------------------------------------
(* Routes: blocks within blocks.                                           *)

LEMMA SameBlock ==
    ASSUME NEW b \in Networks, NEW c \in Networks, b.start = c.start, b.prefix = c.prefix
    PROVE  b = c
BY NetworkParts

LEMMA LargerBlock ==
    ASSUME NEW b \in Networks, NEW c \in Networks, b.start = c.start,
           LastAddress(b) < LastAddress(c)
    PROVE  c.prefix < b.prefix
<1>1. /\ b.prefix \in 0..Bits /\ c.prefix \in 0..Bits /\ b.start \in Nat
      /\ Size(b.prefix) \in Nat /\ Size(c.prefix) \in Nat /\ Size(b.prefix) < Size(c.prefix)
  BY NetworkParts DEF LastAddress
<1>2. SUFFICES ASSUME b.prefix <= c.prefix PROVE FALSE
  BY <1>1
<1> DEFINE i == Bits - c.prefix
           j == Bits - b.prefix
<1>3. i \in Nat /\ j \in Nat /\ i <= j /\ Size(b.prefix) = TwoTo(j) /\ Size(c.prefix) = TwoTo(i)
  BY <1>1, <1>2, SizeTyped
<1>4. Aligned(0, TwoTo(j))
  <2>1. 0 = TwoTo(j) * 0
    BY <1>1, <1>3
  <2> QED BY <2>1 DEF Aligned
<1> HIDE DEF i, j
<1>5. TwoTo(i) <= TwoTo(j)
  BY <1>3, <1>4, AlignedCoarser
<1> QED BY <1>1, <1>3, <1>5

LEMMA ParentParts ==
    ASSUME NEW b \in Networks, b.prefix # 0
    PROVE  /\ Parent(b) \in Networks /\ Parent(b).prefix = b.prefix - 1
           /\ Parent(b).start <= b.start /\ LastAddress(b) <= LastAddress(Parent(b))
<1> DEFINE p == b.prefix - 1
           m == Size(p)
           first == b.start - (b.start % m)
<1>1. /\ b.start \in Nat /\ b.prefix \in 0..Bits /\ p \in 0..Bits /\ m \in Nat \ {0}
      /\ LastAddress(b) \in Nat /\ b.start <= LastAddress(b) /\ LastAddress(b) < Total
  <2>1. /\ b.start \in Nat /\ b.prefix \in 0..Bits
        /\ LastAddress(b) \in Nat /\ b.start <= LastAddress(b) /\ LastAddress(b) < Total
    BY NetworkParts
  <2>2. p \in 0..Bits
    BY <2>1, SizeTyped
  <2> HIDE DEF p
  <2> QED BY <2>1, <2>2, SizeTyped
<1>2. Parent(b) = Block(first, p) /\ Parent(b).start = first /\ Parent(b).prefix = p
  BY DEF Parent, Block
<1> HIDE DEF m
<1>3. first \in 0..b.start /\ Aligned(first, m) /\ b.start < first + m
  <2>1. /\ b.start % m \in 0..(m - 1) /\ b.start - (b.start % m) \in 0..b.start
        /\ Aligned(b.start - (b.start % m), m)
    BY <1>1, Rounding, Zenon
  <2> QED BY <1>1, <2>1
<1>4. Total = TwoTo(p) * m /\ TwoTo(p) \in Nat /\ Total \in Nat
  <2>1. Bits = (Bits - p) + p /\ Bits - p \in Nat /\ m = TwoTo(Bits - p)
    BY <1>1, SizeTyped DEF m
  <2>2. Total = TwoTo(Bits - p) * TwoTo(p) /\ TwoTo(Bits - p) \in Nat /\ TwoTo(p) \in Nat
    <3>1. TwoTo((Bits - p) + p) = TwoTo(Bits - p) * TwoTo(p)
      <4>1. Bits - p \in Nat /\ p \in Nat
        BY <1>1, <2>1
      <4> HIDE DEF p
      <4> QED BY <4>1, TwoToAdds
    <3> QED BY <1>1, <2>1, <3>1, SizeTyped, TwoToPositive
  <2> QED BY <2>1, <2>2, SizeTyped
<1>5. Aligned(Total, m)
  <2>1. Total = m * TwoTo(p)
    BY <1>1, <1>4
  <2> QED BY <1>4, <2>1 DEF Aligned
<1>6. first + m <= Total
  BY <1>1, <1>3, <1>4, <1>5, AlignedLess
<1>7. Parent(b) \in Networks
  <2>1. first \in Nat /\ p \in 0..Bits /\ Aligned(first, Size(p)) /\ first + Size(p) <= Total
    BY <1>1, <1>3, <1>6 DEF m
  <2> QED BY <1>2, <2>1, NetworkIff
<1>8. Parent(b).prefix <= b.prefix /\ b.start <= LastAddress(Parent(b))
      /\ Parent(b).start <= LastAddress(b)
  BY <1>1, <1>2, <1>3 DEF LastAddress, m
<1>9. LastAddress(b) <= LastAddress(Parent(b))
  BY <1>7, <1>8, BlocksNest
<1> QED BY <1>1, <1>2, <1>3, <1>7, <1>9

\* A block within a larger one has its parent within it.
LEMMA ParentWithin ==
    ASSUME NEW b \in Networks, NEW c \in Networks, b # c, c.start <= b.start,
           LastAddress(b) <= LastAddress(c)
    PROVE  /\ b.prefix # 0 /\ c.prefix < b.prefix
           /\ c.start <= Parent(b).start /\ LastAddress(Parent(b)) <= LastAddress(c)
<1>1. /\ b.start \in Nat /\ b.prefix \in 0..Bits /\ c.start \in Nat /\ c.prefix \in 0..Bits
      /\ LastAddress(b) \in Nat /\ b.start <= LastAddress(b) /\ LastAddress(c) \in Nat
      /\ c.start <= LastAddress(c)
  BY NetworkParts
<1>2. c.prefix < b.prefix
  <2> SUFFICES ASSUME b.prefix <= c.prefix PROVE FALSE
    BY <1>1
  <2>1. b.start <= c.start /\ LastAddress(c) <= LastAddress(b)
    BY <1>1, BlocksNest
  <2>2. b.start = c.start /\ LastAddress(b) = LastAddress(c)
    BY <1>1, <2>1
  <2>3. b.prefix # c.prefix
    BY <2>2, SameBlock
  <2>4. Size(b.prefix) = Size(c.prefix)
    BY <2>2, NetworkParts DEF LastAddress
  <2> DEFINE i == Bits - c.prefix
             j == Bits - b.prefix
  <2>5. i \in Nat /\ j \in Nat /\ i < j /\ TwoTo(i) = TwoTo(j) /\ TwoTo(i) \in Nat \ {0}
    BY <1>1, <2>3, <2>4, SizeTyped
  <2> HIDE DEF i, j
  <2>6. Aligned(0, TwoTo(j))
    <3>1. 0 = TwoTo(j) * 0
      BY <2>5
    <3> QED BY <3>1 DEF Aligned
  <2>7. 2 * TwoTo(i) <= TwoTo(j)
    BY <2>5, <2>6, AlignedCoarser
  <2> QED BY <2>5, <2>7
<1>3. /\ Parent(b) \in Networks /\ Parent(b).prefix = b.prefix - 1
      /\ Parent(b).start <= b.start /\ LastAddress(b) <= LastAddress(Parent(b))
  BY <1>1, <1>2, ParentParts
<1>4. c.prefix <= Parent(b).prefix
  BY <1>1, <1>2, <1>3
<1>5. Parent(b).start \in Nat /\ LastAddress(Parent(b)) \in Nat
  BY <1>3, NetworkParts
<1>6. Parent(b).start <= LastAddress(c) /\ c.start <= LastAddress(Parent(b))
  BY <1>1, <1>3, <1>5
<1>7. c.start <= Parent(b).start /\ LastAddress(Parent(b)) <= LastAddress(c)
  BY <1>3, <1>4, <1>6, BlocksNest
<1> QED BY <1>1, <1>2, <1>7

-----------------------------------------------------------------------------
(* Routes: the largest blocks of a set of addresses, the whole space       *)
(* excepted, and that addRange finds those of a range.                     *)

Largest(wanted) ==
    {b \in Networks : /\ b.prefix > 0 /\ Addresses(b) \subseteq wanted
                      /\ b.prefix = 1 \/ ~(Addresses(Parent(b)) \subseteq wanted)}

\* addRange by its parts: the block at a cursor, and one turn of the loop.
Fits(at, end) == {e \in 0..Bits : at % (2 ^ e) = 0 /\ 2 ^ e <= end - at + 1}
SizeExp(at, end) == CHOOSE e \in Fits(at, end) : \A f \in Fits(at, end) : f <= e
Route(at, sizeExp) ==
    IF sizeExp = Bits THEN {Block(0, 1), Block(Total \div 2, 1)} ELSE {Block(at, Bits - sizeExp)}
AddStep(first, end, from) ==
    [at \in first..(end + 1) |->
        IF at > end THEN {}
        ELSE Route(at, SizeExp(at, end)) \cup from[at + 2 ^ SizeExp(at, end)]]

\* The block that addRange takes: it starts at the cursor, ends within the
\* range, and no larger one does.
LEMMA SizeExpFits ==
    ASSUME NEW at \in Nat, NEW end \in Nat, at <= end, end < Total
    PROVE  LET b == Block(at, Bits - SizeExp(at, end)) IN
           /\ SizeExp(at, end) \in 0..Bits /\ 2 ^ SizeExp(at, end) \in Nat \ {0}
           /\ b \in Networks /\ b.start = at /\ LastAddress(b) = at + 2 ^ SizeExp(at, end) - 1
           /\ LastAddress(b) <= end
           /\ \A c \in Networks :
                c.start = at /\ LastAddress(c) <= end => LastAddress(c) <= LastAddress(b)
<1> DEFINE k == SizeExp(at, end)
           b == Block(at, Bits - k)
<1>1. Fits(at, end) \in SUBSET (0..Bits) /\ Fits(at, end) # {}
  <2>1. 2 ^ 0 = 1 /\ at % 1 = 0 /\ 0 \in 0..Bits
    BY SizeTyped, TwoToZero
  <2>2. 0 \in Fits(at, end)
    BY <2>1 DEF Fits
  <2> QED BY <2>2 DEF Fits
<1>2. k \in Fits(at, end) /\ \A f \in Fits(at, end) : f <= k
  <2>1. \E e \in Fits(at, end) : \A f \in Fits(at, end) : f <= e
    BY <1>1, SizeTyped, LargestNatural
  <2> QED BY <2>1 DEF SizeExp
<1>3. /\ k \in 0..Bits /\ 2 ^ k = TwoTo(k) /\ TwoTo(k) \in Nat \ {0} /\ Size(Bits - k) = TwoTo(k)
      /\ Bits - k \in 0..Bits
  BY <1>1, <1>2, SizeTyped
<1> HIDE DEF k
<1>4. at % TwoTo(k) = 0 /\ TwoTo(k) <= end - at + 1
  BY <1>2, <1>3 DEF Fits
<1>5. b.start = at /\ b.prefix = Bits - k
  BY DEF Block
<1>6. Aligned(at, Size(Bits - k)) /\ at + Size(Bits - k) <= Total
  <2>1. at % TwoTo(k) = 0 <=> Aligned(at, TwoTo(k))
    BY <1>3, Rounding, Zenon
  <2> QED BY <1>3, <1>4, <2>1, SizeTyped
<1>7. b \in Networks
  BY <1>3, <1>6, NetworkIff
<1>8. LastAddress(b) = at + TwoTo(k) - 1
  BY <1>3, <1>5 DEF LastAddress
<1>9. ASSUME NEW c \in Networks, c.start = at, LastAddress(c) <= end
      PROVE  LastAddress(c) <= LastAddress(b)
  <2> DEFINE e == Bits - c.prefix
  <2>1. /\ c.prefix \in 0..Bits /\ e \in 0..Bits /\ Size(c.prefix) = TwoTo(e) /\ 2 ^ e = TwoTo(e)
        /\ TwoTo(e) \in Nat \ {0} /\ Aligned(at, TwoTo(e))
    BY <1>9, NetworkParts, SizeTyped
  <2>2. LastAddress(c) = at + TwoTo(e) - 1
    BY <1>9, <2>1 DEF LastAddress
  <2> HIDE DEF e
  <2>3. at % TwoTo(e) = 0
    BY <2>1, Rounding
  <2>4. e \in Fits(at, end)
    BY <1>9, <2>1, <2>2, <2>3 DEF Fits
  <2>5. e <= k
    BY <1>2, <2>4
  <2>6. Aligned(0, TwoTo(k))
    <3>1. 0 = TwoTo(k) * 0
      BY <1>3
    <3> QED BY <3>1 DEF Aligned
  <2>7. TwoTo(e) <= TwoTo(k)
    BY <1>3, <2>1, <2>5, <2>6, AlignedCoarser
  <2> QED BY <1>3, <1>8, <2>1, <2>2, <2>7
<1> QED BY <1>3, <1>4, <1>5, <1>7, <1>8, <1>9 DEF k

LEMMA LargestWithin ==
    ASSUME NEW b \in Networks, NEW x \in Nat, NEW y \in Int
    PROVE  b \in Largest(x..y) <=>
             /\ b.prefix > 0 /\ x <= b.start /\ LastAddress(b) <= y
             /\ b.prefix = 1 \/ ~(x <= Parent(b).start /\ LastAddress(Parent(b)) <= y)
<1>1. Addresses(b) \subseteq x..y <=> x <= b.start /\ LastAddress(b) <= y
  BY BlockWithin
<1>2. ASSUME b.prefix > 0
      PROVE  Addresses(Parent(b)) \subseteq x..y
               <=> x <= Parent(b).start /\ LastAddress(Parent(b)) <= y
  <2>1. Parent(b) \in Networks
    BY <1>2, ParentParts
  <2> QED BY <2>1, BlockWithin
<1> QED BY <1>1, <1>2 DEF Largest

LEMMA LargestNone ==
    ASSUME NEW x \in Nat, NEW y \in Int, y < x
    PROVE  Largest(x..y) = {}
<1> SUFFICES ASSUME NEW b \in Largest(x..y) PROVE FALSE
  OBVIOUS
<1>1. b \in Networks
  BY DEF Largest
<1>2. x <= b.start /\ LastAddress(b) <= y
  BY <1>1, LargestWithin
<1> QED BY <1>1, <1>2, NetworkParts

\* The largest routes of the whole space are its halves.
LEMMA LargestOfAll == Largest(0..(Total - 1)) = {Block(0, 1), Block(Total \div 2, 1)}
<1> DEFINE half == Total \div 2
<1>1. Size(1) \in Nat \ {0} /\ half = Size(1) /\ Total = 2 * half /\ Total \in Nat /\ 1 \in 0..Bits
  <2>1. Bits - 1 \in Nat /\ Bits = (Bits - 1) + 1 /\ 1 \in 0..Bits
    BY SizeTyped
  <2>2. TwoTo(Bits) = 2 * TwoTo(Bits - 1)
    BY <2>1, TwoToDoubles
  <2> QED BY <2>1, <2>2, SizeTyped
<1> HIDE DEF half
<1>2. \A x \in {0, half} : Block(x, 1) \in Networks
  <2>1. 0 = Size(1) * 0 /\ half = Size(1) * 1
    BY <1>1
  <2>2. Aligned(0, Size(1)) /\ Aligned(half, Size(1))
    BY <2>1 DEF Aligned
  <2> QED BY <1>1, <2>2, NetworkIff
<1>3. ASSUME NEW b \in Networks, b.prefix = 1 PROVE b.start \in {0, half}
  <2>1. b.start \in Nat /\ Aligned(b.start, half) /\ LastAddress(b) < Total
    BY <1>1, <1>3, NetworkParts
  <2>2. PICK q \in Nat : b.start = half * q
    BY <2>1 DEF Aligned
  <2>3. b.start + half <= Total
    BY <1>1, <1>3, <2>1 DEF LastAddress
  <2>4. q \in {0, 1}
    <3> SUFFICES ASSUME 1 < q PROVE FALSE
      OBVIOUS
    <3>1. half * 1 + half <= half * q
      BY <1>1, TimesLess
    <3> QED BY <1>1, <2>2, <2>3, <3>1
  <2> QED BY <1>1, <2>2, <2>4
<1>4. ASSUME NEW b \in Networks PROVE b \in Largest(0..(Total - 1)) <=> b.prefix = 1
  <2>1. b.start \in Nat /\ b.prefix \in 0..Bits /\ LastAddress(b) \in Nat /\ LastAddress(b) < Total
    BY NetworkParts
  <2>2. CASE b.prefix = 0
    BY <1>1, <2>2, LargestWithin
  <2>3. CASE b.prefix # 0
    <3>1. Parent(b) \in Networks
      BY <2>3, ParentParts
    <3>2. Parent(b).start \in Nat /\ LastAddress(Parent(b)) \in Nat
          /\ LastAddress(Parent(b)) < Total
      BY <3>1, NetworkParts
    <3> QED BY <1>1, <2>1, <2>3, <3>2, LargestWithin
  <2> QED BY <2>2, <2>3
<1>5. ASSUME NEW b \in Networks, b.prefix = 1 PROVE b \in {Block(0, 1), Block(half, 1)}
  BY <1>3, <1>5, NetworkParts
<1>6. \A x \in {0, half} : Block(x, 1).prefix = 1
  BY DEF Block
<1>7. Largest(0..(Total - 1)) \subseteq Networks
  BY DEF Largest
<1> QED BY <1>2, <1>4, <1>5, <1>6, <1>7 DEF half

\* The block taken, and the largest ones beyond it, are the largest ones.
LEMMA GreedyStep ==
    ASSUME NEW at \in Nat, NEW end \in Nat, at <= end, end < Total
    PROVE  LET sizeExp == SizeExp(at, end)
               next == at + 2 ^ sizeExp
           IN  /\ next \in (at + 1)..(end + 1)
               /\ Largest(at..end) = Route(at, sizeExp) \cup Largest(next..end)
<1> DEFINE k == SizeExp(at, end)
           next == at + 2 ^ k
           b == Block(at, Bits - k)
<1>1. /\ k \in 0..Bits /\ 2 ^ k \in Nat \ {0}
      /\ b \in Networks /\ b.start = at /\ LastAddress(b) = next - 1 /\ LastAddress(b) <= end
      /\ \A c \in Networks :
           c.start = at /\ LastAddress(c) <= end => LastAddress(c) <= LastAddress(b)
  BY SizeExpFits
<1>2. next \in (at + 1)..(end + 1)
  BY <1>1
<1>3. b.prefix = Bits - k
  BY DEF Block
<1> HIDE DEF k, next, b
<1>4. CASE k = Bits
  <2>1. b.prefix = 0
    BY <1>3, <1>4, SizeTyped
  <2>2. LastAddress(b) = at + Total - 1 /\ LastAddress(b) < Total
    BY <1>1, <2>1, NetworkParts, SizeTyped DEF LastAddress
  <2>3. at = 0 /\ end = Total - 1 /\ next = Total
    BY <1>1, <1>2, <2>2, SizeTyped
  <2>4. Largest(next..end) = {}
    BY <2>3, LargestNone, SizeTyped
  <2> QED BY <1>2, <1>4, <2>3, <2>4, LargestOfAll DEF Route, k, next
<1>5. CASE k # Bits
  <2>1. Route(at, k) = {b} /\ b.prefix > 0
    BY <1>1, <1>3, <1>5, SizeTyped DEF Route, b
  \* No block within the range is larger than b and contains it.
  <2>2. ASSUME NEW c \in Networks, at <= c.start, LastAddress(c) <= end, c.start <= LastAddress(b)
        PROVE  c.start \in at..LastAddress(b) /\ at <= c.start /\ LastAddress(c) <= LastAddress(b)
    <3>1. c.start \in Nat /\ LastAddress(c) \in Nat /\ b.prefix \in 0..Bits /\ c.prefix \in 0..Bits
          /\ c.start <= LastAddress(c) /\ LastAddress(b) \in Nat
      BY <1>1, NetworkParts
    <3>2. CASE b.prefix <= c.prefix
      BY <1>1, <2>2, <3>1, <3>2, BlocksNest
    <3>3. CASE c.prefix <= b.prefix
      <4>1. c.start <= b.start
        BY <1>1, <2>2, <3>1, <3>3, BlocksNest
      <4> QED BY <1>1, <2>2, <3>1, <4>1
    <3> QED BY <3>1, <3>2, <3>3
  <2>3. b \in Largest(at..end)
    <3>1. ASSUME b.prefix # 1, at <= Parent(b).start, LastAddress(Parent(b)) <= end PROVE FALSE
      <4>1. /\ Parent(b) \in Networks /\ Parent(b).prefix = b.prefix - 1
            /\ Parent(b).start <= at /\ LastAddress(b) <= LastAddress(Parent(b))
        BY <1>1, <2>1, ParentParts
      <4>2. Parent(b).start = at
        BY <3>1, <4>1, NetworkParts
      <4>3. LastAddress(Parent(b)) = LastAddress(b)
        BY <1>1, <3>1, <4>1, <4>2, NetworkParts
      <4>4. Parent(b) # b
        BY <1>1, <2>1, <4>1, NetworkParts
      <4>5. b.prefix < Parent(b).prefix
        BY <1>1, <4>1, <4>2, <4>3, <4>4, ParentWithin, NetworkParts
      <4> QED BY <1>1, <4>1, <4>5, NetworkParts
    <3> QED BY <1>1, <2>1, <3>1, LargestWithin
  <2>4. ASSUME NEW c \in Networks, c # b
        PROVE  c \in Largest(at..end) <=> c \in Largest(next..end)
    <3> USE <1>2
    <3>1. /\ c.start \in Nat /\ c.prefix \in 0..Bits /\ LastAddress(c) \in Nat
          /\ c.start <= LastAddress(c)
          /\ LastAddress(b) \in Nat
      BY <1>1, NetworkParts
    <3>2. c \in Largest(at..end) <=>
             /\ c.prefix > 0 /\ at <= c.start /\ LastAddress(c) <= end
             /\ c.prefix = 1 \/ ~(at <= Parent(c).start /\ LastAddress(Parent(c)) <= end)
      BY LargestWithin
    <3>3. c \in Largest(next..end) <=>
             /\ c.prefix > 0 /\ next <= c.start /\ LastAddress(c) <= end
             /\ c.prefix = 1 \/ ~(next <= Parent(c).start /\ LastAddress(Parent(c)) <= end)
      BY LargestWithin
    <3>4. CASE c.start <= LastAddress(b)
      <4>1. c \notin Largest(next..end)
        BY <1>1, <3>1, <3>3, <3>4
      <4>2. ASSUME c \in Largest(at..end) PROVE FALSE
        <5>1. at <= c.start /\ LastAddress(c) <= LastAddress(b)
          BY <2>2, <3>2, <3>4, <4>2
        <5>2. c.prefix # 0 /\ b.prefix < c.prefix /\ at <= Parent(c).start
              /\ LastAddress(Parent(c)) <= LastAddress(b)
          BY <1>1, <2>4, <5>1, ParentWithin
        <5>3. Parent(c) \in Networks
          BY <5>2, ParentParts
        <5>4. LastAddress(Parent(c)) <= end
          BY <1>1, <3>1, <5>2, <5>3, NetworkParts
        <5>5. c.prefix # 1
          BY <1>1, <2>1, <3>1, <5>2, NetworkParts
        <5> QED BY <3>2, <4>2, <5>2, <5>4, <5>5
      <4> QED BY <4>1, <4>2
    <3>5. CASE LastAddress(b) < c.start
      <4>1. at <= c.start /\ next <= c.start
        BY <1>1, <3>1, <3>5
      <4>2. ASSUME c.prefix > 0, at <= Parent(c).start, LastAddress(Parent(c)) <= end
            PROVE  next <= Parent(c).start
        <5>1. /\ Parent(c) \in Networks /\ Parent(c).start <= c.start
              /\ LastAddress(c) <= LastAddress(Parent(c))
          BY <4>2, ParentParts
        <5>2. Parent(c).start \in Nat /\ LastAddress(Parent(c)) \in Nat
          BY <5>1, NetworkParts
        <5>3. ASSUME Parent(c).start <= LastAddress(b) PROVE FALSE
          <6>1. LastAddress(Parent(c)) <= LastAddress(b)
            BY <2>2, <4>2, <5>1, <5>3
          <6> QED BY <3>1, <3>5, <5>1, <5>2, <6>1
        <5> QED BY <1>1, <5>2, <5>3
      <4>3. ASSUME next <= Parent(c).start, c.prefix > 0 PROVE at <= Parent(c).start
        <5>1. Parent(c).start \in Nat
          BY <4>3, ParentParts, NetworkParts
        <5> QED BY <4>3, <5>1
      <4> QED BY <3>2, <3>3, <4>1, <4>2, <4>3
    <3> QED BY <3>1, <3>4, <3>5
  <2>5. b \notin Largest(next..end)
    BY <1>1, <1>2, LargestWithin
  <2>6. Largest(at..end) \subseteq Networks /\ Largest(next..end) \subseteq Networks
    BY DEF Largest
  <2>7. Largest(at..end) = {b} \cup Largest(next..end)
    BY <1>1, <2>3, <2>4, <2>5, <2>6
  <2> QED BY <1>2, <2>1, <2>7 DEF k, next
<1> QED BY <1>4, <1>5

\* addRange adds the largest blocks of the range: the recursion's only solution.
LEMMA AddRangeLargest ==
    ASSUME NEW first \in Nat, NEW end \in Nat, first <= end, end < Total
    PROVE  AddRange(first, end) = Largest(first..end)
<1> DEFINE D == first..(end + 1)
           blocks == [at \in D |-> Largest(at..end)]
           from == CHOOSE f : f = AddStep(first, end, f)
<1>1. AddRange(first, end) = from[first]
  BY DEF AddRange, AddStep, Fits, SizeExp, Route
<1>2. ASSUME NEW at \in D, at > end PROVE Largest(at..end) = {}
  BY <1>2, LargestNone
<1>3. ASSUME NEW at \in D, ~(at > end)
      PROVE  /\ at + 2 ^ SizeExp(at, end) \in (at + 1)..(end + 1)
             /\ Largest(at..end) = Route(at, SizeExp(at, end))
                                     \cup Largest((at + 2 ^ SizeExp(at, end))..end)
  BY <1>3, GreedyStep
<1>4. blocks = AddStep(first, end, blocks)
  <2> SUFFICES ASSUME NEW at \in D
               PROVE  Largest(at..end) =
                        IF at > end THEN {}
                        ELSE Route(at, SizeExp(at, end)) \cup blocks[at + 2 ^ SizeExp(at, end)]
    BY Zenon DEF AddStep
  <2>1. CASE at > end
    BY <1>2, <2>1
  <2>2. CASE ~(at > end)
    <3>1. at + 2 ^ SizeExp(at, end) \in D
      BY <1>3, <2>2
    <3> QED BY <1>3, <2>2, <3>1
  <2> QED BY <2>1, <2>2
<1>5. from = AddStep(first, end, from)
  <2> HIDE DEF blocks
  <2> QED BY <1>4
<1>6. \A at \in D : from[at] = IF at > end THEN {}
                               ELSE Route(at, SizeExp(at, end)) \cup from[at + 2 ^ SizeExp(at, end)]
  <2> HIDE DEF from
  <2>1. \A at \in D : AddStep(first, end, from)[at] =
             IF at > end THEN {}
             ELSE Route(at, SizeExp(at, end)) \cup from[at + 2 ^ SizeExp(at, end)]
    BY Zenon DEF AddStep
  <2> QED BY <1>5, <2>1, Zenon
<1> HIDE DEF from, blocks
<1>7. \A at \in D : from[at] = Largest(at..end)
  <2> DEFINE Wrong == {n \in Nat : \E at \in D : n = end + 1 - at /\ from[at] # Largest(at..end)}
  <2> SUFFICES ASSUME NEW bad \in D, from[bad] # Largest(bad..end) PROVE FALSE
    OBVIOUS
  <2>1. Wrong \in SUBSET Nat /\ Wrong # {}
    <3>1. end + 1 - bad \in Wrong
      OBVIOUS
    <3> QED BY <3>1
  <2>2. PICK n \in Wrong : \A m \in Wrong : n <= m
    <3> HIDE DEF Wrong
    <3> QED BY <2>1, LeastNatural
  <2>3. PICK at \in D : n = end + 1 - at /\ from[at] # Largest(at..end)
    BY <2>2
  <2>4. ~(at > end)
    BY <1>2, <1>6, <2>3
  <2> DEFINE next == at + 2 ^ SizeExp(at, end)
  <2>5. /\ next \in (at + 1)..(end + 1)
        /\ Largest(at..end) = Route(at, SizeExp(at, end)) \cup Largest(next..end)
    BY <1>3, <2>4
  <2>6. from[at] = Route(at, SizeExp(at, end)) \cup from[next]
    BY <1>6, <2>4
  <2> HIDE DEF next
  <2>7. next \in D /\ end + 1 - next \in Nat /\ end + 1 - next < n
    BY <2>3, <2>5
  <2>8. from[next] # Largest(next..end)
    BY <2>3, <2>5, <2>6
  <2>9. end + 1 - next \in Wrong
    BY <2>7, <2>8
  <2>10. n <= end + 1 - next
    BY <2>2, <2>9
  <2> QED BY <2>7, <2>10, <2>3
<1> QED BY <1>1, <1>7

-----------------------------------------------------------------------------
(* Routes: the loop over the excluded ranges.                              *)

Below(wanted, cursor) == {b \in Largest(wanted) : LastAddress(b) < cursor}

LEMMA LargestParts ==
    ASSUME NEW wanted, NEW b \in Largest(wanted)
    PROVE  /\ b \in Networks /\ b.start \in Nat /\ LastAddress(b) \in Nat
           /\ b.start <= LastAddress(b)
           /\ LastAddress(b) < Total
           /\ \A x \in b.start..LastAddress(b) : x \in wanted
<1>1. b \in Networks /\ Addresses(b) \subseteq wanted
  BY DEF Largest
<1> QED BY <1>1, NetworkParts

\* Between two excluded ranges the largest blocks are the largest of all.
LEMMA GapLargest ==
    ASSUME NEW wanted \in SUBSET Nat, NEW lo \in Nat, NEW hi \in Nat,
           lo..hi \subseteq wanted, \A x \in wanted : x + 1 # lo /\ x # hi + 1
    PROVE  Largest(lo..hi) = {b \in Largest(wanted) : lo <= b.start /\ LastAddress(b) <= hi}
<1> SUFFICES ASSUME NEW b \in Networks
             PROVE  b \in Largest(lo..hi)
                      <=> b \in Largest(wanted) /\ lo <= b.start /\ LastAddress(b) <= hi
  BY DEF Largest
<1>1. b.start \in Nat /\ LastAddress(b) \in Nat /\ b.start <= LastAddress(b)
      /\ Addresses(b) = b.start..LastAddress(b)
  BY NetworkParts
<1>2. CASE b.prefix > 0 /\ lo <= b.start /\ LastAddress(b) <= hi
  <2>1. /\ Parent(b) \in Networks /\ Parent(b).start <= b.start
        /\ LastAddress(b) <= LastAddress(Parent(b))
    BY <1>2, ParentParts
  <2>2. /\ Parent(b).start \in Nat /\ LastAddress(Parent(b)) \in Nat
        /\ LastAddress(Parent(b)) < Total
        /\ Addresses(Parent(b)) = Parent(b).start..LastAddress(Parent(b))
    BY <2>1, NetworkParts
  <2>3. ASSUME Addresses(Parent(b)) \subseteq wanted
        PROVE  lo <= Parent(b).start /\ LastAddress(Parent(b)) <= hi
    <3>1. ASSUME Parent(b).start < lo PROVE FALSE
      <4>1. lo - 1 \in Addresses(Parent(b)) /\ (lo - 1) + 1 = lo
        BY <1>1, <1>2, <2>1, <2>2, <3>1
      <4> QED BY <2>3, <4>1
    <3>2. ASSUME hi < LastAddress(Parent(b)) PROVE FALSE
      <4>1. hi + 1 \in Addresses(Parent(b))
        BY <1>1, <1>2, <2>1, <2>2, <3>2
      <4> QED BY <2>3, <4>1
    <3> QED BY <2>2, <3>1, <3>2
  <2>4. ASSUME lo <= Parent(b).start, LastAddress(Parent(b)) <= hi
        PROVE  Addresses(Parent(b)) \subseteq wanted
    <3>1. Addresses(Parent(b)) \subseteq lo..hi
      BY <2>2, <2>4
    <3> QED BY <3>1
  <2>5. Addresses(b) \subseteq wanted
    <3>1. Addresses(b) \subseteq lo..hi
      BY <1>1, <1>2
    <3> QED BY <3>1
  <2> QED BY <1>2, <2>3, <2>4, <2>5, LargestWithin DEF Largest
<1>3. CASE ~(b.prefix > 0 /\ lo <= b.start /\ LastAddress(b) <= hi)
  BY <1>3, LargestWithin DEF Largest
<1> QED BY <1>2, <1>3

SortedNetworks(s) ==
    /\ s \in Seq(Networks)
    /\ \A i, j \in 1..Len(s) : i < j => s[i].start <= s[j].start
Outside(s) == (0..(Total - 1)) \ UNION {Addresses(s[i]) : i \in 1..Len(s)}

\* Where the first i ranges end.
IsCursor(s, i, cursor) ==
    /\ cursor \in Nat
    /\ cursor = 0 \/ \E j \in 1..i : cursor = LastAddress(s[j]) + 1
    /\ \A j \in 1..i : LastAddress(s[j]) < cursor
Cursor(s, i) == CHOOSE cursor : IsCursor(s, i, cursor)

LEMMA CursorIs ==
    ASSUME NEW s, SortedNetworks(s), NEW i \in 0..Len(s), NEW cursor, IsCursor(s, i, cursor)
    PROVE  cursor = Cursor(s, i) /\ IsCursor(s, i, Cursor(s, i))
<1>1. IsCursor(s, i, Cursor(s, i))
  BY Zenon DEF Cursor
<1>2. \A j \in 1..i : LastAddress(s[j]) \in Nat
  BY NetworkParts DEF SortedNetworks
<1> HIDE DEF Cursor
<1> QED BY <1>1, <1>2 DEF IsCursor

LEMMA CursorStart ==
    ASSUME NEW s, SortedNetworks(s)
    PROVE  Cursor(s, 0) = 0
<1>1. IsCursor(s, 0, 0)
  BY DEF IsCursor
<1>2. 0 \in 0..Len(s)
  BY DEF SortedNetworks
<1> QED BY <1>1, <1>2, CursorIs

LEMMA CursorMoves ==
    ASSUME NEW s, SortedNetworks(s), NEW i \in 1..Len(s), IsCursor(s, i - 1, Cursor(s, i - 1))
    PROVE  /\ IsCursor(s, i, Cursor(s, i))
           /\ Cursor(s, i) = IF LastAddress(s[i]) + 1 > Cursor(s, i - 1) THEN LastAddress(s[i]) + 1
                             ELSE Cursor(s, i - 1)
<1> DEFINE before == Cursor(s, i - 1)
           cursor == IF LastAddress(s[i]) + 1 > before THEN LastAddress(s[i]) + 1 ELSE before
<1>1. IsCursor(s, i - 1, before)
  OBVIOUS
<1>2. \A j \in 1..i : LastAddress(s[j]) \in Nat
  BY NetworkParts DEF SortedNetworks
<1>3. i \in 0..Len(s) /\ i \in Nat /\ 1..i = (1..(i - 1)) \cup {i}
  BY DEF SortedNetworks
<1> HIDE DEF before
<1>4. IsCursor(s, i, cursor)
  <2>1. CASE LastAddress(s[i]) + 1 > before
    <3>1. cursor = LastAddress(s[i]) + 1 /\ LastAddress(s[i]) \in Nat /\ before \in Nat
      BY <1>1, <1>2, <2>1 DEF IsCursor
    <3>2. \A j \in 1..(i - 1) : LastAddress(s[j]) < cursor
      BY <1>1, <1>2, <1>3, <2>1, <3>1 DEF IsCursor
    <3> HIDE DEF cursor
    <3> QED BY <1>3, <3>1, <3>2 DEF IsCursor
  <2>2. CASE ~(LastAddress(s[i]) + 1 > before)
    <3>1. cursor = before /\ LastAddress(s[i]) < before
      BY <1>1, <1>2, <2>2 DEF IsCursor
    <3> HIDE DEF cursor
    <3> QED BY <1>1, <1>3, <3>1 DEF IsCursor
  <2> QED BY <2>1, <2>2
<1> HIDE DEF cursor
<1>5. cursor = Cursor(s, i) /\ IsCursor(s, i, Cursor(s, i))
  BY <1>3, <1>4, CursorIs
<1> QED BY <1>5 DEF cursor, before

LEMMA CursorExists ==
    ASSUME NEW s, SortedNetworks(s), NEW n \in 0..Len(s)
    PROVE  IsCursor(s, n, Cursor(s, n)) /\ Cursor(s, n) \in 0..Total
<1> DEFINE S == {i \in Nat : i <= Len(s) => IsCursor(s, i, Cursor(s, i))}
<1>1. Len(s) \in Nat /\ \A i \in 1..Len(s) : s[i] \in Networks
  BY DEF SortedNetworks
<1>2. 0 \in S
  <2>1. IsCursor(s, 0, 0)
    BY DEF IsCursor
  <2> QED BY <2>1, CursorStart
<1>3. ASSUME NEW i \in Nat, i \in S PROVE i + 1 \in S
  <2> SUFFICES ASSUME i + 1 <= Len(s) PROVE IsCursor(s, i + 1, Cursor(s, i + 1))
    OBVIOUS
  <2>1. IsCursor(s, (i + 1) - 1, Cursor(s, (i + 1) - 1)) /\ i + 1 \in 1..Len(s)
    <3>1. (i + 1) - 1 = i /\ i <= Len(s)
      BY <1>1
    <3> QED BY <1>1, <1>3, <3>1
  <2> QED BY <2>1, CursorMoves
<1> HIDE DEF S
<1>4. Nat \subseteq S
  BY <1>2, <1>3, FromZeroOn
<1>5. IsCursor(s, n, Cursor(s, n))
  BY <1>1, <1>4 DEF S
<1>6. \A j \in 1..n : LastAddress(s[j]) \in Nat /\ LastAddress(s[j]) < Total
  BY <1>1, NetworkParts
<1> QED BY <1>5, <1>6, SizeTyped DEF IsCursor

\* What the cursor and the ranges to come say of the addresses.
LEMMA RestAt ==
    ASSUME NEW s, SortedNetworks(s), NEW i \in 0..Len(s)
    PROVE  LET cursor == Cursor(s, i) IN
           /\ \A x \in Outside(s) : x \in Nat /\ x + 1 # cursor
           /\ \A x \in Nat : /\ x < Total /\ cursor <= x
                             /\ i < Len(s) => x < s[i + 1].start
                             => x \in Outside(s)
<1> DEFINE cursor == Cursor(s, i)
<1>1. IsCursor(s, i, cursor)
  BY CursorExists
<1>2. Len(s) \in Nat /\ \A j \in 1..Len(s) :
          /\ s[j] \in Networks /\ s[j].start \in Nat /\ LastAddress(s[j]) \in Nat
          /\ s[j].start <= LastAddress(s[j]) /\ Addresses(s[j]) = s[j].start..LastAddress(s[j])
  BY NetworkParts DEF SortedNetworks
<1> HIDE DEF cursor
<1>3. ASSUME NEW x \in Outside(s) PROVE x \in Nat /\ x + 1 # cursor
  <2>1. x \in Nat
    BY SizeTyped DEF Outside
  <2> SUFFICES ASSUME x + 1 = cursor PROVE FALSE
    BY <2>1
  <2>2. PICK j \in 1..i : cursor = LastAddress(s[j]) + 1
    BY <1>1, <2>1 DEF IsCursor
  <2>3. x \in Addresses(s[j]) /\ j \in 1..Len(s)
    BY <1>2, <2>1, <2>2
  <2> QED BY <2>3 DEF Outside
<1>4. ASSUME NEW x \in Nat, x < Total, cursor <= x, i < Len(s) => x < s[i + 1].start
      PROVE  x \in Outside(s)
  <2> SUFFICES ASSUME NEW j \in 1..Len(s), x \in Addresses(s[j]) PROVE FALSE
    BY <1>4, SizeTyped DEF Outside
  <2>1. s[j].start <= x /\ x <= LastAddress(s[j])
    BY <1>2
  <2>2. CASE j <= i
    BY <1>1, <1>2, <1>4, <2>1, <2>2 DEF IsCursor
  <2>3. CASE i < j
    <3>1. i + 1 \in 1..Len(s) /\ s[i + 1].start <= s[j].start
      BY <1>2, <2>3 DEF SortedNetworks
    <3> QED BY <1>2, <1>4, <2>1, <2>3, <3>1
  <2> QED BY <2>2, <2>3
<1> QED BY <1>3, <1>4 DEF cursor

LEMMA SkipStep ==
    ASSUME NEW s, SortedNetworks(s), NEW i \in 1..Len(s)
    PROVE  Skip([routes |-> Below(Outside(s), Cursor(s, i - 1)), cursor |-> Cursor(s, i - 1)], s[i])
             = [routes |-> Below(Outside(s), Cursor(s, i)), cursor |-> Cursor(s, i)]
<1> DEFINE c == Cursor(s, i - 1)
           r == s[i]
           W == Outside(s)
           at == [routes |-> Below(W, c), cursor |-> c]
<1>1. i - 1 \in 0..Len(s) /\ i - 1 < Len(s) /\ (i - 1) + 1 = i /\ r \in Networks
  BY DEF SortedNetworks
<1>2. IsCursor(s, i - 1, c) /\ c \in 0..Total
  BY <1>1, CursorExists
<1>3. \A x \in W : x \in Nat /\ x + 1 # c
  BY <1>1, RestAt
<1>4. \A x \in Nat : x < Total /\ c <= x /\ x < r.start => x \in W
  BY <1>1, RestAt
<1>5. Cursor(s, i) = IF LastAddress(r) + 1 > c THEN LastAddress(r) + 1 ELSE c
  BY <1>2, CursorMoves
<1>6. /\ r.start \in Nat /\ LastAddress(r) \in Nat /\ r.start <= LastAddress(r)
      /\ LastAddress(r) < Total
      /\ r.start + Size(r.prefix) = LastAddress(r) + 1
      /\ \A x \in r.start..LastAddress(r) : x \notin W
  <2>1. /\ r.start \in Nat /\ LastAddress(r) \in Nat /\ r.start <= LastAddress(r)
        /\ LastAddress(r) < Total
        /\ Size(r.prefix) \in Nat /\ Addresses(r) = r.start..LastAddress(r)
    BY <1>1, NetworkParts
  <2>2. r.start + Size(r.prefix) = LastAddress(r) + 1
    <3> HIDE DEF r
    <3> QED BY <2>1 DEF LastAddress
  <2>3. \A x \in Addresses(r) : x \notin W
    BY DEF Outside
  <2> HIDE DEF r, W
  <2> QED BY <2>1, <2>2, <2>3
<1> HIDE DEF c, r, W
<1>7. \A b \in Largest(W) :
          /\ b.start \in Nat /\ LastAddress(b) \in Nat /\ b.start <= LastAddress(b)
          /\ \A x \in b.start..LastAddress(b) : x \in W
  BY LargestParts
<1>8. ASSUME r.start > c
      PROVE  Below(W, c) \cup AddRange(c, r.start - 1) = Below(W, LastAddress(r) + 1)
  <2> DEFINE hi == r.start - 1
  <2>1. /\ hi \in Nat /\ c \in Nat /\ c <= hi /\ hi < Total /\ Total \in Nat
        /\ hi + 1 = r.start /\ hi + 1 \notin W
    <3>1. r.start \in r.start..LastAddress(r)
      BY <1>6
    <3>2. r.start \notin W
      BY <1>6, <3>1
    <3>3. c \in Nat /\ Total \in Nat
      BY <1>2, SizeTyped
    <3>4. r.start \in Nat /\ r.start < Total
      BY <1>6, <3>3
    <3>5. hi + 1 = r.start /\ hi \in Nat /\ c <= hi /\ hi < Total
      BY <1>8, <3>3, <3>4
    <3> QED BY <3>2, <3>3, <3>5
  <2> HIDE DEF hi
  <2>2. c..hi \subseteq W
    <3> SUFFICES ASSUME NEW x \in c..hi PROVE x \in W
      OBVIOUS
    <3> QED BY <1>4, <2>1
  <2>3. AddRange(c, hi) = Largest(c..hi)
    BY <2>1, AddRangeLargest
  <2>4. Largest(c..hi) = {b \in Largest(W) : c <= b.start /\ LastAddress(b) <= hi}
    <3>1. W \in SUBSET Nat /\ \A x \in W : x + 1 # c /\ x # hi + 1
      BY <1>3, <2>1
    <3>2. hi \in Nat /\ c \in Nat
      BY <2>1
    <3> QED BY <2>2, <3>1, <3>2, GapLargest, Zenon
  <2>5. ASSUME NEW b \in Largest(W)
        PROVE  LastAddress(b) < LastAddress(r) + 1
                 <=> LastAddress(b) < c \/ (c <= b.start /\ LastAddress(b) <= hi)
    <3>1. /\ b.start \in Nat /\ LastAddress(b) \in Nat /\ b.start <= LastAddress(b)
          /\ \A x \in b.start..LastAddress(b) : x \in W
      BY <1>7
    <3>2. LastAddress(b) \in W
      BY <3>1
    <3>3. ~(r.start <= LastAddress(b) /\ LastAddress(b) <= LastAddress(r))
      BY <1>6, <3>1, <3>2
    <3>4. ~(b.start < c /\ c <= LastAddress(b))
      <4> SUFFICES ASSUME b.start < c, c <= LastAddress(b) PROVE FALSE
        OBVIOUS
      <4>1. c - 1 \in b.start..LastAddress(b) /\ (c - 1) + 1 = c
        BY <2>1, <3>1
      <4> QED BY <1>3, <3>1, <4>1
    <3> QED BY <1>6, <1>8, <2>1, <3>1, <3>3, <3>4
  <2> QED BY <2>3, <2>4, <2>5 DEF Below, hi
<1>9. ASSUME ~(r.start > c), LastAddress(r) + 1 > c PROVE Below(W, c) = Below(W, LastAddress(r) + 1)
  <2>1. ASSUME NEW b \in Largest(W), LastAddress(b) < LastAddress(r) + 1 PROVE LastAddress(b) < c
    <3>1. LastAddress(b) \in Nat /\ LastAddress(b) \in W
      BY <1>7
    <3>2. ~(r.start <= LastAddress(b) /\ LastAddress(b) <= LastAddress(r))
      BY <1>6, <3>1
    <3> QED BY <1>2, <1>6, <1>9, <2>1, <3>1, <3>2
  <2>2. ASSUME NEW b \in Largest(W), LastAddress(b) < c PROVE LastAddress(b) < LastAddress(r) + 1
    BY <1>2, <1>6, <1>7, <1>9, <2>2
  <2> QED BY <2>1, <2>2 DEF Below
<1>10. Skip(at, r) = [routes |-> Below(W, c) \cup (IF r.start > c THEN AddRange(c, r.start - 1)
                                                   ELSE {}),
                      cursor |-> IF LastAddress(r) + 1 > c THEN LastAddress(r) + 1 ELSE c]
  BY <1>6 DEF Skip
<1>11. CASE r.start > c
  <2>1. LastAddress(r) + 1 > c
    BY <1>2, <1>6, <1>11
  <2> QED BY <1>5, <1>8, <1>10, <1>11, <2>1 DEF c, r, W
<1>12. CASE ~(r.start > c)
  BY <1>5, <1>9, <1>10, <1>12 DEF c, r, W
<1> QED BY <1>11, <1>12

\* complementRoutes returns the largest blocks outside the excluded ranges.
LEMMA ComplementLargest ==
    ASSUME NEW s, SortedNetworks(s)
    PROVE  ComplementOf(s) = Largest(Outside(s))
<1> DEFINE n == Len(s)
           W == Outside(s)
           F(f) == [i \in 0..n |-> IF i = 0 THEN [routes |-> {}, cursor |-> 0]
                                   ELSE Skip(f[i - 1], s[i])]
           after == CHOOSE f : f = F(f)
           done == [i \in 0..n |-> [routes |-> Below(W, Cursor(s, i)), cursor |-> Cursor(s, i)]]
           at == after[n]
<1>1. n \in Nat
  BY DEF SortedNetworks
<1>2. ComplementOf(s)
        = at.routes \cup (IF at.cursor < Total THEN AddRange(at.cursor, Total - 1) ELSE {})
  BY DEF ComplementOf
<1>3. Below(W, Cursor(s, 0)) = {} /\ Cursor(s, 0) = 0
  BY CursorStart, LargestParts DEF Below
<1>4. \A i \in 1..n : Skip(done[i - 1], s[i]) = done[i]
  <2> SUFFICES ASSUME NEW i \in 1..n PROVE Skip(done[i - 1], s[i]) = done[i]
    OBVIOUS
  <2>1. i \in 0..n /\ i - 1 \in 0..n
    BY <1>1
  <2>2. done[i - 1] = [routes |-> Below(W, Cursor(s, i - 1)), cursor |-> Cursor(s, i - 1)]
        /\ done[i] = [routes |-> Below(W, Cursor(s, i)), cursor |-> Cursor(s, i)]
    BY <2>1
  <2> QED BY <2>2, SkipStep
<1>5. done = F(done)
  <2> SUFFICES ASSUME NEW i \in 0..n
               PROVE  done[i] = IF i = 0 THEN [routes |-> {}, cursor |-> 0]
                                ELSE Skip(done[i - 1], s[i])
    BY Zenon
  <2>1. CASE i = 0
    BY <1>3, <2>1
  <2>2. CASE i # 0
    <3>1. i \in 1..n
      BY <1>1, <2>2
    <3> HIDE DEF done
    <3> QED BY <1>4, <2>2, <3>1
  <2> QED BY <2>1, <2>2
<1>6. after = F(after)
  <2> HIDE DEF done
  <2> QED BY <1>5
<1>7. \A i \in 0..n : after[i] = IF i = 0 THEN [routes |-> {}, cursor |-> 0]
                                 ELSE Skip(after[i - 1], s[i])
  <2> HIDE DEF after
  <2>1. \A i \in 0..n : F(after)[i] = IF i = 0 THEN [routes |-> {}, cursor |-> 0]
                                      ELSE Skip(after[i - 1], s[i])
    BY Zenon
  <2> QED BY <1>6, <2>1, Zenon
<1> DEFINE S == {i \in Nat : i <= n => after[i] = done[i]}
<1>8. 0 \in S
  <2>1. 0 \in 0..n
    BY <1>1
  <2>2. after[0] = [routes |-> {}, cursor |-> 0]
    BY <1>7, <2>1
  <2> QED BY <1>3, <2>1, <2>2
<1> HIDE DEF after
<1>9. ASSUME NEW i \in Nat, i \in S PROVE i + 1 \in S
  <2> SUFFICES ASSUME i + 1 <= n PROVE after[i + 1] = done[i + 1]
    OBVIOUS
  <2>1. i + 1 \in 1..n /\ i + 1 \in 0..n /\ (i + 1) - 1 = i /\ i <= n /\ i + 1 # 0
    BY <1>1
  <2>2. after[i] = done[i]
    BY <1>9, <2>1
  <2>3. after[i + 1] = Skip(after[i], s[i + 1])
    BY <1>7, <2>1
  <2>4. Skip(done[i], s[i + 1]) = done[i + 1]
    BY <1>4, <2>1
  <2> HIDE DEF done
  <2> QED BY <2>2, <2>3, <2>4
<1> HIDE DEF S
<1>10. Nat \subseteq S
  BY <1>8, <1>9, FromZeroOn
<1> DEFINE c == Cursor(s, n)
<1>11. at.routes = Below(W, c) /\ at.cursor = c
  <2>1. at = done[n]
    <3> HIDE DEF done
    <3> QED BY <1>1, <1>10 DEF S
  <2> QED BY <1>1, <2>1
<1>12. n \in 0..n /\ c \in 0..Total
  BY <1>1, CursorExists
<1>13. \A x \in W : x \in Nat /\ x + 1 # c /\ x # Total
  <2>1. \A x \in W : x \in Nat /\ x + 1 # c
    BY <1>12, RestAt
  <2>2. \A x \in W : x # Total
    BY SizeTyped DEF Outside
  <2> QED BY <2>1, <2>2
<1>14. \A x \in Nat : x < Total /\ c <= x => x \in W
  BY <1>12, RestAt
<1> HIDE DEF c, W, at
<1>15. CASE c < Total
  <2> DEFINE hi == Total - 1
  <2>1. /\ hi \in Nat /\ hi < Total /\ c \in Nat /\ c <= hi /\ Total \in Nat
        /\ hi = Total - 1 /\ hi + 1 = Total
    BY <1>12, <1>15, SizeTyped
  <2> HIDE DEF hi
  <2>2. AddRange(c, hi) = Largest(c..hi)
    BY <2>1, AddRangeLargest
  <2>3. c..hi \subseteq W
    <3> SUFFICES ASSUME NEW x \in c..hi PROVE x \in W
      OBVIOUS
    <3> QED BY <1>14, <2>1
  <2>4. Largest(c..hi) = {b \in Largest(W) : c <= b.start /\ LastAddress(b) <= hi}
    <3>1. W \in SUBSET Nat /\ \A x \in W : x + 1 # c /\ x # hi + 1
      BY <1>13, <2>1
    <3>2. hi \in Nat /\ c \in Nat
      BY <2>1
    <3> QED BY <2>3, <3>1, <3>2, GapLargest, Zenon
  <2>5. ASSUME NEW b \in Largest(W), ~(LastAddress(b) < c)
        PROVE  c <= b.start /\ LastAddress(b) <= hi
    <3>1. /\ b.start \in Nat /\ LastAddress(b) \in Nat /\ b.start <= LastAddress(b)
          /\ LastAddress(b) < Total
          /\ \A x \in b.start..LastAddress(b) : x \in W
      BY LargestParts
    <3>2. ASSUME b.start < c PROVE FALSE
      <4>1. c - 1 \in b.start..LastAddress(b) /\ (c - 1) + 1 = c
        BY <2>1, <2>5, <3>1, <3>2
      <4> QED BY <1>13, <3>1, <4>1
    <3> QED BY <2>1, <3>1, <3>2, SizeTyped
  <2>6. Below(W, c) \cup Largest(c..hi) = Largest(W)
    BY <2>4, <2>5 DEF Below
  <2> QED BY <1>2, <1>11, <1>15, <2>2, <2>6 DEF W, hi
<1>16. CASE ~(c < Total)
  <2>1. \A b \in Largest(W) : LastAddress(b) < c
    BY <1>12, <1>16, LargestParts, SizeTyped
  <2>2. Below(W, c) = Largest(W)
    BY <2>1 DEF Below
  <2> QED BY <1>2, <1>11, <1>16, <2>2 DEF W
<1> QED BY <1>15, <1>16

-----------------------------------------------------------------------------
(* Routes: every list of networks the service may be given.                *)

RoutesSpec == RoutesInit /\ [][RoutesNext]_routesVars

LEMMA SortedLists ==
    ASSUME NEW ranges \in SUBSET Networks, IsFiniteSet(ranges), NEW s \in Sorted(ranges)
    PROVE  SortedNetworks(s) /\ Outside(s) = (0..(Total - 1)) \ UNION {Addresses(b) : b \in ranges}
<1> DEFINE n == Cardinality(ranges)
<1>1. n \in Nat
  BY FS_CardinalityType
<1>2. /\ s \in [1..n -> ranges] /\ ranges = {s[i] : i \in 1..n}
      /\ \A i, j \in 1..n : i < j => s[i].start <= s[j].start
  BY DEF Sorted
<1> HIDE DEF n
<1>3. s \in Seq(Networks) /\ Len(s) = n
  BY <1>1, <1>2
<1>4. {Addresses(s[i]) : i \in 1..n} = {Addresses(b) : b \in ranges}
  BY <1>2
<1> QED BY <1>2, <1>3, <1>4 DEF SortedNetworks, Outside

RoutesInv == excluded \in SUBSET Networks /\ IsFiniteSet(excluded) /\ RoutesAreComplement

\* Whatever networks are excluded, nested, touching or apart, and in whichever order
\* those of one start are sorted: complementRoutes returns the largest blocks outside
\* them and nothing else, for addresses of any width.
THEOREM RoutesComplement == RoutesSpec => []RoutesAreComplement
<1>1. ASSUME NEW ranges \in SUBSET Networks, IsFiniteSet(ranges), NEW s \in Sorted(ranges),
             excluded = ranges, routes = ComplementOf(s)
      PROVE  RoutesInv
  <2>1. SortedNetworks(s) /\ Outside(s) = Wanted
    BY <1>1, SortedLists DEF Wanted
  <2>2. routes = Largest(Wanted)
    BY <1>1, <2>1, ComplementLargest
  <2> QED BY <1>1, <2>2 DEF RoutesInv, RoutesAreComplement, Largest
<1>2. RoutesInit => RoutesInv
  <2> SUFFICES ASSUME RoutesInit PROVE RoutesInv
    OBVIOUS
  <2>1. <<>> \in Sorted({}) /\ IsFiniteSet({})
    BY FS_EmptySet DEF Sorted
  <2> QED BY <1>1, <2>1 DEF RoutesInit
<1>3. RoutesInv /\ [RoutesNext]_routesVars => RoutesInv'
  <2> SUFFICES ASSUME RoutesInv, [RoutesNext]_routesVars PROVE RoutesInv'
    OBVIOUS
  <2>1. CASE Exclude
    <3>1. PICK n \in Networks \ excluded : excluded' = excluded \cup {n}
      BY <2>1 DEF Exclude
    <3>2. PICK s \in Sorted(excluded') : routes' = ComplementOf(s)
      BY <2>1 DEF Exclude
    <3>3. excluded' \in SUBSET Networks /\ IsFiniteSet(excluded')
      BY <3>1, FS_AddElement DEF RoutesInv
    <3>4. SortedNetworks(s) /\ Outside(s) = Wanted'
      BY <3>2, <3>3, SortedLists DEF Wanted
    <3>5. routes' = Largest(Wanted')
      BY <3>2, <3>4, ComplementLargest
    <3> QED BY <3>3, <3>5 DEF RoutesInv, RoutesAreComplement, Largest
  <2>2. CASE UNCHANGED routesVars
    BY <2>2 DEF RoutesInv, RoutesAreComplement, Wanted, routesVars
  <2> QED BY <2>1, <2>2 DEF RoutesNext
<1> QED BY <1>2, <1>3, PTL DEF RoutesSpec, RoutesInv

-----------------------------------------------------------------------------
(* The parts together: a behaviour of the application is one of each part, *)
(* of which all but one stand still.                                       *)

LEMMA PartSteps ==
    [Next]_vars =>
        /\ [SseNext]_sseVars /\ [PriceNext]_priceVars /\ [UpdaterNext]_updaterVars
        /\ [DepositsNext]_depositVars /\ [LanguageNext]_languageVars /\ [AuthNext]_authVars
        /\ [WalletNext]_walletVars /\ [SellerNext]_sellerVars /\ [VpnNext]_vpnVars
        /\ [RoutesNext]_routesVars
<1> SUFFICES ASSUME [Next]_vars
             PROVE  /\ [SseNext]_sseVars /\ [PriceNext]_priceVars /\ [UpdaterNext]_updaterVars
                    /\ [DepositsNext]_depositVars /\ [LanguageNext]_languageVars
                    /\ [AuthNext]_authVars /\ [WalletNext]_walletVars /\ [SellerNext]_sellerVars
                    /\ [VpnNext]_vpnVars /\ [RoutesNext]_routesVars
  OBVIOUS
<1> USE DEF windowVars, androidVars
<1>1. CASE StreamMoves \/ PricesMove \/ UpdaterMoves
  BY <1>1 DEF StreamMoves, PricesMove, UpdaterMoves
<1>2. CASE DepositsMove \/ LanguageMoves \/ AuthMoves
  BY <1>2 DEF DepositsMove, LanguageMoves, AuthMoves
<1>3. CASE WalletMoves \/ SellerMoves
  BY <1>3 DEF WalletMoves, SellerMoves
<1>4. CASE VpnMoves \/ RoutesMove
  BY <1>4 DEF VpnMoves, RoutesMove
<1>5. CASE UNCHANGED vars
  BY <1>5 DEF vars
<1> QED BY <1>1, <1>2, <1>3, <1>4, <1>5 DEF Next

LEMMA PartsBehave ==
    Spec => /\ SseSpec /\ PriceSpec /\ UpdaterSpec /\ DepositsSpec /\ LanguageSpec
            /\ AuthSpec /\ WalletSpec /\ SellerSpec /\ VpnSpec /\ RoutesSpec
<1>1. Init => /\ SseInit /\ PriceInit /\ UpdaterInit /\ DepositsInit /\ LanguageInit
              /\ AuthInit /\ WalletInit /\ SellerInit /\ VpnInit /\ RoutesInit
  BY DEF Init
<1> QED
  BY <1>1, PartSteps, PTL
     DEF Spec, SseSpec, PriceSpec, UpdaterSpec, DepositsSpec, LanguageSpec, AuthSpec,
         WalletSpec, SellerSpec, VpnSpec, RoutesSpec

\* Every variable of the application's parts keeps its type, for any constants:
\* flags stay flags, no counter leaves its bounds, a page that is not shown has
\* no stream, timer or countdown, and no call of a page signs in by itself.
THEOREM ShellTypes == Spec => []ShellTypeOK
BY PartsBehave, SseTypes, PriceTypes, UpdaterTypes, DepositsTyped, LanguageInvariant,
   AuthTypes, WalletTypes, SellerTypes, VpnTypes, PTL
   DEF ShellTypeOK, LanguageInv

\* The routes that go into the Android VPN's tunnel are the complement of the
\* networks that stay out of it, in the application as it is checked.
THEOREM EveryAddressRouted == Spec => []TunnelTakesTheRest
BY PartsBehave, RoutesComplement, PTL DEF TunnelTakesTheRest

\* What is proved of each part holds of the application as it is checked, with
\* the parts side by side.
THEOREM ShellSafe ==
    Spec => /\ [](OneDepositAtATime /\ SystemIsFollowed /\ WordsAreOfWallet
                    /\ EndedShowsDisconnected /\ RunningHasService /\ TunnelTakesTheRest)
            /\ PricesNeverGoBack /\ ProgressForward /\ CompletedIsFinal
BY PartsBehave, OneDeposit, SystemFollowed, WordsOfWallet, EndedIsDisconnected,
   EngineHasService, EveryAddressRouted, PricesAdvance, ProgressGrows, CompletedStays, PTL
=============================================================================
