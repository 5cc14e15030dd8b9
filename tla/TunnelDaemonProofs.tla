------------------------- MODULE TunnelDaemonProofs -------------------------
(***************************************************************************)
(* Proofs about TunnelDaemon for any set of connections: type correctness, *)
(* what a finished connection leaves behind, who owns the tunnel during a  *)
(* teardown, and the promise the daemon keeps towards a lone GUI and        *)
(* towards GUIs that come one after another.                               *)
(***************************************************************************)
EXTENDS TunnelDaemon, TLAPS

-----------------------------------------------------------------------------
(* The inductive invariant.                                                *)

\* The mutex is held across an await by exactly the task that tears down, and
\* the owner slot is empty for as long.
LockInv ==
    /\ \A c \in Conns : pc[c] = "teardown" <=> lock = c
    /\ lock # NoConn => owner = NoHolder

\* The registry and the owner slot name only connections whose task runs.
SlotInv ==
    \A c \in Conns :
        pc[c] \in {"none", "teardown", "gone"} => c \notin registered /\ owner.conn # c

\* A task exists from the moment its client has connected, and an active
\* tunnel comes from a connection that has.
LifeInv ==
    /\ \A c \in Conns : pc[c] = "none" <=> sock[c] = "fresh"
    /\ engine \in Active => starter.conn \in Conns /\ pc[starter.conn] # "none"

\* Where the owner slot may lag behind the engine, for a connection that is
\* alone: between an engine call and the recording of its result.
LoneInv(c) ==
    /\ pc[c] = "starting" => engine = "Starting"
    /\ engine \in Active =>
        /\ pc[c] \in {"read", "close", "start", "clear", "route", "swap_in", "begin",
                      "swap", "stop"} => owner = starter
        /\ pc[c] \in {"starting", "own", "reown"} => starter = [conn |-> c, stop |-> stopOnExit[c]]
        /\ pc[c] = "reown" => owner.conn = c
        /\ pc[c] # "disown"
        /\ pc[c] = "gone" => ~starter.stop

IInv ==
    /\ TypeOK
    /\ LockInv
    /\ SlotInv
    /\ LifeInv
    /\ \A c \in Conns : Lone(c) => LoneInv(c)

-----------------------------------------------------------------------------
(* What the shared building blocks of the actions do.                      *)

LEMMA HolderType ==
    ASSUME NEW c \in Conns, NEW b \in BOOLEAN
    PROVE  [conn |-> c, stop |-> b] \in Holder
BY DEF Holder

LEMMA ReplyType ==
    ASSUME TypeOK, NEW c \in Conns, Reply(c)
    PROVE  /\ pc' \in [Conns -> Phases]
           /\ stopOnExit' \in [Conns -> BOOLEAN]
           /\ pc'[c] \in {"read", "close"}
           /\ \A d \in Conns \ {c} : pc'[d] = pc[d] /\ stopOnExit'[d] = stopOnExit[d]
BY DEF TypeOK, Reply, AfterReply, Phases, ClosePhases

LEMMA GotoType ==
    ASSUME TypeOK, NEW c \in Conns, NEW phase \in Phases, Goto(c, phase)
    PROVE  /\ pc' \in [Conns -> Phases]
           /\ stopOnExit' = stopOnExit
           /\ pc'[c] = phase
           /\ \A d \in Conns \ {c} : pc'[d] = pc[d]
BY DEF TypeOK, Goto

LEMMA ReceiveType ==
    ASSUME TypeOK, NEW c \in Conns, Receive(c)
    PROVE  /\ pc' \in [Conns -> Phases]
           /\ stopOnExit' \in [Conns -> BOOLEAN]
           /\ unread' \in [Conns -> 0..MaxUnread]
           /\ pc'[c] \in {"read", "close", "start", "swap", "stop"}
           /\ \A d \in Conns \ {c} : pc'[d] = pc[d] /\ stopOnExit'[d] = stopOnExit[d]
<1>1. unread' \in [Conns -> 0..MaxUnread]
  BY MaxUnreadAssumption DEF TypeOK, Receive
<1>2. PICK r \in Requests :
        \/ r.op = "Query" /\ Reply(c)
        \/ /\ r.op # "Query"
           /\ pc' = [pc EXCEPT ![c] = FirstPhase(r.op)]
           /\ stopOnExit' = [stopOnExit EXCEPT ![c] = r.stop]
  BY DEF Receive
<1>3. CASE r.op = "Query" /\ Reply(c)
  BY <1>1, <1>3, ReplyType
<1>4. CASE /\ r.op # "Query"
           /\ pc' = [pc EXCEPT ![c] = FirstPhase(r.op)]
           /\ stopOnExit' = [stopOnExit EXCEPT ![c] = r.stop]
  <2>1. r.op \in {"StartTunnel", "HotSwapProxy", "StopTunnel", "Garbage"} /\ r.stop \in BOOLEAN
    BY <1>4 DEF Requests
  <2>2. FirstPhase(r.op) \in {"close", "start", "swap", "stop"}
    BY <2>1 DEF FirstPhase
  <2>3. FirstPhase(r.op) \in Phases
    BY <2>2 DEF Phases, StartPhases, SwapPhases, StopPhases, ClosePhases
  <2> QED
    BY <1>1, <1>4, <2>1, <2>2, <2>3 DEF TypeOK
<1> QED
  BY <1>2, <1>3, <1>4

LEMMA EngineType ==
    ASSUME TypeOK
    PROVE  /\ EngineStop => engine' \in EngineStates /\ starter' = NoHolder /\ engine' \notin Active
           /\ \A h \in Holder : EngineStart(h) => engine' \in EngineStates /\ starter' = h
           /\ \A h : EngineSwap(h) => engine' \in EngineStates /\ starter' = h
BY DEF TypeOK, EngineStop, EngineStart, EngineSwap, EngineStates, Active, Carrying

-----------------------------------------------------------------------------
(* Type correctness.                                                       *)

LEMMA InitType == Init => TypeOK
BY MaxUnreadAssumption DEF Init, TypeOK, EngineStates, Phases

LEMMA NextType == TypeOK /\ [Next]_vars => TypeOK'
<1> SUFFICES ASSUME TypeOK, [Next]_vars PROVE TypeOK'
  OBVIOUS
<1> USE DEF Phases, StartPhases, SwapPhases, StopPhases, ClosePhases
<1>1. ASSUME NEW c \in Conns, Connect(c) PROVE TypeOK'
  BY <1>1, HolderType, EngineType, ReplyType, GotoType DEF TypeOK, Connect
<1>2. ASSUME NEW c \in Conns, Hangup(c) PROVE TypeOK'
  BY <1>2, HolderType, EngineType, ReplyType, GotoType DEF TypeOK, Hangup
<1>3. ASSUME NEW c \in Conns, Receive(c) PROVE TypeOK'
  BY <1>3, ReceiveType DEF TypeOK, Receive
<1>4. ASSUME NEW c \in Conns, EndOfFile(c) PROVE TypeOK'
  BY <1>4, HolderType, EngineType, ReplyType, GotoType DEF TypeOK, EndOfFile
<1>5. ASSUME NEW c \in Conns, StartCheck(c) PROVE TypeOK'
  BY <1>5, HolderType, EngineType, ReplyType, GotoType DEF TypeOK, StartCheck
<1>6. ASSUME NEW c \in Conns, StartClear(c) PROVE TypeOK'
  BY <1>6, HolderType, EngineType, ReplyType, GotoType DEF TypeOK, StartClear
<1>7. ASSUME NEW c \in Conns, StartRoute(c) PROVE TypeOK'
  BY <1>7, HolderType, EngineType, ReplyType, GotoType DEF TypeOK, StartRoute
<1>8. ASSUME NEW c \in Conns, StartSwap(c) PROVE TypeOK'
  BY <1>8, HolderType, EngineType, ReplyType, GotoType DEF TypeOK, StartSwap
<1>9. ASSUME NEW c \in Conns, StartBegin(c) PROVE TypeOK'
  BY <1>9, HolderType, EngineType, ReplyType, GotoType DEF TypeOK, StartBegin
<1>10. ASSUME NEW c \in Conns, StartUp(c) PROVE TypeOK'
  BY <1>10, HolderType, EngineType, ReplyType, GotoType DEF TypeOK, StartUp, EngineStates
<1>11. ASSUME NEW c \in Conns, StartFails(c) PROVE TypeOK'
  BY <1>11, HolderType, EngineType, ReplyType, GotoType DEF TypeOK, StartFails, EngineStates
<1>12. ASSUME NEW c \in Conns, StartOwn(c) PROVE TypeOK'
  BY <1>12, HolderType, EngineType, ReplyType, GotoType DEF TypeOK, StartOwn
<1>13. ASSUME NEW c \in Conns, HotSwap(c) PROVE TypeOK'
  BY <1>13, HolderType, EngineType, ReplyType, GotoType DEF TypeOK, HotSwap
<1>14. ASSUME NEW c \in Conns, HotSwapReown(c) PROVE TypeOK'
  BY <1>14, HolderType, EngineType, ReplyType, GotoType DEF TypeOK, HotSwapReown
<1>15. ASSUME NEW c \in Conns, Stop(c) PROVE TypeOK'
  BY <1>15, HolderType, EngineType, ReplyType, GotoType DEF TypeOK, Stop
<1>16. ASSUME NEW c \in Conns, StopDisown(c) PROVE TypeOK'
  BY <1>16, HolderType, EngineType, ReplyType, GotoType DEF TypeOK, StopDisown
<1>17. ASSUME NEW c \in Conns, Unregister(c) PROVE TypeOK'
  BY <1>17, HolderType, EngineType, ReplyType, GotoType DEF TypeOK, Unregister
<1>18. ASSUME NEW c \in Conns, Disown(c) PROVE TypeOK'
  BY <1>18, HolderType, EngineType, ReplyType, GotoType DEF TypeOK, Disown
<1>19. ASSUME NEW c \in Conns, Teardown(c) PROVE TypeOK'
  BY <1>19, HolderType, EngineType, ReplyType, GotoType DEF TypeOK, Teardown
<1>20. CASE EngineEvent
  BY <1>20 DEF TypeOK, EngineEvent, EngineStates
<1>21. CASE UNCHANGED vars
  BY <1>21 DEF TypeOK, vars
<1> QED
  BY <1>1, <1>2, <1>3, <1>4, <1>5, <1>6, <1>7, <1>8, <1>9, <1>10, <1>11, <1>12, <1>13, <1>14, <1>15, <1>16, <1>17, <1>18, <1>19, <1>20, <1>21 DEF Next, Gui, Task

\* TunnelDaemon's type invariant holds for any set of connections and any
\* number of frames left unread.
THEOREM TypeCorrect == Spec => []TypeOK
BY InitType, NextType, PTL DEF Spec

-----------------------------------------------------------------------------
(* The owner slot, its mutex and the registry.                             *)

SafeInv == LockInv /\ SlotInv /\ LifeInv

LEMMA InitSafe == Init => SafeInv
BY NoConnAssumption DEF Init, SafeInv, LockInv, SlotInv, LifeInv, Active, Carrying, NoHolder

LEMMA NextSafe == TypeOK /\ SafeInv /\ [Next]_vars => SafeInv'
<1> SUFFICES ASSUME TypeOK, SafeInv, [Next]_vars PROVE SafeInv'
  OBVIOUS
<1> USE NoConnAssumption DEF SafeInv, LockInv, SlotInv, LifeInv, NoHolder
<1>1. ASSUME NEW c \in Conns, Connect(c) PROVE SafeInv'
  BY <1>1, EngineType, ReplyType, GotoType DEF TypeOK, Connect, Phases, StartPhases, SwapPhases, StopPhases, ClosePhases
<1>2. ASSUME NEW c \in Conns, Hangup(c) PROVE SafeInv'
  BY <1>2, EngineType, ReplyType, GotoType DEF TypeOK, Hangup, Phases, StartPhases, SwapPhases, StopPhases, ClosePhases
<1>3. ASSUME NEW c \in Conns, Receive(c) PROVE SafeInv'
  BY <1>3, EngineType, ReceiveType DEF TypeOK, Receive, Phases, StartPhases, SwapPhases, StopPhases, ClosePhases
<1>4. ASSUME NEW c \in Conns, EndOfFile(c) PROVE SafeInv'
  BY <1>4, EngineType, ReplyType, GotoType DEF TypeOK, EndOfFile, Phases, StartPhases, SwapPhases, StopPhases, ClosePhases
<1>5. ASSUME NEW c \in Conns, StartCheck(c) PROVE SafeInv'
  BY <1>5, EngineType, ReplyType, GotoType DEF TypeOK, StartCheck, Phases, StartPhases, SwapPhases, StopPhases, ClosePhases
<1>6. ASSUME NEW c \in Conns, StartClear(c) PROVE SafeInv'
  BY <1>6, EngineType, ReplyType, GotoType DEF TypeOK, StartClear, Phases, StartPhases, SwapPhases, StopPhases, ClosePhases
<1>7. ASSUME NEW c \in Conns, StartRoute(c) PROVE SafeInv'
  BY <1>7, EngineType, ReplyType, GotoType DEF TypeOK, StartRoute, Phases, StartPhases, SwapPhases, StopPhases, ClosePhases
<1>8. ASSUME NEW c \in Conns, StartSwap(c) PROVE SafeInv'
  BY <1>8, EngineType, ReplyType, GotoType DEF TypeOK, StartSwap, Phases, StartPhases, SwapPhases, StopPhases, ClosePhases
<1>9. ASSUME NEW c \in Conns, StartBegin(c) PROVE SafeInv'
  <2>1. starter' = [conn |-> c, stop |-> stopOnExit[c]]
    BY <1>9, EngineType, HolderType DEF TypeOK, StartBegin
  <2>2. pc[c] = "begin" /\ pc'[c] = "starting" /\ \A d \in Conns \ {c} : pc'[d] = pc[d]
    BY <1>9, GotoType DEF StartBegin, Phases, StartPhases, SwapPhases, StopPhases, ClosePhases
  <2> QED
    BY <1>9, <2>1, <2>2 DEF StartBegin
<1>10. ASSUME NEW c \in Conns, StartUp(c) PROVE SafeInv'
  BY <1>10, GotoType DEF TypeOK, StartUp, Starting, Active, Carrying, Phases, StartPhases, SwapPhases, StopPhases, ClosePhases
<1>11. ASSUME NEW c \in Conns, StartFails(c) PROVE SafeInv'
  <2>1. /\ pc[c] \in {"swap_in", "begin", "starting"} /\ pc'[c] \in {"read", "close"}
        /\ \A d \in Conns \ {c} : pc'[d] = pc[d]
    BY <1>11, ReplyType DEF StartFails
  <2>2. engine' \in Active => engine' = engine /\ starter' = starter
    BY <1>11 DEF StartFails, Active, Carrying
  <2> QED
    BY <1>11, <2>1, <2>2 DEF StartFails, TypeOK
<1>12. ASSUME NEW c \in Conns, StartOwn(c) PROVE SafeInv'
  BY <1>12, EngineType, ReplyType, GotoType DEF TypeOK, StartOwn, Phases, StartPhases, SwapPhases, StopPhases, ClosePhases
<1>13. ASSUME NEW c \in Conns, HotSwap(c) PROVE SafeInv'
  <2>1. /\ pc[c] = "swap" /\ pc'[c] \in {"read", "close", "reown"}
        /\ \A d \in Conns \ {c} : pc'[d] = pc[d]
    BY <1>13, ReplyType, GotoType DEF HotSwap, Phases, StartPhases, SwapPhases, StopPhases, ClosePhases
  <2>2. engine' = engine /\ starter'.conn = starter.conn
    BY <1>13 DEF HotSwap, EngineSwap
  <2> QED
    BY <1>13, <2>1, <2>2 DEF HotSwap, TypeOK
<1>14. ASSUME NEW c \in Conns, HotSwapReown(c) PROVE SafeInv'
  BY <1>14, EngineType, ReplyType, GotoType DEF TypeOK, HotSwapReown, Phases, StartPhases, SwapPhases, StopPhases, ClosePhases
<1>15. ASSUME NEW c \in Conns, Stop(c) PROVE SafeInv'
  BY <1>15, EngineType, ReplyType, GotoType DEF TypeOK, Stop, Phases, StartPhases, SwapPhases, StopPhases, ClosePhases
<1>16. ASSUME NEW c \in Conns, StopDisown(c) PROVE SafeInv'
  BY <1>16, EngineType, ReplyType, GotoType DEF TypeOK, StopDisown, Phases, StartPhases, SwapPhases, StopPhases, ClosePhases
<1>17. ASSUME NEW c \in Conns, Unregister(c) PROVE SafeInv'
  BY <1>17, EngineType, ReplyType, GotoType DEF TypeOK, Unregister, Phases, StartPhases, SwapPhases, StopPhases, ClosePhases
<1>18. ASSUME NEW c \in Conns, Disown(c) PROVE SafeInv'
  BY <1>18, EngineType, ReplyType, GotoType DEF TypeOK, Disown, Phases, StartPhases, SwapPhases, StopPhases, ClosePhases
<1>19. ASSUME NEW c \in Conns, Teardown(c) PROVE SafeInv'
  BY <1>19, EngineType, ReplyType, GotoType DEF TypeOK, Teardown, Phases, StartPhases, SwapPhases, StopPhases, ClosePhases
<1>20. CASE EngineEvent
  BY <1>20 DEF TypeOK, EngineEvent, Active, Carrying
<1>21. CASE UNCHANGED vars
  BY <1>21 DEF vars
<1> QED
  BY <1>1, <1>2, <1>3, <1>4, <1>5, <1>6, <1>7, <1>8, <1>9, <1>10, <1>11, <1>12, <1>13, <1>14, <1>15, <1>16, <1>17, <1>18, <1>19, <1>20, <1>21 DEF Next, Gui, Task

\* A finished connection is neither registered, nor owner, nor holder of the
\* owner's mutex, for any set of connections.
THEOREM FinishedConnections == Spec => []FinishedLeavesNothing
<1>1. TypeOK /\ SafeInv => FinishedLeavesNothing
  BY DEF SafeInv, LockInv, SlotInv, FinishedLeavesNothing
<1> QED
  BY <1>1, InitType, NextType, InitSafe, NextSafe, PTL DEF Spec

\* No connection owns the tunnel while another's exit takes it down.
THEOREM TeardownUnowned == Spec => []NoOwnerDuringTeardown
<1>1. TypeOK /\ SafeInv => NoOwnerDuringTeardown
  BY NoConnAssumption DEF TypeOK, SafeInv, LockInv, NoOwnerDuringTeardown
<1> QED
  BY <1>1, InitType, NextType, InitSafe, NextSafe, PTL DEF Spec

-----------------------------------------------------------------------------
(* The promise towards a lone GUI.                                         *)

LEMMA InitLone == Init => \A c \in Conns : Lone(c) => LoneInv(c)
BY DEF Init, LoneInv, Active, Carrying

\* While c is alone no other task exists, so a step is one of c's own, of the
\* engine, or the arrival of a second GUI, after which c is not alone.
LEMMA OthersIdle ==
    ASSUME TypeOK, SafeInv, NEW c \in Conns, Lone(c), NEW d \in Conns, Task(d) \/ Hangup(d)
    PROVE  d = c
<1>1. pc[d] # "none" \/ sock[d] # "fresh"
  BY DEF Task, Hangup, Receive, EndOfFile, StartCheck, StartClear, StartRoute, StartSwap,
         StartBegin, StartUp, StartFails, StartOwn, HotSwap, HotSwapReown, Stop, StopDisown,
         Unregister, Disown, Teardown
<1> QED
  BY <1>1 DEF SafeInv, LifeInv, Lone

LEMMA StaysLone ==
    ASSUME TypeOK, NEW c \in Conns, Lone(c)', [Next]_vars
    PROVE  Lone(c)
<1>1. \A d \in Conns : sock'[d] = "fresh" => sock[d] = "fresh"
  BY DEF TypeOK, Next, Gui, Task, vars, Connect, Hangup, Receive, EndOfFile, StartCheck,
         StartClear, StartRoute, StartSwap, StartBegin, StartUp, StartFails, StartOwn, HotSwap,
         HotSwapReown, Stop, StopDisown, Unregister, Disown, Teardown, EngineEvent
<1> QED
  BY <1>1 DEF Lone

LEMMA NextLone ==
    ASSUME TypeOK, SafeInv, [Next]_vars,
           NEW c \in Conns, Lone(c), LoneInv(c), Lone(c)'
    PROVE  LoneInv(c)'
<1> USE DEF LoneInv, Active, Carrying
<1>0. engine \in Active => starter.conn = c
  BY DEF SafeInv, LifeInv, Lone
<1>1. ASSUME NEW d \in Conns, Connect(d) PROVE LoneInv(c)'
  BY <1>1, <1>0 DEF Connect, TypeOK, Lone, SafeInv, LifeInv
<1>2. CASE Hangup(c)
  BY <1>2, <1>0, ReplyType, GotoType, EngineType, HolderType DEF TypeOK, Hangup, Phases, StartPhases, SwapPhases, StopPhases, ClosePhases
<1>3. CASE Receive(c)
  BY <1>3, <1>0, ReceiveType DEF TypeOK, Receive, Phases, StartPhases, SwapPhases, StopPhases, ClosePhases
<1>4. CASE EndOfFile(c)
  BY <1>4, <1>0, ReplyType, GotoType, EngineType, HolderType DEF TypeOK, EndOfFile, Phases, StartPhases, SwapPhases, StopPhases, ClosePhases
<1>5. CASE StartCheck(c)
  BY <1>5, <1>0, ReplyType, GotoType, EngineType, HolderType DEF TypeOK, StartCheck, Phases, StartPhases, SwapPhases, StopPhases, ClosePhases
<1>6. CASE StartClear(c)
  BY <1>6, <1>0, ReplyType, GotoType, EngineType, HolderType DEF TypeOK, StartClear, Phases, StartPhases, SwapPhases, StopPhases, ClosePhases
<1>7. CASE StartRoute(c)
  BY <1>7, <1>0, ReplyType, GotoType, EngineType, HolderType DEF TypeOK, StartRoute, Phases, StartPhases, SwapPhases, StopPhases, ClosePhases
<1>8. CASE StartSwap(c)
  BY <1>8, <1>0, ReplyType, GotoType, EngineType, HolderType DEF TypeOK, StartSwap, Phases, StartPhases, SwapPhases, StopPhases, ClosePhases
<1>9. CASE StartBegin(c)
  <2>1. starter' = [conn |-> c, stop |-> stopOnExit[c]] /\ engine' = "Starting"
    BY <1>9 DEF StartBegin, EngineStart
  <2>2. pc'[c] = "starting" /\ stopOnExit' = stopOnExit
    BY <1>9, GotoType DEF StartBegin, Phases, StartPhases, SwapPhases, StopPhases, ClosePhases
  <2> QED
    BY <2>1, <2>2
<1>10. CASE StartUp(c)
  <2>1. pc[c] = "starting" /\ pc'[c] = "own" /\ stopOnExit' = stopOnExit
    BY <1>10, GotoType DEF StartUp, Phases, StartPhases, SwapPhases, StopPhases, ClosePhases
  <2> QED
    BY <1>10, <2>1 DEF StartUp, Starting
<1>11. CASE StartFails(c)
  <2>1. pc[c] \in {"swap_in", "begin", "starting"} /\ pc'[c] \in {"read", "close"}
    BY <1>11, ReplyType DEF StartFails
  <2>2. engine' \in Active => pc[c] # "starting" /\ engine' = engine /\ starter' = starter
    <3>1. pc[c] = "starting" => Starting(c)
      BY <1>0 DEF Starting
    <3>2. CASE pc[c] = "starting"
      BY <1>11, <3>1, <3>2 DEF StartFails
    <3>3. CASE pc[c] # "starting"
      BY <1>11, <3>3 DEF StartFails
    <3> QED
      BY <3>2, <3>3
  <2> QED
    BY <1>11, <2>1, <2>2 DEF StartFails
<1>12. CASE StartOwn(c)
  BY <1>12, <1>0, ReplyType, GotoType, EngineType, HolderType DEF TypeOK, StartOwn, Phases, StartPhases, SwapPhases, StopPhases, ClosePhases
<1>13. CASE HotSwap(c)
  <2>1. CASE Reply(c) /\ UNCHANGED <<engine, starter>>
    BY <1>13, <2>1, ReplyType DEF HotSwap
  <2>2. CASE /\ EngineSwap(IF starter.conn = c
                           THEN [conn |-> c, stop |-> stopOnExit[c]] ELSE starter)
             /\ Goto(c, "reown")
    <3>1. pc[c] = "swap" /\ pc'[c] = "reown" /\ stopOnExit' = stopOnExit /\ owner' = owner
      BY <1>13, <2>2, GotoType DEF HotSwap, Phases, StartPhases, SwapPhases, StopPhases, ClosePhases
    <3>2. engine' = engine /\ starter' = [conn |-> c, stop |-> stopOnExit[c]] /\ owner = starter
      BY <1>0, <2>2, <3>1 DEF EngineSwap
    <3> QED
      BY <1>0, <2>2, <3>1, <3>2 DEF EngineSwap
  <2> QED
    BY <1>13, <2>1, <2>2 DEF HotSwap
<1>14. CASE HotSwapReown(c)
  BY <1>14, <1>0, ReplyType, GotoType, EngineType, HolderType DEF TypeOK, HotSwapReown, Phases, StartPhases, SwapPhases, StopPhases, ClosePhases
<1>15. CASE Stop(c)
  BY <1>15, <1>0, ReplyType, GotoType, EngineType, HolderType DEF TypeOK, Stop, Phases, StartPhases, SwapPhases, StopPhases, ClosePhases
<1>16. CASE StopDisown(c)
  BY <1>16, <1>0, ReplyType, GotoType, EngineType, HolderType DEF TypeOK, StopDisown, Phases, StartPhases, SwapPhases, StopPhases, ClosePhases
<1>17. CASE Unregister(c)
  BY <1>17, <1>0, ReplyType, GotoType, EngineType, HolderType DEF TypeOK, Unregister, Phases, StartPhases, SwapPhases, StopPhases, ClosePhases
<1>18. CASE Disown(c)
  BY <1>18, <1>0, ReplyType, GotoType, EngineType, HolderType DEF TypeOK, Disown, Phases, StartPhases, SwapPhases, StopPhases, ClosePhases
<1>19. CASE Teardown(c)
  BY <1>19, <1>0, ReplyType, GotoType, EngineType, HolderType DEF TypeOK, Teardown, Phases, StartPhases, SwapPhases, StopPhases, ClosePhases
<1>20. CASE EngineEvent
  BY <1>20 DEF EngineEvent
<1>21. CASE UNCHANGED vars
  BY <1>21 DEF vars
<1> QED
  BY OthersIdle, <1>1, <1>2, <1>3, <1>4, <1>5, <1>6, <1>7, <1>8, <1>9, <1>10, <1>11, <1>12, <1>13, <1>14, <1>15, <1>16, <1>17, <1>18, <1>19, <1>20, <1>21 DEF Next, Gui, Task

\* The module comment of ipc_server.rs for a daemon that has seen one GUI
\* connection, whatever that GUI sends and however the engine's calls end.
THEOREM LoneGuiTeardown == Spec => []LoneGuiOwnsTunnel
<1>1. Init => IInv
  BY InitType, InitSafe, InitLone DEF IInv, SafeInv
<1>2. IInv /\ [Next]_vars => IInv'
  <2> SUFFICES ASSUME IInv, [Next]_vars PROVE IInv'
    OBVIOUS
  <2>1. TypeOK' /\ SafeInv'
    BY NextType, NextSafe DEF IInv, SafeInv
  <2>2. ASSUME NEW c \in Conns, Lone(c)' PROVE LoneInv(c)'
    BY <2>2, StaysLone, NextLone DEF IInv, SafeInv
  <2> QED
    BY <2>1, <2>2 DEF IInv, SafeInv
<1>3. IInv => LoneGuiOwnsTunnel
  BY DEF IInv, LifeInv, Lone, LoneInv, LoneGuiOwnsTunnel, Active, Carrying
<1> QED
  BY <1>1, <1>2, <1>3, PTL DEF Spec
-----------------------------------------------------------------------------
(* The promise towards GUIs that follow one another.                       *)

\* A connection that has not come yet, or whose end has been noticed.
Away == {"none", "close", "teardown", "gone"}

\* Two connections' requests are never handled at once: a new GUI comes when
\* the server has read the end of the one before, if not yet cleaned up.
OneServed == \A c, d \in Conns : pc[c] \notin Away /\ pc[d] \notin Away => c = d

\* Whose tunnel is up has its config in the slot, but for a step that is yet
\* to record it; a teardown under way may still hit a successor's start.
TurnInv(c) ==
    engine \in Active =>
        /\ pc[c] = "starting" => engine = "Starting"
        /\ pc[c] \in {"starting", "own"} => starter = [conn |-> c, stop |-> stopOnExit[c]]
        /\ pc[c] # "disown"
        /\ starter.conn = c =>
             /\ pc[c] \in {"read", "close", "start", "clear", "route", "swap_in", "begin",
                           "swap", "stop"} => owner = starter
             /\ pc[c] = "reown" => starter.stop = stopOnExit[c] /\ owner.conn = c
             /\ pc[c] = "gone" => ~starter.stop

(* A step of the connection itself.                                        *)
LEMMA OwnTurn ==
    ASSUME TypeOK, SafeInv, NEW c \in Conns, Gui(c) \/ Task(c), TurnInv(c)
    PROVE  TurnInv(c)'
<1> USE DEF TurnInv, Active, Carrying, Phases, StartPhases, SwapPhases, StopPhases, ClosePhases
<1>0. starter \in Holder \cup {NoHolder} /\ owner \in Holder \cup {NoHolder} /\ NoConn # c
  BY NoConnAssumption DEF TypeOK
<1>1. CASE Connect(c)
  BY <1>1 DEF Connect, TypeOK, SafeInv, LifeInv
<1>2. CASE Hangup(c)
  BY <1>2 DEF Hangup
<1>3. CASE Receive(c)
  BY <1>3, ReceiveType DEF Receive
<1>4. CASE EndOfFile(c)
  BY <1>4, GotoType DEF EndOfFile
<1>5. CASE StartCheck(c)
  BY <1>5, GotoType DEF StartCheck
<1>6. CASE StartClear(c)
  BY <1>6, EngineType DEF StartClear
<1>7. CASE StartRoute(c)
  BY <1>7, GotoType, ReplyType DEF StartRoute
<1>8. CASE StartSwap(c)
  BY <1>8, GotoType DEF StartSwap, EngineSwap
<1>9. CASE StartBegin(c)
  BY <1>9, GotoType DEF StartBegin, EngineStart
<1>10. CASE StartUp(c)
  BY <1>10, GotoType DEF StartUp, Starting
<1>11. CASE StartFails(c)
  <2>1. pc[c] \in {"swap_in", "begin", "starting"} /\ pc'[c] \in {"read", "close"} /\ owner' = owner
    BY <1>11, ReplyType DEF StartFails
  <2>2. engine' \in Active => pc[c] # "starting" /\ engine' = engine /\ starter' = starter
    BY <1>11 DEF StartFails, Starting
  <2> QED BY <2>1, <2>2
<1>12. CASE StartOwn(c)
  BY <1>12, ReplyType DEF StartOwn
<1>13. CASE HotSwap(c)
  <2>1. CASE Reply(c) /\ UNCHANGED <<engine, starter>>
    BY <1>13, <2>1, ReplyType DEF HotSwap
  <2>2. CASE /\ EngineSwap(IF starter.conn = c
                           THEN [conn |-> c, stop |-> stopOnExit[c]] ELSE starter)
             /\ Goto(c, "reown")
    <3>1. pc[c] = "swap" /\ pc'[c] = "reown" /\ stopOnExit' = stopOnExit /\ owner' = owner
      BY <1>13, <2>2, GotoType DEF HotSwap
    <3>2. engine' = engine
          /\ starter' = IF starter.conn = c THEN [conn |-> c, stop |-> stopOnExit[c]] ELSE starter
      BY <2>2 DEF EngineSwap
    <3> QED BY <3>1, <3>2
  <2> QED BY <1>13, <2>1, <2>2 DEF HotSwap
<1>14. CASE HotSwapReown(c)
  <2>1. pc[c] = "reown" /\ pc'[c] \in {"read", "close"} /\ UNCHANGED <<engine, starter>>
        /\ owner' = IF owner.conn = c THEN [conn |-> c, stop |-> stopOnExit[c]] ELSE owner
    BY <1>14, ReplyType DEF HotSwapReown
  <2>2. starter.conn = c => starter = [conn |-> c, stop |-> starter.stop]
    BY <1>0 DEF Holder, NoHolder
  <2> QED BY <2>1, <2>2
<1>15. CASE Stop(c)
  BY <1>15, EngineType DEF Stop
<1>16. CASE StopDisown(c)
  BY <1>16, ReplyType DEF StopDisown
<1>17. CASE Unregister(c)
  BY <1>17 DEF Unregister
<1>18. CASE Disown(c)
  BY <1>18, GotoType DEF Disown
<1>19. CASE Teardown(c)
  BY <1>19, EngineType DEF Teardown
<1> QED
  BY <1>1, <1>2, <1>3, <1>4, <1>5, <1>6, <1>7, <1>8, <1>9, <1>10, <1>11, <1>12, <1>13, <1>14,
     <1>15, <1>16, <1>17, <1>18, <1>19 DEF Gui, Task

(* A step of another: it is served and this one is away, or it is leaving. *)
LEMMA OthersTurn ==
    ASSUME TypeOK, SafeInv, OneServed, NEW c \in Conns, NEW d \in Conns \ {c},
           Gui(d) \/ Task(d), TurnInv(c), TurnInv(d)
    PROVE  TurnInv(c)'
<1> USE DEF TurnInv, Active, Carrying, Phases, StartPhases, SwapPhases, StopPhases, ClosePhases
<1>0. /\ starter \in Holder \cup {NoHolder} /\ owner \in Holder \cup {NoHolder} /\ NoConn # c
      /\ pc[d] \notin Away => pc[c] \in Away
  BY NoConnAssumption DEF TypeOK, OneServed
<1>1. pc'[c] = pc[c] /\ stopOnExit'[c] = stopOnExit[c]
  <2>1. CASE Gui(d)
    BY <2>1 DEF Gui, Connect, Hangup, TypeOK
  <2>2. CASE Receive(d)
    BY <2>2, ReceiveType
  <2>3. CASE \/ EndOfFile(d) \/ StartCheck(d) \/ StartClear(d) \/ StartSwap(d) \/ StartBegin(d)
             \/ StartUp(d) \/ Stop(d) \/ Unregister(d) \/ Disown(d) \/ Teardown(d)
    BY <2>3 DEF TypeOK, EndOfFile, StartCheck, StartClear, StartSwap, StartBegin, StartUp, Stop,
       Unregister, Disown, Teardown, Goto
  <2>4. CASE \/ StartRoute(d) \/ StartFails(d) \/ StartOwn(d) \/ HotSwap(d) \/ HotSwapReown(d)
             \/ StopDisown(d)
    BY <2>4 DEF TypeOK, StartRoute, StartFails, StartOwn, HotSwap, HotSwapReown, StopDisown, Goto,
       Reply
  <2> QED BY <2>1, <2>2, <2>3, <2>4 DEF Task
<1>2. CASE \/ Gui(d) \/ Receive(d) \/ EndOfFile(d) \/ StartCheck(d) \/ StartRoute(d) \/ Unregister(d)
  BY <1>1, <1>2 DEF Gui, Connect, Hangup, Receive, EndOfFile, StartCheck, StartRoute, Unregister
<1>3. CASE StartClear(d) \/ Stop(d) \/ Teardown(d)
  BY <1>3, EngineType DEF StartClear, Stop, Teardown
<1>4. CASE StartSwap(d) \/ StartBegin(d) \/ StartUp(d)
  <2>1. pc[c] \in Away /\ starter'.conn = d
    BY <1>0, <1>4 DEF StartSwap, StartBegin, StartUp, EngineSwap, EngineStart, Starting, Away
  <2> QED BY <1>1, <2>1 DEF Away
<1>5. CASE StartFails(d)
  <2>1. pc[c] \in Away /\ owner' = owner
    BY <1>0, <1>5 DEF StartFails, Away
  <2>2. engine' \in Active => engine' = engine /\ starter' = starter
    BY <1>5 DEF StartFails
  <2> QED BY <1>1, <2>1, <2>2
<1>6. CASE StartOwn(d)
  <2>1. pc[c] \in Away /\ UNCHANGED <<engine, starter>> /\ pc[d] = "own"
    BY <1>0, <1>6 DEF StartOwn, Away
  <2>2. engine \in Active => starter.conn = d
    BY <2>1
  <2> QED BY <1>1, <2>1, <2>2 DEF Away
<1>7. CASE HotSwap(d)
  <2>1. pc[c] \in Away /\ UNCHANGED <<engine, owner>>
    BY <1>0, <1>7 DEF HotSwap, EngineSwap, Away
  <2>2. starter' = starter \/ starter'.conn = d
    BY <1>7 DEF HotSwap, EngineSwap
  <2> QED BY <1>1, <2>1, <2>2 DEF Away
<1>8. CASE HotSwapReown(d)
  <2>1. pc[c] \in Away /\ UNCHANGED <<engine, starter>> /\ (owner.conn # d => owner' = owner)
    BY <1>0, <1>8 DEF HotSwapReown, Away
  <2> QED BY <1>1, <2>1 DEF Away
<1>9. CASE StopDisown(d)
  <2>1. engine' \notin Active
    BY <1>9 DEF StopDisown
  <2> QED BY <2>1
<1>10. CASE Disown(d)
  <2>1. UNCHANGED <<engine, starter>> /\ (owner.conn # d => owner' = owner)
    BY <1>10 DEF Disown
  <2> QED BY <1>1, <2>1
<1> QED
  BY <1>2, <1>3, <1>4, <1>5, <1>6, <1>7, <1>8, <1>9, <1>10 DEF Task

\* The module comment of ipc_server.rs as it stands, as long as GUIs come one
\* after another, even if each comes before the server has cleaned up after the
\* one before: no tunnel started with stop_on_gui_exit survives its GUI.
THEOREM GuisInTurn == Spec /\ []OneServed => []IssuerExitStopsTunnel
<1> DEFINE Turns == \A c \in Conns : TurnInv(c)
<1>1. Init => Turns
  BY DEF Init, TurnInv, Active, Carrying
<1>2. TypeOK /\ SafeInv /\ OneServed /\ Turns /\ [Next]_vars => Turns'
  <2> SUFFICES ASSUME TypeOK, SafeInv, OneServed, Turns, [Next]_vars, NEW c \in Conns
               PROVE  TurnInv(c)'
    OBVIOUS
  <2>1. CASE Gui(c) \/ Task(c)
    BY <2>1, OwnTurn
  <2>2. ASSUME NEW d \in Conns, d # c, Gui(d) \/ Task(d) PROVE TurnInv(c)'
    BY <2>2, OthersTurn
  <2>3. CASE EngineEvent
    BY <2>3 DEF EngineEvent, TurnInv, Active, Carrying
  <2>4. CASE UNCHANGED vars
    BY <2>4 DEF vars, TurnInv
  <2> QED BY <2>1, <2>2, <2>3, <2>4 DEF Next
<1>3. Turns => IssuerExitStopsTunnel
  BY DEF TurnInv, IssuerExitStopsTunnel
<1> HIDE DEF Turns
<1> QED
  BY <1>1, <1>2, <1>3, InitType, NextType, InitSafe, NextSafe, PTL DEF Spec
=============================================================================
