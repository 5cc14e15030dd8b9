------------------------- MODULE TunnelClientProofs -------------------------
(***************************************************************************)
(* Proofs about TunnelClient, for any number of callers and connections:   *)
(* prompts and connection attempts are exclusive, the writer is that of    *)
(* the newest connection, and what keeps a stale reader off it.            *)
(***************************************************************************)
EXTENDS TunnelClient, TLAPS

\* elevate_and_poll is entered only by calls that allow elevation.
MayElevate == \A k \in Callers :
    phase[k] \in {"elevate", "prompt"} \cup PollPhases => k \in Elevated

\* The flag is up while a prompt is open, so no second one can be opened.
PromptFlagged == \A k \in Callers :
    phase[k] = "prompt" => elevating /\ \A l \in Callers \ {k} : phase[l] # "prompt"

\* A caller that opens a connection because there is none holds the mutex.
ConnectorLocks == \A k \in Callers : phase[k] \in ConnectPhases => connecting = k

IInv == TypeOK /\ MayElevate /\ PromptFlagged /\ ConnectorLocks

-----------------------------------------------------------------------------
LEMMA InitInv == Init => IInv
<1> SUFFICES ASSUME Init PROVE IInv
  OBVIOUS
<1> USE DEF Init, ConnectPhases, PollPhases
<1>1. TypeOK
  <2>1. elevating \in BOOLEAN /\ overlapped \in BOOLEAN
    BY Zenon
  <2>2. reader \in [Gens -> ReaderPhases] /\ phase \in [Callers -> CallPhases]
    BY DEF ReaderPhases, CallPhases
  <2> QED BY <2>1, <2>2, MaxGenAssumption DEF TypeOK
<1>2. MayElevate /\ PromptFlagged /\ ConnectorLocks
  BY DEF MayElevate, PromptFlagged, ConnectorLocks
<1> QED BY <1>1, <1>2 DEF IInv

(* A step that moves caller k to phase p and touches the flag and the mutex *)
(* only as it may.                                                          *)
LEMMA Moves ==
    ASSUME IInv, NEW k \in Callers, NEW p,
           phase' = [phase EXCEPT ![k] = p],
           p \in {"elevate", "prompt"} \cup PollPhases => k \in Elevated,
           p = "prompt" => ~elevating /\ elevating',
           p # "prompt" => elevating' = elevating \/ phase[k] = "prompt",
           p \in ConnectPhases => connecting' = k,
           connecting' = connecting \/ connecting \in {k, NoCaller}
    PROVE  MayElevate' /\ PromptFlagged' /\ ConnectorLocks'
<1> USE DEF IInv, TypeOK
<1>1. MayElevate'
  BY DEF MayElevate
<1>2. PromptFlagged'
  BY DEF PromptFlagged
<1>3. ConnectorLocks'
  BY CallerAssumption DEF ConnectorLocks
<1> QED BY <1>1, <1>2, <1>3

(* A step that moves no caller.                                            *)
LEMMA Stays ==
    ASSUME IInv, UNCHANGED <<phase, elevating, connecting>>
    PROVE  MayElevate' /\ PromptFlagged' /\ ConnectorLocks'
BY DEF IInv, MayElevate, PromptFlagged, ConnectorLocks

(* Opening a stream takes a fresh generation.                              *)
LEMMA OpenedTypes ==
    ASSUME TypeOK, NEW k \in Callers, NEW p \in CallPhases, Opened(k, p)
    PROVE  /\ writer' \in 0..MaxGen /\ generation' \in 0..MaxGen
           /\ up' \subseteq Gens
           /\ reader' \in [Gens -> ReaderPhases]
           /\ phase' \in [Callers -> CallPhases]
           /\ mine' \in [Callers -> 0..MaxGen]
           /\ overlapped' \in BOOLEAN
<1> USE DEF Opened, TypeOK
<1>1. generation' \in 1..MaxGen
  BY MaxGenAssumption
<1>2. up' \subseteq Gens /\ generation' \in 0..MaxGen
  BY <1>1, MaxGenAssumption DEF Gens
<1>3. phase' \in [Callers -> CallPhases]
  BY DEF Goto
<1>4. mine' \in [Callers -> 0..MaxGen]
  BY <1>2
<1>5. overlapped' \in BOOLEAN
  BY Zenon
<1> QED BY <1>2, <1>3, <1>4, <1>5

-----------------------------------------------------------------------------
LEMMA CallStepInv ==
    ASSUME IInv, NEW k \in Callers, Call(k) \/ CallStep(k)
    PROVE  IInv'
<1> USE DEF Goto, ConnectPhases, PollPhases
<1> DEFINE Rest == MayElevate' /\ PromptFlagged' /\ ConnectorLocks'
<1>0. MayElevate /\ ConnectorLocks /\ TypeOK
  BY DEF IInv
<1>1. CASE Call(k)
  <2>1. TypeOK'
    BY <1>0, <1>1 DEF Call, TypeOK, CallPhases, connVars
  <2> QED BY <1>1, <2>1, Moves DEF Call, IInv
<1>2. CASE Check(k)
  <2>1. TypeOK'
    BY <1>0, <1>2 DEF Check, Warm, TypeOK, CallPhases, connVars
  <2>2. Rest
    <3>1. CASE writer # 0
      BY <1>2, <3>1, Moves DEF Check, Warm
    <3>2. CASE writer = 0
      BY <1>2, <3>2, Moves DEF Check
    <3> QED BY <3>1, <3>2
  <2> QED BY <2>1, <2>2 DEF IInv
<1>3. CASE Lock(k)
  <2>1. TypeOK'
    BY <1>0, <1>3 DEF Lock, Warm, TypeOK, CallPhases, connVars
  <2>2. Rest
    <3>1. CASE writer # 0
      BY <1>3, <3>1, Moves DEF Lock, Warm
    <3>2. CASE writer = 0
      BY <1>3, <3>2, Moves DEF Lock
    <3> QED BY <3>1, <3>2
  <2> QED BY <2>1, <2>2 DEF IInv
<1>4. CASE Open(k)
  <2>1. TypeOK'
    <3>1. CASE Opened(k, "install") /\ UNCHANGED connecting
      BY <1>0, <1>4, <3>1, OpenedTypes DEF Open, TypeOK, CallPhases
    <3>2. CASE UNCHANGED <<connVars, mine, overlapped>>
      BY <1>0, <1>4, <3>2 DEF Open, Opened, Fail, Unlock, TypeOK, CallPhases, connVars
    <3> QED BY <1>4, <3>1, <3>2 DEF Open
  <2>2. Rest
    <3>1. CASE Opened(k, "install") /\ UNCHANGED connecting
      BY <1>0, <1>4, <3>1, Moves DEF Open, Opened, ConnectorLocks
    <3>2. CASE k \in Elevated /\ Goto(k, "elevate") /\ UNCHANGED connecting
      BY <1>4, <3>2, Moves DEF Open
    <3>3. CASE Fail(k)
      BY <1>4, <3>3, Moves DEF Open, Fail, Unlock
    <3> QED BY <1>4, <3>1, <3>2, <3>3 DEF Open
  <2> QED BY <2>1, <2>2 DEF IInv
<1>5. CASE Install(k)
  <2>1. TypeOK'
    <3>1. reader' \in [Gens -> ReaderPhases]
      BY <1>0, <1>5 DEF Install, Installed, TypeOK, ReaderPhases
    <3> QED BY <1>0, <1>5, <3>1, MaxGenAssumption DEF Install, Installed, TypeOK, CallPhases
  <2> QED BY <1>5, <2>1, Moves DEF Install, Installed, IInv
<1>6. CASE Ping(k)
  <2>1. TypeOK'
    BY <1>0, <1>6, MaxGenAssumption
       DEF Ping, Write, PingBad, Reset, Fail, Unlock, TypeOK, CallPhases, connVars
  <2>2. Rest
    <3>1. CASE Write(k, "pong") /\ UNCHANGED <<connVars, connecting>>
      BY <1>6, <3>1, Moves DEF Ping, Write
    <3>2. CASE PingBad(k)
      BY <1>6, <3>2, Moves DEF Ping, PingBad, Fail, Unlock
    <3> QED BY <1>6, <3>1, <3>2 DEF Ping
  <2> QED BY <2>1, <2>2 DEF IInv
<1>7. CASE Pong(k)
  <2>1. TypeOK'
    BY <1>0, <1>7, MaxGenAssumption
       DEF Pong, Settle, PingBad, Reset, Fail, Unlock, TypeOK, CallPhases, connVars
  <2>2. Rest
    <3>1. CASE Goto(k, "send") /\ Unlock(k)
      BY <1>7, <3>1, Moves DEF Pong, Unlock
    <3>2. CASE PingBad(k)
      BY <1>7, <3>2, Moves DEF Pong, PingBad, Fail, Unlock
    <3> QED BY <1>7, <3>1, <3>2 DEF Pong
  <2> QED BY <2>1, <2>2 DEF IInv
<1>8. CASE Send(k)
  <2>1. TypeOK'
    BY <1>0, <1>8 DEF Send, Write, TypeOK, CallPhases, connVars
  <2> QED BY <1>8, <2>1, Moves DEF Send, Write, IInv
<1>9. CASE Retry(k)
  <2>1. TypeOK'
    BY <1>0, <1>9, MaxGenAssumption DEF Retry, Settle, Reset, TypeOK, CallPhases
  <2>2. Rest
    <3>1. CASE attempt[k] = 0
      BY <1>9, <3>1, Moves DEF Retry
    <3>2. CASE attempt[k] # 0
      BY <1>9, <3>2, Moves DEF Retry
    <3> QED BY <3>1, <3>2
  <2> QED BY <2>1, <2>2 DEF IInv
<1>10. CASE Kept(k) \/ Return(k)
  <2>1. TypeOK'
    BY <1>0, <1>10, MaxGenAssumption DEF Kept, Return, Settle, TypeOK, CallPhases, connVars
  <2> QED BY <1>10, <2>1, Moves DEF Kept, Return, IInv
<1>11. CASE Elevate(k)
  <2>1. TypeOK'
    <3>1. elevating' \in BOOLEAN
      BY <1>0, <1>11 DEF Elevate, TypeOK
    <3> QED BY <1>0, <1>11, <3>1 DEF Elevate, Fail, Unlock, TypeOK, CallPhases, connVars
  <2>2. Rest
    <3>1. CASE elevating
      BY <1>11, <3>1, Moves DEF Elevate, Fail, Unlock
    <3>2. CASE ~elevating
      BY <1>0, <1>11, <3>2, Moves DEF Elevate, MayElevate
    <3> QED BY <3>1, <3>2
  <2> QED BY <2>1, <2>2 DEF IInv
<1>12. CASE Prompt(k)
  <2>1. TypeOK'
    BY <1>0, <1>12, CallerAssumption DEF Prompt, Fail, Unlock, TypeOK, CallPhases
  <2>2. Rest
    <3>1. CASE Goto(k, "poll") /\ UNCHANGED connecting
      BY <1>0, <1>12, <3>1, Moves DEF Prompt, MayElevate
    <3>2. CASE Fail(k)
      BY <1>12, <3>2, Moves DEF Prompt, Fail, Unlock
    <3> QED BY <1>12, <3>1, <3>2 DEF Prompt
  <2> QED BY <2>1, <2>2 DEF IInv
<1>13. CASE Poll(k)
  <2>1. TypeOK'
    <3>1. CASE Opened(k, "pinstall") /\ UNCHANGED connecting
      BY <1>0, <1>13, <3>1, OpenedTypes DEF Poll, TypeOK, CallPhases
    <3>2. CASE UNCHANGED <<connVars, mine, overlapped>>
      BY <1>0, <1>13, <3>2 DEF Poll, Opened, Fail, Unlock, TypeOK, CallPhases, connVars
    <3> QED BY <1>13, <3>1, <3>2 DEF Poll
  <2>2. Rest
    <3>1. CASE Opened(k, "pinstall") /\ UNCHANGED connecting
      BY <1>0, <1>13, <3>1, Moves DEF Poll, Opened, MayElevate
    <3>2. CASE Fail(k)
      BY <1>13, <3>2, Moves DEF Poll, Fail, Unlock
    <3> QED BY <1>13, <3>1, <3>2 DEF Poll
  <2> QED BY <2>1, <2>2 DEF IInv
<1>14. CASE PollInstall(k)
  <2>1. TypeOK'
    <3>1. reader' \in [Gens -> ReaderPhases]
      BY <1>0, <1>14 DEF PollInstall, Installed, TypeOK, ReaderPhases
    <3> QED BY <1>0, <1>14, <3>1, MaxGenAssumption DEF PollInstall, Installed, TypeOK, CallPhases
  <2> QED BY <1>0, <1>14, <2>1, Moves DEF PollInstall, Installed, IInv, MayElevate
<1>15. CASE PollPing(k)
  <2>1. TypeOK'
    BY <1>0, <1>15, MaxGenAssumption DEF PollPing, Write, Reset, TypeOK, CallPhases, connVars
  <2>2. Rest
    <3>1. CASE Write(k, "ppong")
      BY <1>0, <1>15, <3>1, Moves DEF PollPing, Write, MayElevate
    <3>2. CASE Goto(k, "poll")
      BY <1>0, <1>15, <3>2, Moves DEF PollPing, MayElevate
    <3> QED BY <1>15, <3>1, <3>2 DEF PollPing
  <2> QED BY <2>1, <2>2 DEF IInv
<1>16. CASE PollPong(k)
  <2>1. TypeOK'
    BY <1>0, <1>16, MaxGenAssumption
       DEF PollPong, Settle, Reset, Unlock, TypeOK, CallPhases, connVars
  <2>2. Rest
    <3>1. CASE Goto(k, "send") /\ Unlock(k)
      BY <1>16, <3>1, Moves DEF PollPong, Unlock
    <3>2. CASE Goto(k, "poll") /\ UNCHANGED connecting
      BY <1>0, <1>16, <3>2, Moves DEF PollPong, MayElevate
    <3> QED BY <1>16, <3>1, <3>2 DEF PollPong
  <2> QED BY <2>1, <2>2 DEF IInv
<1> QED
  BY <1>1, <1>2, <1>3, <1>4, <1>5, <1>6, <1>7, <1>8, <1>9, <1>10, <1>11, <1>12,
     <1>13, <1>14, <1>15, <1>16 DEF CallStep

LEMMA ReadStepInv ==
    ASSUME IInv, NEW g \in Gens, ReadStep(g) \/ LinkLost(g)
    PROVE  IInv'
<1> USE DEF IInv, TypeOK, connVars, callVars, ReaderPhases
<1>1. UNCHANGED <<phase, elevating, connecting>>
  BY DEF ReadStep, ReadResponse, ReadEnd, ReadCheck, ReadClear, ReadDrop, LinkLost
<1>2. TypeOK'
  <2>1. CASE ReadResponse(g)
    BY <2>1 DEF ReadResponse
  <2>2. CASE ReadEnd(g) \/ ReadCheck(g)
    BY <2>2 DEF ReadEnd, ReadCheck
  <2>3. CASE ReadClear(g)
    BY <2>3, MaxGenAssumption DEF ReadClear
  <2>4. CASE ReadDrop(g)
    BY <2>4 DEF ReadDrop
  <2>5. CASE LinkLost(g)
    BY <2>5 DEF LinkLost
  <2> QED BY <2>1, <2>2, <2>3, <2>4, <2>5 DEF ReadStep
<1> QED BY <1>1, <1>2, Stays

LEMMA NextInv == IInv /\ [Next]_vars => IInv'
<1> SUFFICES ASSUME IInv, [Next]_vars PROVE IInv'
  OBVIOUS
<1>1. CASE UNCHANGED vars
  BY <1>1 DEF vars, connVars, callVars, IInv, TypeOK, MayElevate, PromptFlagged, ConnectorLocks
<1> QED BY <1>1, CallStepInv, ReadStepInv DEF Next

LEMMA Invariance == Spec => []IInv
BY InitInv, NextInv, PTL DEF Spec

(* Every variable keeps its type; a request in particular is sent at most  *)
(* twice.                                                                  *)
THEOREM TypeCorrect == Spec => []TypeOK
BY Invariance, PTL DEF IInv

(* However many callers find the daemon absent or stale together, at most  *)
(* one privilege prompt is open, and none for a stop or a status query.    *)
THEOREM ExclusivePrompt == Spec => []OnePrompt
<1>1. IInv => OnePrompt
  BY DEF IInv, OnePrompt, MayElevate, PromptFlagged
<1> QED BY <1>1, Invariance, PTL

(* Callers that find no connection do not open one each.                   *)
THEOREM ExclusiveConnector == Spec => []OneConnector
<1>1. IInv => OneConnector
  BY DEF IInv, OneConnector, ConnectorLocks
<1> QED BY <1>1, Invariance, PTL
-----------------------------------------------------------------------------
(* The writer and its connection.                                          *)

\* Unless installs overlapped, a caller inside install has the newest
\* generation, so the writer is the newest or about to be; and the writer's
\* reader is still there, or has found out that its connection is replaced.
WriterFollows ==
    ~overlapped =>
        /\ \A k \in Callers : mine[k] \in {0, generation}
        /\ writer # 0 =>
             /\ generation # 0
             /\ writer = generation \/ \E k \in Callers : mine[k] = generation
             /\ \/ reader[writer] \in {"run", "check", "clear"}
                \/ reader[writer] = "done" /\ \E k \in Callers : mine[k] # 0

(* Dropping the writer is always safe.                                     *)
LEMMA DropFollows ==
    ASSUME WriterFollows, writer' = 0, UNCHANGED <<generation, mine, overlapped>>
    PROVE  WriterFollows'
BY DEF WriterFollows

LEMMA SameFollows ==
    ASSUME WriterFollows, UNCHANGED <<writer, generation, reader, mine, overlapped>>
    PROVE  WriterFollows'
BY DEF WriterFollows

LEMMA OpenedFollows ==
    ASSUME TypeOK, WriterFollows, NEW k \in Callers, NEW p, Opened(k, p)
    PROVE  WriterFollows'
<1> SUFFICES ASSUME ~overlapped' PROVE WriterFollows'
  BY DEF WriterFollows
<1>1. ~overlapped /\ \A l \in Callers \ {k} : mine[l] = 0
  BY DEF Opened
<1>2. mine'[k] = generation' /\ \A l \in Callers \ {k} : mine'[l] = 0
  BY <1>1 DEF Opened, TypeOK
<1>3. generation' # 0 /\ UNCHANGED <<writer, reader>>
  BY DEF Opened, TypeOK
<1> QED BY <1>1, <1>2, <1>3 DEF WriterFollows

LEMMA InstalledFollows ==
    ASSUME TypeOK, WriterFollows, NEW k \in Callers, NEW p, Installed(k, p),
           UNCHANGED overlapped
    PROVE  WriterFollows'
<1> SUFFICES ASSUME ~overlapped' PROVE WriterFollows'
  BY DEF WriterFollows
<1>1. writer' \in {0, generation'}
  BY DEF Installed, WriterFollows
<1>2. writer' # 0 => reader'[writer'] = "run"
  BY DEF Installed, TypeOK, Gens
<1>3. \A l \in Callers : mine'[l] \in {0, generation'}
  BY DEF Installed, TypeOK, WriterFollows
<1> QED BY <1>1, <1>2, <1>3 DEF WriterFollows

LEMMA CallStepFollows ==
    ASSUME TypeOK, WriterFollows, NEW k \in Callers, Call(k) \/ CallStep(k)
    PROVE  WriterFollows'
<1>1. CASE Call(k) \/ Check(k) \/ Lock(k) \/ Send(k) \/ Kept(k) \/ Return(k) \/ Elevate(k)
           \/ Prompt(k)
  BY <1>1, SameFollows DEF Call, Check, Lock, Send, Kept, Return, Elevate, Prompt, connVars
<1>2. CASE Open(k) \/ Poll(k)
  <2>1. CASE Opened(k, "install") \/ Opened(k, "pinstall")
    BY <2>1, OpenedFollows
  <2>2. CASE UNCHANGED <<connVars, mine, overlapped>>
    BY <2>2, SameFollows DEF connVars
  <2> QED BY <1>2, <2>1, <2>2 DEF Open, Poll
<1>3. CASE Install(k) \/ PollInstall(k)
  BY <1>3, InstalledFollows DEF Install, PollInstall
<1>4. CASE Ping(k) \/ Pong(k) \/ Retry(k) \/ PollPing(k) \/ PollPong(k)
  <2>1. UNCHANGED <<mine, overlapped>>
    BY <1>4 DEF Ping, Pong, Retry, PollPing, PollPong
  <2>2. Reset \/ UNCHANGED connVars
    BY <1>4 DEF Ping, Pong, Retry, PollPing, PollPong, PingBad
  <2> QED BY <2>1, <2>2, DropFollows, SameFollows DEF Reset, connVars
<1> QED BY <1>1, <1>2, <1>3, <1>4 DEF CallStep

(* A reader gives up without a word only when its connection was replaced.  *)
LEMMA ReadStepFollows ==
    ASSUME TypeOK, WriterFollows, NEW g \in Gens, ReadStep(g) \/ LinkLost(g)
    PROVE  WriterFollows'
<1>1. UNCHANGED <<generation, mine, overlapped>>
  BY DEF ReadStep, ReadResponse, ReadEnd, ReadCheck, ReadClear, ReadDrop, LinkLost, connVars,
         callVars
<1>2. CASE ReadResponse(g) \/ LinkLost(g)
  BY <1>1, <1>2, SameFollows DEF ReadResponse, LinkLost, connVars
<1>3. CASE ReadClear(g)
  BY <1>1, <1>3, DropFollows DEF ReadClear
<1>4. CASE ReadEnd(g)
  <2>1. writer' = writer /\ \A h \in Gens : reader'[h] = IF h = g THEN "check" ELSE reader[h]
    BY <1>4 DEF ReadEnd, TypeOK
  <2>2. writer # 0 => writer \in Gens
    BY DEF TypeOK, Gens
  <2> QED BY <1>1, <1>4, <2>1, <2>2 DEF ReadEnd, WriterFollows
<1>6. CASE ReadDrop(g)
  <2>1. /\ writer' = writer /\ reader[g] = "drop"
        /\ \A h \in Gens : reader'[h] = IF h = g THEN "done" ELSE reader[h]
    BY <1>6 DEF ReadDrop, TypeOK
  <2>2. writer # 0 => writer \in Gens
    BY DEF TypeOK, Gens
  <2> QED BY <1>1, <2>1, <2>2 DEF WriterFollows
<1>5. CASE ReadCheck(g)
  <2> SUFFICES ASSUME ~overlapped, writer # 0
               PROVE  \/ reader'[writer] \in {"run", "check", "clear"}
                      \/ reader'[writer] = "done" /\ \E k \in Callers : mine[k] # 0
    BY <1>1, <1>5 DEF ReadCheck, WriterFollows
  <2>1. CASE writer # g
    BY <1>5, <2>1 DEF ReadCheck, TypeOK, WriterFollows
  <2>2. CASE writer = g /\ generation = g
    BY <1>5, <2>2 DEF ReadCheck, TypeOK
  <2>3. CASE writer = g /\ generation # g
    <3>1. reader'[writer] = "done"
      BY <1>5, <2>3 DEF ReadCheck, TypeOK
    <3>2. \E k \in Callers : mine[k] # 0
      BY <2>3 DEF WriterFollows
    <3> QED BY <3>1, <3>2
  <2> QED BY <2>1, <2>2, <2>3
<1> QED BY <1>2, <1>3, <1>4, <1>5, <1>6 DEF ReadStep

(* Unless two callers were ever inside install at once, the writer is the  *)
(* newest connection's, or is being replaced, and its reader will notice   *)
(* its end: no connection that is gone stays in use.                       *)
THEOREM CurrentWriter == Spec => []WriterIsCurrent
<1>1. Init => WriterFollows
  BY DEF Init, WriterFollows
<1>2. TypeOK /\ WriterFollows /\ [Next]_vars => WriterFollows'
  <2> SUFFICES ASSUME TypeOK, WriterFollows, [Next]_vars PROVE WriterFollows'
    OBVIOUS
  <2>1. CASE UNCHANGED vars
    BY <2>1, SameFollows DEF vars, connVars, callVars
  <2> QED BY <2>1, CallStepFollows, ReadStepFollows DEF Next
<1>3. WriterFollows => WriterIsCurrent
  BY DEF WriterFollows, WriterIsCurrent
<1> QED BY <1>1, <1>2, <1>3, TypeCorrect, PTL DEF Spec
-----------------------------------------------------------------------------
(* What would make the comment above read_loop's last block true: no       *)
(* stream is opened while a reader awaits the writer's mutex.              *)

NoneOpensMeanwhile == [][\A g \in Gens : reader[g] = "clear" => generation' = generation]_vars

\* A generation is in one hand: of the caller installing it, then of its
\* reader; a reader about to clear the writer is the newest connection's.
OneHand ==
    /\ \A g \in Gens : reader[g] # "none" => g <= generation /\ \A k \in Callers : mine[k] # g
    /\ \A k, l \in Callers : mine[k] <= generation /\ (mine[k] = mine[l] /\ mine[k] # 0 => k = l)
    /\ \A g \in Gens : reader[g] = "clear" => generation = g

LEMMA SameHand ==
    ASSUME OneHand, UNCHANGED <<generation, reader, mine>>
    PROVE  OneHand'
BY DEF OneHand

LEMMA OpenedHand ==
    ASSUME TypeOK, OneHand, NEW k \in Callers, NEW p, Opened(k, p),
           \A g \in Gens : reader[g] = "clear" => generation' = generation
    PROVE  OneHand'
<1>1. /\ generation \in Nat /\ generation' = generation + 1 /\ reader' = reader
      /\ \A l \in Callers : mine'[l] = IF l = k THEN generation' ELSE mine[l]
      /\ \A l \in Callers : mine[l] \in Nat
  BY MaxGenAssumption DEF Opened, TypeOK
<1>2. \A g \in Gens : reader[g] # "clear"
  BY <1>1
<1>3. Gens \subseteq Nat
  BY DEF Gens
<1> QED BY <1>1, <1>2, <1>3 DEF OneHand

LEMMA InstalledHand ==
    ASSUME TypeOK, OneHand, NEW k \in Callers, NEW p, Installed(k, p)
    PROVE  OneHand'
<1>1. /\ generation' = generation
      /\ \A l \in Callers : mine'[l] = IF l = k THEN 0 ELSE mine[l]
      /\ \A g \in Gens : reader'[g] = IF g = mine[k] THEN "run" ELSE reader[g]
  BY DEF Installed, TypeOK
<1>2. generation \in Nat /\ 0 \notin Gens
  BY DEF TypeOK, Gens
<1> QED BY <1>1, <1>2 DEF OneHand

LEMMA CallStepHand ==
    ASSUME TypeOK, OneHand, NEW k \in Callers, Call(k) \/ CallStep(k),
           \A g \in Gens : reader[g] = "clear" => generation' = generation
    PROVE  OneHand'
<1>1. CASE Call(k) \/ Check(k) \/ Lock(k) \/ Send(k) \/ Kept(k) \/ Return(k) \/ Elevate(k)
           \/ Prompt(k)
  BY <1>1, SameHand DEF Call, Check, Lock, Send, Kept, Return, Elevate, Prompt, connVars
<1>2. CASE Open(k) \/ Poll(k)
  <2>1. CASE Opened(k, "install") \/ Opened(k, "pinstall")
    BY <2>1, OpenedHand
  <2>2. CASE UNCHANGED <<connVars, mine, overlapped>>
    BY <2>2, SameHand DEF connVars
  <2> QED BY <1>2, <2>1, <2>2 DEF Open, Poll
<1>3. CASE Install(k) \/ PollInstall(k)
  BY <1>3, InstalledHand DEF Install, PollInstall
<1>4. CASE Ping(k) \/ Pong(k) \/ Retry(k) \/ PollPing(k) \/ PollPong(k)
  <2>1. UNCHANGED mine
    BY <1>4 DEF Ping, Pong, Retry, PollPing, PollPong
  <2>2. Reset \/ UNCHANGED connVars
    BY <1>4 DEF Ping, Pong, Retry, PollPing, PollPong, PingBad
  <2> QED BY <2>1, <2>2, SameHand DEF Reset, connVars
<1> QED BY <1>1, <1>2, <1>3, <1>4 DEF CallStep

LEMMA ReadStepHand ==
    ASSUME TypeOK, OneHand, NEW g \in Gens, ReadStep(g) \/ LinkLost(g)
    PROVE  OneHand'
<1>1. UNCHANGED <<generation, mine>>
  BY DEF ReadStep, ReadResponse, ReadEnd, ReadCheck, ReadClear, ReadDrop, LinkLost, connVars,
         callVars
<1>2. CASE ReadResponse(g) \/ LinkLost(g)
  BY <1>1, <1>2, SameHand DEF ReadResponse, LinkLost, connVars
<1>3. CASE ReadEnd(g) \/ ReadCheck(g) \/ ReadClear(g) \/ ReadDrop(g)
  <2>1. /\ reader[g] # "none" /\ \A h \in Gens \ {g} : reader'[h] = reader[h]
        /\ reader'[g] = "clear" => generation = g
    BY <1>3 DEF ReadEnd, ReadCheck, ReadClear, ReadDrop, TypeOK
  <2> QED BY <1>1, <2>1 DEF OneHand
<1> QED BY <1>2, <1>3 DEF ReadStep

(* A reader clears only its own connection's writer, as the comment above   *)
(* read_loop's last block has it, if no stream is opened while it awaits    *)
(* the mutex and no two callers were ever inside install at once.           *)
THEOREM StaleReaderSpares ==
    Spec /\ []~overlapped /\ NoneOpensMeanwhile => StaleReaderSparesWriter
<1>1. Init => WriterFollows /\ OneHand
  BY MaxGenAssumption DEF Init, WriterFollows, OneHand
<1>2. TypeOK /\ WriterFollows /\ [Next]_vars => WriterFollows'
  <2> SUFFICES ASSUME TypeOK, WriterFollows, [Next]_vars PROVE WriterFollows'
    OBVIOUS
  <2>1. CASE UNCHANGED vars
    BY <2>1, SameFollows DEF vars, connVars, callVars
  <2> QED BY <2>1, CallStepFollows, ReadStepFollows DEF Next
<1>3. /\ TypeOK /\ OneHand /\ [Next]_vars
      /\ [\A g \in Gens : reader[g] = "clear" => generation' = generation]_vars
      => OneHand'
  <2> SUFFICES ASSUME TypeOK, OneHand, [Next]_vars,
                      [\A g \in Gens : reader[g] = "clear" => generation' = generation]_vars
               PROVE  OneHand'
    OBVIOUS
  <2>1. CASE UNCHANGED vars
    BY <2>1, SameHand DEF vars, connVars, callVars
  <2> QED BY <2>1, CallStepHand, ReadStepHand DEF Next
<1>4. TypeOK /\ WriterFollows /\ OneHand /\ ~overlapped
      => \A g \in Gens : reader[g] = "clear" => writer \in {0, g}
  BY DEF WriterFollows, OneHand
<1>5. (\A g \in Gens : reader[g] = "clear" => writer \in {0, g})
      => [\A g \in Gens : reader[g] = "clear" /\ reader'[g] = "drop" => writer \in {0, g}]_vars
  OBVIOUS
<1> QED BY <1>1, <1>2, <1>3, <1>4, <1>5, TypeCorrect, PTL
        DEF Spec, NoneOpensMeanwhile, StaleReaderSparesWriter
=============================================================================
