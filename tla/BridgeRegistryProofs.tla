------------------------ MODULE BridgeRegistryProofs ------------------------
(***************************************************************************)
(* Proofs about BridgeRegistry, for any sets of sessions, commands, hosts  *)
(* and ports: its invariants, and that it implements BridgeMap.            *)
(***************************************************************************)
EXTENDS BridgeRegistry, TLAPS

\* A port is told to shut down only while its listener is still bound, so a
\* port that bind can take has no shutdown pending.
ToldBound == \A p \in told : listening[p] # NoSession

\* A start knows what it is to start from its first await to its bind.
JobInv == \A k \in Callers : pc[k] \in {"resolve", "lookup", "bind"} => job[k] \in Job

IInv == TypeOK /\ ToldBound /\ JobInv /\ OneListener /\ NeverFake

-----------------------------------------------------------------------------
(* The choice among the DNS answers never is a fake address.               *)
LEMMA ChosenReal ==
    ASSUME NEW ans \in Answers
    PROVE  Chosen(ans) \in RealAddr \cup {"none"}
<1>1. PICK n \in 0..MaxAnswer : ans \in [1..n -> Addr]
  BY DEF Answers
<1>2. CASE \E i \in DOMAIN ans : ans[i] = "v4"
  BY <1>2 DEF Chosen, RealAddr
<1>3. CASE ~\E i \in DOMAIN ans : ans[i] = "v4"
  <2>1. CASE ans # <<>> /\ ans[1] # "fake"
    <3>1. n # 0
      <4>1. SUFFICES ASSUME n = 0 PROVE FALSE
        OBVIOUS
      <4>2. ans = <<>>
        BY <1>1, <4>1
      <4> QED BY <4>2, <2>1
    <3>2. n \in Nat /\ 1 \in 1..n
      BY <3>1, AnswerAssumption
    <3>3. ans[1] \in Addr
      BY <1>1, <3>2
    <3> QED BY <1>3, <2>1, <3>3 DEF Chosen, Addr, RealAddr
  <2>2. CASE ~(ans # <<>> /\ ans[1] # "fake")
    BY <1>3, <2>2 DEF Chosen
  <2> QED BY <2>1, <2>2
<1> QED BY <1>2, <1>3

LEMMA RunningIsBridge ==
    ASSUME TypeOK, NEW s \in Sessions
    PROVE  /\ Running(s) => registry[s] \in Bridge
           /\ ~Running(s) => registry[s].port = NoPort
           /\ registry[s].port \in Ports => Running(s)
BY PortAssumption DEF TypeOK, Running, Bridge, NoBridge

(* The bind takes a port that no registered bridge has and that has no     *)
(* shutdown pending.                                                       *)
LEMMA CandidateUnused ==
    ASSUME IInv, NEW want, NEW p \in Candidates(want)
    PROVE  /\ p \in Ports /\ listening[p] = NoSession /\ p \notin told
           /\ \A s \in Sessions : registry[s].port # p
<1>1. p \in Ports /\ listening[p] = NoSession
  BY DEF Candidates, Free
<1>2. p \notin told
  BY <1>1 DEF IInv, ToldBound
<1>3. ASSUME NEW s \in Sessions PROVE registry[s].port # p
  <2>1. SUFFICES ASSUME registry[s].port = p PROVE FALSE
    OBVIOUS
  <2>2. Running(s)
    BY <1>1, <2>1, RunningIsBridge DEF IInv
  <2>3. listening[p] = s
    BY <2>1, <2>2 DEF IInv, OneListener
  <2> QED BY <1>1, <2>3, SessionAssumption
<1> QED BY <1>1, <1>2, <1>3

-----------------------------------------------------------------------------
LEMMA InitInv == Init => IInv
<1> SUFFICES ASSUME Init PROVE IInv
  OBVIOUS
<1> USE DEF Init, NoBridge, NoJob
<1>1. TypeOK
  BY DEF TypeOK
<1>2. ToldBound /\ JobInv
  BY DEF ToldBound, JobInv
<1>3. OneListener
  BY DEF OneListener, Running
<1>4. NeverFake
  BY DEF NeverFake
<1> QED BY <1>1, <1>2, <1>3, <1>4 DEF IInv

(* Steps of a command that leave the registry and the listeners alone.     *)
LEMMA QuietStep ==
    ASSUME IInv, UNCHANGED <<registry, listening, told>>
    PROVE  ToldBound' /\ OneListener'
BY DEF IInv, ToldBound, OneListener, Running

LEMMA StartInv ==
    ASSUME IInv, NEW k \in Callers, NEW s \in Sessions, NEW h \in Hosts,
           NEW want \in Ports \cup {NoPort}, Start(k, s, h, want)
    PROVE  IInv'
<1> USE DEF IInv, Start, Goto
<1>1. job' = [job EXCEPT ![k] = [session |-> s, host |-> h, want |-> want, dial |-> "none"]]
  OBVIOUS
<1>2. [session |-> s, host |-> h, want |-> want, dial |-> "none"] \in Job
  BY DEF Job
<1>3. TypeOK'
  BY <1>1, <1>2 DEF TypeOK
<1>4. JobInv'
  BY <1>1, <1>2 DEF JobInv, TypeOK
<1>5. NeverFake'
  BY DEF NeverFake, TypeOK
<1> QED BY <1>3, <1>4, <1>5, QuietStep

(* Going on to bind with a real address.                                   *)
LEMMA DialInv ==
    ASSUME IInv, NEW k \in Callers, NEW addr \in RealAddr,
           pc[k] \in {"resolve", "lookup"}, Dial(k, addr),
           cache' = cache \/ cache' = [cache EXCEPT ![job[k].host] = addr],
           UNCHANGED <<registry, listening, told>>
    PROVE  IInv'
<1> USE DEF IInv, Dial, Goto
<1>1. job[k] \in Job
  BY DEF JobInv
<1>2. [job[k] EXCEPT !.dial = addr] \in Job /\ [job[k] EXCEPT !.dial = addr].dial = addr
  BY <1>1 DEF Job, Addr, RealAddr
<1>3. job' = [job EXCEPT ![k] = [job[k] EXCEPT !.dial = addr]]
  BY DEF TypeOK
<1>4. job[k].host \in Hosts
  BY <1>1 DEF Job
<1>5. TypeOK'
  BY <1>2, <1>3, <1>4 DEF TypeOK, Addr, RealAddr
<1>6. JobInv'
  BY <1>2, <1>3 DEF JobInv, TypeOK
<1>7. NeverFake'
  BY <1>2, <1>3, <1>4 DEF NeverFake, TypeOK, RealAddr
<1> QED BY <1>5, <1>6, <1>7, QuietStep

(* A command returning.                                                    *)
LEMMA ReturnInv ==
    ASSUME IInv, NEW k \in Callers, Return(k),
           UNCHANGED <<registry, cache, listening, told>>
    PROVE  IInv'
<1> USE DEF IInv, Return, Goto
<1>1. TypeOK'
  BY DEF TypeOK
<1>2. JobInv' /\ NeverFake'
  BY DEF JobInv, NeverFake, TypeOK
<1> QED BY <1>1, <1>2, QuietStep

LEMMA ResolveInv ==
    ASSUME IInv, NEW k \in Callers, Resolve(k)
    PROVE  IInv'
<1> DEFINE h == job[k].host
<1>0. job[k] \in Job /\ h \in Hosts
  BY DEF IInv, JobInv, Resolve, Job
<1>1. CASE h \in Literals /\ Dial(k, "v4") /\ cache' = [cache EXCEPT ![h] = "v4"]
  BY <1>1, DialInv DEF Resolve, RealAddr
<1>2. CASE h \notin Literals /\ cache[h] # "none" /\ Dial(k, cache[h]) /\ UNCHANGED cache
  <2>1. cache[h] \in RealAddr
    BY <1>0, <1>2 DEF IInv, TypeOK, NeverFake, Addr, RealAddr
  <2> QED BY <1>2, <2>1, DialInv DEF Resolve
<1>3. CASE Goto(k, "lookup") /\ UNCHANGED <<cache, job>>
  <2> USE <1>3 DEF IInv, Goto
  <2>1. TypeOK'
    BY DEF TypeOK, Resolve
  <2>2. JobInv' /\ NeverFake'
    BY <1>0 DEF JobInv, NeverFake, TypeOK, Resolve
  <2> QED BY <2>1, <2>2, QuietStep DEF Resolve
<1> QED BY <1>1, <1>2, <1>3 DEF Resolve

LEMMA LookupInv ==
    ASSUME IInv, NEW k \in Callers, Lookup(k)
    PROVE  IInv'
<1>1. PICK ans \in Answers :
         \/ /\ Chosen(ans) # "none"
            /\ Dial(k, Chosen(ans))
            /\ cache' = [cache EXCEPT ![job[k].host] = Chosen(ans)]
         \/ Chosen(ans) = "none" /\ Return(k) /\ UNCHANGED cache
  BY DEF Lookup
<1>2. CASE Chosen(ans) # "none"
  <2>1. Chosen(ans) \in RealAddr
    BY <1>2, ChosenReal
  <2> QED BY <1>1, <1>2, <2>1, DialInv DEF Lookup
<1>3. CASE Chosen(ans) = "none"
  BY <1>1, <1>3, ReturnInv DEF Lookup
<1> QED BY <1>2, <1>3

(* The bind that registers a bridge of session s on port p.                *)
Registered(k, s, p) ==
    /\ pc[k] = "bind" /\ s = job[k].session /\ ~Running(s)
    /\ registry' = [registry EXCEPT ![s] = [port |-> p, dial |-> job[k].dial]]
    /\ listening' = [listening EXCEPT ![p] = s]

LEMMA BindCases ==
    ASSUME NEW k \in Callers, Bind(k)
    PROVE  \/ \E p \in Candidates(job[k].want) : Registered(k, job[k].session, p)
           \/ UNCHANGED <<registry, listening>>
BY DEF Bind, Registered

LEMMA BindInv ==
    ASSUME IInv, NEW k \in Callers, Bind(k)
    PROVE  IInv'
<1> DEFINE s == job[k].session
<1>1. CASE UNCHANGED <<registry, listening>>
  BY <1>1, ReturnInv DEF Bind
<1>2. CASE \E p \in Candidates(job[k].want) : Registered(k, s, p)
  <2>1. PICK p \in Candidates(job[k].want) : Registered(k, s, p)
    BY <1>2
  <2>2. /\ p \in Ports /\ listening[p] = NoSession /\ p \notin told
        /\ \A other \in Sessions : registry[other].port # p
    BY CandidateUnused
  <2>3. job[k] \in Job /\ s \in Sessions /\ job[k].dial \in RealAddr
    BY DEF IInv, JobInv, NeverFake, Bind, Job
  <2> DEFINE b == [port |-> p, dial |-> job[k].dial]
  <2>4. b \in Bridge /\ b # NoBridge /\ b.port = p /\ b.dial \in RealAddr
    BY <2>2, <2>3, PortAssumption DEF Bridge, NoBridge, Addr
  <2> HIDE DEF b, s
  <2>5. /\ registry' = [registry EXCEPT ![s] = b]
        /\ listening' = [listening EXCEPT ![p] = s]
        /\ ~Running(s)
        /\ pc' = [pc EXCEPT ![k] = "idle"]
        /\ job' = [job EXCEPT ![k] = NoJob]
        /\ UNCHANGED <<cache, told>>
    BY <2>1 DEF Registered, Bind, Return, Goto, b, s
  <2>6. TypeOK'
    BY <2>2, <2>3, <2>4, <2>5 DEF IInv, TypeOK
  <2>7. ToldBound'
    BY <2>2, <2>5 DEF IInv, ToldBound, TypeOK
  <2>8. JobInv'
    BY <2>5 DEF IInv, JobInv, TypeOK
  <2>9. NeverFake'
    BY <2>3, <2>4, <2>5 DEF IInv, NeverFake, TypeOK, RealAddr
  <2>10. \A q \in Ports : (listening[q] # NoSession /\ q \notin told =>
                             registry[listening[q]].port = q)'
    <3> SUFFICES ASSUME NEW q \in Ports, listening'[q] # NoSession, q \notin told
                 PROVE  registry'[listening'[q]].port = q
      BY <2>5
    <3>1. CASE q = p
      BY <2>2, <2>3, <2>4, <2>5, <3>1 DEF IInv, TypeOK
    <3>2. CASE q # p
      <4>1. listening'[q] = listening[q] /\ listening[q] \in Sessions
        BY <2>5, <3>2 DEF IInv, TypeOK
      <4>2. registry[listening[q]].port = q
        BY <4>1 DEF IInv, OneListener
      <4>3. listening[q] # s
        BY <2>3, <2>5, <4>2, PortAssumption, RunningIsBridge DEF IInv
      <4> QED BY <2>5, <4>1, <4>2, <4>3 DEF IInv, TypeOK
    <3> QED BY <3>1, <3>2
  <2>11. \A t \in Sessions : (Running(t) => listening[registry[t].port] = t
                                            /\ registry[t].port \notin told)'
    <3> SUFFICES ASSUME NEW t \in Sessions, Running(t)'
                 PROVE  /\ listening'[registry'[t].port] = t
                        /\ registry'[t].port \notin told
      BY <2>5
    <3>1. CASE t = s
      BY <2>2, <2>4, <2>5, <3>1 DEF IInv, TypeOK
    <3>2. CASE t # s
      <4>1. registry'[t] = registry[t] /\ Running(t)
        BY <2>5, <3>2 DEF Running, IInv, TypeOK
      <4>2. registry[t].port # p
        BY <2>2
      <4>3. registry[t].port \in Ports
        BY <4>1, RunningIsBridge DEF IInv, Bridge
      <4> QED BY <2>5, <4>1, <4>2, <4>3 DEF IInv, OneListener, TypeOK
    <3> QED BY <3>1, <3>2
  <2> QED BY <2>6, <2>7, <2>8, <2>9, <2>10, <2>11 DEF IInv, OneListener
<1> QED BY <1>1, <1>2, BindCases

LEMMA StopInv ==
    ASSUME IInv, NEW k \in Callers, NEW s \in Sessions, Stop(k, s)
    PROVE  IInv'
<1> DEFINE p == registry[s].port
<1>1. p \in Ports /\ listening[p] = s
  BY RunningIsBridge DEF IInv, OneListener, Stop, Bridge
<1> HIDE DEF p
<1>2. /\ registry' = [registry EXCEPT ![s] = NoBridge]
      /\ told' = told \cup {p}
      /\ pc' = [pc EXCEPT ![k] = "wait"]
      /\ UNCHANGED <<cache, listening, job>>
  BY DEF Stop, Goto, p
<1>3. TypeOK'
  BY <1>1, <1>2 DEF IInv, TypeOK
<1>4. ToldBound'
  BY <1>1, <1>2, SessionAssumption DEF IInv, ToldBound
<1>5. JobInv'
  BY <1>2 DEF IInv, JobInv, TypeOK
<1>6. NeverFake'
  BY <1>2 DEF IInv, NeverFake, TypeOK, NoBridge
<1>7. \A q \in Ports : (listening[q] # NoSession /\ q \notin told =>
                          registry[listening[q]].port = q)'
  <2> SUFFICES ASSUME NEW q \in Ports, listening[q] # NoSession, q \notin told'
               PROVE  registry'[listening[q]].port = q
    BY <1>2
  <2>1. q \notin told /\ q # p
    BY <1>2
  <2>2. registry[listening[q]].port = q /\ listening[q] \in Sessions
    BY <2>1 DEF IInv, OneListener, TypeOK
  <2>3. listening[q] # s
    BY <2>1, <2>2 DEF p
  <2> QED BY <1>2, <2>2, <2>3 DEF IInv, TypeOK
<1>8. \A t \in Sessions : (Running(t) => listening[registry[t].port] = t
                                         /\ registry[t].port \notin told)'
  <2> SUFFICES ASSUME NEW t \in Sessions, Running(t)'
               PROVE  /\ listening[registry'[t].port] = t
                      /\ registry'[t].port \notin told'
    BY <1>2
  <2>1. t # s /\ registry'[t] = registry[t] /\ Running(t)
    BY <1>2 DEF Running, IInv, TypeOK
  <2>2. listening[registry[t].port] = t /\ registry[t].port \notin told
    BY <2>1 DEF IInv, OneListener
  <2>3. registry[t].port # p
    BY <1>1, <2>1, <2>2
  <2> QED BY <1>2, <2>1, <2>2, <2>3
<1> QED BY <1>3, <1>4, <1>5, <1>6, <1>7, <1>8 DEF IInv, OneListener

LEMMA CloseInv ==
    ASSUME IInv, NEW p \in Ports, Close(p)
    PROVE  IInv'
<1> USE DEF IInv, Close
<1>1. TypeOK'
  BY DEF TypeOK
<1>2. ToldBound'
  BY DEF ToldBound, TypeOK
<1>3. JobInv' /\ NeverFake'
  BY DEF JobInv, NeverFake
<1>4. \A q \in Ports : (listening[q] # NoSession /\ q \notin told =>
                          registry[listening[q]].port = q)'
  BY DEF OneListener, TypeOK
<1>5. \A t \in Sessions : (Running(t) => listening[registry[t].port] = t
                                         /\ registry[t].port \notin told)'
  BY RunningIsBridge DEF OneListener, TypeOK, Running, Bridge
<1> QED BY <1>1, <1>2, <1>3, <1>4, <1>5 DEF OneListener

LEMMA NextInv == IInv /\ [Next]_vars => IInv'
<1> SUFFICES ASSUME IInv, [Next]_vars PROVE IInv'
  OBVIOUS
<1>1. ASSUME NEW k \in Callers, Command(k) PROVE IInv'
  <2>1. ASSUME NEW s \in Sessions, NEW h \in Hosts, NEW want \in Ports \cup {NoPort},
               Start(k, s, h, want)
        PROVE  IInv'
    BY <2>1, StartInv
  <2>2. CASE Resolve(k)
    BY <2>2, ResolveInv
  <2>3. CASE Lookup(k)
    BY <2>3, LookupInv
  <2>4. CASE Bind(k)
    BY <2>4, BindInv
  <2>5. ASSUME NEW s \in Sessions, Stop(k, s) PROVE IInv'
    BY <2>5, StopInv
  <2>6. CASE StopReturns(k)
    BY <2>6, ReturnInv DEF StopReturns
  <2> QED BY <1>1, <2>1, <2>2, <2>3, <2>4, <2>5, <2>6 DEF Command
<1>2. ASSUME NEW p \in Ports, Close(p) PROVE IInv'
  BY <1>2, CloseInv
<1>3. CASE UNCHANGED vars
  BY <1>3 DEF vars, IInv, TypeOK, ToldBound, JobInv, OneListener, NeverFake, Running
<1> QED BY <1>1, <1>2, <1>3 DEF Next

LEMMA Invariance == Spec => []IInv
BY InitInv, NextInv, PTL DEF Spec

(* Every variable keeps its type.                                          *)
THEOREM TypeCorrect == Spec => []TypeOK
BY Invariance, PTL DEF IInv

(* Concurrent starts and stops never orphan a listener (the comment above  *)
(* start_bridge's lock), for any number of sessions, commands and ports.   *)
THEOREM OneListenerPerBridge == Spec => []OneListener
BY Invariance, PTL DEF IInv

(* resolve_upstream_dial never gives a bridge, or the cache, an address of *)
(* the tunnel's fake DNS, for answers of any length.                       *)
THEOREM NeverDialsFake == Spec => []NeverFake
BY Invariance, PTL DEF IInv

-----------------------------------------------------------------------------
(* Every step, seen through the ports of the registry, is one of BridgeMap *)
(* or changes nothing.                                                     *)
LEMMA RefinesNext ==
    ASSUME IInv, IInv', [Next]_vars
    PROVE  [BridgePorts!Next]_([s \in Sessions |-> registry[s].port])
<1> DEFINE port == [s \in Sessions |-> registry[s].port]
<1>1. CASE UNCHANGED registry
  BY <1>1
<1>2. ASSUME NEW k \in Callers, NEW p \in Candidates(job[k].want),
             Registered(k, job[k].session, p)
      PROVE  BridgePorts!Next
  <2> DEFINE s == job[k].session
  <2>1. s \in Sessions
    BY <1>2 DEF Registered, IInv, JobInv, Job
  <2>2. p \in Ports /\ \A other \in Sessions : registry[other].port # p
    BY CandidateUnused
  <2>3. registry[s].port = NoPort
    BY <1>2, <2>1, RunningIsBridge DEF Registered, IInv
  <2>4. port' = [port EXCEPT ![s] = p]
    BY <1>2, <2>1 DEF Registered, IInv, TypeOK
  <2>5. BridgePorts!Started(s, p)
    BY <2>1, <2>2, <2>3, <2>4 DEF BridgePorts!Started
  <2> QED BY <2>1, <2>2, <2>5 DEF BridgePorts!Next
<1>3. ASSUME NEW k \in Callers, NEW s \in Sessions, Stop(k, s)
      PROVE  BridgePorts!Next
  <2>1. registry[s].port \in Ports
    BY <1>3, RunningIsBridge DEF Stop, IInv, Bridge
  <2>2. port' = [port EXCEPT ![s] = NoPort]
    BY <1>3 DEF Stop, IInv, TypeOK, NoBridge
  <2>3. BridgePorts!Stopped(s)
    BY <2>1, <2>2, PortAssumption DEF BridgePorts!Stopped
  <2> QED BY <2>3 DEF BridgePorts!Next
<1>4. \/ UNCHANGED registry
      \/ \E k \in Callers : \E p \in Candidates(job[k].want) :
            Registered(k, job[k].session, p)
      \/ \E k \in Callers, s \in Sessions : Stop(k, s)
  <2>1. ASSUME NEW k \in Callers, Bind(k)
        PROVE  \/ UNCHANGED registry
               \/ \E p \in Candidates(job[k].want) : Registered(k, job[k].session, p)
    BY <2>1, BindCases
  <2> QED BY <2>1 DEF Next, vars, Command, Start, Resolve, Lookup, StopReturns, Close
<1> QED BY <1>1, <1>2, <1>3, <1>4

(* The registry implements BridgeMap: whatever the interleaving, a command *)
(* starts or stops one session's bridge at one instant, no two sessions    *)
(* share a port, and only its own stop ends a bridge.                      *)
THEOREM ImplementsBridgeMap == Spec => KeepsBridgeMap
<1>1. Init => BridgePorts!Init
  BY DEF Init, BridgePorts!Init, NoBridge
<1>2. IInv /\ IInv' /\ [Next]_vars
        => [BridgePorts!Next]_([s \in Sessions |-> registry[s].port])
  BY RefinesNext
<1> QED BY <1>1, <1>2, Invariance, PTL DEF Spec, KeepsBridgeMap, BridgePorts!Spec
=============================================================================
