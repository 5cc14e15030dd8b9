--------------------------- MODULE BridgeRegistry ---------------------------
(***************************************************************************)
(* The registry of local SOCKS5 bridges (src-tauri/src/bridge.rs): Tauri   *)
(* commands start and stop one listener per proxy session, concurrently,   *)
(* and a start resolves the session's relay to an address that stays good  *)
(* when the system tunnel later answers every DNS query with a fake one.   *)
(*                                                                         *)
(* A command is cut where it awaits or releases the registry's mutex.      *)
(* Connections a bridge has accepted are relayed by tasks of their own     *)
(* (relay_through_upstream), which the registry neither tracks nor ends.   *)
(***************************************************************************)
EXTENDS Naturals, Sequences

CONSTANTS Sessions,   \* proxy session ids, the keys of BRIDGES
          Callers,    \* commands in progress
          Hosts,      \* relay hosts of upstream addresses
          Literals,   \* those written as an IP address that is not fake
          Ports,      \* local TCP ports
          NoSession, NoPort,
          MaxAnswer   \* bound: addresses in a DNS answer

ASSUME SessionAssumption == NoSession \notin Sessions
ASSUME PortAssumption == NoPort \notin Ports
ASSUME HostAssumption == Literals \subseteq Hosts
ASSUME AnswerAssumption == MaxAnswer \in Nat

VARIABLES
    registry,   \* BRIDGES
    cache,      \* RELAY_IP_CACHE
    listening,  \* the session whose listener is bound to each port
    told,       \* ports whose listener task has been sent the shutdown
    pc, job     \* where each command stands and its arguments

vars == <<registry, cache, listening, told, pc, job>>

\* Real addresses, and 198.18.0.0/15, which the tunnel's DNS hands out
\* (fake_ip; always IPv4).
RealAddr == {"v4", "v6"}
Addr == RealAddr \cup {"fake"}

\* What lookup_host can return.
Answers == UNION {[1..n -> Addr] : n \in 0..MaxAnswer}

Bridge == [port : Ports, dial : Addr]
NoBridge == [port |-> NoPort, dial |-> "none"]

Job == [session : Sessions, host : Hosts, want : Ports \cup {NoPort},
        dial : Addr \cup {"none"}]
NoJob == [session |-> NoSession, host |-> NoSession, want |-> NoPort, dial |-> "none"]

Init ==
    /\ registry = [s \in Sessions |-> NoBridge]
    /\ cache = [h \in Hosts |-> "none"]
    /\ listening = [p \in Ports |-> NoSession]
    /\ told = {}
    /\ pc = [k \in Callers |-> "idle"]
    /\ job = [k \in Callers |-> NoJob]

Running(s) == registry[s] # NoBridge
Free == {p \in Ports : listening[p] = NoSession}
Goto(k, phase) == pc' = [pc EXCEPT ![k] = phase]

\* The command returns, with a port or an error.
Return(k) ==
    /\ Goto(k, "idle")
    /\ job' = [job EXCEPT ![k] = NoJob]

-----------------------------------------------------------------------------
(* start_bridge.  A start that finds the session's bridge running returns  *)
(* its port and changes nothing: such a step is a stutter here.            *)

Start(k, s, h, want) ==
    /\ pc[k] = "idle"
    /\ ~Running(s)
    /\ job' = [job EXCEPT ![k] = [session |-> s, host |-> h, want |-> want, dial |-> "none"]]
    /\ Goto(k, "resolve")
    /\ UNCHANGED <<registry, cache, listening, told>>

\* The relay's address is known: go on to bind.
Dial(k, addr) ==
    /\ job' = [job EXCEPT ![k].dial = addr]
    /\ Goto(k, "bind")

Resolve(k) ==
    LET h == job[k].host IN
    /\ pc[k] = "resolve"
    /\ \/ h \in Literals /\ Dial(k, "v4") /\ cache' = [cache EXCEPT ![h] = "v4"]
       \/ h \notin Literals /\ cache[h] # "none" /\ Dial(k, cache[h]) /\ UNCHANGED cache
       \/ h \notin Literals /\ cache[h] = "none" /\ Goto(k, "lookup") /\ UNCHANGED <<cache, job>>
    /\ UNCHANGED <<registry, listening, told>>

\* Mutant: whatever comes first serves as the fallback.
Chosen_Unchecked(ans) ==
    IF \E i \in DOMAIN ans : ans[i] = "v4" THEN "v4"
    ELSE IF ans = <<>> THEN "none" ELSE ans[1]

\* The first real IPv4 address, else the first address if it is not fake.
Chosen(ans) ==
    IF \E i \in DOMAIN ans : ans[i] = "v4" THEN "v4"
    ELSE IF ans # <<>> /\ ans[1] # "fake" THEN ans[1] ELSE "none"

\* The DNS answers, or the start fails.
Lookup(k) ==
    /\ pc[k] = "lookup"
    /\ \E ans \in Answers :
         \/ /\ Chosen(ans) # "none"
            /\ Dial(k, Chosen(ans))
            /\ cache' = [cache EXCEPT ![job[k].host] = Chosen(ans)]
         \/ Chosen(ans) = "none" /\ Return(k) /\ UNCHANGED cache
    /\ UNCHANGED <<registry, listening, told>>

\* The preferred port, unless a registered bridge has it.  A port that is
\* still bound, by a stopped bridge for example, makes the bind fail.
Candidates(want) ==
    IF want = NoPort \/ \E s \in Sessions : registry[s].port = want
    THEN Free ELSE Free \cap {want}

\* Mutant: the registry is not looked at again after the await.
Bind_NoSecondLook(k) ==
    /\ pc[k] = "bind"
    /\ \/ \E p \in Candidates(job[k].want) :
            /\ registry' = [registry EXCEPT ![job[k].session] = [port |-> p, dial |-> job[k].dial]]
            /\ listening' = [listening EXCEPT ![p] = job[k].session]
       \/ UNCHANGED <<registry, listening>>
    /\ Return(k)
    /\ UNCHANGED <<cache, told>>

\* Mutant: the bridge that has the preferred port is stopped to make room.
Bind_Evicts(k) ==
    LET holders == {s \in Sessions : registry[s].port = job[k].want} IN
    /\ pc[k] = "bind"
    /\ \/ \E p \in Candidates(job[k].want) :
            /\ ~Running(job[k].session)
            /\ registry' = [s \in Sessions |->
                              IF s = job[k].session THEN [port |-> p, dial |-> job[k].dial]
                              ELSE IF s \in holders THEN NoBridge ELSE registry[s]]
            /\ listening' = [listening EXCEPT ![p] = job[k].session]
       \/ UNCHANGED <<registry, listening>>
    /\ Return(k)
    /\ UNCHANGED <<cache, told>>

\* Under the mutex: look again, bind, register.  The start returns the running
\* bridge, or fails to bind, without a change to the registry.
Bind(k) ==
    /\ pc[k] = "bind"
    /\ \/ \E p \in Candidates(job[k].want) :
            /\ ~Running(job[k].session)
            /\ registry' = [registry EXCEPT ![job[k].session] = [port |-> p, dial |-> job[k].dial]]
            /\ listening' = [listening EXCEPT ![p] = job[k].session]
       \/ UNCHANGED <<registry, listening>>
    /\ Return(k)
    /\ UNCHANGED <<cache, told>>

-----------------------------------------------------------------------------
(* stop_bridge.  A stop of a session without a bridge is a stutter.        *)

Stop(k, s) ==
    /\ pc[k] = "idle"
    /\ Running(s)
    /\ registry' = [registry EXCEPT ![s] = NoBridge]
    /\ told' = told \cup {registry[s].port}
    /\ Goto(k, "wait")
    /\ UNCHANGED <<cache, listening, job>>

\* The wait for the listener's task ends with it or after two seconds.
StopReturns(k) ==
    /\ pc[k] = "wait"
    /\ Return(k)
    /\ UNCHANGED <<registry, cache, listening, told>>

\* The listener's task sees the shutdown and drops its socket.
Close(p) ==
    /\ p \in told
    /\ told' = told \ {p}
    /\ listening' = [listening EXCEPT ![p] = NoSession]
    /\ UNCHANGED <<registry, cache, pc, job>>

-----------------------------------------------------------------------------
Command(k) ==
    \/ \E s \in Sessions, h \in Hosts, want \in Ports \cup {NoPort} : Start(k, s, h, want)
    \/ Resolve(k) \/ Lookup(k) \/ Bind(k)
    \/ \E s \in Sessions : Stop(k, s)
    \/ StopReturns(k)

Next == (\E k \in Callers : Command(k)) \/ (\E p \in Ports : Close(p))

Spec == Init /\ [][Next]_vars

-----------------------------------------------------------------------------
(* Properties.                                                             *)

\* A command holds a session only while it starts that session's bridge.
TypeOK ==
    /\ registry \in [Sessions -> Bridge \cup {NoBridge}]
    /\ cache \in [Hosts -> Addr \cup {"none"}]
    /\ listening \in [Ports -> Sessions \cup {NoSession}]
    /\ told \in SUBSET Ports
    /\ pc \in [Callers -> {"idle", "resolve", "lookup", "bind", "wait"}]
    /\ job \in [Callers -> Job \cup {NoJob}]

\* The comment above start_bridge's lock: concurrent starts never both bind
\* and orphan a listener.  Every listener is either the one of its session's
\* registered bridge or has been told to shut down, and every registered
\* bridge is listening on its port.
OneListener ==
    /\ \A p \in Ports : listening[p] # NoSession /\ p \notin told =>
                         registry[listening[p]].port = p
    /\ \A s \in Sessions :
         Running(s) => listening[registry[s].port] = s /\ registry[s].port \notin told

\* No bridge dials, and no later start is given, an address the tunnel's DNS
\* made up: traffic of the relay never loops back into the tunnel, whatever
\* the DNS answered and in whatever order starts resolved and bound.
NeverFake ==
    /\ \A s \in Sessions : registry[s].dial # "fake"
    /\ \A h \in Hosts : cache[h] # "fake"
    /\ \A k \in Callers : pc[k] = "bind" => job[k].dial \in RealAddr

\* What the commands promise their callers: seen from outside, each changes
\* the map from sessions to ports in one step, and never another session's
\* entry.
BridgePorts == INSTANCE BridgeMap WITH port <- [s \in Sessions |-> registry[s].port]
KeepsBridgeMap == BridgePorts!Spec
=============================================================================
