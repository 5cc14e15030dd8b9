----------------------------- MODULE BridgeMap ------------------------------
(***************************************************************************)
(* What the bridge registry promises: each session has at most one local   *)
(* port, no two sessions share one, and a session keeps its port until its *)
(* own bridge is stopped.                                                  *)
(***************************************************************************)
CONSTANTS Sessions, Ports, NoPort

VARIABLE port

Init == port = [s \in Sessions |-> NoPort]

Started(s, p) ==
    /\ port[s] = NoPort
    /\ \A other \in Sessions : port[other] # p
    /\ port' = [port EXCEPT ![s] = p]

Stopped(s) ==
    /\ port[s] # NoPort
    /\ port' = [port EXCEPT ![s] = NoPort]

Next == \E s \in Sessions : Stopped(s) \/ \E p \in Ports : Started(s, p)

Spec == Init /\ [][Next]_port
=============================================================================
