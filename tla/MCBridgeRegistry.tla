-------------------------- MODULE MCBridgeRegistry --------------------------
(* TLC instance of BridgeRegistry: two sessions behind one relay name (and *)
(* one relay given by its address), and enough commands for a start to     *)
(* overlap with another start and with a stop.                             *)
EXTENDS BridgeRegistry, TLC

Symmetry == Permutations(Sessions) \cup Permutations(Callers) \cup Permutations(Ports)
=============================================================================
