--------------------------- MODULE MCTunnelDaemon ---------------------------
(* TLC instance of TunnelDaemon: two GUI connections, the smallest number  *)
(* at which requests of one overlap with requests or the exit of another.  *)
EXTENDS TunnelDaemon, TLC

Symmetry == Permutations(Conns)
=============================================================================
