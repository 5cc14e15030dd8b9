--------------------------- MODULE MCTunnelClient ---------------------------
(* TLC instances of TunnelClient.  The background loop of init beside one  *)
(* command that may elevate, or two such commands at once; two connections *)
(* are enough for one to replace another, three for two callers to install *)
(* while a third connection is in use.                                     *)
EXTENDS TunnelClient
=============================================================================
