---------------------------- MODULE MCTunnelClient ----------------------------
(* A stream and an exchange, two sessions, and uses of the switch that       *)
(* overtake each other.                                                      *)
EXTENDS TunnelClient

CONSTANTS stream, exchange
=============================================================================
