------------------------------ MODULE MCTunnel ------------------------------
(* A small instance of Tunnel for TLC: the remote peer announces one of two *)
(* addresses, so that a second announcement makes endpoints outdated.      *)
EXTENDS Tunnel

CONSTANTS a1, a2

MCAnnounced == {{a1}, {a2}}
=============================================================================
