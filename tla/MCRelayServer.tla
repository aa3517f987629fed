--------------------------- MODULE MCRelayServer ---------------------------
(* Instances of RelayServer for TLC.                                       *)
EXTENDS RelayServer, TLC

CONSTANTS c1, c2, p1, p2

Handshakes == [typ : {"Handshake"}, peer : Peers]

\* Only handshakes: the life of the session table.
HandshakesOnly == Handshakes

\* Every type of packet: the credentials of both peers, packets forwarded to p2
\* and to the peer ID 0, a probe for p1, a heartbeat.
AllTypes ==
  Handshakes
    \cup [typ : {"Forward"}, peer : {p2, None}]
    \cup [typ : {"ProbeRequest"}, peer : {p1}]
    \cup [typ : {"Heartbeat"}, peer : {None}]

ConnSymmetry == Permutations(Conns)
=============================================================================
