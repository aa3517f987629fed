------------------------------ MODULE SessionTable ------------------------------
(* What a relay server promises about its session table, without goroutines,      *)
(* channels and locks: a connection is anonymous, authenticates once as one peer, *)
(* is then entered in the table at most once, and is closed once and for all. An  *)
(* entry leaves the table only for a newer session of the same peer or after a    *)
(* session of this peer was closed.                                               *)
CONSTANTS Conns, Peers, None

VARIABLES phase, \* of a connection: "anonymous", "authenticated", "served", "closed"
          who,   \* the peer it authenticated as
          table  \* the session through which a peer is reached

tableVars == <<phase, who, table>>

TableInit ==
  /\ phase = [c \in Conns |-> "anonymous"]
  /\ who = [c \in Conns |-> None]
  /\ table = [p \in Peers |-> None]

Authenticate(c, p) ==
  /\ phase[c] = "anonymous"
  /\ phase' = [phase EXCEPT ![c] = "authenticated"]
  /\ who' = [who EXCEPT ![c] = p]
  /\ UNCHANGED table

\* A server that is shutting down serves the session without an entry.
Serve(c) ==
  /\ phase[c] = "authenticated"
  /\ phase' = [phase EXCEPT ![c] = "served"]
  /\ table' \in {table, [table EXCEPT ![who[c]] = c]}
  /\ UNCHANGED who

Close(c) ==
  /\ phase[c] \in {"anonymous", "served"}
  /\ phase' = [phase EXCEPT ![c] = "closed"]
  /\ UNCHANGED <<who, table>>

\* The entry of the peer of a closed session goes, which may be that of a newer session.
Drop(c) ==
  /\ phase[c] = "closed" /\ who[c] # None
  /\ table' = [table EXCEPT ![who[c]] = None]
  /\ UNCHANGED <<phase, who>>

TableNext ==
  \E c \in Conns : (\E p \in Peers : Authenticate(c, p)) \/ Serve(c) \/ Close(c) \/ Drop(c)

TableSpec == TableInit /\ [][TableNext]_tableVars
================================================================================
