---------------------------- MODULE RelayServer ----------------------------
(***************************************************************************)
(* The session layer of a relay server: internal/relay/server.go (the      *)
(* session table), session.go (one Session per accepted connection),       *)
(* session_transporter.go (its Read and Write goroutines and the bounded   *)
(* channels between them) and session_handler.go (the handshake), with     *)
(* the packet callbacks that relay/server/callbacks.go registers.          *)
(*                                                                         *)
(* Every accepted connection runs three goroutines: Read, Write and Serve. *)
(* A Serve goroutine is a member of Conns in the variable pc; the caller   *)
(* of Server.Close is the thread Closer.  Session.Close is a subroutine    *)
(* that any thread may run on any session: its program points are clSwap,  *)
(* clHook, clDelete and clTrs, and tgt[t] is the session it runs on.       *)
(*                                                                         *)
(* A TCP connection that is lost, times out (two heartbeat intervals       *)
(* without data) or delivers garbage is the same event for the server: its *)
(* Read fails.  What the peer sends is any member of Inbound, at any time. *)
(***************************************************************************)
EXTENDS Naturals, Sequences

CONSTANTS
  Conns,      \* connections the listener may accept; a connection is a Session
  Peers,      \* peer IDs that a valid credential may carry
  None,       \* no session / no peer (peer ID 0)
  Closer,     \* the goroutine that calls Server.Close
  Inbound,    \* packets that remote ends may send
  QueueCap,   \* capacity of chRead and of chWrite (64 in the code)
  Shutdown    \* which of "cancel" (the context) and "close" (Server.Close) may happen

PacketTypes == {"Handshake", "Heartbeat", "Forward", "ProbeRequest"}

Packets == [typ : PacketTypes, peer : Peers \cup {None}]

OutTypes == {"HandshakeAck", "Heartbeat", "Forward", "ProbeResponse"}

OutPackets == [typ : OutTypes, peer : Peers \cup {None}]

Threads == Conns \cup {Closer}

ASSUME ServerAssumption ==
  /\ None \notin Peers /\ None \notin Conns
  /\ Closer \notin Conns
  /\ Inbound \subseteq Packets
  /\ QueueCap \in Nat \ {0}
  /\ Shutdown \subseteq {"cancel", "close"}

VARIABLES
  sessions,   \* Server.sessions: peer ID -> session
  srvClosed,  \* Server.closed
  listening,  \* the listener still accepts
  ctxDone,    \* the context passed to Serve is cancelled
  todo,       \* keys that the Range loop of Server.Close has not visited yet
  state,      \* "New" until accepted, then Session.state
  peerID,     \* Session.peerID
  closed,     \* Session.closed
  trsClosed,  \* sessionTransporterImpl.closed; the connection is closed with it
  reader,     \* program point of the Read goroutine
  hold,       \* the packet that Read has decoded and not yet pushed
  writer,     \* program point of the Write goroutine
  chRead,
  chWrite,
  pc,         \* program point of the Serve goroutines and of Closer
  tgt,        \* the session a thread works on
  dst         \* the peer a Serve goroutine forwards a packet to

tables   == <<sessions, srvClosed, listening, ctxDone, todo>>
identity == <<state, peerID>>
io       == <<reader, hold, writer>>
vars == <<sessions, srvClosed, listening, ctxDone, todo, state, peerID, closed,
          trsClosed, reader, hold, writer, chRead, chWrite, pc, tgt, dst>>

ClosePoints == {"clSwap", "clHook", "clDelete", "clTrs"}

PCs == {"off", "select", "hsCheck", "hsLoad", "hsStore", "ack", "send",
        "range", "wait", "done"} \cup ClosePoints

(* Every variable stays in its domain, the channels within their capacity. *)
TypeOK ==
  /\ sessions \in [Peers -> Conns \cup {None}]
  /\ srvClosed \in BOOLEAN /\ listening \in BOOLEAN /\ ctxDone \in BOOLEAN
  /\ todo \in SUBSET Peers
  /\ state \in [Conns -> {"New", "Init", "Running"}]
  /\ peerID \in [Conns -> Peers \cup {None}]
  /\ closed \in [Conns -> BOOLEAN] /\ trsClosed \in [Conns -> BOOLEAN]
  /\ reader \in [Conns -> {"off", "read", "push", "done"}]
  /\ hold \in [Conns -> Packets]
  /\ writer \in [Conns -> {"off", "select", "done"}]
  /\ chRead \in [Conns -> Seq(Packets)]
  /\ chWrite \in [Conns -> Seq(OutPackets)]
  /\ \A c \in Conns : Len(chRead[c]) <= QueueCap /\ Len(chWrite[c]) <= QueueCap
  /\ pc \in [Threads -> PCs]
  /\ tgt \in [Threads -> Conns \cup {None}]
  /\ dst \in [Conns -> Peers \cup {None}]

NoPacket == [typ |-> "Heartbeat", peer |-> None]

Init ==
  /\ sessions = [p \in Peers |-> None]
  /\ srvClosed = FALSE /\ listening = TRUE /\ ctxDone = FALSE
  /\ todo = {}
  /\ state = [c \in Conns |-> "New"]
  /\ peerID = [c \in Conns |-> None]
  /\ closed = [c \in Conns |-> FALSE]
  /\ trsClosed = [c \in Conns |-> FALSE]
  /\ reader = [c \in Conns |-> "off"]
  /\ hold = [c \in Conns |-> NoPacket]
  /\ writer = [c \in Conns |-> "off"]
  /\ chRead = [c \in Conns |-> <<>>]
  /\ chWrite = [c \in Conns |-> <<>>]
  /\ pc = [t \in Threads |-> "off"]
  /\ tgt = [t \in Threads |-> None]
  /\ dst = [c \in Conns |-> None]

-----------------------------------------------------------------------------
(* Server.Serve: the accept loop and the listener.                         *)

Accept(c) ==
  /\ listening
  /\ state[c] = "New"
  /\ state' = [state EXCEPT ![c] = "Init"]
  /\ reader' = [reader EXCEPT ![c] = "read"]
  /\ writer' = [writer EXCEPT ![c] = "select"]
  /\ pc' = [pc EXCEPT ![c] = "select"]
  /\ UNCHANGED <<tables, peerID, closed, trsClosed, hold, chRead, chWrite, tgt, dst>>

Cancel ==
  /\ "cancel" \in Shutdown /\ ~ctxDone
  /\ ctxDone' = TRUE
  /\ UNCHANGED <<sessions, srvClosed, listening, todo, identity, closed,
                 trsClosed, io, chRead, chWrite, pc, tgt, dst>>

CloseListener ==
  /\ ctxDone /\ listening
  /\ listening' = FALSE
  /\ UNCHANGED <<sessions, srvClosed, ctxDone, todo, identity, closed,
                 trsClosed, io, chRead, chWrite, pc, tgt, dst>>

-----------------------------------------------------------------------------
(* sessionTransporterImpl: Read, Write and Close.                          *)

ReadPacket(c, p) ==
  /\ reader[c] = "read"
  /\ ~trsClosed[c]
  /\ hold' = [hold EXCEPT ![c] = p]
  /\ reader' = [reader EXCEPT ![c] = "push"]
  /\ UNCHANGED <<tables, identity, closed, trsClosed, writer, chRead, chWrite,
                 pc, tgt, dst>>

ReadPush(c) ==
  /\ reader[c] = "push"
  /\ Len(chRead[c]) < QueueCap
  /\ chRead' = [chRead EXCEPT ![c] = Append(@, hold[c])]
  /\ reader' = [reader EXCEPT ![c] = "read"]
  /\ hold' = [hold EXCEPT ![c] = NoPacket]
  /\ UNCHANGED <<tables, identity, closed, trsClosed, writer, chWrite, pc, tgt,
                 dst>>

\* conn.Read or Decode fails; the deferred function closes the transporter and
\* then chRead.
ReadExit(c) ==
  /\ reader[c] = "read"
  /\ reader' = [reader EXCEPT ![c] = "done"]
  /\ trsClosed' = [trsClosed EXCEPT ![c] = TRUE]
  /\ UNCHANGED <<tables, identity, closed, hold, writer, chRead, chWrite, pc, tgt, dst>>

WritePacket(c) ==
  /\ writer[c] = "select"
  /\ chWrite[c] # <<>>
  /\ ~trsClosed[c]
  /\ chWrite' = [chWrite EXCEPT ![c] = Tail(@)]
  /\ UNCHANGED <<tables, identity, closed, trsClosed, io, chRead, pc, tgt, dst>>

\* A write fails, the transporter was closed, or the context is cancelled; the
\* deferred function closes the transporter and then chWrite, whose content
\* nobody receives any more.
WriteExit(c) ==
  /\ writer[c] = "select"
  /\ chWrite[c] # <<>> \/ trsClosed[c] \/ ctxDone
  /\ writer' = [writer EXCEPT ![c] = "done"]
  /\ trsClosed' = [trsClosed EXCEPT ![c] = TRUE]
  /\ chWrite' = [chWrite EXCEPT ![c] = <<>>]
  /\ UNCHANGED <<tables, identity, closed, reader, hold, chRead, pc, tgt, dst>>

-----------------------------------------------------------------------------
(* Session.Send: a closed session or a closed channel (recovered panic)    *)
(* refuses the packet, a full channel drops it.                            *)

Send(s, out) ==
  chWrite' = IF closed[s] \/ writer[s] = "done" \/ Len(chWrite[s]) >= QueueCap
             THEN chWrite
             ELSE [chWrite EXCEPT ![s] = Append(@, out)]

Lookup(q) == IF q = None THEN None ELSE sessions[q]

(* Session.Serve: take a packet from chRead and handle it.                 *)

TakePacket(c) ==
  /\ pc[c] = "select"
  /\ chRead[c] # <<>>
  /\ chRead' = [chRead EXCEPT ![c] = Tail(@)]

\* Handle returns an error: not a handshake before the handshake, an invalid
\* credential, or a clear-text handshake that the session's cipher cannot
\* decrypt.
HandleRejected(c) ==
  /\ TakePacket(c)
  /\ LET p == Head(chRead[c])
     IN  IF state[c] = "Running" THEN p.typ = "Handshake"
                                 ELSE p.typ # "Handshake" \/ p.peer = None
  /\ UNCHANGED <<tables, identity, closed, trsClosed, io, chWrite, pc, tgt, dst>>

\* Fault: handshakes are exempt from the cipher, so a running session takes another one.
HandleHandshakeRepeated(c) ==
  /\ TakePacket(c)
  /\ Head(chRead[c]).typ = "Handshake" /\ Head(chRead[c]).peer # None
  /\ state' = [state EXCEPT ![c] = "Running"]
  /\ peerID' = [peerID EXCEPT ![c] = Head(chRead[c]).peer]
  /\ pc' = [pc EXCEPT ![c] = "hsCheck"]
  /\ UNCHANGED <<tables, closed, trsClosed, io, chWrite, tgt, dst>>

\* onHandshake with a valid credential, up to the call of OnSessionHandshake.
HandleHandshake(c) ==
  /\ TakePacket(c)
  /\ state[c] = "Init"
  /\ Head(chRead[c]).typ = "Handshake" /\ Head(chRead[c]).peer # None
  /\ state' = [state EXCEPT ![c] = "Running"]
  /\ peerID' = [peerID EXCEPT ![c] = Head(chRead[c]).peer]
  /\ pc' = [pc EXCEPT ![c] = "hsCheck"]
  /\ UNCHANGED <<tables, closed, trsClosed, io, chWrite, tgt, dst>>

\* Fault: heartbeats are answered in every state of the session.
HandleHeartbeatFaulty(c) ==
  /\ TakePacket(c)
  /\ Head(chRead[c]).typ = "Heartbeat"
  /\ Send(c, [typ |-> "Heartbeat", peer |-> None])
  /\ UNCHANGED <<tables, identity, closed, trsClosed, io, pc, tgt, dst>>

\* onHeartbeat echoes the packet.
HandleHeartbeat(c) ==
  /\ TakePacket(c)
  /\ state[c] = "Running"
  /\ Head(chRead[c]).typ = "Heartbeat"
  /\ Send(c, [typ |-> "Heartbeat", peer |-> None])
  /\ UNCHANGED <<tables, identity, closed, trsClosed, io, pc, tgt, dst>>

\* Fault: online and offline peers are swapped.
HandleProbeFaulty(c) ==
  /\ TakePacket(c)
  /\ state[c] = "Running"
  /\ Head(chRead[c]).typ = "ProbeRequest"
  /\ LET q == Head(chRead[c]).peer
     IN  Send(c, [typ  |-> "ProbeResponse",
                  peer |-> IF Lookup(q) # None THEN None ELSE q])
  /\ UNCHANGED <<tables, identity, closed, trsClosed, io, pc, tgt, dst>>

\* onProbe for one peer: the peer is online when it has a session.
HandleProbe(c) ==
  /\ TakePacket(c)
  /\ state[c] = "Running"
  /\ Head(chRead[c]).typ = "ProbeRequest"
  /\ LET q == Head(chRead[c]).peer
     IN  Send(c, [typ  |-> "ProbeResponse",
                  peer |-> IF Lookup(q) = None THEN None ELSE q])
  /\ UNCHANGED <<tables, identity, closed, trsClosed, io, pc, tgt, dst>>

\* onForward (onSyncPeer is the same code for another packet type): look the
\* destination up, then Send to the session that was found.
HandleForward(c) ==
  /\ TakePacket(c)
  /\ state[c] = "Running"
  /\ Head(chRead[c]).typ = "Forward"
  /\ LET q == Head(chRead[c]).peer
     IN  /\ dst' = [dst EXCEPT ![c] = IF Lookup(q) = None THEN None ELSE q]
         /\ tgt' = [tgt EXCEPT ![c] = Lookup(q)]
         /\ pc' = [pc EXCEPT ![c] = IF Lookup(q) = None THEN "select" ELSE "send"]
  /\ UNCHANGED <<tables, identity, closed, trsClosed, io, chWrite>>

\* Fault: the packet goes back to the sending session.
SendForwardFaulty(c) ==
  /\ pc[c] = "send"
  /\ Send(c, [typ |-> "Forward", peer |-> dst[c]])
  /\ pc' = [pc EXCEPT ![c] = "select"]
  /\ tgt' = [tgt EXCEPT ![c] = None]
  /\ dst' = [dst EXCEPT ![c] = None]
  /\ UNCHANGED <<tables, identity, closed, trsClosed, io, chRead>>

SendForward(c) ==
  /\ pc[c] = "send"
  /\ Send(tgt[c], [typ |-> "Forward", peer |-> dst[c]])
  /\ pc' = [pc EXCEPT ![c] = "select"]
  /\ tgt' = [tgt EXCEPT ![c] = None]
  /\ dst' = [dst EXCEPT ![c] = None]
  /\ UNCHANGED <<tables, identity, closed, trsClosed, io, chRead>>

\* Fault: the loop ignores that chRead was closed.
ServeExitFaulty(c) ==
  /\ pc[c] = "select"
  /\ ctxDone
  /\ pc' = [pc EXCEPT ![c] = "clSwap"]
  /\ tgt' = [tgt EXCEPT ![c] = c]
  /\ UNCHANGED <<tables, identity, closed, trsClosed, io, chRead, chWrite, dst>>

\* The loop ends on the context or on the closed and drained chRead; the
\* deferred function runs Close on the own session.
ServeExit(c) ==
  /\ pc[c] = "select"
  /\ ctxDone \/ (reader[c] = "done" /\ chRead[c] = <<>>)
  /\ pc' = [pc EXCEPT ![c] = "clSwap"]
  /\ tgt' = [tgt EXCEPT ![c] = c]
  /\ UNCHANGED <<tables, identity, closed, trsClosed, io, chRead, chWrite, dst>>

-----------------------------------------------------------------------------
(* Server.OnSessionHandshake, run by the Serve goroutine of c.             *)

HandshakeCheck(c) ==
  /\ pc[c] = "hsCheck"
  /\ pc' = [pc EXCEPT ![c] = IF srvClosed THEN "ack" ELSE "hsLoad"]
  /\ UNCHANGED <<tables, identity, closed, trsClosed, io, chRead, chWrite, tgt, dst>>

HandshakeLoad(c) ==
  /\ pc[c] = "hsLoad"
  /\ tgt' = [tgt EXCEPT ![c] = sessions[peerID[c]]]
  /\ pc' = [pc EXCEPT ![c] = IF sessions[peerID[c]] = None THEN "hsStore" ELSE "clSwap"]
  /\ UNCHANGED <<tables, identity, closed, trsClosed, io, chRead, chWrite, dst>>

HandshakeStore(c) ==
  /\ pc[c] = "hsStore"
  /\ sessions' = [sessions EXCEPT ![peerID[c]] = c]
  /\ pc' = [pc EXCEPT ![c] = "ack"]
  /\ tgt' = [tgt EXCEPT ![c] = None]
  /\ UNCHANGED <<srvClosed, listening, ctxDone, todo, identity, closed,
                 trsClosed, io, chRead, chWrite, dst>>

HandshakeAck(c) ==
  /\ pc[c] = "ack"
  /\ Send(c, [typ |-> "HandshakeAck", peer |-> None])
  /\ pc' = [pc EXCEPT ![c] = "select"]
  /\ UNCHANGED <<tables, identity, closed, trsClosed, io, chRead, tgt, dst>>

-----------------------------------------------------------------------------
(* Session.Close on tgt[t], run by thread t, and where t goes on.          *)

After(t) ==
  IF t = Closer THEN "range"
  ELSE IF tgt[t] = t THEN "done" ELSE "hsStore"

\* Fault: closed is stored, not swapped.
CloseSwapFaulty(t) ==
  /\ pc[t] = "clSwap"
  /\ closed' = [closed EXCEPT ![tgt[t]] = TRUE]
  /\ pc' = [pc EXCEPT ![t] = "clHook"]
  /\ UNCHANGED <<tables, identity, trsClosed, io, chRead, chWrite, tgt, dst>>

\* Fault: Close also sets the session back to SessionStateInit, before it has left the table.
CloseSwapResets(t) ==
  /\ pc[t] = "clSwap"
  /\ closed' = [closed EXCEPT ![tgt[t]] = TRUE]
  /\ state' = [state EXCEPT ![tgt[t]] = "Init"]
  /\ pc' = [pc EXCEPT ![t] = IF closed[tgt[t]] THEN After(t) ELSE "clHook"]
  /\ UNCHANGED <<tables, peerID, trsClosed, io, chRead, chWrite, tgt, dst>>

CloseSwap(t) ==
  /\ pc[t] = "clSwap"
  /\ closed' = [closed EXCEPT ![tgt[t]] = TRUE]
  /\ pc' = [pc EXCEPT ![t] = IF closed[tgt[t]] THEN After(t) ELSE "clHook"]
  /\ UNCHANGED <<tables, identity, trsClosed, io, chRead, chWrite, tgt, dst>>

\* Fault: OnSessionClosed is not called for sessions with a peer ID.
CloseHookFaulty(t) ==
  /\ pc[t] = "clHook"
  /\ pc' = [pc EXCEPT ![t] = "clTrs"]
  /\ UNCHANGED <<tables, identity, closed, trsClosed, io, chRead, chWrite, tgt, dst>>

\* OnSessionClosed up to its early returns.
CloseHook(t) ==
  /\ pc[t] = "clHook"
  /\ pc' = [pc EXCEPT ![t] = IF srvClosed \/ peerID[tgt[t]] = None
                             THEN "clTrs" ELSE "clDelete"]
  /\ UNCHANGED <<tables, identity, closed, trsClosed, io, chRead, chWrite, tgt, dst>>

CloseDelete(t) ==
  /\ pc[t] = "clDelete"
  /\ sessions' = [sessions EXCEPT ![peerID[tgt[t]]] = None]
  /\ pc' = [pc EXCEPT ![t] = "clTrs"]
  /\ UNCHANGED <<srvClosed, listening, ctxDone, todo, identity, closed,
                 trsClosed, io, chRead, chWrite, tgt, dst>>

\* Fault: the transporter of the session is left open.
CloseTransporterFaulty(t) ==
  /\ pc[t] = "clTrs"
  /\ pc' = [pc EXCEPT ![t] = After(t)]
  /\ UNCHANGED <<tables, identity, closed, trsClosed, io, chRead, chWrite, tgt, dst>>

CloseTransporter(t) ==
  /\ pc[t] = "clTrs"
  /\ trsClosed' = [trsClosed EXCEPT ![tgt[t]] = TRUE]
  /\ pc' = [pc EXCEPT ![t] = After(t)]
  /\ UNCHANGED <<tables, identity, closed, io, chRead, chWrite, tgt, dst>>

-----------------------------------------------------------------------------
(* Server.Close: Range visits the keys present when it starts and loads    *)
(* each value when it gets there; then it waits for the goroutines of all  *)
(* accepted connections.                                                   *)

ServerClose ==
  /\ "close" \in Shutdown /\ pc[Closer] = "off"
  /\ srvClosed' = TRUE
  /\ todo' = {p \in Peers : sessions[p] # None}
  /\ pc' = [pc EXCEPT ![Closer] = "range"]
  /\ UNCHANGED <<sessions, listening, ctxDone, identity, closed, trsClosed, io,
                 chRead, chWrite, tgt, dst>>

RangeVisit(p) ==
  /\ pc[Closer] = "range"
  /\ p \in todo
  /\ todo' = todo \ {p}
  /\ tgt' = [tgt EXCEPT ![Closer] = sessions[p]]
  /\ pc' = [pc EXCEPT ![Closer] = IF sessions[p] = None THEN "range" ELSE "clSwap"]
  /\ UNCHANGED <<sessions, srvClosed, listening, ctxDone, identity, closed,
                 trsClosed, io, chRead, chWrite, dst>>

RangeDone ==
  /\ pc[Closer] = "range"
  /\ todo = {}
  /\ pc' = [pc EXCEPT ![Closer] = "wait"]
  /\ UNCHANGED <<tables, identity, closed, trsClosed, io, chRead, chWrite, tgt, dst>>

Stopped(c) ==
  \/ state[c] = "New"
  \/ /\ reader[c] = "done" /\ writer[c] = "done"
     /\ pc[c] = "done" \/ (pc[c] \in ClosePoints /\ tgt[c] = c)

WaitDone ==
  /\ pc[Closer] = "wait"
  /\ \A c \in Conns : Stopped(c)
  /\ pc' = [pc EXCEPT ![Closer] = "done"]
  /\ UNCHANGED <<tables, identity, closed, trsClosed, io, chRead, chWrite, tgt, dst>>

-----------------------------------------------------------------------------
ReadStep(c) == (\E p \in Inbound : ReadPacket(c, p)) \/ ReadPush(c) \/ ReadExit(c)

WriteStep(c) == WritePacket(c) \/ WriteExit(c)

Handle(c) ==
  \/ HandleRejected(c)
  \/ HandleHandshake(c)
  \/ HandleHeartbeat(c)
  \/ HandleProbe(c)
  \/ HandleForward(c)
  \/ SendForward(c)

OnSessionHandshake(c) == HandshakeCheck(c) \/ HandshakeLoad(c) \/ HandshakeStore(c)

SessionClose(t) == CloseSwap(t) \/ CloseHook(t) \/ CloseDelete(t) \/ CloseTransporter(t)

ServeStep(c) ==
  \/ Handle(c)
  \/ ServeExit(c)
  \/ OnSessionHandshake(c)
  \/ HandshakeAck(c)
  \/ SessionClose(c)

CloserStep ==
  \/ (\E p \in Peers : RangeVisit(p))
  \/ RangeDone
  \/ WaitDone
  \/ SessionClose(Closer)

Next ==
  \/ \E c \in Conns : Accept(c) \/ ReadStep(c) \/ WriteStep(c) \/ ServeStep(c)
  \/ Cancel
  \/ CloseListener
  \/ ServerClose
  \/ CloserStep

Spec == Init /\ [][Next]_vars

(* The Go scheduler runs every runnable goroutine; a Read on a closed      *)
(* connection returns.  Nothing is assumed of remote ends, of the caller   *)
(* of Close or of the owner of the context.                                *)
Fairness ==
  \A c \in Conns :
    /\ WF_vars(ReadPush(c))
    /\ WF_vars(ReadExit(c) /\ trsClosed[c])
    /\ WF_vars(WriteStep(c))
    /\ WF_vars(ServeStep(c))

FairSpec == Spec /\ Fairness

-----------------------------------------------------------------------------
(* Properties                                                              *)

(* The table only holds sessions that completed the handshake, each under  *)
(* the peer ID of its own credential (server.go, field sessions), whatever *)
(* sessions of the same peer are being closed and stored at the same time. *)
RegisteredAuthenticated ==
  \A p \in Peers : sessions[p] # None =>
    state[sessions[p]] = "Running" /\ peerID[sessions[p]] = p

\* Some thread is inside OnSessionClosed for session c.
InHook(c) == \E t \in Threads : tgt[t] = c /\ pc[t] \in {"clHook", "clDelete"}

(* A session that was closed, by whichever of the threads that may close   *)
(* it, is out of the table once OnSessionClosed returned, and never comes  *)
(* back; only a server that is itself closed keeps its last entries.       *)
ClosedSessionEvicted ==
  \A c \in Conns : closed[c] /\ ~InHook(c) /\ ~srvClosed =>
    \A p \in Peers : sessions[p] # c

(* A packet forwarded to a peer only ever sits in the write queue of a     *)
(* session that authenticated as this peer, although the destination was   *)
(* looked up before the packet was queued (callbacks.go, onForward).       *)
ForwardReachesAddressee ==
  \A c \in Conns : \A i \in 1 .. Len(chWrite[c]) :
    chWrite[c][i].typ = "Forward" => chWrite[c][i].peer = peerID[c]

(* Nothing is queued for a connection before its handshake: a session      *)
(* only gets packets from its own handlers, which reject everything but a  *)
(* handshake, or through the table, which it enters after the handshake.   *)
SilentBeforeHandshake ==
  \A c \in Conns : chWrite[c] # <<>> => state[c] = "Running"

(* A probe only reports peers online that authenticated on this server, by *)
(* the time the answer is queued (callbacks.go, onProbe).                  *)
OnlineMeansAuthenticated ==
  \A c \in Conns : \A i \in 1 .. Len(chWrite[c]) :
    chWrite[c][i].typ = "ProbeResponse" /\ chWrite[c][i].peer # None =>
      \E d \in Conns : peerID[d] = chWrite[c][i].peer /\ state[d] = "Running"

(* Close runs its body at most once per session: two threads are never     *)
(* both between the Swap of session.closed and the return of Close.        *)
CloseRunsOnce ==
  \A t, u \in Threads :
    /\ pc[t] \in ClosePoints \ {"clSwap"}
    /\ pc[u] \in ClosePoints \ {"clSwap"}
    /\ tgt[t] = tgt[u]
    => t = u

(* A session whose connection is gone is evicted from the table            *)
(* (internal/relay/tests/relay_test.go, TestRelayNetworkFailure), unless   *)
(* the whole server is closed first.                                       *)
DeadConnectionEvicted ==
  \A c \in Conns :
    trsClosed[c] ~> (srvClosed \/ \A p \in Peers : sessions[p] # c)

(* Closing a session, from whichever thread, ends its Serve goroutine: the *)
(* closed connection unblocks Read, which closes chRead.                   *)
ClosedSessionStops ==
  \A c \in Conns : closed[c] ~> pc[c] = "done"

-----------------------------------------------------------------------------
(* The inductive invariant of the proofs.  A session is Unstored from its  *)
(* start until OnSessionHandshake stores it in the table: so long nobody   *)
(* else knows it, and therefore nobody closes it.                          *)
Unstored(c) ==
  \/ state[c] # "Running" /\ pc[c] \in {"off", "select"}
  \/ pc[c] \in {"hsCheck", "hsLoad", "hsStore"}
  \/ pc[c] \in ClosePoints /\ tgt[c] # c

UnstoredUnknown ==
  \A c \in Conns : Unstored(c) =>
    /\ ~closed[c]
    /\ \A t \in Threads : tgt[t] # c
    /\ \A p \in Peers : sessions[p] # c

\* A thread in Session.Close or about to Send has a session to work on; past the
\* Swap it has marked it closed.
TargetsValid ==
  \A t \in Threads :
    /\ pc[t] \in ClosePoints \cup {"send"} => tgt[t] \in Conns
    /\ pc[t] \in ClosePoints \ {"clSwap"} => closed[tgt[t]]

\* Serve starts with the session, and only an authenticated session gets past
\* onHandshake.
HandshakingAuthenticated ==
  \A c \in Conns :
    /\ state[c] = "New" => pc[c] = "off"
    /\ state[c] = "Running" => peerID[c] \in Peers
    /\ \/ pc[c] \in {"hsCheck", "hsLoad", "hsStore", "ack", "send"}
       \/ pc[c] \in ClosePoints /\ tgt[c] # c
       => state[c] = "Running"

\* The destination that onForward looked up carries the peer ID it looked for.
ForwardTargets ==
  \A c \in Conns : pc[c] = "send" =>
    state[tgt[c]] = "Running" /\ peerID[tgt[c]] = dst[c]

Inv ==
  /\ TypeOK
  /\ RegisteredAuthenticated
  /\ UnstoredUnknown
  /\ TargetsValid
  /\ HandshakingAuthenticated
  /\ ClosedSessionEvicted
  /\ CloseRunsOnce

TrafficInv == Inv /\ ForwardTargets /\ SilentBeforeHandshake /\ ForwardReachesAddressee

-----------------------------------------------------------------------------
(* The abstract specification of the table, and what its variables are here. *)
Phase(c) ==
  CASE closed[c] -> "closed"
    [] ~closed[c] /\ state[c] # "Running" -> "anonymous"
    [] ~closed[c] /\ state[c] = "Running" /\ Unstored(c) -> "authenticated"
    [] OTHER -> "served"

Phases == [c \in Conns |-> Phase(c)]

Table == INSTANCE SessionTable WITH phase <- Phases, who <- peerID, table <- sessions

(* The goroutines of all sessions together, with Load, Store and Delete of   *)
(* the table apart and sessions closed by any of them, do nothing that       *)
(* SessionTable does not allow: no connection authenticates twice or after   *)
(* it was closed, none is entered before it authenticated, twice or after it *)
(* was closed, and an entry goes only with a closed session of its peer.     *)
ImplementsSessionTable == Table!TableSpec
=============================================================================
