---------------------------- MODULE RelayClient ----------------------------
(***************************************************************************)
(* One relay client of a node: internal/relay/client_transporter.go (dial, *)
(* Read and Write goroutines), client.go (Serve, Send, Close) and          *)
(* client_handler.go (the handshake answer).                               *)
(*                                                                         *)
(* The goroutine that calls Connect is `caller`; it goes on as the owner   *)
(* of the client, the one who may Close it.  Once Connect has returned nil *)
(* any goroutine may Send.  The server behind the connection is external:  *)
(* it answers a handshake once, and may deliver data of other peers as     *)
(* soon as it knows the session, that is before its answer.                *)
(***************************************************************************)
EXTENDS Naturals, Sequences

CONSTANTS
  QueueCap,   \* capacity of chRead and chWrite (64 in the code)
  MaxData     \* bound: packets that the server sends besides its answer

ASSUME ClientAssumption == QueueCap \in Nat \ {0} /\ MaxData \in Nat

InTypes  == {"HandshakeAck", "Heartbeat", "Forward"}
OutTypes == {"Handshake", "Heartbeat", "Forward"}

VARIABLES
  state,      \* clientTransporterImpl.state
  cipher,     \* the cipher is set
  hsSignal,   \* the channel hsSignal is closed
  ctxDone,    \* the context of Connect and Serve is cancelled
  trsClosed,  \* clientTransporterImpl.closed; die and the connection are closed with it
  closed,     \* Client.closed
  hookRan,    \* Client.onClosed was called
  caller,     \* program point of Connect, then of Client.Close
  reader,
  hold,       \* the packet that Read has decoded and not yet pushed
  writer,
  serve,
  chRead,
  chWrite,
  server,     \* what the server knows: "none", "asked" (got the handshake), "answered"
  sent        \* number of data packets that the server sent

conn  == <<ctxDone, trsClosed>>
owner == <<closed, hookRan, caller>>
vars == <<state, cipher, hsSignal, ctxDone, trsClosed, closed, hookRan, caller,
          reader, hold, writer, serve, chRead, chWrite, server, sent>>

(* Every variable stays in its domain, the channels within their capacity. *)
TypeOK ==
  /\ state \in {"Init", "Connecting", "Connected"}
  /\ cipher \in BOOLEAN /\ hsSignal \in BOOLEAN /\ ctxDone \in BOOLEAN
  /\ trsClosed \in BOOLEAN /\ closed \in BOOLEAN /\ hookRan \in BOOLEAN
  /\ caller \in {"dial", "push", "wait", "failed", "panic", "owner", "closing",
                 "hook", "done"}
  /\ reader \in {"off", "read", "push", "done"}
  /\ hold \in InTypes
  /\ writer \in {"off", "select", "blocked", "done"}
  /\ serve \in {"select", "setState", "signalled", "done"}
  /\ chRead \in Seq(InTypes) /\ Len(chRead) <= QueueCap
  /\ chWrite \in Seq(OutTypes) /\ Len(chWrite) <= QueueCap
  /\ server \in {"none", "asked", "answered"}
  /\ sent \in 0 .. MaxData

Init ==
  /\ state = "Init" /\ cipher = FALSE /\ hsSignal = FALSE
  /\ ctxDone = FALSE /\ trsClosed = FALSE /\ closed = FALSE /\ hookRan = FALSE
  /\ caller = "dial"
  /\ reader = "off" /\ hold = "Heartbeat" /\ writer = "off"
  /\ serve = "select"
  /\ chRead = <<>> /\ chWrite = <<>>
  /\ server = "none" /\ sent = 0

-----------------------------------------------------------------------------
(* Connect                                                                 *)

Dial ==
  /\ caller = "dial"
  /\ \/ /\ caller' = "failed"
        /\ UNCHANGED <<state, reader, writer>>
     \/ /\ caller' = "push"
        /\ state' = "Connecting"
        /\ reader' = "read" /\ writer' = "select"
  /\ UNCHANGED <<cipher, hsSignal, conn, closed, hookRan, hold, serve, chRead,
                 chWrite, server, sent>>

\* The Handshake is pushed without a recover: chWrite may be closed by then.
PushHandshake ==
  /\ caller = "push"
  /\ IF writer = "done"
     THEN caller' = "panic" /\ UNCHANGED chWrite
     ELSE caller' = "wait" /\ chWrite' = Append(chWrite, "Handshake")
  /\ UNCHANGED <<state, cipher, hsSignal, conn, closed, hookRan, reader, hold,
                 writer, serve, chRead, server, sent>>

\* Fault: a lost connection also ends the wait with success.
ConnectReturnFaulty ==
  /\ caller = "wait"
  /\ \/ (hsSignal \/ trsClosed) /\ caller' = "owner"
     \/ ctxDone /\ caller' = "failed"
  /\ UNCHANGED <<state, cipher, hsSignal, conn, closed, hookRan, reader, hold,
                 writer, serve, chRead, chWrite, server, sent>>

ConnectReturn ==
  /\ caller = "wait"
  /\ \/ hsSignal /\ caller' = "owner"
     \/ ctxDone /\ caller' = "failed"
  /\ UNCHANGED <<state, cipher, hsSignal, conn, closed, hookRan, reader, hold,
                 writer, serve, chRead, chWrite, server, sent>>

Cancel ==
  /\ ~ctxDone
  /\ ctxDone' = TRUE
  /\ UNCHANGED <<state, cipher, hsSignal, trsClosed, owner, reader, hold, writer,
                 serve, chRead, chWrite, server, sent>>

-----------------------------------------------------------------------------
(* Read and Write                                                          *)

\* The server sends: its answer once, data while it knows the session.
ReadPacket(p) ==
  /\ reader = "read" /\ ~trsClosed
  /\ IF p = "HandshakeAck"
     THEN server = "asked" /\ server' = "answered" /\ UNCHANGED sent
     ELSE server # "none" /\ sent < MaxData /\ sent' = sent + 1 /\ UNCHANGED server
  /\ hold' = p
  /\ reader' = "push"
  /\ UNCHANGED <<state, cipher, hsSignal, conn, owner, writer, serve, chRead, chWrite>>

ReadPush ==
  /\ reader = "push"
  /\ Len(chRead) < QueueCap
  /\ chRead' = Append(chRead, hold)
  /\ reader' = "read"
  /\ hold' = "Heartbeat"
  /\ UNCHANGED <<state, cipher, hsSignal, conn, owner, writer, serve, chWrite,
                 server, sent>>

ReadExit ==
  /\ reader = "read"
  /\ reader' = "done"
  /\ trsClosed' = TRUE
  /\ UNCHANGED <<state, cipher, hsSignal, ctxDone, owner, hold, writer, serve,
                 chRead, chWrite, server, sent>>

WritePacket ==
  /\ writer = "select"
  /\ chWrite # <<>>
  /\ ~trsClosed
  /\ chWrite' = Tail(chWrite)
  /\ server' = IF Head(chWrite) = "Handshake" THEN "asked" ELSE server
  /\ UNCHANGED <<state, cipher, hsSignal, conn, owner, reader, hold, writer,
                 serve, chRead, sent>>

\* The heartbeat timer.  Write pushes into the channel of which it is the only
\* receiver: on a full channel it waits for itself.
Heartbeat ==
  /\ writer = "select"
  /\ state = "Connected" /\ ~trsClosed
  /\ IF Len(chWrite) < QueueCap
     THEN chWrite' = Append(chWrite, "Heartbeat") /\ UNCHANGED writer
     ELSE writer' = "blocked" /\ UNCHANGED chWrite
  /\ UNCHANGED <<state, cipher, hsSignal, conn, owner, reader, hold, serve,
                 chRead, server, sent>>

\* A failed write, the context, or die; the deferred function closes the
\* transporter and then chWrite.
WriteExit ==
  /\ writer = "select"
  /\ chWrite # <<>> \/ ctxDone \/ trsClosed
  /\ writer' = "done"
  /\ trsClosed' = TRUE
  /\ chWrite' = <<>>
  /\ UNCHANGED <<state, cipher, hsSignal, ctxDone, owner, reader, hold, serve,
                 chRead, server, sent>>

-----------------------------------------------------------------------------
(* Client.Serve with clientHandler.Handle                                  *)

\* Refused (any other packet while connecting, an answer that noise rejects), or
\* handled by a callback that does not touch the client.
HandleData ==
  /\ serve = "select" /\ chRead # <<>>
  /\ chRead' = Tail(chRead)
  /\ UNCHANGED <<state, cipher, hsSignal, conn, owner, reader, hold, writer,
                 serve, chWrite, server, sent>>

\* Fault: the handshake is signalled before the cipher is set.
HandleAckFaulty ==
  /\ serve = "select" /\ chRead # <<>>
  /\ Head(chRead) = "HandshakeAck" /\ state = "Connecting"
  /\ chRead' = Tail(chRead)
  /\ hsSignal' = TRUE
  /\ serve' = "setState"
  /\ UNCHANGED <<state, cipher, conn, owner, reader, hold, writer, chWrite,
                 server, sent>>

\* onHandshakeAck: SetCipher, then SetState, which closes hsSignal first.
HandleAck ==
  /\ serve = "select" /\ chRead # <<>>
  /\ Head(chRead) = "HandshakeAck" /\ state = "Connecting"
  /\ chRead' = Tail(chRead)
  /\ cipher' = TRUE
  /\ serve' = "setState"
  /\ UNCHANGED <<state, hsSignal, conn, owner, reader, hold, writer, chWrite,
                 server, sent>>

CloseSignal ==
  /\ serve = "setState"
  /\ hsSignal' = TRUE
  /\ serve' = "signalled"
  /\ UNCHANGED <<state, cipher, conn, owner, reader, hold, writer, chRead, chWrite,
                 server, sent>>

SetConnected ==
  /\ serve = "signalled"
  /\ state' = "Connected"
  /\ serve' = "select"
  /\ UNCHANGED <<cipher, hsSignal, conn, owner, reader, hold, writer, chRead,
                 chWrite, server, sent>>

\* Fault: only the context ends the loop.
ServeExitFaulty ==
  /\ serve = "select"
  /\ ctxDone
  /\ serve' = "done"
  /\ UNCHANGED <<state, cipher, hsSignal, conn, owner, reader, hold, writer,
                 chRead, chWrite, server, sent>>

ServeExit ==
  /\ serve = "select"
  /\ ctxDone \/ (reader = "done" /\ chRead = <<>>)
  /\ serve' = "done"
  /\ UNCHANGED <<state, cipher, hsSignal, conn, owner, reader, hold, writer,
                 chRead, chWrite, server, sent>>

-----------------------------------------------------------------------------
(* Client.Send and Client.Close, once Connect has returned nil.            *)

\* A closed client or a closed channel (recovered) refuses, a full one drops.
Send ==
  /\ caller \in {"owner", "closing", "hook", "done"}
  /\ ~closed /\ writer # "done" /\ Len(chWrite) < QueueCap
  /\ chWrite' = Append(chWrite, "Forward")
  /\ UNCHANGED <<state, cipher, hsSignal, conn, owner, reader, hold, writer,
                 serve, chRead, server, sent>>

CloseSwap ==
  /\ caller = "owner"
  /\ closed' = TRUE
  /\ caller' = "closing"
  /\ UNCHANGED <<state, cipher, hsSignal, conn, hookRan, reader, hold, writer,
                 serve, chRead, chWrite, server, sent>>

\* Fault: the error of the transporter's Close is ignored.
CloseTransporterFaulty ==
  /\ caller = "closing"
  /\ trsClosed' = TRUE
  /\ caller' = "hook"
  /\ UNCHANGED <<state, cipher, hsSignal, ctxDone, closed, hookRan, reader, hold,
                 writer, serve, chRead, chWrite, server, sent>>

\* Close fails when the transporter was closed before, by Read or by Write: then
\* onClosed is not called.
CloseTransporter ==
  /\ caller = "closing"
  /\ trsClosed' = TRUE
  /\ caller' = IF trsClosed THEN "done" ELSE "hook"
  /\ UNCHANGED <<state, cipher, hsSignal, ctxDone, closed, hookRan, reader, hold,
                 writer, serve, chRead, chWrite, server, sent>>

CloseHook ==
  /\ caller = "hook"
  /\ hookRan' = TRUE
  /\ caller' = "done"
  /\ UNCHANGED <<state, cipher, hsSignal, conn, closed, reader, hold, writer,
                 serve, chRead, chWrite, server, sent>>

-----------------------------------------------------------------------------
ConnectStep == Dial \/ PushHandshake \/ ConnectReturn

ReadStep == (\E p \in InTypes : ReadPacket(p)) \/ ReadPush \/ ReadExit

WriteStep == WritePacket \/ Heartbeat \/ WriteExit

ServeStep == HandleData \/ HandleAck \/ CloseSignal \/ SetConnected \/ ServeExit

OwnerStep == Send \/ CloseSwap \/ CloseTransporter \/ CloseHook

Next == ConnectStep \/ ReadStep \/ WriteStep \/ ServeStep \/ OwnerStep \/ Cancel

Spec == Init /\ [][Next]_vars

(* The Go scheduler runs every runnable goroutine, and a Read on a closed  *)
(* connection returns.  Nothing is assumed of the server, of senders or of *)
(* the owner of the context.                                               *)
Fairness ==
  /\ WF_vars(ConnectStep)
  /\ WF_vars(ReadPush) /\ WF_vars(ReadExit /\ trsClosed)
  /\ WF_vars(WritePacket \/ WriteExit)
  /\ WF_vars(ServeStep)
  /\ WF_vars(CloseTransporter \/ CloseHook)

FairSpec == Spec /\ Fairness

-----------------------------------------------------------------------------
(* Properties                                                              *)

Queued(p) == \E i \in 1 .. Len(chWrite) : chWrite[i] = p

(* Only the handshake leaves the node unencrypted: writePacketHelper skips *)
(* the encryption while there is no cipher, so no other packet may be      *)
(* written before onHandshakeAck has set it.                               *)
EncryptedAfterHandshake ==
  [][WritePacket /\ Head(chWrite) # "Handshake" => cipher]_vars

(* Connect only returns nil once the server's answer was handled, and then *)
(* exactly one handshake was sent: no second one may still be queued.      *)
ConnectMeansAnswered ==
  caller \in {"owner", "closing", "hook", "done"} =>
    cipher /\ server = "answered" /\ ~Queued("Handshake")

(* However a transporter ends (Read, Write or Close), its Serve goroutine  *)
(* ends too: the closed connection ends Read, which closes chRead.         *)
ClosedTransporterStops == trsClosed ~> serve = "done"

-----------------------------------------------------------------------------
(* The abstract specification of a client, and what its variables are here. *)

Life ==
  IF state = "Init" THEN "none"
  ELSE IF trsClosed THEN IF hsSignal THEN "lost" ELSE "failed"
  ELSE IF hsSignal THEN "up" ELSE "hs"

Closing ==
  IF caller = "closing" THEN "swapped"
  ELSE IF caller = "hook" THEN "calling"
  ELSE IF caller = "done" THEN "done" ELSE "no"

Owned == caller \in {"owner", "closing", "hook", "done"}

Self == {"client"}

Client == INSTANCE ClientLife WITH
  Clients <- Self, Reused <- FALSE,
  life <- [c \in Self |-> Life],
  connected <- IF Owned THEN Self ELSE {},
  closing <- [c \in Self |-> Closing]

(* The goroutines of a client together do what ClientLife allows: Connect    *)
(* does not return nil before the answer, the transporter does not come back *)
(* once Read, Write or Close has closed it, and onClosed is called at most   *)
(* once, and only by a Close that found the transporter open.                *)
ImplementsClientLife == Client!LifeSpec

-----------------------------------------------------------------------------
(* The inductive invariant of the proofs: what each goroutine may conclude *)
(* from the part of the state that it sees.                                *)

\* The handshake is the first packet in chWrite, alone and before any answer.
HandshakeFirst ==
  /\ Queued("Handshake") =>
       chWrite = <<"Handshake">> /\ server = "none" /\ caller \in {"wait", "failed"}
  /\ caller \in {"dial", "push"} => server = "none" /\ chWrite = <<>>

\* An answer on its way has been sent; there is none before the handshake.
AnswerSent ==
  /\ reader = "push" /\ hold = "HandshakeAck" => server = "answered"
  /\ (\E i \in 1 .. Len(chRead) : chRead[i] = "HandshakeAck") => server = "answered"
  /\ cipher => server = "answered"

\* Whoever may push anything but the handshake does so after SetCipher.
CipherFirst ==
  /\ state = "Connected" \/ hsSignal \/ serve \in {"setState", "signalled"} => cipher
  /\ caller \in {"owner", "closing", "hook", "done"} => hsSignal
  /\ Queued("Heartbeat") \/ Queued("Forward") => cipher

Inv == TypeOK /\ HandshakeFirst /\ AnswerSent /\ CipherFirst
=============================================================================
