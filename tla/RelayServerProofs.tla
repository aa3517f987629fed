------------------------- MODULE RelayServerProofs -------------------------
(***************************************************************************)
(* Proofs about RelayServer for any number of connections and peers, any   *)
(* traffic and any queue capacity: its invariants, that it implements      *)
(* SessionTable, and that every entry of the table is attended to.         *)
(***************************************************************************)
EXTENDS RelayServer, TLAPS

(* What the proofs need of the constants.                                  *)
LEMMA Constants ==
  /\ None \notin Peers /\ None \notin Conns /\ Closer \notin Conns
  /\ QueueCap \in Nat \ {0}
BY Zenon, ServerAssumption

USE Constants

(* What a step of the server is: the case split that the proofs share.     *)
LEMMA StepCases ==
  ASSUME Next
  PROVE  \/ \E c \in Conns :
              \/ Accept(c)
              \/ \E p \in Inbound : ReadPacket(c, p)
              \/ ReadPush(c) \/ ReadExit(c) \/ WritePacket(c) \/ WriteExit(c)
              \/ HandleRejected(c) \/ HandleHandshake(c) \/ HandleHeartbeat(c)
              \/ HandleProbe(c) \/ HandleForward(c) \/ SendForward(c)
              \/ ServeExit(c) \/ HandshakeCheck(c) \/ HandshakeLoad(c)
              \/ HandshakeStore(c) \/ HandshakeAck(c)
         \/ \E t \in Threads :
              \/ CloseSwap(t) \/ CloseHook(t) \/ CloseDelete(t)
              \/ CloseTransporter(t)
         \/ Cancel \/ CloseListener \/ ServerClose
         \/ (\E p \in Peers : RangeVisit(p)) \/ RangeDone \/ WaitDone
BY Zenon DEF Next, ReadStep, WriteStep, ServeStep, Handle, OnSessionHandshake,
       SessionClose, CloserStep, Threads

(* Inbound packets, and the packets the handlers build, are well typed.    *)
LEMMA PacketTyped ==
  /\ NoPacket \in Packets
  /\ \A p \in Inbound : p \in Packets
  /\ \A p \in Packets : p.typ \in PacketTypes /\ p.peer \in Peers \cup {None}
  /\ \A ty \in OutTypes : \A q \in Peers \cup {None} :
       [typ |-> ty, peer |-> q] \in OutPackets
BY Zenon, ServerAssumption DEF NoPacket, Packets, PacketTypes, OutTypes, OutPackets

(* Send keeps the write queues typed and within their capacity.            *)
LEMMA SendTyped ==
  ASSUME TypeOK, NEW s \in Conns, NEW out \in OutPackets, Send(s, out)
  PROVE  /\ chWrite' \in [Conns -> Seq(OutPackets)]
         /\ \A c \in Conns : Len(chWrite'[c]) <= QueueCap
<1>1. CASE closed[s] \/ writer[s] = "done" \/ Len(chWrite[s]) >= QueueCap
  BY Zenon, <1>1 DEF Send, TypeOK
<1>2. CASE ~(closed[s] \/ writer[s] = "done" \/ Len(chWrite[s]) >= QueueCap)
  <2>1. chWrite' = [chWrite EXCEPT ![s] = Append(@, out)]
    BY Zenon, <1>2 DEF Send
  <2>2. chWrite[s] \in Seq(OutPackets) /\ Len(chWrite[s]) \in Nat /\ QueueCap \in Nat
    BY DEF TypeOK
  <2>3. Append(chWrite[s], out) \in Seq(OutPackets)
        /\ Len(Append(chWrite[s], out)) <= QueueCap
    BY <1>2, <2>2
  <2>4. QED
    BY Zenon, <2>1, <2>3 DEF TypeOK
<1>3. QED
  BY Zenon, <1>1, <1>2

(* Taking a packet keeps the read queues typed and within their capacity.  *)
LEMMA TakeTyped ==
  ASSUME TypeOK, NEW c \in Conns, TakePacket(c)
  PROVE  /\ chRead' \in [Conns -> Seq(Packets)]
         /\ \A d \in Conns : Len(chRead'[d]) <= QueueCap
<1>1. Tail(chRead[c]) \in Seq(Packets) /\ Len(Tail(chRead[c])) <= Len(chRead[c])
  BY DEF TakePacket, TypeOK
<1>2. Len(Tail(chRead[c])) <= QueueCap
  BY <1>1 DEF TypeOK
<1>3. QED
  BY Zenon, <1>1, <1>2 DEF TakePacket, TypeOK

(* What Send may add to the write queues.                                  *)
LEMMA SendAdds ==
  ASSUME TypeOK, NEW s \in Conns, NEW out \in OutPackets, Send(s, out),
         NEW d \in Conns, NEW i \in 1 .. Len(chWrite'[d])
  PROVE  \/ i \in 1 .. Len(chWrite[d]) /\ chWrite'[d][i] = chWrite[d][i]
         \/ d = s /\ chWrite'[d][i] = out
<1>1. CASE chWrite' = chWrite
  BY Zenon, <1>1
<1>2. CASE chWrite' = [chWrite EXCEPT ![s] = Append(@, out)]
  <2>1. CASE d # s
    BY Zenon, <1>2, <2>1 DEF TypeOK
  <2>2. CASE d = s
    <3>1. chWrite'[d] = Append(chWrite[d], out) /\ chWrite[d] \in Seq(OutPackets)
      BY Zenon, <1>2, <2>2 DEF TypeOK
    <3>2. QED
      BY <2>2, <3>1
  <2>3. QED
    BY Zenon, <2>1, <2>2
<1>3. QED
  BY Zenon, <1>1, <1>2 DEF Send

(* Send keeps ForwardReachesAddressee for a packet that is not a Forward,  *)
(* or is for the peer of the session.                                      *)
LEMMA SendAddressed ==
  ASSUME TypeOK, ForwardReachesAddressee, peerID' = peerID,
         NEW s \in Conns, NEW out \in OutPackets, Send(s, out),
         out.typ # "Forward" \/ out.peer = peerID[s]
  PROVE  ForwardReachesAddressee'
<1>1. \A d \in Conns : \A i \in 1 .. Len(chWrite'[d]) :
        \/ i \in 1 .. Len(chWrite[d]) /\ chWrite'[d][i] = chWrite[d][i]
        \/ d = s /\ chWrite'[d][i] = out
  BY SendAdds
<1>2. QED
  BY Zenon, <1>1 DEF ForwardReachesAddressee

(* The program points that the actions assign.                             *)
LEMMA PCTyped ==
  /\ {"off", "select", "hsCheck", "hsLoad", "hsStore", "ack", "send", "range"} \subseteq PCs
  /\ {"wait", "done", "clSwap", "clHook", "clDelete", "clTrs"} \subseteq PCs
BY Zenon DEF PCs, ClosePoints

(* The packet that Serve takes is well typed.                              *)
LEMMA HeadTyped ==
  ASSUME TypeOK, NEW c \in Conns, TakePacket(c)
  PROVE  Head(chRead[c]).peer \in Peers \cup {None}
<1>1. chRead[c] \in Seq(Packets) /\ chRead[c] # <<>>
  BY Zenon DEF TakePacket, TypeOK
<1>2. Head(chRead[c]) \in Packets
  BY <1>1
<1>3. QED
  BY Zenon, <1>2, PacketTyped

(* onProbe sends one packet, to the own session.                           *)
LEMMA ProbeSends ==
  ASSUME TypeOK, NEW c \in Conns, HandleProbe(c)
  PROVE  \E out \in OutPackets : Send(c, out) /\ out.typ # "Forward"
<1> DEFINE q == Head(chRead[c]).peer
           out == [typ |-> "ProbeResponse", peer |-> IF Lookup(q) = None THEN None ELSE q]
<1>1. q \in Peers \cup {None}
  BY Zenon, HeadTyped DEF HandleProbe
<1>2. out \in OutPackets /\ out.typ # "Forward"
  BY Zenon, <1>1, PacketTyped DEF OutTypes
<1>3. Send(c, out)
  BY Zenon DEF HandleProbe
<1> HIDE DEF out
<1>4. QED
  BY Zenon, <1>2, <1>3

(* What onForward does, apart from taking the packet: q is the destination.*)
Forwarding(c, q) ==
  /\ pc[c] = "select"
  /\ dst' = [dst EXCEPT ![c] = IF Lookup(q) = None THEN None ELSE q]
  /\ tgt' = [tgt EXCEPT ![c] = Lookup(q)]
  /\ pc' = [pc EXCEPT ![c] = IF Lookup(q) = None THEN "select" ELSE "send"]
  /\ sessions' = sessions /\ srvClosed' = srvClosed /\ closed' = closed
  /\ state' = state /\ peerID' = peerID

(* HandleForward handles one packet: its destination is looked up once.      *)
LEMMA ForwardLooksUp ==
  ASSUME TypeOK, NEW c \in Conns, HandleForward(c)
  PROVE  \E q \in Peers \cup {None} :
           Forwarding(c, q) /\ Lookup(q) \in Conns \cup {None}
<1> DEFINE q == Head(chRead[c]).peer
<1>1. q \in Peers \cup {None}
  BY Zenon, HeadTyped DEF HandleForward
<1>2. Forwarding(c, q)
  BY Zenon DEF HandleForward, Forwarding, TakePacket, tables, identity
<1> HIDE DEF q
<1>3. Lookup(q) \in Conns \cup {None}
  BY Zenon, <1>1 DEF Lookup, TypeOK
<1>4. QED
  BY Zenon, <1>1, <1>2, <1>3

(* Every step keeps the type invariant and the bound of the channels.         *)
LEMMA TypeStep ==
  ASSUME Inv, Next
  PROVE  TypeOK'
<1> DEFINE Quiet == UNCHANGED vars
<1>1. ASSUME Quiet PROVE TypeOK'
  BY Zenon, <1>1 DEF vars, Inv, TypeOK
<1>2. ASSUME NEW c \in Conns, Accept(c) PROVE TypeOK'
  BY Zenon, <1>2, PCTyped DEF Accept, Inv, TypeOK, tables, identity, io, Threads
<1>3. ASSUME NEW c \in Conns, NEW p \in Inbound, ReadPacket(c, p) PROVE TypeOK'
  <2>1. p \in Packets
    BY Zenon, PacketTyped
  <2>2. QED
    BY Zenon, <1>3, <2>1 DEF ReadPacket, Inv, TypeOK, tables, identity
<1>4. ASSUME NEW c \in Conns, ReadPush(c) PROVE TypeOK'
  <2>1. /\ Append(chRead[c], hold[c]) \in Seq(Packets)
        /\ Len(Append(chRead[c], hold[c])) <= QueueCap
    BY <1>4 DEF ReadPush, Inv, TypeOK
  <2>2. NoPacket \in Packets
    BY Zenon, PacketTyped
  <2>3. QED
    BY Zenon, <1>4, <2>1, <2>2 DEF ReadPush, Inv, TypeOK, tables, identity
<1>5. ASSUME NEW c \in Conns, ReadExit(c) PROVE TypeOK'
  BY Zenon, <1>5, PCTyped DEF ReadExit, Inv, TypeOK, tables, identity, io
<1>6. ASSUME NEW c \in Conns, WritePacket(c) PROVE TypeOK'
  BY <1>6, PCTyped DEF WritePacket, Inv, TypeOK, tables, identity, io
<1>7. ASSUME NEW c \in Conns, WriteExit(c) PROVE TypeOK'
  BY <1>7, PCTyped DEF WriteExit, Inv, TypeOK, tables, identity, io
<1>8. ASSUME NEW c \in Conns, HandleRejected(c) PROVE TypeOK'
  <2>1. /\ chRead' \in [Conns -> Seq(Packets)]
        /\ \A d \in Conns : Len(chRead'[d]) <= QueueCap
    BY Zenon, <1>8, TakeTyped DEF HandleRejected, Inv
  <2>2. QED
    BY Zenon, <1>8, <2>1 DEF HandleRejected, Inv, TypeOK, tables, identity, io
<1>9. ASSUME NEW c \in Conns, HandleHandshake(c) PROVE TypeOK'
  <2>1. Head(chRead[c]).peer \in Peers \cup {None}
    BY Zenon, <1>9, HeadTyped DEF HandleHandshake, Inv
  <2>2. /\ chRead' \in [Conns -> Seq(Packets)]
        /\ \A d \in Conns : Len(chRead'[d]) <= QueueCap
    BY Zenon, <1>9, TakeTyped DEF HandleHandshake, Inv
  <2>3. QED
    BY Zenon, <1>9, <2>1, <2>2, PCTyped DEF HandleHandshake, Inv, TypeOK, Threads,
       tables, io
<1>10. ASSUME NEW c \in Conns, HandleHeartbeat(c) PROVE TypeOK'
  <2>1. [typ |-> "Heartbeat", peer |-> None] \in OutPackets
    BY Zenon, PacketTyped DEF OutTypes
  <2>2. /\ chWrite' \in [Conns -> Seq(OutPackets)]
        /\ \A d \in Conns : Len(chWrite'[d]) <= QueueCap
    BY Zenon, <1>10, <2>1, SendTyped DEF HandleHeartbeat, Inv
  <2>3. /\ chRead' \in [Conns -> Seq(Packets)]
        /\ \A d \in Conns : Len(chRead'[d]) <= QueueCap
    BY Zenon, <1>10, TakeTyped DEF HandleHeartbeat, Inv
  <2>4. QED
    BY Zenon, <1>10, <2>2, <2>3 DEF HandleHeartbeat, Inv, TypeOK, tables, identity, io
<1>11. ASSUME NEW c \in Conns, HandleProbe(c) PROVE TypeOK'
  <2>1. PICK out \in OutPackets : Send(c, out) /\ out.typ # "Forward"
    BY Zenon, <1>11, ProbeSends DEF Inv
  <2>2. /\ chWrite' \in [Conns -> Seq(OutPackets)]
        /\ \A d \in Conns : Len(chWrite'[d]) <= QueueCap
    BY Zenon, <2>1, SendTyped DEF Inv
  <2>3. /\ chRead' \in [Conns -> Seq(Packets)]
        /\ \A d \in Conns : Len(chRead'[d]) <= QueueCap
    BY Zenon, <1>11, TakeTyped DEF HandleProbe, Inv
  <2>4. QED
    BY Zenon, <1>11, <2>2, <2>3 DEF HandleProbe, Inv, TypeOK, tables, identity, io
<1>12. ASSUME NEW c \in Conns, HandleForward(c) PROVE TypeOK'
  <2>1. PICK q \in Peers \cup {None} :
          Forwarding(c, q) /\ Lookup(q) \in Conns \cup {None}
    BY Zenon, <1>12, ForwardLooksUp DEF Inv
  <2>2. dst' \in [Conns -> Peers \cup {None}] /\ tgt' \in [Threads -> Conns \cup {None}]
    BY Zenon, <2>1 DEF Forwarding, Inv, TypeOK, Threads
  <2>3. pc' \in [Threads -> PCs]
    BY Zenon, <2>1, PCTyped DEF Forwarding, Inv, TypeOK
  <2>4. /\ chRead' \in [Conns -> Seq(Packets)]
        /\ \A d \in Conns : Len(chRead'[d]) <= QueueCap
    BY Zenon, <1>12, TakeTyped DEF HandleForward, Inv
  <2>5. QED
    BY Zenon, <1>12, <2>2, <2>3, <2>4 DEF HandleForward, Inv, TypeOK, tables,
       identity, io
<1>13. ASSUME NEW c \in Conns, SendForward(c) PROVE TypeOK'
  <2>1. tgt[c] \in Conns /\ [typ |-> "Forward", peer |-> dst[c]] \in OutPackets
    BY Zenon, <1>13, PacketTyped DEF SendForward, OutTypes, Inv, TypeOK,
       TargetsValid, Threads
  <2>2. /\ chWrite' \in [Conns -> Seq(OutPackets)]
        /\ \A d \in Conns : Len(chWrite'[d]) <= QueueCap
    BY Zenon, <1>13, <2>1, SendTyped DEF SendForward, Inv
  <2>3. QED
    BY Zenon, <1>13, <2>2, PCTyped DEF SendForward, Inv, TypeOK, Threads, tables,
       identity, io
<1>14. ASSUME NEW c \in Conns, ServeExit(c) PROVE TypeOK'
  BY Zenon, <1>14, PCTyped DEF ServeExit, Inv, TypeOK, tables, identity, io, Threads
<1>15. ASSUME NEW c \in Conns, HandshakeCheck(c) PROVE TypeOK'
  BY Zenon, <1>15, PCTyped DEF HandshakeCheck, Inv, TypeOK, tables, identity, io,
     Threads
<1>16. ASSUME NEW c \in Conns, HandshakeLoad(c) PROVE TypeOK'
  <2>1. sessions[peerID[c]] \in Conns \cup {None}
    BY Zenon, <1>16 DEF HandshakeLoad, Inv, TypeOK, HandshakingAuthenticated
  <2>2. QED
    BY Zenon, <1>16, <2>1, PCTyped DEF HandshakeLoad, Inv, TypeOK, Threads, tables,
       identity, io
<1>17. ASSUME NEW c \in Conns, HandshakeStore(c) PROVE TypeOK'
  BY Zenon, <1>17, PCTyped DEF HandshakeStore, Inv, TypeOK, tables, identity, io,
     HandshakingAuthenticated, Threads
<1>18. ASSUME NEW c \in Conns, HandshakeAck(c) PROVE TypeOK'
  <2>1. [typ |-> "HandshakeAck", peer |-> None] \in OutPackets
    BY Zenon, PacketTyped DEF OutTypes
  <2>2. /\ chWrite' \in [Conns -> Seq(OutPackets)]
        /\ \A d \in Conns : Len(chWrite'[d]) <= QueueCap
    BY Zenon, <1>18, <2>1, SendTyped DEF HandshakeAck, Inv
  <2>3. QED
    BY Zenon, <1>18, <2>2, PCTyped DEF HandshakeAck, Inv, TypeOK, Threads, tables,
       identity, io
<1>19. ASSUME NEW t \in Threads, CloseSwap(t) PROVE TypeOK'
  BY Zenon, <1>19, PCTyped DEF CloseSwap, Inv, TypeOK, tables, identity, io, After
<1>20. ASSUME NEW t \in Threads, CloseHook(t) PROVE TypeOK'
  BY Zenon, <1>20, PCTyped DEF CloseHook, Inv, TypeOK, tables, identity, io, After
<1>21. ASSUME NEW t \in Threads, CloseDelete(t) PROVE TypeOK'
  BY Zenon, <1>21, PCTyped DEF CloseDelete, Inv, TypeOK, tables, identity, io, After
<1>22. ASSUME NEW t \in Threads, CloseTransporter(t) PROVE TypeOK'
  BY Zenon, <1>22, PCTyped DEF CloseTransporter, Inv, TypeOK, tables, identity, io,
     After
<1>23. ASSUME Cancel PROVE TypeOK'
  BY Zenon, <1>23, PCTyped DEF Cancel, Inv, TypeOK, tables, identity, io, Threads
<1>24. ASSUME CloseListener PROVE TypeOK'
  BY Zenon, <1>24, PCTyped DEF CloseListener, Inv, TypeOK, tables, identity, io,
     Threads
<1>25. ASSUME ServerClose PROVE TypeOK'
  BY Zenon, <1>25, PCTyped DEF ServerClose, Inv, TypeOK, tables, identity, io,
     Threads
<1>26. ASSUME RangeDone PROVE TypeOK'
  BY Zenon, <1>26, PCTyped DEF RangeDone, Inv, TypeOK, tables, identity, io, Threads
<1>27. ASSUME WaitDone PROVE TypeOK'
  BY Zenon, <1>27, PCTyped DEF WaitDone, Inv, TypeOK, tables, identity, io, Threads
<1>28. ASSUME NEW p \in Peers, RangeVisit(p) PROVE TypeOK'
  BY Zenon, <1>28, PCTyped DEF RangeVisit, Inv, TypeOK, tables, identity, io, Threads
<1> HIDE DEF Quiet
<1>29. QED
  BY Zenon, <1>1, <1>2, <1>3, <1>4, <1>5, <1>6, <1>7, <1>8, <1>9, <1>10, <1>11,
     <1>12, <1>13, <1>14, <1>15, <1>16, <1>17, <1>18, <1>19, <1>20, <1>21,
     <1>22, <1>23, <1>24, <1>25, <1>26, <1>27, <1>28, StepCases, Zenon

(* The table gains an entry in HandshakeStore only, and the peer ID of a     *)
(* session changes in HandleHandshake only, when nobody knows the session.   *)
LEMMA RegisteredStep ==
  ASSUME Inv, Next
  PROVE  RegisteredAuthenticated'
<1> DEFINE Quiet == UNCHANGED <<sessions, state, peerID>>
<1>1. ASSUME Quiet PROVE RegisteredAuthenticated'
  BY Zenon, <1>1 DEF Inv, RegisteredAuthenticated
<1>2. ASSUME NEW c \in Conns,
             ReadPush(c) \/ ReadExit(c) \/ WritePacket(c) \/ WriteExit(c) \/
             HandleRejected(c) \/ HandleHeartbeat(c) \/ HandleProbe(c) \/
             HandleForward(c) \/ SendForward(c) \/ ServeExit(c) \/
             HandshakeCheck(c) \/ HandshakeLoad(c) \/ HandshakeAck(c)
      PROVE  Quiet
  BY Zenon, <1>2 DEF ReadPush, ReadExit, WritePacket, WriteExit, HandleRejected,
     HandleHeartbeat, HandleProbe, HandleForward, SendForward, ServeExit,
     HandshakeCheck, HandshakeLoad, HandshakeAck, TakePacket, tables,
     identity, io
<1>3. ASSUME NEW t \in Threads,
             CloseSwap(t) \/ CloseHook(t) \/ CloseTransporter(t)
      PROVE  Quiet
  BY Zenon, <1>3 DEF CloseSwap, CloseHook, CloseTransporter, tables, identity, io
<1>4. ASSUME
             Cancel \/ CloseListener \/ ServerClose \/ RangeDone \/ WaitDone
      PROVE  Quiet
  BY Zenon, <1>4 DEF Cancel, CloseListener, ServerClose, RangeDone, WaitDone, tables,
     identity, io
<1>5. ASSUME NEW c \in Conns, NEW p \in Inbound,
             ReadPacket(c, p)
      PROVE  Quiet
  BY Zenon, <1>5 DEF ReadPacket, tables, identity, io
<1>6. ASSUME NEW p \in Peers, RangeVisit(p) PROVE Quiet
  BY Zenon, <1>6 DEF RangeVisit, tables, identity, io
<1>7. ASSUME NEW c \in Conns, Accept(c) PROVE RegisteredAuthenticated'
  BY <1>7 DEF Accept, Inv, TypeOK, RegisteredAuthenticated, UnstoredUnknown,
     Unstored, HandshakingAuthenticated, tables, identity, io
<1>8. ASSUME NEW c \in Conns, HandleHandshake(c) PROVE RegisteredAuthenticated'
  BY <1>8 DEF HandleHandshake, TakePacket, Inv, TypeOK,
     RegisteredAuthenticated, UnstoredUnknown, Unstored,
     HandshakingAuthenticated, tables, identity, io
<1>9. ASSUME NEW c \in Conns, HandshakeStore(c) PROVE RegisteredAuthenticated'
  BY <1>9 DEF HandshakeStore, Inv, TypeOK, RegisteredAuthenticated,
     UnstoredUnknown, Unstored, HandshakingAuthenticated, tables, identity, io
<1>10. ASSUME NEW t \in Threads, CloseDelete(t) PROVE RegisteredAuthenticated'
  BY <1>10 DEF CloseDelete, Inv, TypeOK, RegisteredAuthenticated,
     UnstoredUnknown, Unstored, HandshakingAuthenticated, tables, identity, io
<1> HIDE DEF Quiet
<1>11. QED
  BY <1>1, <1>2, <1>3, <1>4, <1>5, <1>6, <1>7, <1>8, <1>9, <1>10, StepCases,
     Zenon

(* A session is unknown to the other threads until it is stored.             *)
LEMMA UnstoredStep ==
  ASSUME Inv, Next
  PROVE  UnstoredUnknown'
<1> DEFINE Quiet == UNCHANGED <<sessions, state, closed, pc, tgt>>
<1>1. ASSUME Quiet PROVE UnstoredUnknown'
  BY Zenon, <1>1 DEF Inv, UnstoredUnknown, Unstored
<1>2. ASSUME NEW c \in Conns,
             ReadPush(c) \/ ReadExit(c) \/ WritePacket(c) \/ WriteExit(c) \/
             HandleRejected(c) \/ HandleHeartbeat(c) \/ HandleProbe(c)
      PROVE  Quiet
  BY Zenon, <1>2 DEF ReadPush, ReadExit, WritePacket, WriteExit, HandleRejected,
     HandleHeartbeat, HandleProbe, TakePacket, tables, identity, io
<1>3. ASSUME Cancel \/ CloseListener PROVE Quiet
  BY Zenon, <1>3 DEF Cancel, CloseListener, tables, identity, io
<1>4. ASSUME NEW c \in Conns, NEW p \in Inbound,
             ReadPacket(c, p)
      PROVE  Quiet
  BY Zenon, <1>4 DEF ReadPacket, tables, identity, io
<1>5. ASSUME NEW c \in Conns, Accept(c) PROVE UnstoredUnknown'
  BY SMTT(60), <1>5 DEF Accept, Inv, TypeOK, UnstoredUnknown, Unstored, TargetsValid,
     HandshakingAuthenticated, ClosePoints, Threads, After, tables, identity,
     io
<1>6. ASSUME NEW c \in Conns, HandleHandshake(c) PROVE UnstoredUnknown'
  BY <1>6 DEF HandleHandshake, TakePacket, Inv, TypeOK, UnstoredUnknown,
     Unstored, TargetsValid, HandshakingAuthenticated, ClosePoints, Threads,
     After, tables, identity, io
<1>7. ASSUME NEW c \in Conns, HandleForward(c) PROVE UnstoredUnknown'
  <2>1. PICK q \in Peers \cup {None} :
          Forwarding(c, q) /\ Lookup(q) \in Conns \cup {None}
    BY Zenon, <1>7, ForwardLooksUp DEF Inv
  <2>2. \A d \in Conns : Unstored(d)' => Unstored(d)
    BY Zenon, <1>7, <2>1 DEF HandleForward, Forwarding, Inv, TypeOK, Unstored,
       ClosePoints, Threads
  <2>3. \A d \in Conns : Unstored(d) => Lookup(q) # d
    BY Zenon, <2>1 DEF Lookup, Inv, UnstoredUnknown
  <2>4. QED
    BY Zenon, <2>1, <2>2, <2>3 DEF Forwarding, Inv, TypeOK, UnstoredUnknown, Threads
<1>8. ASSUME NEW c \in Conns, SendForward(c) PROVE UnstoredUnknown'
  BY <1>8 DEF SendForward, Inv, TypeOK, UnstoredUnknown, Unstored,
     TargetsValid, HandshakingAuthenticated, ClosePoints, Threads, After,
     tables, identity, io
<1>9. ASSUME NEW c \in Conns, ServeExit(c) PROVE UnstoredUnknown'
  BY <1>9 DEF ServeExit, Inv, TypeOK, UnstoredUnknown, Unstored, TargetsValid,
     HandshakingAuthenticated, ClosePoints, Threads, After, tables, identity,
     io
<1>10. ASSUME NEW c \in Conns, HandshakeCheck(c) PROVE UnstoredUnknown'
  BY <1>10 DEF HandshakeCheck, Inv, TypeOK, UnstoredUnknown, Unstored,
     TargetsValid, HandshakingAuthenticated, ClosePoints, Threads, After,
     tables, identity, io
<1>11. ASSUME NEW c \in Conns, HandshakeLoad(c) PROVE UnstoredUnknown'
  <2>1. peerID[c] \in Peers
    BY Zenon, <1>11 DEF HandshakeLoad, Inv, HandshakingAuthenticated
  <2>2. \A d \in Conns : Unstored(d)' => Unstored(d)
    BY Zenon, <1>11 DEF HandshakeLoad, Inv, TypeOK, Unstored, ClosePoints, Threads,
       tables, identity
  <2>3. QED
    BY Zenon, <1>11, <2>1, <2>2 DEF HandshakeLoad, Inv, TypeOK, UnstoredUnknown,
       Threads, tables, identity
<1>12. ASSUME NEW c \in Conns, HandshakeStore(c) PROVE UnstoredUnknown'
  BY <1>12 DEF HandshakeStore, Inv, TypeOK, UnstoredUnknown, Unstored,
     TargetsValid, HandshakingAuthenticated, ClosePoints, Threads, After,
     tables, identity, io
<1>13. ASSUME NEW c \in Conns, HandshakeAck(c) PROVE UnstoredUnknown'
  BY <1>13 DEF HandshakeAck, Inv, TypeOK, UnstoredUnknown, Unstored,
     TargetsValid, HandshakingAuthenticated, ClosePoints, Threads, After,
     tables, identity, io
<1>14. ASSUME NEW t \in Threads, CloseSwap(t) PROVE UnstoredUnknown'
  BY <1>14 DEF CloseSwap, Inv, TypeOK, UnstoredUnknown, Unstored,
     TargetsValid, HandshakingAuthenticated, ClosePoints, Threads, After,
     tables, identity, io
<1>15. ASSUME NEW t \in Threads, CloseHook(t) PROVE UnstoredUnknown'
  BY SMTT(60), <1>15 DEF CloseHook, Inv, TypeOK, UnstoredUnknown, Unstored,
     TargetsValid, HandshakingAuthenticated, ClosePoints, Threads, After,
     tables, identity, io
<1>16. ASSUME NEW t \in Threads, CloseDelete(t) PROVE UnstoredUnknown'
  BY SMTT(60), <1>16 DEF CloseDelete, Inv, TypeOK, UnstoredUnknown, Unstored,
     TargetsValid, HandshakingAuthenticated, ClosePoints, Threads, After,
     tables, identity, io
<1>17. ASSUME NEW t \in Threads, CloseTransporter(t) PROVE UnstoredUnknown'
  BY <1>17 DEF CloseTransporter, Inv, TypeOK, UnstoredUnknown, Unstored,
     TargetsValid, HandshakingAuthenticated, ClosePoints, Threads, After,
     tables, identity, io
<1>18. ASSUME ServerClose PROVE UnstoredUnknown'
  BY SMTT(60), <1>18 DEF ServerClose, Inv, TypeOK, UnstoredUnknown, Unstored,
     TargetsValid, HandshakingAuthenticated, ClosePoints, Threads, After,
     tables, identity, io
<1>19. ASSUME RangeDone PROVE UnstoredUnknown'
  BY <1>19 DEF RangeDone, Inv, TypeOK, UnstoredUnknown, Unstored,
     TargetsValid, HandshakingAuthenticated, ClosePoints, Threads, After,
     tables, identity, io
<1>20. ASSUME WaitDone PROVE UnstoredUnknown'
  BY SMTT(60), <1>20 DEF WaitDone, Inv, TypeOK, UnstoredUnknown, Unstored, TargetsValid,
     HandshakingAuthenticated, ClosePoints, Threads, After, tables, identity,
     io
<1>21. ASSUME NEW p \in Peers, RangeVisit(p) PROVE UnstoredUnknown'
  BY SMTT(60), <1>21 DEF RangeVisit, Inv, TypeOK, UnstoredUnknown, Unstored,
     TargetsValid, HandshakingAuthenticated, ClosePoints, Threads, After,
     tables, identity, io
<1> HIDE DEF Quiet
<1>22. QED
  BY Zenon, <1>1, <1>2, <1>3, <1>4, <1>5, <1>6, <1>7, <1>8, <1>9, <1>10, <1>11,
     <1>12, <1>13, <1>14, <1>15, <1>16, <1>17, <1>18, <1>19, <1>20, <1>21,
     StepCases, Zenon

(* Whoever starts a Close or a Send took its session from the table.         *)
LEMMA TargetsStep ==
  ASSUME Inv, Next
  PROVE  TargetsValid'
<1> DEFINE Quiet == UNCHANGED <<closed, pc, tgt>>
<1>1. ASSUME Quiet PROVE TargetsValid'
  BY Zenon, <1>1 DEF Inv, TargetsValid
<1>2. ASSUME NEW c \in Conns,
             ReadPush(c) \/ ReadExit(c) \/ WritePacket(c) \/ WriteExit(c) \/
             HandleRejected(c) \/ HandleHeartbeat(c) \/ HandleProbe(c)
      PROVE  Quiet
  BY Zenon, <1>2 DEF ReadPush, ReadExit, WritePacket, WriteExit, HandleRejected,
     HandleHeartbeat, HandleProbe, TakePacket, tables, identity, io
<1>3. ASSUME Cancel \/ CloseListener PROVE Quiet
  BY Zenon, <1>3 DEF Cancel, CloseListener, tables, identity, io
<1>4. ASSUME NEW c \in Conns, NEW p \in Inbound,
             ReadPacket(c, p)
      PROVE  Quiet
  BY Zenon, <1>4 DEF ReadPacket, tables, identity, io
<1>5. ASSUME NEW c \in Conns, Accept(c) PROVE TargetsValid'
  BY Zenon, <1>5 DEF Accept, Inv, TypeOK, TargetsValid, ClosePoints, Threads, After,
     tables, identity, io
<1>6. ASSUME NEW c \in Conns, HandleHandshake(c) PROVE TargetsValid'
  BY Zenon, <1>6 DEF HandleHandshake, TakePacket, Inv, TypeOK, TargetsValid,
     ClosePoints, Threads, After, tables, identity, io
<1>7. ASSUME NEW c \in Conns, HandleForward(c) PROVE TargetsValid'
  <2>1. PICK q \in Peers \cup {None} :
          Forwarding(c, q) /\ Lookup(q) \in Conns \cup {None}
    BY Zenon, <1>7, ForwardLooksUp DEF Inv
  <2>2. QED
    BY Zenon, <2>1 DEF Forwarding, Inv, TypeOK, TargetsValid, ClosePoints, Threads
<1>8. ASSUME NEW c \in Conns, SendForward(c) PROVE TargetsValid'
  BY Zenon, <1>8 DEF SendForward, Inv, TypeOK, TargetsValid, ClosePoints, Threads,
     After, tables, identity, io
<1>9. ASSUME NEW c \in Conns, ServeExit(c) PROVE TargetsValid'
  BY Zenon, <1>9 DEF ServeExit, Inv, TypeOK, TargetsValid, ClosePoints, Threads,
     After, tables, identity, io
<1>10. ASSUME NEW c \in Conns, HandshakeCheck(c) PROVE TargetsValid'
  BY Zenon, <1>10 DEF HandshakeCheck, Inv, TypeOK, TargetsValid, ClosePoints,
     Threads, After, tables, identity, io
<1>11. ASSUME NEW c \in Conns, HandshakeLoad(c) PROVE TargetsValid'
  <2>1. sessions[peerID[c]] \in Conns \cup {None}
    BY Zenon, <1>11 DEF HandshakeLoad, Inv, TypeOK, HandshakingAuthenticated
  <2>2. QED
    BY Zenon, <1>11, <2>1 DEF HandshakeLoad, Inv, TypeOK, TargetsValid, ClosePoints,
       Threads, tables, identity
<1>12. ASSUME NEW c \in Conns, HandshakeStore(c) PROVE TargetsValid'
  BY Zenon, <1>12 DEF HandshakeStore, Inv, TypeOK, TargetsValid, ClosePoints,
     Threads, After, tables, identity, io
<1>13. ASSUME NEW c \in Conns, HandshakeAck(c) PROVE TargetsValid'
  BY Zenon, <1>13 DEF HandshakeAck, Inv, TypeOK, TargetsValid, ClosePoints, Threads,
     After, tables, identity, io
<1>14. ASSUME NEW t \in Threads, CloseSwap(t) PROVE TargetsValid'
  BY Zenon, <1>14 DEF CloseSwap, Inv, TypeOK, TargetsValid, ClosePoints, Threads,
     After, tables, identity, io
<1>15. ASSUME NEW t \in Threads, CloseHook(t) PROVE TargetsValid'
  BY Zenon, <1>15 DEF CloseHook, Inv, TypeOK, TargetsValid, ClosePoints, Threads,
     After, tables, identity, io
<1>16. ASSUME NEW t \in Threads, CloseDelete(t) PROVE TargetsValid'
  BY Zenon, <1>16 DEF CloseDelete, Inv, TypeOK, TargetsValid, ClosePoints, Threads,
     After, tables, identity, io
<1>17. ASSUME NEW t \in Threads, CloseTransporter(t) PROVE TargetsValid'
  BY Zenon, <1>17 DEF CloseTransporter, Inv, TypeOK, TargetsValid, ClosePoints,
     Threads, After, tables, identity, io
<1>18. ASSUME ServerClose PROVE TargetsValid'
  BY Zenon, <1>18 DEF ServerClose, Inv, TypeOK, TargetsValid, ClosePoints, Threads,
     After, tables, identity, io
<1>19. ASSUME RangeDone PROVE TargetsValid'
  BY Zenon, <1>19 DEF RangeDone, Inv, TypeOK, TargetsValid, ClosePoints, Threads,
     After, tables, identity, io
<1>20. ASSUME WaitDone PROVE TargetsValid'
  BY Zenon, <1>20 DEF WaitDone, Inv, TypeOK, TargetsValid, ClosePoints, Threads,
     After, tables, identity, io
<1>21. ASSUME NEW p \in Peers, RangeVisit(p) PROVE TargetsValid'
  BY SMTT(60), <1>21 DEF RangeVisit, Inv, TypeOK, TargetsValid, ClosePoints, Threads,
     After, tables, identity, io
<1> HIDE DEF Quiet
<1>22. QED
  BY Zenon, <1>1, <1>2, <1>3, <1>4, <1>5, <1>6, <1>7, <1>8, <1>9, <1>10, <1>11,
     <1>12, <1>13, <1>14, <1>15, <1>16, <1>17, <1>18, <1>19, <1>20, <1>21,
     StepCases, Zenon

(* Past onHandshake a session is authenticated.                              *)
LEMMA HandshakingStep ==
  ASSUME Inv, Next
  PROVE  HandshakingAuthenticated'
<1> DEFINE Quiet == UNCHANGED <<state, peerID, pc, tgt>>
<1>1. ASSUME Quiet PROVE HandshakingAuthenticated'
  BY Zenon, <1>1 DEF Inv, HandshakingAuthenticated
<1>2. ASSUME NEW c \in Conns,
             ReadPush(c) \/ ReadExit(c) \/ WritePacket(c) \/ WriteExit(c) \/
             HandleRejected(c) \/ HandleHeartbeat(c) \/ HandleProbe(c)
      PROVE  Quiet
  BY Zenon, <1>2 DEF ReadPush, ReadExit, WritePacket, WriteExit, HandleRejected,
     HandleHeartbeat, HandleProbe, TakePacket, tables, identity, io
<1>3. ASSUME Cancel \/ CloseListener PROVE Quiet
  BY Zenon, <1>3 DEF Cancel, CloseListener, tables, identity, io
<1>4. ASSUME NEW c \in Conns, NEW p \in Inbound,
             ReadPacket(c, p)
      PROVE  Quiet
  BY Zenon, <1>4 DEF ReadPacket, tables, identity, io
<1>5. ASSUME NEW c \in Conns, Accept(c) PROVE HandshakingAuthenticated'
  BY Zenon, <1>5 DEF Accept, Inv, TypeOK, HandshakingAuthenticated, UnstoredUnknown,
     Unstored, ClosePoints, Threads, After, tables, identity, io
<1>6. ASSUME NEW c \in Conns, HandleHandshake(c) PROVE HandshakingAuthenticated'
  <2>1. Head(chRead[c]).peer \in Peers
    BY Zenon, <1>6, HeadTyped DEF HandleHandshake, Inv
  <2>2. QED
    BY Zenon, <1>6, <2>1 DEF HandleHandshake, TakePacket, Inv, TypeOK,
       HandshakingAuthenticated, ClosePoints, Threads
<1>7. ASSUME NEW c \in Conns, HandleForward(c) PROVE HandshakingAuthenticated'
  <2>1. PICK q \in Peers \cup {None} :
          Forwarding(c, q) /\ Lookup(q) \in Conns \cup {None}
    BY Zenon, <1>7, ForwardLooksUp DEF Inv
  <2>2. state[c] = "Running"
    BY Zenon, <1>7 DEF HandleForward
  <2>3. QED
    BY Zenon, <2>1, <2>2 DEF Forwarding, Inv, TypeOK, HandshakingAuthenticated,
       ClosePoints, Threads
<1>8. ASSUME NEW c \in Conns, SendForward(c) PROVE HandshakingAuthenticated'
  BY Zenon, <1>8 DEF SendForward, Inv, TypeOK, HandshakingAuthenticated,
     UnstoredUnknown, Unstored, ClosePoints, Threads, After, tables, identity,
     io
<1>9. ASSUME NEW c \in Conns, ServeExit(c) PROVE HandshakingAuthenticated'
  BY Zenon, <1>9 DEF ServeExit, Inv, TypeOK, HandshakingAuthenticated,
     UnstoredUnknown, Unstored, ClosePoints, Threads, After, tables, identity,
     io
<1>10. ASSUME NEW c \in Conns, HandshakeCheck(c) PROVE HandshakingAuthenticated'
  BY Zenon, <1>10 DEF HandshakeCheck, Inv, TypeOK, HandshakingAuthenticated,
     UnstoredUnknown, Unstored, ClosePoints, Threads, After, tables, identity,
     io
<1>11. ASSUME NEW c \in Conns, HandshakeLoad(c) PROVE HandshakingAuthenticated'
  BY Zenon, <1>11 DEF HandshakeLoad, Inv, TypeOK, HandshakingAuthenticated,
     UnstoredUnknown, Unstored, ClosePoints, Threads, After, tables, identity,
     io
<1>12. ASSUME NEW c \in Conns, HandshakeStore(c) PROVE HandshakingAuthenticated'
  BY Zenon, <1>12 DEF HandshakeStore, Inv, TypeOK, HandshakingAuthenticated,
     UnstoredUnknown, Unstored, ClosePoints, Threads, After, tables, identity,
     io
<1>13. ASSUME NEW c \in Conns, HandshakeAck(c) PROVE HandshakingAuthenticated'
  BY Zenon, <1>13 DEF HandshakeAck, Inv, TypeOK, HandshakingAuthenticated,
     UnstoredUnknown, Unstored, ClosePoints, Threads, After, tables, identity,
     io
<1>14. ASSUME NEW t \in Threads, CloseSwap(t) PROVE HandshakingAuthenticated'
  BY Zenon, <1>14 DEF CloseSwap, Inv, TypeOK, HandshakingAuthenticated,
     UnstoredUnknown, Unstored, ClosePoints, Threads, After, tables, identity,
     io
<1>15. ASSUME NEW t \in Threads, CloseHook(t) PROVE HandshakingAuthenticated'
  BY Zenon, <1>15 DEF CloseHook, Inv, TypeOK, HandshakingAuthenticated,
     UnstoredUnknown, Unstored, ClosePoints, Threads, After, tables, identity,
     io
<1>16. ASSUME NEW t \in Threads, CloseDelete(t) PROVE HandshakingAuthenticated'
  BY Zenon, <1>16 DEF CloseDelete, Inv, TypeOK, HandshakingAuthenticated,
     UnstoredUnknown, Unstored, ClosePoints, Threads, After, tables, identity,
     io
<1>17. ASSUME NEW t \in Threads, CloseTransporter(t) PROVE HandshakingAuthenticated'
  BY Zenon, <1>17 DEF CloseTransporter, Inv, TypeOK, HandshakingAuthenticated,
     UnstoredUnknown, Unstored, ClosePoints, Threads, After, tables, identity,
     io
<1>18. ASSUME ServerClose PROVE HandshakingAuthenticated'
  BY Zenon, <1>18 DEF ServerClose, Inv, TypeOK, HandshakingAuthenticated,
     UnstoredUnknown, Unstored, ClosePoints, Threads, After, tables, identity,
     io
<1>19. ASSUME RangeDone PROVE HandshakingAuthenticated'
  BY Zenon, <1>19 DEF RangeDone, Inv, TypeOK, HandshakingAuthenticated,
     UnstoredUnknown, Unstored, ClosePoints, Threads, After, tables, identity,
     io
<1>20. ASSUME WaitDone PROVE HandshakingAuthenticated'
  BY Zenon, <1>20 DEF WaitDone, Inv, TypeOK, HandshakingAuthenticated,
     UnstoredUnknown, Unstored, ClosePoints, Threads, After, tables, identity,
     io
<1>21. ASSUME NEW p \in Peers, RangeVisit(p) PROVE HandshakingAuthenticated'
  BY Zenon, <1>21 DEF RangeVisit, Inv, TypeOK, HandshakingAuthenticated,
     UnstoredUnknown, Unstored, ClosePoints, Threads, After, tables, identity,
     io
<1> HIDE DEF Quiet
<1>22. QED
  BY Zenon, <1>1, <1>2, <1>3, <1>4, <1>5, <1>6, <1>7, <1>8, <1>9, <1>10, <1>11,
     <1>12, <1>13, <1>14, <1>15, <1>16, <1>17, <1>18, <1>19, <1>20, <1>21,
     StepCases, Zenon

(* OnSessionClosed leaves the closed session out of the table: its entry can *)
(* only be under its own peer ID.                                            *)
LEMMA EvictedStep ==
  ASSUME Inv, Next
  PROVE  ClosedSessionEvicted'
<1> DEFINE Quiet ==
       /\ UNCHANGED <<sessions, srvClosed, closed>>
       /\ \A u \in Threads : pc[u] \in {"clHook", "clDelete"} =>
            pc'[u] = pc[u] /\ tgt'[u] = tgt[u]
<1>1. ASSUME Quiet PROVE ClosedSessionEvicted'
  <2>1. \A c \in Conns : InHook(c) => InHook(c)'
    BY Zenon, <1>1 DEF InHook
  <2>2. QED
    BY Zenon, <1>1, <2>1 DEF Inv, ClosedSessionEvicted
<1>2. ASSUME NEW c \in Conns,
             ReadPush(c) \/ ReadExit(c) \/ WritePacket(c) \/ WriteExit(c) \/
             HandleRejected(c) \/ HandleHeartbeat(c) \/ HandleProbe(c)
      PROVE  Quiet
  BY Zenon, <1>2 DEF ReadPush, ReadExit, WritePacket, WriteExit, HandleRejected,
     HandleHeartbeat, HandleProbe, TakePacket, tables, identity, io
<1>3. ASSUME Cancel \/ CloseListener PROVE Quiet
  BY Zenon, <1>3 DEF Cancel, CloseListener, tables, identity, io
<1>4. ASSUME NEW c \in Conns, NEW p \in Inbound,
             ReadPacket(c, p)
      PROVE  Quiet
  BY Zenon, <1>4 DEF ReadPacket, tables, identity, io
<1>5. ASSUME NEW c \in Conns, Accept(c) PROVE Quiet
  BY Zenon, <1>5 DEF Accept, Inv, TypeOK, HandshakingAuthenticated, Threads, tables,
     identity, io
<1>6. ASSUME NEW c \in Conns, HandleHandshake(c) PROVE Quiet
  BY Zenon, <1>6 DEF HandleHandshake, TakePacket, Inv, TypeOK,
     HandshakingAuthenticated, Threads, tables, identity, io
<1>7. ASSUME NEW c \in Conns, HandleForward(c) PROVE Quiet
  <2>1. PICK q \in Peers \cup {None} :
          Forwarding(c, q) /\ Lookup(q) \in Conns \cup {None}
    BY Zenon, <1>7, ForwardLooksUp DEF Inv
  <2>2. QED
    BY Zenon, <2>1 DEF Forwarding, Inv, TypeOK, HandshakingAuthenticated, Threads
<1>8. ASSUME NEW c \in Conns, SendForward(c) PROVE Quiet
  BY Zenon, <1>8 DEF SendForward, Inv, TypeOK, HandshakingAuthenticated, Threads,
     tables, identity, io
<1>9. ASSUME NEW c \in Conns, ServeExit(c) PROVE Quiet
  BY Zenon, <1>9 DEF ServeExit, Inv, TypeOK, HandshakingAuthenticated, Threads,
     tables, identity, io
<1>10. ASSUME NEW c \in Conns, HandshakeCheck(c) PROVE Quiet
  BY Zenon, <1>10 DEF HandshakeCheck, Inv, TypeOK, HandshakingAuthenticated, Threads,
     tables, identity, io
<1>11. ASSUME NEW c \in Conns, HandshakeLoad(c) PROVE Quiet
  BY Zenon, <1>11 DEF HandshakeLoad, Inv, TypeOK, HandshakingAuthenticated, Threads,
     tables, identity, io
<1>12. ASSUME NEW c \in Conns, HandshakeAck(c) PROVE Quiet
  BY Zenon, <1>12 DEF HandshakeAck, Inv, TypeOK, HandshakingAuthenticated, Threads,
     tables, identity, io
<1>13. ASSUME NEW t \in Threads, CloseTransporter(t) PROVE Quiet
  BY Zenon, <1>13 DEF CloseTransporter, Inv, TypeOK, HandshakingAuthenticated,
     Threads, tables, identity, io
<1>14. ASSUME RangeDone PROVE Quiet
  BY Zenon, <1>14 DEF RangeDone, Inv, TypeOK, HandshakingAuthenticated, Threads,
     tables, identity, io
<1>15. ASSUME WaitDone PROVE Quiet
  BY Zenon, <1>15 DEF WaitDone, Inv, TypeOK, HandshakingAuthenticated, Threads,
     tables, identity, io
<1>16. ASSUME NEW p \in Peers, RangeVisit(p) PROVE Quiet
  BY Zenon, <1>16 DEF RangeVisit, Inv, TypeOK, HandshakingAuthenticated, Threads,
     tables, identity, io
<1>17. ASSUME ServerClose PROVE ClosedSessionEvicted'
  BY Zenon, <1>17 DEF ServerClose, ClosedSessionEvicted
<1>18. ASSUME NEW c \in Conns, HandshakeStore(c) PROVE ClosedSessionEvicted'
  <2> SUFFICES ASSUME NEW d \in Conns, closed'[d], ~InHook(d)', ~srvClosed',
                      NEW p \in Peers
               PROVE  sessions'[p] # d
    BY Zenon DEF ClosedSessionEvicted
  <2>1. ~closed[c] /\ closed' = closed /\ srvClosed' = srvClosed
    BY Zenon, <1>18 DEF HandshakeStore, Inv, UnstoredUnknown, Unstored
  <2>2. ~InHook(d)
    BY Zenon, <1>18 DEF HandshakeStore, Inv, TypeOK, InHook, Threads
  <2>3. sessions[p] # d
    BY Zenon, <2>1, <2>2 DEF Inv, ClosedSessionEvicted
  <2>4. QED
    BY Zenon, <1>18, <2>1, <2>3 DEF HandshakeStore, Inv, TypeOK
<1>19. ASSUME NEW t \in Threads, CloseSwap(t) PROVE ClosedSessionEvicted'
  <2> SUFFICES ASSUME NEW c \in Conns, closed'[c], ~InHook(c)', ~srvClosed',
                      NEW p \in Peers
               PROVE  sessions'[p] # c
    BY Zenon DEF ClosedSessionEvicted
  <2>1. /\ tgt[t] \in Conns /\ pc[t] = "clSwap" /\ tgt' = tgt
        /\ sessions' = sessions /\ srvClosed' = srvClosed
    BY Zenon, <1>19 DEF CloseSwap, Inv, TargetsValid, ClosePoints, tables
  <2>2. \A u \in Threads : pc[u] \in {"clHook", "clDelete"} => pc'[u] = pc[u]
    BY Zenon, <1>19 DEF CloseSwap, Inv, TypeOK
  <2>3. ~InHook(c)
    BY Zenon, <2>1, <2>2 DEF InHook
  <2>4. CASE closed[c]
    BY Zenon, <2>1, <2>3, <2>4 DEF Inv, ClosedSessionEvicted
  <2>5. CASE ~closed[c]
    <3>1. tgt[t] = c /\ pc'[t] = "clHook"
      BY Zenon, <1>19, <2>1, <2>5 DEF CloseSwap, Inv, TypeOK
    <3>2. QED
      BY Zenon, <2>1, <3>1 DEF InHook
  <2>6. QED
    BY Zenon, <2>4, <2>5
<1>20. ASSUME NEW t \in Threads, CloseHook(t) PROVE ClosedSessionEvicted'
  <2> SUFFICES ASSUME NEW c \in Conns, closed'[c], ~InHook(c)', ~srvClosed',
                      NEW p \in Peers
               PROVE  sessions'[p] # c
    BY Zenon DEF ClosedSessionEvicted
  <2>1. /\ pc[t] = "clHook" /\ tgt' = tgt /\ sessions' = sessions
        /\ srvClosed' = srvClosed /\ closed' = closed
        /\ \A u \in Threads \ {t} : pc'[u] = pc[u]
    BY Zenon, <1>20 DEF CloseHook, Inv, TypeOK, tables
  <2>2. CASE tgt[t] = c
    <3>1. peerID[c] = None
      BY Zenon, <1>20, <2>1, <2>2 DEF CloseHook, InHook, Inv, TypeOK
    <3>2. sessions[p] = c => peerID[c] = p
      BY Zenon DEF Inv, RegisteredAuthenticated
    <3>3. QED
      BY Zenon, <2>1, <3>1, <3>2
  <2>3. CASE tgt[t] # c
    <3>1. ~InHook(c)
      BY Zenon, <2>1, <2>3 DEF InHook
    <3>2. QED
      BY Zenon, <2>1, <3>1 DEF Inv, ClosedSessionEvicted
  <2>4. QED
    BY Zenon, <2>2, <2>3
<1>21. ASSUME NEW t \in Threads, CloseDelete(t) PROVE ClosedSessionEvicted'
  <2> SUFFICES ASSUME NEW c \in Conns, closed'[c], ~InHook(c)', ~srvClosed',
                      NEW p \in Peers
               PROVE  sessions'[p] # c
    BY Zenon DEF ClosedSessionEvicted
  <2>1. /\ tgt' = tgt /\ closed' = closed /\ srvClosed' = srvClosed
        /\ sessions' = [sessions EXCEPT ![peerID[tgt[t]]] = None]
        /\ \A u \in Threads \ {t} : pc'[u] = pc[u]
    BY Zenon, <1>21 DEF CloseDelete, Inv, TypeOK
  <2>2. CASE tgt[t] = c
    <3>1. sessions[p] = c => peerID[c] = p
      BY Zenon DEF Inv, RegisteredAuthenticated
    <3>2. QED
      BY Zenon, <2>1, <2>2, <3>1 DEF Inv, TypeOK
  <2>3. CASE tgt[t] # c
    <3>1. ~InHook(c)
      BY Zenon, <2>1, <2>3 DEF InHook
    <3>2. sessions[p] # c
      BY Zenon, <2>1, <3>1 DEF Inv, ClosedSessionEvicted
    <3>3. QED
      BY Zenon, <2>1, <3>2 DEF Inv, TypeOK
  <2>4. QED
    BY Zenon, <2>2, <2>3
<1> HIDE DEF Quiet
<1>22. QED
  BY Zenon, <1>1, <1>2, <1>3, <1>4, <1>5, <1>6, <1>7, <1>8, <1>9, <1>10, <1>11,
     <1>12, <1>13, <1>14, <1>15, <1>16, <1>17, <1>18, <1>19, <1>20, <1>21,
     StepCases, Zenon

(* The Swap lets the first closer of a session pass, and nobody after it.    *)
LEMMA OnceStep ==
  ASSUME Inv, Next
  PROVE  CloseRunsOnce'
<1> DEFINE Quiet ==
       \A u \in Threads : pc'[u] \in ClosePoints \ {"clSwap"} =>
         pc[u] \in ClosePoints \ {"clSwap"} /\ tgt'[u] = tgt[u]
<1>1. ASSUME Quiet PROVE CloseRunsOnce'
  BY Zenon, <1>1 DEF Inv, CloseRunsOnce
<1>2. ASSUME NEW c \in Conns,
             ReadPush(c) \/ ReadExit(c) \/ WritePacket(c) \/ WriteExit(c) \/
             HandleRejected(c) \/ HandleHeartbeat(c) \/ HandleProbe(c)
      PROVE  Quiet
  BY Zenon, <1>2 DEF ReadPush, ReadExit, WritePacket, WriteExit, HandleRejected,
     HandleHeartbeat, HandleProbe, TakePacket, tables, identity, io
<1>3. ASSUME Cancel \/ CloseListener PROVE Quiet
  BY Zenon, <1>3 DEF Cancel, CloseListener, tables, identity, io
<1>4. ASSUME NEW c \in Conns, NEW p \in Inbound,
             ReadPacket(c, p)
      PROVE  Quiet
  BY Zenon, <1>4 DEF ReadPacket, tables, identity, io
<1>5. ASSUME NEW c \in Conns, Accept(c) PROVE Quiet
  BY Zenon, <1>5 DEF Accept, Inv, TypeOK, ClosePoints, Threads, After, tables,
     identity, io
<1>6. ASSUME NEW c \in Conns, HandleHandshake(c) PROVE Quiet
  BY Zenon, <1>6 DEF HandleHandshake, TakePacket, Inv, TypeOK, ClosePoints, Threads,
     After, tables, identity, io
<1>7. ASSUME NEW c \in Conns, HandleForward(c) PROVE Quiet
  <2>1. PICK q \in Peers \cup {None} :
          Forwarding(c, q) /\ Lookup(q) \in Conns \cup {None}
    BY Zenon, <1>7, ForwardLooksUp DEF Inv
  <2>2. QED
    BY Zenon, <2>1 DEF Forwarding, Inv, TypeOK, ClosePoints, Threads, After
<1>8. ASSUME NEW c \in Conns, SendForward(c) PROVE Quiet
  BY Zenon, <1>8 DEF SendForward, Inv, TypeOK, ClosePoints, Threads, After, tables,
     identity, io
<1>9. ASSUME NEW c \in Conns, ServeExit(c) PROVE Quiet
  BY Zenon, <1>9 DEF ServeExit, Inv, TypeOK, ClosePoints, Threads, After, tables,
     identity, io
<1>10. ASSUME NEW c \in Conns, HandshakeCheck(c) PROVE Quiet
  BY Zenon, <1>10 DEF HandshakeCheck, Inv, TypeOK, ClosePoints, Threads, After,
     tables, identity, io
<1>11. ASSUME NEW c \in Conns, HandshakeLoad(c) PROVE Quiet
  BY Zenon, <1>11 DEF HandshakeLoad, Inv, TypeOK, ClosePoints, Threads, After,
     tables, identity, io
<1>12. ASSUME NEW c \in Conns, HandshakeStore(c) PROVE Quiet
  BY Zenon, <1>12 DEF HandshakeStore, Inv, TypeOK, ClosePoints, Threads, After,
     tables, identity, io
<1>13. ASSUME NEW c \in Conns, HandshakeAck(c) PROVE Quiet
  BY Zenon, <1>13 DEF HandshakeAck, Inv, TypeOK, ClosePoints, Threads, After, tables,
     identity, io
<1>14. ASSUME NEW t \in Threads, CloseHook(t) PROVE Quiet
  BY Zenon, <1>14 DEF CloseHook, Inv, TypeOK, ClosePoints, Threads, After, tables,
     identity, io
<1>15. ASSUME NEW t \in Threads, CloseDelete(t) PROVE Quiet
  BY Zenon, <1>15 DEF CloseDelete, Inv, TypeOK, ClosePoints, Threads, After, tables,
     identity, io
<1>16. ASSUME NEW t \in Threads, CloseTransporter(t) PROVE Quiet
  BY Zenon, <1>16 DEF CloseTransporter, Inv, TypeOK, ClosePoints, Threads, After,
     tables, identity, io
<1>17. ASSUME ServerClose PROVE Quiet
  BY Zenon, <1>17 DEF ServerClose, Inv, TypeOK, ClosePoints, Threads, After, tables,
     identity, io
<1>18. ASSUME RangeDone PROVE Quiet
  BY Zenon, <1>18 DEF RangeDone, Inv, TypeOK, ClosePoints, Threads, After, tables,
     identity, io
<1>19. ASSUME WaitDone PROVE Quiet
  BY Zenon, <1>19 DEF WaitDone, Inv, TypeOK, ClosePoints, Threads, After, tables,
     identity, io
<1>20. ASSUME NEW p \in Peers, RangeVisit(p) PROVE Quiet
  BY Zenon, <1>20 DEF RangeVisit, Inv, TypeOK, ClosePoints, Threads, After, tables,
     identity, io
<1>21. ASSUME NEW t \in Threads, CloseSwap(t) PROVE CloseRunsOnce'
  <2>1. \A u \in Threads \ {t} : pc'[u] = pc[u]
    BY Zenon, <1>21 DEF CloseSwap, Inv, TypeOK
  <2>2. pc'[t] \in ClosePoints \ {"clSwap"} => ~closed[tgt[t]]
    BY Zenon, <1>21 DEF CloseSwap, After, Inv, TypeOK, ClosePoints
  <2>3. \A u \in Threads \ {t} :
          pc[u] \in ClosePoints \ {"clSwap"} /\ pc'[t] \in ClosePoints \ {"clSwap"}
          => tgt[u] # tgt[t]
    BY Zenon, <2>2 DEF Inv, TargetsValid
  <2>4. tgt' = tgt
    BY Zenon, <1>21 DEF CloseSwap
  <2>5. QED
    BY Zenon, <2>1, <2>3, <2>4 DEF Inv, CloseRunsOnce
<1> HIDE DEF Quiet
<1>22. QED
  BY Zenon, <1>1, <1>2, <1>3, <1>4, <1>5, <1>6, <1>7, <1>8, <1>9, <1>10, <1>11,
     <1>12, <1>13, <1>14, <1>15, <1>16, <1>17, <1>18, <1>19, <1>20, <1>21,
     StepCases, Zenon

(* The session that onForward looked up keeps its peer ID until the Send.    *)
LEMMA ForwardTargetsStep ==
  ASSUME TrafficInv, Next
  PROVE  ForwardTargets'
<1> DEFINE Quiet ==
       /\ UNCHANGED <<state, peerID>>
       /\ \A d \in Conns : pc'[d] = "send" =>
            pc[d] = "send" /\ tgt'[d] = tgt[d] /\ dst'[d] = dst[d]
<1>1. ASSUME Quiet PROVE ForwardTargets'
  BY Zenon, <1>1 DEF TrafficInv, ForwardTargets
<1>2. ASSUME NEW c \in Conns,
             ReadPush(c) \/ ReadExit(c) \/ WritePacket(c) \/ WriteExit(c) \/
             HandleRejected(c) \/ HandleHeartbeat(c) \/ HandleProbe(c)
      PROVE  Quiet
  BY ZenonT(60), <1>2 DEF ReadPush, ReadExit, WritePacket, WriteExit, HandleRejected,
     HandleHeartbeat, HandleProbe, TakePacket, tables, identity, io
<1>3. ASSUME Cancel \/ CloseListener PROVE Quiet
  BY Zenon, <1>3 DEF Cancel, CloseListener, tables, identity, io
<1>4. ASSUME NEW c \in Conns, NEW p \in Inbound,
             ReadPacket(c, p)
      PROVE  Quiet
  BY Zenon, <1>4 DEF ReadPacket, tables, identity, io
<1>5. ASSUME NEW c \in Conns, SendForward(c) PROVE Quiet
  BY Zenon, <1>5 DEF SendForward, TrafficInv, Inv, TypeOK, Threads, After, tables,
     identity, io
<1>6. ASSUME NEW c \in Conns, ServeExit(c) PROVE Quiet
  BY Zenon, <1>6 DEF ServeExit, TrafficInv, Inv, TypeOK, Threads, After, tables,
     identity, io
<1>7. ASSUME NEW c \in Conns, HandshakeCheck(c) PROVE Quiet
  BY Zenon, <1>7 DEF HandshakeCheck, TrafficInv, Inv, TypeOK, Threads, After, tables,
     identity, io
<1>8. ASSUME NEW c \in Conns, HandshakeLoad(c) PROVE Quiet
  BY Zenon, <1>8 DEF HandshakeLoad, TrafficInv, Inv, TypeOK, Threads, After, tables,
     identity, io
<1>9. ASSUME NEW c \in Conns, HandshakeStore(c) PROVE Quiet
  BY Zenon, <1>9 DEF HandshakeStore, TrafficInv, Inv, TypeOK, Threads, After, tables,
     identity, io
<1>10. ASSUME NEW c \in Conns, HandshakeAck(c) PROVE Quiet
  BY Zenon, <1>10 DEF HandshakeAck, TrafficInv, Inv, TypeOK, Threads, After, tables,
     identity, io
<1>11. ASSUME NEW t \in Threads, CloseSwap(t) PROVE Quiet
  BY Zenon, <1>11 DEF CloseSwap, TrafficInv, Inv, TypeOK, Threads, After, tables,
     identity, io
<1>12. ASSUME NEW t \in Threads, CloseHook(t) PROVE Quiet
  BY Zenon, <1>12 DEF CloseHook, TrafficInv, Inv, TypeOK, Threads, After, tables,
     identity, io
<1>13. ASSUME NEW t \in Threads, CloseDelete(t) PROVE Quiet
  BY Zenon, <1>13 DEF CloseDelete, TrafficInv, Inv, TypeOK, Threads, After, tables,
     identity, io
<1>14. ASSUME NEW t \in Threads, CloseTransporter(t) PROVE Quiet
  BY Zenon, <1>14 DEF CloseTransporter, TrafficInv, Inv, TypeOK, Threads, After,
     tables, identity, io
<1>15. ASSUME ServerClose PROVE Quiet
  BY Zenon, <1>15 DEF ServerClose, TrafficInv, Inv, TypeOK, Threads, After, tables,
     identity, io
<1>16. ASSUME RangeDone PROVE Quiet
  BY Zenon, <1>16 DEF RangeDone, TrafficInv, Inv, TypeOK, Threads, After, tables,
     identity, io
<1>17. ASSUME WaitDone PROVE Quiet
  BY Zenon, <1>17 DEF WaitDone, TrafficInv, Inv, TypeOK, Threads, After, tables,
     identity, io
<1>18. ASSUME NEW p \in Peers, RangeVisit(p) PROVE Quiet
  BY Zenon, <1>18 DEF RangeVisit, TrafficInv, Inv, TypeOK, Threads, After, tables,
     identity, io
<1>19. ASSUME NEW c \in Conns, Accept(c) PROVE ForwardTargets'
  <2>1. \A d \in Conns : pc'[d] = "send" =>
          pc[d] = "send" /\ state[tgt[d]] = "Running" /\ peerID[tgt[d]] = dst[d]
    BY Zenon, <1>19 DEF Accept, TrafficInv, Inv, TypeOK, ForwardTargets, Threads
  <2>2. QED
    BY SMTT(60), <1>19, <2>1 DEF Accept, TrafficInv, Inv, TypeOK, ForwardTargets
<1>20. ASSUME NEW c \in Conns, HandleHandshake(c) PROVE ForwardTargets'
  <2>1. \A d \in Conns : pc'[d] = "send" => pc[d] = "send"
    BY Zenon, <1>20 DEF HandleHandshake, TrafficInv, Inv, TypeOK, Threads
  <2>2. \A d \in Conns : pc[d] = "send" =>
          state[tgt[d]] = "Running" /\ peerID[tgt[d]] = dst[d] /\ tgt[d] # c
    BY Zenon, <1>20 DEF HandleHandshake, TrafficInv, ForwardTargets
  <2>3. \A d \in Conns \cup {None} : d # c => state'[d] = state[d] /\ peerID'[d] = peerID[d]
    BY SMTT(60), <1>20 DEF HandleHandshake, TrafficInv, Inv, TypeOK
  <2>4. tgt' = tgt /\ dst' = dst /\ tgt \in [Threads -> Conns \cup {None}]
    BY Zenon, <1>20 DEF HandleHandshake, TrafficInv, Inv, TypeOK
  <2>5. QED
    BY Zenon, <2>1, <2>2, <2>3, <2>4 DEF ForwardTargets, Threads
<1>21. ASSUME NEW c \in Conns, HandleForward(c) PROVE ForwardTargets'
  <2>1. PICK q \in Peers \cup {None} :
          Forwarding(c, q) /\ Lookup(q) \in Conns \cup {None}
    BY Zenon, <1>21, ForwardLooksUp DEF TrafficInv, Inv
  <2>2. Lookup(q) # None => state[Lookup(q)] = "Running" /\ peerID[Lookup(q)] = q
    BY Zenon, <2>1 DEF Lookup, TrafficInv, Inv, RegisteredAuthenticated
  <2>3. /\ pc'[c] = "send" => Lookup(q) # None
        /\ tgt'[c] = Lookup(q)
        /\ Lookup(q) # None => dst'[c] = q
    BY Zenon, <2>1 DEF Forwarding, TrafficInv, Inv, TypeOK, Threads
  <2>4. \A d \in Conns \ {c} : pc'[d] = pc[d] /\ tgt'[d] = tgt[d] /\ dst'[d] = dst[d]
    BY Zenon, <2>1 DEF Forwarding, TrafficInv, Inv, TypeOK, Threads
  <2>5. state' = state /\ peerID' = peerID
    BY Zenon, <2>1 DEF Forwarding
  <2>6. \A d \in Conns \ {c} : pc'[d] = "send" =>
          state'[tgt'[d]] = "Running" /\ peerID'[tgt'[d]] = dst'[d]
    BY Zenon, <2>4, <2>5 DEF TrafficInv, ForwardTargets
  <2>7. pc'[c] = "send" => state'[tgt'[c]] = "Running" /\ peerID'[tgt'[c]] = dst'[c]
    BY Zenon, <2>2, <2>3, <2>5
  <2>8. QED
    BY Zenon, <2>6, <2>7 DEF ForwardTargets
<1> HIDE DEF Quiet
<1>22. QED
  BY Zenon, <1>1, <1>2, <1>3, <1>4, <1>5, <1>6, <1>7, <1>8, <1>9, <1>10, <1>11,
     <1>12, <1>13, <1>14, <1>15, <1>16, <1>17, <1>18, <1>19, <1>20, <1>21,
     StepCases, Zenon

(* Only running sessions are sent to: the own one, or one from the table.    *)
LEMMA SilentStep ==
  ASSUME TrafficInv, Next
  PROVE  SilentBeforeHandshake'
<1> DEFINE Quiet == UNCHANGED <<state, chWrite>>
<1>1. ASSUME Quiet PROVE SilentBeforeHandshake'
  BY Zenon, <1>1 DEF TrafficInv, SilentBeforeHandshake
<1>2. ASSUME NEW c \in Conns,
             ReadPush(c) \/ ReadExit(c) \/ HandleRejected(c) \/
             HandleForward(c) \/ ServeExit(c) \/ HandshakeCheck(c) \/
             HandshakeLoad(c) \/ HandshakeStore(c)
      PROVE  Quiet
  BY ZenonT(60), <1>2 DEF ReadPush, ReadExit, HandleRejected, HandleForward, ServeExit,
     HandshakeCheck, HandshakeLoad, HandshakeStore, TakePacket, tables,
     identity, io
<1>3. ASSUME NEW t \in Threads,
             CloseSwap(t) \/ CloseHook(t) \/ CloseDelete(t) \/
             CloseTransporter(t)
      PROVE  Quiet
  BY ZenonT(60), <1>3 DEF CloseSwap, CloseHook, CloseDelete, CloseTransporter, tables,
     identity, io
<1>4. ASSUME
             Cancel \/ CloseListener \/ ServerClose \/ RangeDone \/ WaitDone
      PROVE  Quiet
  BY Zenon, <1>4 DEF Cancel, CloseListener, ServerClose, RangeDone, WaitDone, tables,
     identity, io
<1>5. ASSUME NEW c \in Conns, NEW p \in Inbound,
             ReadPacket(c, p)
      PROVE  Quiet
  BY Zenon, <1>5 DEF ReadPacket, tables, identity, io
<1>6. ASSUME NEW p \in Peers, RangeVisit(p) PROVE Quiet
  BY Zenon, <1>6 DEF RangeVisit, tables, identity, io
<1>7. ASSUME NEW c \in Conns, Accept(c) PROVE SilentBeforeHandshake'
  BY Zenon, <1>7 DEF Accept, TrafficInv, Inv, TypeOK, SilentBeforeHandshake,
     TakePacket, tables, identity, io
<1>8. ASSUME NEW c \in Conns, WritePacket(c) PROVE SilentBeforeHandshake'
  BY Zenon, <1>8 DEF WritePacket, TrafficInv, Inv, TypeOK, SilentBeforeHandshake,
     TakePacket, tables, identity, io
<1>9. ASSUME NEW c \in Conns, WriteExit(c) PROVE SilentBeforeHandshake'
  BY Zenon, <1>9 DEF WriteExit, TrafficInv, Inv, TypeOK, SilentBeforeHandshake,
     TakePacket, tables, identity, io
<1>10. ASSUME NEW c \in Conns, HandleHandshake(c) PROVE SilentBeforeHandshake'
  BY Zenon, <1>10 DEF HandleHandshake, TakePacket, TrafficInv, Inv, TypeOK,
     SilentBeforeHandshake, tables, identity, io
<1>11. ASSUME NEW c \in Conns, HandleHeartbeat(c) PROVE SilentBeforeHandshake'
  BY Zenon, <1>11 DEF HandleHeartbeat, TakePacket, TrafficInv, Inv, TypeOK,
     SilentBeforeHandshake, tables, identity, io, Send
<1>12. ASSUME NEW c \in Conns, HandleProbe(c) PROVE SilentBeforeHandshake'
  BY Zenon, <1>12 DEF HandleProbe, TakePacket, TrafficInv, Inv, TypeOK,
     SilentBeforeHandshake, tables, identity, io, Send
<1>13. ASSUME NEW c \in Conns, SendForward(c) PROVE SilentBeforeHandshake'
  BY SMTT(60), <1>13 DEF SendForward, TrafficInv, Inv, TypeOK, SilentBeforeHandshake,
     TakePacket, tables, identity, io, Send, ForwardTargets, TargetsValid,
     Threads
<1>14. ASSUME NEW c \in Conns, HandshakeAck(c) PROVE SilentBeforeHandshake'
  BY Zenon, <1>14 DEF HandshakeAck, TrafficInv, Inv, TypeOK, SilentBeforeHandshake,
     TakePacket, tables, identity, io, Send, HandshakingAuthenticated
<1> HIDE DEF Quiet
<1>15. QED
  BY Zenon, <1>1, <1>2, <1>3, <1>4, <1>5, <1>6, <1>7, <1>8, <1>9, <1>10, <1>11,
     <1>12, <1>13, <1>14, StepCases, Zenon

(* A forwarded packet is queued for a session that carries the peer ID it is *)
(* for, and the peer ID of a session with a non-empty queue never changes.   *)
LEMMA AddresseeStep ==
  ASSUME TrafficInv, Next
  PROVE  ForwardReachesAddressee'
<1> DEFINE Quiet == UNCHANGED <<peerID, chWrite>>
<1>1. ASSUME Quiet PROVE ForwardReachesAddressee'
  BY Zenon, <1>1 DEF TrafficInv, ForwardReachesAddressee
<1>2. ASSUME NEW c \in Conns,
             Accept(c) \/ ReadPush(c) \/ ReadExit(c) \/ HandleRejected(c) \/
             HandleForward(c) \/ ServeExit(c) \/ HandshakeCheck(c) \/
             HandshakeLoad(c) \/ HandshakeStore(c)
      PROVE  Quiet
  BY ZenonT(60), <1>2 DEF Accept, ReadPush, ReadExit, HandleRejected, HandleForward,
     ServeExit, HandshakeCheck, HandshakeLoad, HandshakeStore, TakePacket,
     tables, identity, io
<1>3. ASSUME NEW t \in Threads,
             CloseSwap(t) \/ CloseHook(t) \/ CloseDelete(t) \/
             CloseTransporter(t)
      PROVE  Quiet
  BY ZenonT(60), <1>3 DEF CloseSwap, CloseHook, CloseDelete, CloseTransporter, tables,
     identity, io
<1>4. ASSUME
             Cancel \/ CloseListener \/ ServerClose \/ RangeDone \/ WaitDone
      PROVE  Quiet
  BY Zenon, <1>4 DEF Cancel, CloseListener, ServerClose, RangeDone, WaitDone, tables,
     identity, io
<1>5. ASSUME NEW c \in Conns, NEW p \in Inbound,
             ReadPacket(c, p)
      PROVE  Quiet
  BY Zenon, <1>5 DEF ReadPacket, tables, identity, io
<1>6. ASSUME NEW p \in Peers, RangeVisit(p) PROVE Quiet
  BY Zenon, <1>6 DEF RangeVisit, tables, identity, io
<1>7. ASSUME NEW c \in Conns, WritePacket(c) PROVE ForwardReachesAddressee'
  <2>1. peerID' = peerID /\ chWrite' = [chWrite EXCEPT ![c] = Tail(chWrite[c])]
    BY Zenon, <1>7 DEF WritePacket, identity
  <2>2. chWrite[c] \in Seq(OutPackets) /\ chWrite[c] # <<>>
    BY Zenon, <1>7 DEF WritePacket, TrafficInv, Inv, TypeOK
  <2>3. \A i \in 1 .. Len(Tail(chWrite[c])) :
          i + 1 \in 1 .. Len(chWrite[c]) /\ Tail(chWrite[c])[i] = chWrite[c][i + 1]
    BY <2>2
  <2>4. \A i \in 1 .. Len(Tail(chWrite[c])) :
          Tail(chWrite[c])[i].typ = "Forward" => Tail(chWrite[c])[i].peer = peerID[c]
    BY <2>3 DEF TrafficInv, ForwardReachesAddressee
  <2>5. /\ chWrite'[c] = Tail(chWrite[c])
        /\ \A d \in Conns \ {c} : chWrite'[d] = chWrite[d]
    BY Zenon, <2>1 DEF TrafficInv, Inv, TypeOK
  <2>6. QED
    BY <2>1, <2>4, <2>5 DEF TrafficInv, ForwardReachesAddressee
<1>8. ASSUME NEW c \in Conns, WriteExit(c) PROVE ForwardReachesAddressee'
  <2>1. peerID' = peerID /\ chWrite' = [chWrite EXCEPT ![c] = <<>>]
    BY Zenon, <1>8 DEF WriteExit, identity
  <2>2. /\ Len(chWrite'[c]) = 0
        /\ \A d \in Conns \ {c} : chWrite'[d] = chWrite[d]
    BY Zenon, <2>1 DEF TrafficInv, Inv, TypeOK
  <2> QED
    BY <2>1, <2>2 DEF TrafficInv, ForwardReachesAddressee
<1>9. ASSUME NEW c \in Conns, HandleHandshake(c) PROVE ForwardReachesAddressee'
  <2>1. state[c] # "Running"
    BY Zenon, <1>9 DEF HandleHandshake
  <2>2. chWrite[c] = <<>>
    BY Zenon, <2>1 DEF TrafficInv, SilentBeforeHandshake
  <2>3. /\ chWrite' = chWrite
        /\ \A d \in Conns \ {c} : peerID'[d] = peerID[d]
    BY Zenon, <1>9 DEF HandleHandshake, TrafficInv, Inv, TypeOK
  <2>4. QED
    BY <2>2, <2>3 DEF TrafficInv, ForwardReachesAddressee
<1>10. ASSUME NEW c \in Conns, HandleHeartbeat(c) PROVE ForwardReachesAddressee'
  <2>1. [typ |-> "Heartbeat", peer |-> None] \in OutPackets
    BY Zenon, PacketTyped DEF OutTypes
  <2>2. QED
    BY Zenon, <1>10, <2>1, SendAddressed DEF HandleHeartbeat, identity, TrafficInv, Inv
<1>11. ASSUME NEW c \in Conns, HandleProbe(c) PROVE ForwardReachesAddressee'
  <2>1. PICK out \in OutPackets : Send(c, out) /\ out.typ # "Forward"
    BY Zenon, <1>11, ProbeSends DEF TrafficInv, Inv
  <2>2. peerID' = peerID
    BY Zenon, <1>11 DEF HandleProbe, identity
  <2>3. QED
    BY Zenon, <2>1, <2>2, SendAddressed DEF TrafficInv, Inv
<1>12. ASSUME NEW c \in Conns, SendForward(c) PROVE ForwardReachesAddressee'
  <2> DEFINE out == [typ |-> "Forward", peer |-> dst[c]]
  <2>1. tgt[c] \in Conns /\ out \in OutPackets
    BY Zenon, <1>12, PacketTyped DEF SendForward, OutTypes, TrafficInv, Inv, TypeOK,
       TargetsValid, Threads
  <2>2. Send(tgt[c], out) /\ peerID' = peerID
    BY Zenon, <1>12 DEF SendForward, identity
  <2>3. out.peer = peerID[tgt[c]]
    BY Zenon, <1>12 DEF SendForward, TrafficInv, ForwardTargets
  <2> HIDE DEF out
  <2>4. QED
    BY Zenon, <2>1, <2>2, <2>3, SendAddressed DEF TrafficInv, Inv
<1>13. ASSUME NEW c \in Conns, HandshakeAck(c) PROVE ForwardReachesAddressee'
  <2>1. [typ |-> "HandshakeAck", peer |-> None] \in OutPackets
    BY Zenon, PacketTyped DEF OutTypes
  <2>2. QED
    BY Zenon, <1>13, <2>1, SendAddressed DEF HandshakeAck, identity, TrafficInv, Inv
<1> HIDE DEF Quiet
<1>14. QED
  BY Zenon, <1>1, <1>2, <1>3, <1>4, <1>5, <1>6, <1>7, <1>8, <1>9, <1>10, <1>11,
     <1>12, <1>13, StepCases, Zenon

(* Some session has authenticated as q.                                    *)
Authenticated(q) == \E d \in Conns : peerID[d] = q /\ state[d] = "Running"

(* A peer that has authenticated stays so: a running session is never      *)
(* given another state or peer ID.                                         *)
LEMMA AuthenticatedStays ==
  ASSUME TypeOK, Next, NEW q \in Peers, Authenticated(q)
  PROVE  Authenticated(q)'
<1>1. CASE UNCHANGED <<state, peerID>>
  BY Zenon, <1>1 DEF Authenticated
<1>2. ASSUME NEW c \in Conns, Accept(c) PROVE Authenticated(q)'
  <2>1. \A d \in Conns : state[d] = "Running" => state'[d] = "Running"
    BY Zenon, <1>2 DEF Accept, TypeOK
  <2>2. peerID' = peerID
    BY Zenon, <1>2 DEF Accept
  <2> QED
    BY Zenon, <2>1, <2>2 DEF Authenticated
<1>3. ASSUME NEW c \in Conns, HandleHandshake(c) PROVE Authenticated(q)'
  <2>1. \A d \in Conns : state[d] = "Running" => state'[d] = "Running" /\ peerID'[d] = peerID[d]
    BY Zenon, <1>3 DEF HandleHandshake, TypeOK
  <2> QED
    BY Zenon, <2>1 DEF Authenticated
<1>4. ASSUME NEW c \in Conns,
             \/ \E p \in Inbound : ReadPacket(c, p)
             \/ ReadPush(c) \/ ReadExit(c) \/ WritePacket(c) \/ WriteExit(c)
             \/ HandleRejected(c) \/ HandleHeartbeat(c)
             \/ HandleProbe(c) \/ HandleForward(c) \/ SendForward(c)
             \/ ServeExit(c) \/ HandshakeCheck(c) \/ HandshakeLoad(c)
             \/ HandshakeStore(c) \/ HandshakeAck(c)
      PROVE  UNCHANGED <<state, peerID>>
  BY ZenonT(60), <1>4 DEF ReadPacket, ReadPush, ReadExit, WritePacket, WriteExit, HandleRejected,
     HandleHeartbeat, HandleProbe, HandleForward, SendForward, ServeExit, HandshakeCheck,
     HandshakeLoad, HandshakeStore, HandshakeAck, identity
<1>5. ASSUME NEW t \in Threads,
             CloseSwap(t) \/ CloseHook(t) \/ CloseDelete(t) \/ CloseTransporter(t)
      PROVE  UNCHANGED <<state, peerID>>
  BY ZenonT(60), <1>5 DEF CloseSwap, CloseHook, CloseDelete, CloseTransporter, identity
<1>6. ASSUME Cancel \/ CloseListener \/ ServerClose \/ RangeDone \/ WaitDone \/
             (\E p \in Peers : RangeVisit(p))
      PROVE  UNCHANGED <<state, peerID>>
  BY ZenonT(60), <1>6 DEF Cancel, CloseListener, ServerClose, RangeDone, WaitDone, RangeVisit, identity
<1> QED
  BY <1>1, <1>2, <1>3, <1>4, <1>5, <1>6, StepCases, Zenon

(* A packet that says nothing of other peers, or names one that has        *)
(* authenticated.                                                          *)
Truthful(out) == out.typ = "ProbeResponse" /\ out.peer # None => out.peer \in Peers /\ Authenticated(out.peer)

(* The answer of onProbe names a peer that is in the table.                *)
LEMMA ProbeTruthful ==
  ASSUME Inv, NEW c \in Conns, HandleProbe(c)
  PROVE  \E out \in OutPackets : Send(c, out) /\ Truthful(out)
<1> DEFINE q == Head(chRead[c]).peer
           out == [typ |-> "ProbeResponse", peer |-> IF Lookup(q) = None THEN None ELSE q]
<1>1. q \in Peers \cup {None}
  BY Zenon, HeadTyped DEF HandleProbe, Inv
<1>2. out \in OutPackets
  BY Zenon, <1>1, PacketTyped DEF OutTypes
<1>3. Send(c, out)
  BY Zenon DEF HandleProbe
<1>4. ASSUME out.peer # None PROVE out.peer \in Peers /\ Authenticated(out.peer)
  <2>1. out.peer = q /\ q \in Peers /\ sessions[q] # None
    BY Zenon, <1>1, <1>4 DEF Lookup
  <2>2. sessions[q] \in Conns
    BY Zenon, <2>1 DEF Inv, TypeOK
  <2> QED
    BY Zenon, <2>1, <2>2 DEF Inv, RegisteredAuthenticated, Authenticated
<1>5. Truthful(out)
  BY Zenon, <1>4 DEF Truthful
<1> HIDE DEF out
<1> QED
  BY Zenon, <1>2, <1>3, <1>5

(* What waits in a queue of packets to be written is such a packet.        *)
LEMMA QueuedPacket ==
  ASSUME TypeOK, NEW d \in Conns, NEW i \in 1 .. Len(chWrite[d])
  PROVE  chWrite[d][i] \in OutPackets
<1>1. chWrite[d] \in Seq(OutPackets)
  BY Zenon DEF TypeOK
<1> QED
  BY <1>1

(* Sending a truthful packet keeps the queued answers truthful.            *)
LEMMA SendTruthful ==
  ASSUME Inv, OnlineMeansAuthenticated, Next, NEW s \in Conns, NEW out \in OutPackets,
         Send(s, out), Truthful(out)
  PROVE  OnlineMeansAuthenticated'
<1> SUFFICES ASSUME NEW d \in Conns, NEW i \in 1 .. Len(chWrite'[d]),
                    chWrite'[d][i].typ = "ProbeResponse", chWrite'[d][i].peer # None
             PROVE  \E e \in Conns : peerID'[e] = chWrite'[d][i].peer /\ state'[e] = "Running"
  BY Zenon DEF OnlineMeansAuthenticated, Authenticated
<1> DEFINE q == chWrite'[d][i].peer
<1>1. q \in Peers /\ Authenticated(q)
  <2>1. CASE i \in 1 .. Len(chWrite[d]) /\ chWrite'[d][i] = chWrite[d][i]
    <3>1. chWrite[d][i] \in OutPackets
      BY Zenon, <2>1, QueuedPacket DEF Inv
    <3>2. chWrite[d][i].peer \in Peers
      BY Zenon, <2>1, <3>1 DEF OutPackets
    <3>3. chWrite[d][i].typ = "ProbeResponse" /\ chWrite[d][i].peer # None
      BY Zenon, <2>1
    <3>4. Authenticated(chWrite[d][i].peer)
      BY <2>1, <3>3, Zenon DEF OnlineMeansAuthenticated, Authenticated
    <3> QED
      BY Zenon, <2>1, <3>2, <3>4
  <2>2. CASE chWrite'[d][i] = out
    BY Zenon, <2>2 DEF Truthful
  <2> QED
    BY <2>1, <2>2, SendAdds DEF Inv
<1>2. PICK r \in Peers : r = q
  BY Zenon, <1>1
<1>3. Authenticated(r)'
  BY Zenon, <1>1, <1>2, AuthenticatedStays DEF Inv
<1> QED
  BY Zenon, <1>2, <1>3 DEF Authenticated

(* A step that queues no packet keeps the queued answers truthful.         *)
LEMMA QuietTruthful ==
  ASSUME Inv, OnlineMeansAuthenticated, Next,
         \A d \in Conns : \A i \in 1 .. Len(chWrite'[d]) :
           \E j \in 1 .. Len(chWrite[d]) : chWrite'[d][i] = chWrite[d][j]
  PROVE  OnlineMeansAuthenticated'
<1> SUFFICES ASSUME NEW d \in Conns, NEW i \in 1 .. Len(chWrite'[d]),
                    chWrite'[d][i].typ = "ProbeResponse", chWrite'[d][i].peer # None
             PROVE  \E e \in Conns : peerID'[e] = chWrite'[d][i].peer /\ state'[e] = "Running"
  BY Zenon DEF OnlineMeansAuthenticated, Authenticated
<1>1. PICK j \in 1 .. Len(chWrite[d]) : chWrite'[d][i] = chWrite[d][j]
  OBVIOUS
<1>2. chWrite[d][j] \in OutPackets
  BY Zenon, QueuedPacket DEF Inv
<1>3. chWrite[d][j].peer \in Peers
  BY Zenon, <1>1, <1>2 DEF OutPackets
<1>4. PICK r \in Peers : r = chWrite'[d][i].peer
  BY Zenon, <1>1, <1>3
<1>5. Authenticated(r)
  BY <1>1, <1>4 DEF OnlineMeansAuthenticated, Authenticated
<1>6. Authenticated(r)'
  BY Zenon, <1>5, AuthenticatedStays DEF Inv
<1> QED
  BY Zenon, <1>4, <1>6 DEF Authenticated

(* OnlineMeansAuthenticated is preserved by every step.                    *)
LEMMA OnlineStep ==
  ASSUME Inv, OnlineMeansAuthenticated, Next
  PROVE  OnlineMeansAuthenticated'
<1>1. ASSUME UNCHANGED chWrite PROVE OnlineMeansAuthenticated'
  BY Zenon, <1>1, QuietTruthful
<1>2. ASSUME NEW c \in Conns,
             \/ Accept(c) \/ (\E p \in Inbound : ReadPacket(c, p))
             \/ ReadPush(c) \/ ReadExit(c) \/ HandleRejected(c) \/ HandleHandshake(c)
             \/ HandleForward(c) \/ ServeExit(c) \/ HandshakeCheck(c)
             \/ HandshakeLoad(c) \/ HandshakeStore(c)
      PROVE  UNCHANGED chWrite
  BY ZenonT(60), <1>2 DEF Accept, ReadPacket, ReadPush, ReadExit, HandleRejected, HandleHandshake,
     HandleForward, ServeExit, HandshakeCheck, HandshakeLoad, HandshakeStore
<1>3. ASSUME NEW t \in Threads,
             CloseSwap(t) \/ CloseHook(t) \/ CloseDelete(t) \/ CloseTransporter(t)
      PROVE  UNCHANGED chWrite
  BY ZenonT(60), <1>3 DEF CloseSwap, CloseHook, CloseDelete, CloseTransporter
<1>4. ASSUME Cancel \/ CloseListener \/ ServerClose \/ RangeDone \/ WaitDone \/
             (\E p \in Peers : RangeVisit(p))
      PROVE  UNCHANGED chWrite
  BY ZenonT(60), <1>4 DEF Cancel, CloseListener, ServerClose, RangeDone, WaitDone, RangeVisit
<1>5. ASSUME NEW c \in Conns, WritePacket(c) PROVE OnlineMeansAuthenticated'
  <2>1. chWrite' = [chWrite EXCEPT ![c] = Tail(chWrite[c])]
    BY Zenon, <1>5 DEF WritePacket
  <2>2. chWrite[c] \in Seq(OutPackets) /\ chWrite[c] # <<>>
    BY Zenon, <1>5 DEF WritePacket, Inv, TypeOK
  <2>3. \A i \in 1 .. Len(Tail(chWrite[c])) :
          i + 1 \in 1 .. Len(chWrite[c]) /\ Tail(chWrite[c])[i] = chWrite[c][i + 1]
    BY <2>2
  <2>4. /\ chWrite'[c] = Tail(chWrite[c])
        /\ \A d \in Conns \ {c} : chWrite'[d] = chWrite[d]
    BY Zenon, <2>1 DEF Inv, TypeOK
  <2>5. \A d \in Conns : \A i \in 1 .. Len(chWrite'[d]) :
          \E j \in 1 .. Len(chWrite[d]) : chWrite'[d][i] = chWrite[d][j]
    <3>1. ASSUME NEW i \in 1 .. Len(chWrite'[c])
          PROVE  \E j \in 1 .. Len(chWrite[c]) : chWrite'[c][i] = chWrite[c][j]
      BY Zenon, <2>3, <2>4
    <3> QED
      BY Zenon, <2>4, <3>1
  <2> QED
    BY Zenon, <2>5, QuietTruthful
<1>6. ASSUME NEW c \in Conns, WriteExit(c) PROVE OnlineMeansAuthenticated'
  <2>1. \A d \in Conns : chWrite'[d] = chWrite[d] \/ chWrite'[d] = <<>>
    BY Zenon, <1>6 DEF WriteExit, Inv, TypeOK
  <2>2. \A d \in Conns : \A i \in 1 .. Len(chWrite'[d]) :
          \E j \in 1 .. Len(chWrite[d]) : chWrite'[d][i] = chWrite[d][j]
    BY <2>1
  <2> QED
    BY Zenon, <2>2, QuietTruthful
<1>7. ASSUME NEW c \in Conns, HandleHeartbeat(c) PROVE OnlineMeansAuthenticated'
  <2> DEFINE out == [typ |-> "Heartbeat", peer |-> None]
  <2>1. out \in OutPackets /\ Truthful(out)
    BY Zenon, PacketTyped DEF OutTypes, Truthful
  <2>2. Send(c, out)
    BY Zenon, <1>7 DEF HandleHeartbeat
  <2> QED
    BY Zenon, <2>1, <2>2, SendTruthful
<1>8. ASSUME NEW c \in Conns, HandleProbe(c) PROVE OnlineMeansAuthenticated'
  BY Zenon, <1>8, ProbeTruthful, SendTruthful
<1>9. ASSUME NEW c \in Conns, SendForward(c) PROVE OnlineMeansAuthenticated'
  <2> DEFINE out == [typ |-> "Forward", peer |-> dst[c]]
  <2>1. tgt[c] \in Conns /\ out \in OutPackets
    BY Zenon, <1>9, PacketTyped DEF SendForward, OutTypes, Inv, TypeOK, TargetsValid,
       Threads
  <2>2. Truthful(out)
    BY Zenon DEF Truthful
  <2>3. Send(tgt[c], out)
    BY Zenon, <1>9 DEF SendForward
  <2> QED
    BY Zenon, <2>1, <2>2, <2>3, SendTruthful
<1>10. ASSUME NEW c \in Conns, HandshakeAck(c) PROVE OnlineMeansAuthenticated'
  <2> DEFINE out == [typ |-> "HandshakeAck", peer |-> None]
  <2>1. out \in OutPackets /\ Truthful(out)
    BY Zenon, PacketTyped DEF OutTypes, Truthful
  <2>2. Send(c, out)
    BY Zenon, <1>10 DEF HandshakeAck
  <2> QED
    BY Zenon, <2>1, <2>2, SendTruthful
<1> QED
  BY <1>1, <1>2, <1>3, <1>4, <1>5, <1>6, <1>7, <1>8, <1>9, <1>10, StepCases, Zenon

(* The initial state satisfies the inductive invariant.                    *)
LEMMA InitInv == Init => Inv
<1> SUFFICES ASSUME Init PROVE Inv
  BY Zenon
<1>1. TypeOK
  <2>1. <<>> \in Seq(Packets) /\ <<>> \in Seq(OutPackets) /\ Len(<<>>) <= QueueCap
    OBVIOUS
  <2>2. /\ chRead \in [Conns -> Seq(Packets)] /\ chWrite \in [Conns -> Seq(OutPackets)]
        /\ \A c \in Conns : Len(chRead[c]) <= QueueCap /\ Len(chWrite[c]) <= QueueCap
    BY Zenon, <2>1 DEF Init
  <2>3. QED
    BY ZenonT(60), <2>2, PacketTyped, PCTyped DEF Init, TypeOK
<1>2. RegisteredAuthenticated /\ ClosedSessionEvicted
  BY Zenon DEF Init, RegisteredAuthenticated, ClosedSessionEvicted
<1>3. UnstoredUnknown
  BY Zenon DEF Init, UnstoredUnknown
<1>4. TargetsValid /\ HandshakingAuthenticated /\ CloseRunsOnce
  BY Zenon DEF Init, TargetsValid, HandshakingAuthenticated, CloseRunsOnce,
     ClosePoints, Threads
<1>5. QED
  BY Zenon, <1>1, <1>2, <1>3, <1>4 DEF Inv

(* The invariant is inductive: whatever thread makes the next step.        *)
LEMMA NextInv == Inv /\ [Next]_vars => Inv'
<1> SUFFICES ASSUME Inv, [Next]_vars PROVE Inv'
  OBVIOUS
<1>1. CASE Next
  BY Zenon, <1>1, TypeStep, RegisteredStep, UnstoredStep, TargetsStep, HandshakingStep,
     EvictedStep, OnceStep DEF Inv
<1>2. CASE UNCHANGED vars
  BY ZenonT(60), <1>2 DEF vars, Inv, TypeOK, RegisteredAuthenticated, UnstoredUnknown,
     Unstored,
     TargetsValid, HandshakingAuthenticated, ClosedSessionEvicted, InHook, CloseRunsOnce
<1>3. QED
  BY Zenon, <1>1, <1>2

(* The inductive invariant holds in every reachable state of the server,   *)
(* for any set of connections, peers and packets and any queue capacity.   *)
THEOREM Invariance == Spec => []Inv
<1>1. QED
  BY InitInv, NextInv, PTL DEF Spec

(* Type correctness; chRead and chWrite never exceed their capacity, since *)
(* Send drops a packet for a full queue and Read waits.                    *)
THEOREM TypeCorrect == Spec => []TypeOK
<1>1. Inv => TypeOK
  BY Zenon DEF Inv
<1>2. QED
  BY <1>1, Invariance, PTL

(* Server.sessions maps a peer ID only to a session that authenticated as  *)
(* this peer, under every interleaving of handshakes, closes and shutdown. *)
THEOREM TableSafe == Spec => []RegisteredAuthenticated
<1>1. Inv => RegisteredAuthenticated
  BY Zenon DEF Inv
<1>2. QED
  BY <1>1, Invariance, PTL

(* OnSessionClosed evicts: a session closed on a running server is out of  *)
(* the table for good once the hook has returned.                          *)
THEOREM Eviction == Spec => []ClosedSessionEvicted
<1>1. Inv => ClosedSessionEvicted
  BY Zenon DEF Inv
<1>2. QED
  BY <1>1, Invariance, PTL

(* The atomic Swap in Session.Close lets one thread per session through.   *)
THEOREM CloseOnce == Spec => []CloseRunsOnce
<1>1. Inv => CloseRunsOnce
  BY Zenon DEF Inv
<1>2. QED
  BY <1>1, Invariance, PTL

(* The facts about the queues are inductive on top of Inv.                 *)
LEMMA TrafficNext == TrafficInv /\ [Next]_vars => TrafficInv'
<1> SUFFICES ASSUME TrafficInv, [Next]_vars PROVE TrafficInv'
  OBVIOUS
<1>1. Inv'
  BY Zenon, NextInv DEF TrafficInv
<1>2. CASE Next
  BY Zenon, <1>1, <1>2, ForwardTargetsStep, SilentStep, AddresseeStep DEF TrafficInv
<1>3. CASE UNCHANGED vars
  <2>1. ForwardTargets' /\ SilentBeforeHandshake'
    BY Zenon, <1>3 DEF vars, TrafficInv, ForwardTargets, SilentBeforeHandshake
  <2>2. ForwardReachesAddressee'
    BY Zenon, <1>3 DEF vars, TrafficInv, ForwardReachesAddressee
  <2>3. QED
    BY Zenon, <1>1, <2>1, <2>2 DEF TrafficInv
<1>4. QED
  BY Zenon, <1>2, <1>3

(* The same for the packets: Inv with the three facts about the queues.    *)
THEOREM TrafficInvariance == Spec => []TrafficInv
<1>1. Init => TrafficInv
  <2>1. Init => ForwardTargets /\ SilentBeforeHandshake
    BY Zenon DEF Init, ForwardTargets, SilentBeforeHandshake, Threads
  <2>2. Init => ForwardReachesAddressee
    BY DEF Init, ForwardReachesAddressee
  <2>3. QED
    BY Zenon, <2>1, <2>2, InitInv DEF TrafficInv
<1>2. QED
  BY <1>1, TrafficNext, PTL DEF Spec

(* A packet that onForward queues is for the peer of the session it is     *)
(* queued in, although lookup and Send are separate steps.                 *)
THEOREM ForwardSafe == Spec => []ForwardReachesAddressee
<1>1. TrafficInv => ForwardReachesAddressee
  BY Zenon DEF TrafficInv
<1>2. QED
  BY <1>1, TrafficInvariance, PTL

(* A connection that has not authenticated is never sent anything.         *)
THEOREM Silence == Spec => []SilentBeforeHandshake
<1>1. TrafficInv => SilentBeforeHandshake
  BY Zenon DEF TrafficInv
<1>2. QED
  BY <1>1, TrafficInvariance, PTL

(* A probe is answered "online" only for a peer that has authenticated on  *)
(* this server (callbacks.go, onProbe), however sessions come and go       *)
(* between the look-up and the answer.                                     *)
THEOREM ProbeSafe == Spec => []OnlineMeansAuthenticated
<1>1. Init => OnlineMeansAuthenticated
  BY DEF Init, OnlineMeansAuthenticated
<1>2. Inv /\ OnlineMeansAuthenticated /\ [Next]_vars => OnlineMeansAuthenticated'
  <2> SUFFICES ASSUME Inv, OnlineMeansAuthenticated, [Next]_vars PROVE OnlineMeansAuthenticated'
    OBVIOUS
  <2>1. CASE Next
    BY Zenon, <2>1, OnlineStep
  <2>2. CASE UNCHANGED vars
    BY Zenon, <2>2 DEF vars, OnlineMeansAuthenticated
  <2> QED
    BY Zenon, <2>1, <2>2
<1> QED
  BY <1>1, <1>2, Invariance, PTL DEF Spec

(* The refinement. Where a session stands, as two questions to the state.  *)
LEMMA PhaseValue ==
  ASSUME TypeOK, NEW c \in Conns
  PROVE  /\ closed[c] => Phase(c) = "closed"
         /\ ~closed[c] /\ state[c] # "Running" => Phase(c) = "anonymous"
         /\ ~closed[c] /\ state[c] = "Running" /\ Unstored(c) => Phase(c) = "authenticated"
         /\ ~closed[c] /\ state[c] = "Running" /\ ~Unstored(c) => Phase(c) = "served"
  BY Zenon DEF Phase

(* A step that closes no session, completes no handshake and moves no      *)
(* session on towards the table leaves all sessions where they stand.      *)
LEMMA SamePhase ==
  ASSUME TypeOK, TypeOK', NEW c \in Conns, closed'[c] = closed[c],
         state'[c] = "Running" <=> state[c] = "Running",
         state[c] = "Running" /\ ~closed[c] => (Unstored(c)' <=> Unstored(c))
  PROVE  Phase(c)' = Phase(c)
<1>1. /\ closed'[c] => Phase(c)' = "closed"
      /\ ~closed'[c] /\ state'[c] # "Running" => Phase(c)' = "anonymous"
      /\ ~closed'[c] /\ state'[c] = "Running" /\ Unstored(c)' => Phase(c)' = "authenticated"
      /\ ~closed'[c] /\ state'[c] = "Running" /\ ~Unstored(c)' => Phase(c)' = "served"
  BY Zenon DEF Phase
<1>2. /\ closed[c] => Phase(c) = "closed"
      /\ ~closed[c] /\ state[c] # "Running" => Phase(c) = "anonymous"
      /\ ~closed[c] /\ state[c] = "Running" /\ Unstored(c) => Phase(c) = "authenticated"
      /\ ~closed[c] /\ state[c] = "Running" /\ ~Unstored(c) => Phase(c) = "served"
  BY Zenon DEF Phase
<1>3. closed'[c] <=> closed[c]
  BY SMTT(20)
<1>4. CASE closed[c]
  BY <1>1, <1>2, <1>3, <1>4, Zenon
<1>5. CASE ~closed[c] /\ state[c] # "Running"
  BY <1>1, <1>2, <1>3, <1>5, Zenon
<1>6. CASE ~closed[c] /\ state[c] = "Running" /\ Unstored(c)
  BY <1>1, <1>2, <1>3, <1>6, Zenon
<1>7. CASE ~closed[c] /\ state[c] = "Running" /\ ~Unstored(c)
  BY <1>1, <1>2, <1>3, <1>7, Zenon
<1> QED
  BY <1>4, <1>5, <1>6, <1>7, Zenon

(* One session moves on, the others stay.                                  *)
LEMMA OnePhase ==
  ASSUME NEW c \in Conns, NEW v, Phase(c)' = v, \A d \in Conns : d # c => Phase(d)' = Phase(d)
  PROVE  Phases' = [Phases EXCEPT ![c] = v]
<1>1. Phases' = [d \in Conns |-> Phase(d)']
  BY Zenon DEF Phases
<1>2. Phases = [d \in Conns |-> Phases[d]] /\ \A d \in Conns : Phases[d] = Phase(d)
  BY Zenon DEF Phases
<1>3. [Phases EXCEPT ![c] = v] = [d \in Conns |-> IF d = c THEN v ELSE Phases[d]]
  BY Zenon, <1>2
<1>4. \A d \in Conns : Phase(d)' = IF d = c THEN v ELSE Phases[d]
  BY Zenon, <1>2
<1> QED
  BY Zenon, <1>1, <1>3, <1>4

(* The goroutines that read, write and handle packets do not touch the table. *)
LEMMA TrafficStutters ==
  ASSUME TypeOK, TypeOK', NEW c \in Conns,
         \/ Accept(c) \/ (\E p \in Inbound : ReadPacket(c, p)) \/ ReadPush(c) \/ ReadExit(c)
         \/ WritePacket(c) \/ WriteExit(c) \/ HandleRejected(c) \/ HandleHeartbeat(c)
         \/ HandleProbe(c)
  PROVE  UNCHANGED Table!tableVars
<1>1. UNCHANGED <<sessions, peerID, closed, tgt>>
  BY Zenon DEF Accept, ReadPacket, ReadPush, ReadExit, WritePacket, WriteExit, HandleRejected,
         HandleHeartbeat, HandleProbe, tables, identity
<1>2. CASE Accept(c)
  <2>1. ASSUME NEW d \in Conns PROVE Phase(d)' = Phase(d)
    <3>1. state'[d] = "Running" <=> state[d] = "Running"
      BY Zenon, <1>2 DEF Accept, TypeOK
    <3>2. state[d] = "Running" => d # c
      BY Zenon, <1>2 DEF Accept
    <3>3. state[d] = "Running" => (Unstored(d)' <=> Unstored(d))
      BY Zenon, <1>1, <1>2, <3>1, <3>2 DEF Accept, Unstored, TypeOK, Threads
    <3> QED
      BY Zenon, <1>1, <3>1, <3>3, SamePhase
  <2> QED
    BY Zenon, <1>1, <2>1 DEF Table!tableVars, Phases
<1>3. CASE ~Accept(c)
  <2>1. UNCHANGED <<state, pc>>
    BY Zenon, <1>3 DEF ReadPacket, ReadPush, ReadExit, WritePacket, WriteExit, HandleRejected,
           HandleHeartbeat, HandleProbe, identity
  <2>2. ASSUME NEW d \in Conns PROVE Phase(d)' = Phase(d)
    BY Zenon, <1>1, <2>1, SamePhase DEF Unstored
  <2> QED
    BY Zenon, <1>1, <2>1, <2>2 DEF Table!tableVars, Phases
<1> QED
  BY Zenon, <1>2, <1>3

(* The steps of Serve between two accesses to the table.                   *)
LEMMA ServeStutters ==
  ASSUME Inv, TypeOK', NEW c \in Conns,
         \/ HandleForward(c) \/ SendForward(c) \/ ServeExit(c) \/ HandshakeLoad(c) \/ HandshakeAck(c)
  PROVE  UNCHANGED Table!tableVars
<1>0. TypeOK
  BY Zenon DEF Inv
<1>1. UNCHANGED <<sessions, state, peerID, closed>>
  BY Zenon DEF HandleForward, SendForward, ServeExit, HandshakeLoad, HandshakeAck, tables, identity
<1>2. \A d \in Conns : d # c => pc'[d] = pc[d] /\ tgt'[d] = tgt[d]
  <2>1. pc \in [Threads -> PCs] /\ tgt \in [Threads -> Conns \cup {None}] /\ Conns \subseteq Threads
    BY Zenon, <1>0 DEF TypeOK, Threads
  <2>2. \E x, y : pc' = [pc EXCEPT ![c] = x] /\ tgt' \in {tgt, [tgt EXCEPT ![c] = y]}
    <3>1. CASE HandleForward(c)  BY Zenon, <3>1 DEF HandleForward
    <3>2. CASE SendForward(c)  BY Zenon, <3>2 DEF SendForward
    <3>3. CASE ServeExit(c)  BY Zenon, <3>3 DEF ServeExit
    <3>4. CASE HandshakeLoad(c)  BY Zenon, <3>4 DEF HandshakeLoad
    <3>5. CASE HandshakeAck(c)  BY Zenon, <3>5 DEF HandshakeAck
    <3> QED
      BY Zenon, <3>1, <3>2, <3>3, <3>4, <3>5
  <2> QED
    BY Zenon, <2>1, <2>2
<1>3. state[c] = "Running" /\ ~closed[c] => (Unstored(c)' <=> Unstored(c))
  <2>1. CASE HandleForward(c)
    <3>1. pc[c] = "select" /\ pc'[c] \in {"select", "send"}
      BY Zenon, <1>0, <2>1 DEF HandleForward, TakePacket, TypeOK, Threads
    <3> QED
      BY Zenon, <1>1, <3>1 DEF Unstored, ClosePoints
  <2>2. CASE SendForward(c) \/ HandshakeAck(c)
    <3>1. pc[c] \in {"send", "ack"} /\ pc'[c] = "select"
      BY Zenon, <1>0, <2>2 DEF SendForward, HandshakeAck, TypeOK, Threads
    <3> QED
      BY Zenon, <1>1, <3>1 DEF Unstored, ClosePoints
  <2>3. CASE ServeExit(c)
    <3>1. pc[c] = "select" /\ pc'[c] = "clSwap" /\ tgt'[c] = c
      BY Zenon, <1>0, <2>3 DEF ServeExit, TypeOK, Threads
    <3> QED
      BY Zenon, <1>1, <3>1 DEF Unstored, ClosePoints
  <2>4. CASE HandshakeLoad(c)
    <3>1. pc[c] = "hsLoad" /\ pc'[c] \in {"hsStore", "clSwap"} /\ tgt'[c] = sessions[peerID[c]]
      BY Zenon, <1>0, <2>4 DEF HandshakeLoad, TypeOK, Threads
    <3>2. peerID[c] \in Peers
      BY Zenon, <3>1 DEF Inv, HandshakingAuthenticated
    <3>3. tgt'[c] # c
      BY Zenon, <3>1, <3>2 DEF Inv, UnstoredUnknown, Unstored
    <3> QED
      BY Zenon, <3>1, <3>3 DEF Unstored, ClosePoints
  <2> QED
    BY Zenon, <2>1, <2>2, <2>3, <2>4
<1>4. ASSUME NEW d \in Conns PROVE Phase(d)' = Phase(d)
  <2>1. CASE d = c
    BY Zenon, <1>0, <1>1, <1>3, <2>1, SamePhase
  <2>2. CASE d # c
    <3>1. Unstored(d)' <=> Unstored(d)
      BY Zenon, <1>1, <1>2, <2>2 DEF Unstored
    <3> QED
      BY Zenon, <1>0, <1>1, <3>1, SamePhase
  <2> QED
    BY Zenon, <2>1, <2>2
<1> QED
  BY Zenon, <1>1, <1>4 DEF Table!tableVars, Phases

(* onHandshake authenticates a session that was anonymous.                 *)
LEMMA HandshakeAuthenticates ==
  ASSUME Inv, TypeOK', NEW c \in Conns, HandleHandshake(c)
  PROVE  \E p \in Peers : Table!Authenticate(c, p)
<1>0. TypeOK
  BY Zenon DEF Inv
<1>1. PICK p \in Peers : peerID' = [peerID EXCEPT ![c] = p]
  <2>1. Head(chRead[c]).peer \in Peers
    BY Zenon, <1>0, HeadTyped DEF HandleHandshake
  <2>2. peerID' = [peerID EXCEPT ![c] = Head(chRead[c]).peer]
    BY Zenon DEF HandleHandshake
  <2> QED
    BY Zenon, <2>1, <2>2
<1>2. /\ UNCHANGED <<sessions, closed, tgt>> /\ pc[c] = "select" /\ state[c] = "Init"
      /\ state' = [state EXCEPT ![c] = "Running"] /\ pc' = [pc EXCEPT ![c] = "hsCheck"]
  BY Zenon DEF HandleHandshake, TakePacket, tables
<1>3. ~closed[c]
  BY Zenon, <1>2 DEF Inv, UnstoredUnknown, Unstored
<1>4. Phase(c) = "anonymous"
  BY Zenon, <1>0, <1>2, <1>3, PhaseValue
<1>5. Phase(c)' = "authenticated"
  <2>1. ~closed'[c] /\ state'[c] = "Running" /\ Unstored(c)'
    BY Zenon, <1>0, <1>2, <1>3 DEF Unstored, TypeOK, Threads
  <2> QED
    BY Zenon, <2>1 DEF Phase
<1>6. ASSUME NEW d \in Conns, d # c PROVE Phase(d)' = Phase(d)
  <2>1. state'[d] = state[d] /\ pc'[d] = pc[d]
    BY Zenon, <1>0, <1>2, <1>6 DEF TypeOK, Threads
  <2> QED
    BY Zenon, <1>0, <1>2, <2>1, SamePhase DEF Unstored
<1>7. Phases' = [Phases EXCEPT ![c] = "authenticated"]
  BY Zenon, <1>5, <1>6, OnePhase
<1>8. Phases[c] = "anonymous"
  BY Zenon, <1>4 DEF Phases
<1>9. Table!Authenticate(c, p)
  BY Zenon, <1>1, <1>2, <1>7, <1>8 DEF Table!Authenticate
<1> QED
  BY Zenon, <1>9

(* OnSessionHandshake stores an authenticated session, or leaves it out of *)
(* the table of a closed server.                                           *)
LEMMA HandshakeServes ==
  ASSUME Inv, TypeOK', NEW c \in Conns, HandshakeCheck(c) \/ HandshakeStore(c)
  PROVE  Table!Serve(c) \/ UNCHANGED Table!tableVars
<1>0. TypeOK
  BY Zenon DEF Inv
<1>1. UNCHANGED <<state, peerID, closed>> /\ pc[c] \in {"hsCheck", "hsStore"}
  BY Zenon DEF HandshakeCheck, HandshakeStore, identity
<1>2. \A d \in Conns : d # c => pc'[d] = pc[d] /\ tgt'[d] = tgt[d]
  BY Zenon, <1>0 DEF HandshakeCheck, HandshakeStore, TypeOK, Threads
<1>3. Unstored(c) /\ ~closed[c] /\ state[c] = "Running"
  BY Zenon, <1>1 DEF Unstored, Inv, UnstoredUnknown, HandshakingAuthenticated
<1>4. ASSUME NEW d \in Conns, d # c PROVE Phase(d)' = Phase(d)
  <2>1. Unstored(d)' <=> Unstored(d)
    BY Zenon, <1>1, <1>2, <1>4 DEF Unstored
  <2> QED
    BY Zenon, <1>0, <1>1, <2>1, SamePhase
<1>5. Phase(c) = "authenticated"
  BY Zenon, <1>0, <1>3, PhaseValue
<1>6. CASE pc'[c] = "ack"
  <2>1. ~Unstored(c)'
    BY Zenon, <1>1, <1>3, <1>6 DEF Unstored, ClosePoints
  <2>2. Phase(c)' = "served"
    BY Zenon, <1>1, <1>3, <2>1 DEF Phase
  <2>3. Phases' = [Phases EXCEPT ![c] = "served"]
    BY Zenon, <1>4, <2>2, OnePhase
  <2>4. sessions' \in {sessions, [sessions EXCEPT ![peerID[c]] = c]}
    BY Zenon DEF HandshakeCheck, HandshakeStore, tables
  <2> QED
    BY Zenon, <1>1, <1>5, <2>3, <2>4 DEF Table!Serve, Phases
<1>7. CASE pc'[c] # "ack"
  <2>1. pc'[c] = "hsLoad" /\ UNCHANGED sessions
    BY Zenon, <1>0, <1>7 DEF HandshakeCheck, HandshakeStore, tables, TypeOK, Threads
  <2>2. Phase(c)' = Phase(c)
    BY Zenon, <1>0, <1>1, <1>3, <2>1, SamePhase DEF Unstored
  <2>3. \A d \in Conns : Phase(d)' = Phase(d)
    BY Zenon, <1>4, <2>2
  <2> QED
    BY Zenon, <1>1, <2>1, <2>3 DEF Table!tableVars, Phases
<1> QED
  BY Zenon, <1>6, <1>7

(* A thread inside Session.Close stays there or returns to where it was    *)
(* called: the session that it works for does not move.                    *)
LEMMA CloseStays ==
  ASSUME Inv, NEW t \in Threads, NEW d \in Conns,
         pc[t] \in ClosePoints, UNCHANGED <<state, tgt>>,
         pc'[t] \in ClosePoints \cup {After(t)}, \A u \in Threads : u # t => pc'[u] = pc[u],
         d # tgt[t]
  PROVE  Unstored(d)' <=> Unstored(d)
<1>1. CASE d # t
  <2>1. pc'[d] = pc[d]
    BY Zenon, <1>1 DEF Threads
  <2> QED
    BY Zenon, <2>1 DEF Unstored
<1>2. CASE d = t
  <2>1. pc'[d] \in ClosePoints \cup {"hsStore"}
    BY Zenon, <1>2 DEF After
  <2>2. Unstored(d) /\ Unstored(d)'
    BY Zenon, <1>2, <2>1 DEF Unstored, ClosePoints
  <2> QED
    BY Zenon, <2>2
<1> QED
  BY Zenon, <1>1, <1>2

(* The Swap closes a session that was anonymous or served.                 *)
LEMMA SwapCloses ==
  ASSUME Inv, TypeOK', NEW t \in Threads, CloseSwap(t)
  PROVE  (\E c \in Conns : Table!Close(c)) \/ UNCHANGED Table!tableVars
<1>0. TypeOK /\ tgt[t] \in Conns /\ pc[t] \in ClosePoints
  BY Zenon DEF Inv, CloseSwap, TargetsValid, ClosePoints
<1>c. PICK c \in Conns : c = tgt[t]
  BY Zenon, <1>0
<1>1. UNCHANGED <<state, tgt, peerID, sessions>> /\ closed' = [closed EXCEPT ![c] = TRUE]
  BY Zenon, <1>c DEF CloseSwap, tables, identity
<1>m. pc'[t] \in ClosePoints \cup {After(t)} /\ \A u \in Threads : u # t => pc'[u] = pc[u]
  BY Zenon, <1>0 DEF CloseSwap, ClosePoints, TypeOK
<1>2. ASSUME NEW d \in Conns, d # c PROVE Phase(d)' = Phase(d)
  <2>1. closed'[d] = closed[d]
    BY Zenon, <1>0, <1>1, <1>2 DEF TypeOK
  <2>2. Unstored(d)' <=> Unstored(d)
    BY Zenon, <1>0, <1>c, <1>1, <1>m, <1>2, CloseStays
  <2>3. state' = state
    BY Zenon, <1>1
  <2> QED
    BY Zenon, <1>0, <2>1, <2>2, <2>3, SamePhase
<1>3. Phase(c)' = "closed"
  <2>1. closed'[c]
    BY Zenon, <1>0, <1>1 DEF TypeOK
  <2> QED
    BY Zenon, <2>1 DEF Phase
<1>4. CASE closed[c]
  <2>1. Phase(c) = "closed"
    BY Zenon, <1>0, <1>4, PhaseValue
  <2>2. \A d \in Conns : Phase(d)' = Phase(d)
    BY Zenon, <1>2, <1>3, <2>1
  <2> QED
    BY Zenon, <1>1, <2>2 DEF Table!tableVars, Phases
<1>5. CASE ~closed[c]
  <2>1. ~Unstored(c)
    BY Zenon, <1>c DEF Inv, UnstoredUnknown
  <2>2. Phase(c) \in {"anonymous", "served"}
    BY Zenon, <1>0, <1>5, <2>1, PhaseValue
  <2>3. Phases[c] \in {"anonymous", "served"}
    BY Zenon, <1>0, <2>2 DEF Phases
  <2>4. Phases' = [Phases EXCEPT ![c] = "closed"]
    BY Zenon, <1>0, <1>2, <1>3, OnePhase
  <2>5. Table!Close(c)
    BY Zenon, <1>1, <2>3, <2>4 DEF Table!Close
  <2> QED
    BY Zenon, <1>0, <2>5
<1> QED
  BY Zenon, <1>4, <1>5

(* The rest of Close moves no session; OnSessionClosed drops the entry of  *)
(* the peer of the closed session.                                         *)
LEMMA CloseDrops ==
  ASSUME Inv, TypeOK', NEW t \in Threads, CloseHook(t) \/ CloseDelete(t) \/ CloseTransporter(t)
  PROVE  (\E c \in Conns : Table!Drop(c)) \/ UNCHANGED Table!tableVars
<1>0. TypeOK /\ tgt[t] \in Conns /\ pc[t] \in ClosePoints /\ closed[tgt[t]]
  BY Zenon DEF Inv, CloseHook, CloseDelete, CloseTransporter, TargetsValid, ClosePoints
<1>c. PICK c \in Conns : c = tgt[t]
  BY Zenon, <1>0
<1>1. UNCHANGED <<state, tgt, peerID, closed>>
  BY Zenon DEF CloseHook, CloseDelete, CloseTransporter, tables, identity
<1>m. pc'[t] \in ClosePoints \cup {After(t)} /\ \A u \in Threads : u # t => pc'[u] = pc[u]
  <2>1. pc \in [Threads -> PCs]
    BY Zenon, <1>0 DEF TypeOK
  <2>2. CASE CloseHook(t)
    BY Zenon, <2>1, <2>2 DEF CloseHook, ClosePoints
  <2>3. CASE CloseDelete(t)
    BY Zenon, <2>1, <2>3 DEF CloseDelete, ClosePoints
  <2>4. CASE CloseTransporter(t)
    BY Zenon, <2>1, <2>4 DEF CloseTransporter
  <2> QED
    BY Zenon, <2>2, <2>3, <2>4
<1>2. ASSUME NEW d \in Conns PROVE Phase(d)' = Phase(d)
  <2>1. CASE d = c
    BY Zenon, <1>0, <1>c, <1>1, <2>1, SamePhase
  <2>2. CASE d # c
    <3>1. Unstored(d)' <=> Unstored(d)
      BY Zenon, <1>0, <1>c, <1>1, <1>m, <2>2, CloseStays
    <3> QED
      BY Zenon, <1>0, <1>1, <3>1, SamePhase
  <2> QED
    BY Zenon, <2>1, <2>2
<1>3. Phases' = Phases
  BY Zenon, <1>2 DEF Phases
<1>4. sessions' \in {sessions, [sessions EXCEPT ![peerID[c]] = None]}
  BY Zenon, <1>c DEF CloseHook, CloseDelete, CloseTransporter, tables
<1>5. CASE peerID[c] = None
  <2>1. sessions' = sessions
    <3>1. sessions \in [Peers -> Conns \cup {None}] /\ None \notin Peers
      BY Zenon, <1>0, ServerAssumption DEF TypeOK
    <3>2. [sessions EXCEPT ![None] = None] = sessions
      BY Zenon, <3>1
    <3> QED
      BY Zenon, <1>4, <1>5, <3>2
  <2> QED
    BY Zenon, <1>1, <1>3, <2>1 DEF Table!tableVars
<1>6. CASE peerID[c] # None
  <2>1. CASE sessions' = sessions
    BY Zenon, <1>1, <1>3, <2>1 DEF Table!tableVars
  <2>2. CASE sessions' = [sessions EXCEPT ![peerID[c]] = None]
    <3>1. Phases[c] = "closed"
      BY Zenon, <1>0, <1>c, PhaseValue DEF Phases
    <3>2. Table!Drop(c)
      BY Zenon, <1>1, <1>3, <1>6, <2>2, <3>1 DEF Table!Drop
    <3> QED
      BY Zenon, <1>0, <3>2
  <2> QED
    BY Zenon, <1>4, <2>1, <2>2
<1> QED
  BY Zenon, <1>5, <1>6

(* The context, the listener and the loop of Server.Close.                 *)
LEMMA ShutdownStutters ==
  ASSUME Inv, TypeOK',
         \/ Cancel \/ CloseListener \/ ServerClose
         \/ (\E p \in Peers : RangeVisit(p)) \/ RangeDone \/ WaitDone
  PROVE  UNCHANGED Table!tableVars
<1>0. TypeOK
  BY Zenon DEF Inv
<1>1. UNCHANGED <<sessions, state, peerID, closed>>
  BY Zenon DEF Cancel, CloseListener, ServerClose, RangeVisit, RangeDone, WaitDone, tables, identity
<1>2. \A d \in Conns : pc'[d] = pc[d] /\ tgt'[d] = tgt[d]
  <2>1. /\ pc \in [Threads -> PCs] /\ tgt \in [Threads -> Conns \cup {None}]
        /\ Conns \subseteq Threads /\ Closer \notin Conns
    BY Zenon, <1>0, ServerAssumption DEF TypeOK, Threads
  <2>2. CASE Cancel \/ CloseListener
    BY Zenon, <2>2 DEF Cancel, CloseListener
  <2>3. CASE ServerClose
    BY Zenon, <2>1, <2>3 DEF ServerClose
  <2>4. ASSUME NEW p \in Peers, RangeVisit(p) PROVE \A d \in Conns : pc'[d] = pc[d] /\ tgt'[d] = tgt[d]
    BY Zenon, <2>1, <2>4 DEF RangeVisit
  <2>5. CASE RangeDone \/ WaitDone
    BY Zenon, <2>1, <2>5 DEF RangeDone, WaitDone
  <2> QED
    BY Zenon, <2>2, <2>3, <2>4, <2>5
<1>3. ASSUME NEW d \in Conns PROVE Phase(d)' = Phase(d)
  <2>1. Unstored(d)' <=> Unstored(d)
    BY Zenon, <1>1, <1>2 DEF Unstored
  <2> QED
    BY Zenon, <1>0, <1>1, <2>1, SamePhase
<1> QED
  BY Zenon, <1>1, <1>3 DEF Table!tableVars, Phases

(* Every step of the server is a step of SessionTable or leaves its        *)
(* variables alone.                                                        *)
LEMMA RefinesNext == Inv /\ Inv' /\ [Next]_vars => [Table!TableNext]_Table!tableVars
<1> SUFFICES ASSUME Inv, Inv', [Next]_vars PROVE Table!TableNext \/ UNCHANGED Table!tableVars
  OBVIOUS
<1>0. TypeOK /\ TypeOK'
  BY Zenon DEF Inv
<1>1. CASE UNCHANGED vars
  <2>1. \A c \in Conns : Phase(c)' = Phase(c)
    BY Zenon, <1>1 DEF vars, Phase, Unstored
  <2> QED
    BY Zenon, <1>1, <2>1 DEF vars, Phases, Table!tableVars
<1>2. CASE Next
  <2>1. ASSUME NEW c \in Conns,
               \/ Accept(c) \/ (\E p \in Inbound : ReadPacket(c, p)) \/ ReadPush(c) \/ ReadExit(c)
               \/ WritePacket(c) \/ WriteExit(c) \/ HandleRejected(c) \/ HandleHeartbeat(c)
               \/ HandleProbe(c)
        PROVE  UNCHANGED Table!tableVars
    BY Zenon, <1>0, <2>1, TrafficStutters
  <2>2. ASSUME NEW c \in Conns,
               \/ HandleForward(c) \/ SendForward(c) \/ ServeExit(c) \/ HandshakeLoad(c)
               \/ HandshakeAck(c)
        PROVE  UNCHANGED Table!tableVars
    BY Zenon, <1>0, <2>2, ServeStutters
  <2>3. ASSUME NEW c \in Conns, HandleHandshake(c) PROVE Table!TableNext
    BY Zenon, <1>0, <2>3, HandshakeAuthenticates DEF Table!TableNext
  <2>4. ASSUME NEW c \in Conns, HandshakeCheck(c) \/ HandshakeStore(c)
        PROVE  Table!TableNext \/ UNCHANGED Table!tableVars
    BY Zenon, <1>0, <2>4, HandshakeServes DEF Table!TableNext
  <2>5. ASSUME NEW t \in Threads, CloseSwap(t) PROVE Table!TableNext \/ UNCHANGED Table!tableVars
    BY Zenon, <1>0, <2>5, SwapCloses DEF Table!TableNext
  <2>6. ASSUME NEW t \in Threads, CloseHook(t) \/ CloseDelete(t) \/ CloseTransporter(t)
        PROVE  Table!TableNext \/ UNCHANGED Table!tableVars
    BY Zenon, <1>0, <2>6, CloseDrops DEF Table!TableNext
  <2>7. ASSUME \/ Cancel \/ CloseListener \/ ServerClose
               \/ (\E p \in Peers : RangeVisit(p)) \/ RangeDone \/ WaitDone
        PROVE  UNCHANGED Table!tableVars
    BY Zenon, <1>0, <2>7, ShutdownStutters
  <2> QED
    BY Zenon, <1>2, <2>1, <2>2, <2>3, <2>4, <2>5, <2>6, <2>7, StepCases
<1> QED
  BY Zenon, <1>1, <1>2

(* The relay server implements SessionTable: whatever the interleaving of  *)
(* the goroutines of its sessions, of Server.Close and of the context.     *)
THEOREM Refinement == Spec => ImplementsSessionTable
<1>1. Init => Table!TableInit
  <2>1. ASSUME Init, NEW c \in Conns PROVE Phase(c) = "anonymous"
    <3>1. TypeOK
      BY Zenon, <2>1, InitInv DEF Inv
    <3>2. ~closed[c] /\ state[c] # "Running"
      BY Zenon, <2>1 DEF Init
    <3> QED
      BY Zenon, <3>1, <3>2, PhaseValue
  <2> QED
    BY Zenon, <2>1 DEF Init, Table!TableInit, Phases
<1> QED
  BY <1>1, RefinesNext, Invariance, PTL DEF Spec, ImplementsSessionTable, Table!TableSpec

-----------------------------------------------------------------------------
(* Who still attends to a session.                                         *)

\* The points of Session.Close between the Swap that let a thread through and
\* the return of transporter.Close.
PastSwap == {"clHook", "clDelete", "clTrs"}

\* Serve returns through the deferred Session.Close, so it has ended only for a
\* session that is closed.
ServeEndsClosed == \A c \in Conns : pc[c] = "done" => closed[c]

(* The thread whose Swap closed a session (session.go, Close) hangs up: the *)
(* transporter is closed, or this thread has still to close it.             *)
ClosedHangsUp ==
  \A c \in Conns : closed[c] =>
    trsClosed[c] \/ \E t \in Threads : tgt[t] = c /\ pc[t] \in PastSwap

(* An entry in the table of a running server is attended: Serve of its      *)
(* session has not ended and will close it, or some thread is about to      *)
(* delete it in OnSessionClosed.  No interleaving of handshakes and closes  *)
(* leaves an entry that nobody would remove.                                *)
EntriesAttended ==
  \A c \in Conns : (\E p \in Peers : sessions[p] = c) /\ ~srvClosed =>
    pc[c] # "done" \/ InHook(c)

AttendInv == Inv /\ ServeEndsClosed /\ ClosedHangsUp

\* A step that closes no session and ends no Serve, and lets every thread that
\* is past the Swap go on with the session it closes.
Undisturbed ==
  /\ closed' = closed
  /\ \A c \in Conns : trsClosed[c] => trsClosed'[c]
  /\ \A t \in Threads : pc[t] \in PastSwap => pc'[t] \in PastSwap /\ tgt'[t] = tgt[t]
  /\ \A c \in Conns : pc'[c] = "done" => pc[c] = "done"

(* Only the Swap and transporter.Close of Session.Close disturb.            *)
LEMMA StepUndisturbed ==
  ASSUME Inv, Next
  PROVE  Undisturbed \/ \E t \in Threads : CloseSwap(t) \/ CloseTransporter(t)
<1>1. ASSUME NEW c \in Conns,
             ReadPush(c) \/ WritePacket(c) \/
             HandleRejected(c) \/ HandleHeartbeat(c) \/ HandleProbe(c)
      PROVE  Undisturbed
  BY Zenon, <1>1 DEF ReadPush, WritePacket, HandleRejected, HandleHeartbeat,
     HandleProbe, TakePacket, tables, identity, io, Undisturbed
<1>2. ASSUME NEW c \in Conns, ReadExit(c) \/ WriteExit(c) PROVE Undisturbed
  BY Zenon, <1>2 DEF ReadExit, WriteExit, Inv, TypeOK, tables, identity, io, Undisturbed
<1>3. ASSUME Cancel \/ CloseListener PROVE Undisturbed
  BY Zenon, <1>3 DEF Cancel, CloseListener, tables, identity, io, Undisturbed
<1>4. ASSUME NEW c \in Conns, NEW p \in Inbound, ReadPacket(c, p) PROVE Undisturbed
  BY Zenon, <1>4 DEF ReadPacket, tables, identity, io, Undisturbed
<1>5. ASSUME NEW c \in Conns, Accept(c) PROVE Undisturbed
  <2>1. /\ pc[c] = "off" /\ pc' = [pc EXCEPT ![c] = "select"]
        /\ closed' = closed /\ trsClosed' = trsClosed /\ tgt' = tgt
    BY Zenon, <1>5 DEF Accept, Inv, HandshakingAuthenticated
  <2>2. c \in Threads /\ pc \in [Threads -> PCs]
    BY Zenon DEF Threads, Inv, TypeOK
  <2>3. \A u \in Threads : pc'[u] = IF u = c THEN "select" ELSE pc[u]
    BY Zenon, <2>1, <2>2
  <2>4. QED
    BY <2>1, <2>3 DEF Undisturbed, PastSwap, Threads
<1>6. ASSUME NEW c \in Conns, HandleHandshake(c) PROVE Undisturbed
  BY Zenon, <1>6 DEF HandleHandshake, TakePacket, Inv, TypeOK, Threads, PastSwap, tables, identity, io,
     Undisturbed
<1>7. ASSUME NEW c \in Conns, SendForward(c) PROVE Undisturbed
  BY Zenon, <1>7 DEF SendForward, Inv, TypeOK, Threads, PastSwap, tables, identity, io,
     Undisturbed
<1>8. ASSUME NEW c \in Conns, ServeExit(c) PROVE Undisturbed
  BY Zenon, <1>8 DEF ServeExit, Inv, TypeOK, Threads, PastSwap, tables, identity, io,
     Undisturbed
<1>9. ASSUME NEW c \in Conns, HandshakeCheck(c) PROVE Undisturbed
  BY Zenon, <1>9 DEF HandshakeCheck, Inv, TypeOK, Threads, PastSwap, tables, identity, io,
     Undisturbed
<1>10. ASSUME NEW c \in Conns, HandshakeLoad(c) PROVE Undisturbed
  BY Zenon, <1>10 DEF HandshakeLoad, Inv, TypeOK, Threads, PastSwap, tables, identity, io,
     Undisturbed
<1>11. ASSUME NEW c \in Conns, HandshakeStore(c) PROVE Undisturbed
  BY Zenon, <1>11 DEF HandshakeStore, Inv, TypeOK, Threads, PastSwap, tables, identity, io,
     Undisturbed
<1>12. ASSUME NEW c \in Conns, HandshakeAck(c) PROVE Undisturbed
  BY Zenon, <1>12 DEF HandshakeAck, Inv, TypeOK, Threads, PastSwap, tables, identity, io,
     Undisturbed
<1>13. ASSUME NEW t \in Threads, CloseHook(t) PROVE Undisturbed
  BY Zenon, <1>13 DEF CloseHook, Inv, TypeOK, Threads, PastSwap, tables, identity, io,
     Undisturbed
<1>14. ASSUME NEW t \in Threads, CloseDelete(t) PROVE Undisturbed
  BY Zenon, <1>14 DEF CloseDelete, Inv, TypeOK, Threads, PastSwap, tables, identity, io,
     Undisturbed
<1>15. ASSUME ServerClose PROVE Undisturbed
  BY Zenon, <1>15 DEF ServerClose, Inv, TypeOK, Threads, PastSwap, tables, identity, io,
     Undisturbed
<1>16. ASSUME NEW p \in Peers, RangeVisit(p) PROVE Undisturbed
  BY Zenon, <1>16 DEF RangeVisit, Inv, TypeOK, Threads, PastSwap, tables, identity, io,
     Undisturbed
<1>17. ASSUME RangeDone PROVE Undisturbed
  BY Zenon, <1>17 DEF RangeDone, Inv, TypeOK, Threads, PastSwap, tables, identity, io,
     Undisturbed
<1>18. ASSUME WaitDone PROVE Undisturbed
  <2>1. /\ pc[Closer] = "wait" /\ pc' = [pc EXCEPT ![Closer] = "done"]
        /\ closed' = closed /\ trsClosed' = trsClosed /\ tgt' = tgt
    BY Zenon, <1>18 DEF WaitDone
  <2>2. Closer \in Threads /\ pc \in [Threads -> PCs]
    BY Zenon DEF Threads, Inv, TypeOK
  <2>3. \A u \in Threads : pc'[u] = IF u = Closer THEN "done" ELSE pc[u]
    BY Zenon, <2>1, <2>2
  <2>4. QED
    BY Zenon, <2>1, <2>3 DEF Undisturbed, PastSwap, Threads
<1>19. ASSUME NEW c \in Conns, HandleForward(c) PROVE Undisturbed
  <2>1. PICK q \in Peers \cup {None} :
          Forwarding(c, q) /\ Lookup(q) \in Conns \cup {None}
    BY Zenon, <1>19, ForwardLooksUp DEF Inv
  <2>2. trsClosed' = trsClosed
    BY Zenon, <1>19 DEF HandleForward
  <2>3. QED
    BY Zenon, <2>1, <2>2 DEF Forwarding, Inv, TypeOK, Threads, PastSwap, Undisturbed
<1>20. QED
  BY Zenon, <1>1, <1>2, <1>3, <1>4, <1>5, <1>6, <1>7, <1>8, <1>9, <1>10, <1>11,
     <1>12, <1>13, <1>14, <1>15, <1>16, <1>17, <1>18, <1>19, StepCases

(* One thread at a time gets past the Swap of a session, and it leaves only *)
(* when the transporter is closed; Serve ends after its own Close.          *)
LEMMA AttendStep ==
  ASSUME AttendInv, Next
  PROVE  ServeEndsClosed' /\ ClosedHangsUp'
<1> USE DEF AttendInv
<1>1. ASSUME Undisturbed PROVE ServeEndsClosed' /\ ClosedHangsUp'
  BY <1>1 DEF Undisturbed, ServeEndsClosed, ClosedHangsUp
<1>2. ASSUME NEW t \in Threads, CloseSwap(t)
      PROVE  ServeEndsClosed' /\ ClosedHangsUp'
  <2>1. /\ tgt[t] \in Conns /\ pc[t] = "clSwap"
        /\ tgt' = tgt /\ trsClosed' = trsClosed
        /\ closed'[tgt[t]] /\ \A d \in Conns \ {tgt[t]} : closed'[d] = closed[d]
        /\ \A u \in Threads \ {t} : pc'[u] = pc[u]
        /\ pc'[t] = IF closed[tgt[t]] THEN After(t) ELSE "clHook"
    BY Zenon, <1>2 DEF CloseSwap, Inv, TypeOK, TargetsValid, ClosePoints
  <2>2. ServeEndsClosed'
    <3>1. pc'[t] = "done" => tgt[t] = t
      BY Zenon, <2>1 DEF After
    <3>2. QED
      BY Zenon, <2>1, <3>1 DEF ServeEndsClosed, Threads
  <2>3. ClosedHangsUp'
    <3>1. \A d \in Conns \ {tgt[t]} : closed'[d] =>
            trsClosed'[d] \/ \E u \in Threads : tgt'[u] = d /\ pc'[u] \in PastSwap
      BY Zenon, <2>1 DEF ClosedHangsUp, PastSwap
    <3>2. CASE closed[tgt[t]]
      BY <2>1, <3>1, <3>2 DEF After, ClosedHangsUp, PastSwap
    <3>3. CASE ~closed[tgt[t]]
      BY Zenon, <2>1, <3>1, <3>3 DEF ClosedHangsUp, PastSwap
    <3>4. QED
      BY Zenon, <3>2, <3>3
  <2>4. QED
    BY Zenon, <2>2, <2>3
<1>3. ASSUME NEW t \in Threads, CloseTransporter(t)
      PROVE  ServeEndsClosed' /\ ClosedHangsUp'
  <2>1. /\ tgt[t] \in Conns /\ pc[t] = "clTrs" /\ closed[tgt[t]]
        /\ tgt' = tgt /\ closed' = closed
        /\ trsClosed'[tgt[t]] /\ \A d \in Conns \ {tgt[t]} : trsClosed'[d] = trsClosed[d]
        /\ \A u \in Threads \ {t} : pc'[u] = pc[u]
        /\ pc'[t] = After(t)
    BY Zenon, <1>3 DEF CloseTransporter, Inv, TypeOK, TargetsValid, ClosePoints
  <2>2. pc'[t] = "done" => tgt[t] = t
    BY Zenon, <2>1 DEF After
  <2>3. ServeEndsClosed'
    BY Zenon, <2>1, <2>2 DEF ServeEndsClosed, Threads
  <2>4. ClosedHangsUp'
    BY Zenon, <2>1 DEF ClosedHangsUp
  <2>5. QED
    BY Zenon, <2>3, <2>4
<1>4. QED
  BY Zenon, <1>1, <1>2, <1>3, StepUndisturbed

(* A closed session is hung up on and an entry stays attended: the safety   *)
(* core of DeadConnectionEvicted and ClosedSessionStops, for every server.  *)
THEOREM SessionsAttended == Spec => [](ClosedHangsUp /\ EntriesAttended)
<1>1. Init => AttendInv
  <2>1. ASSUME Init PROVE ServeEndsClosed /\ ClosedHangsUp
    BY Zenon, <2>1 DEF Init, ServeEndsClosed, ClosedHangsUp, Threads
  <2>2. QED
    BY Zenon, <2>1, InitInv DEF AttendInv
<1>2. AttendInv /\ [Next]_vars => AttendInv'
  <2>1. ASSUME AttendInv, Next PROVE AttendInv'
    BY Zenon, <2>1, NextInv, AttendStep DEF AttendInv
  <2>2. ASSUME AttendInv, UNCHANGED vars PROVE AttendInv'
    <3>1. Inv'
      BY Zenon, <2>2, NextInv DEF AttendInv
    <3>2. ServeEndsClosed' /\ ClosedHangsUp'
      BY Zenon, <2>2 DEF vars, AttendInv, ServeEndsClosed, ClosedHangsUp
    <3>3. QED
      BY Zenon, <3>1, <3>2 DEF AttendInv
  <2>3. QED
    BY Zenon, <2>1, <2>2
<1>3. AttendInv => ClosedHangsUp /\ EntriesAttended
  BY Zenon DEF AttendInv, Inv, ClosedSessionEvicted, ServeEndsClosed, EntriesAttended
<1>4. QED
  BY <1>1, <1>2, <1>3, PTL DEF Spec

=============================================================================
