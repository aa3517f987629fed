------------------------- MODULE RelayClientProofs -------------------------
(***************************************************************************)
(* Proofs about the client of a relay server, for any capacity of the      *)
(* channels and any number of packets from the server, and about the codec *)
(* of its packets, for every size of header, message and buffer: what      *)
(* Decode returns is what was encoded, in order, and nothing complete is   *)
(* held back.                                                              *)
(***************************************************************************)
EXTENDS RelayClient, Codec, SequenceTheorems, TLAPS

-----------------------------------------------------------------------------
(* The client.                                                             *)

(* What appending to, taking from and dropping chWrite does to its content.*)
LEMMA AppendQueued ==
  ASSUME TypeOK, NEW p \in OutTypes, chWrite' = Append(chWrite, p)
  PROVE  \A q : Queued(q)' => Queued(q) \/ q = p
BY DEF Queued, TypeOK

(* Taking a packet from a queue adds none.                                 *)
LEMMA TailQueued ==
  ASSUME TypeOK, chWrite # <<>>, chWrite' = Tail(chWrite)
  PROVE  \A q : Queued(q)' => Queued(q)
<1> SUFFICES ASSUME NEW q, NEW i \in 1 .. Len(chWrite'), chWrite'[i] = q
             PROVE  Queued(q)
  BY Zenon DEF Queued
<1>0. chWrite \in Seq(OutTypes)
  BY Zenon DEF TypeOK
<1>1. Len(chWrite) \in Nat /\ Len(Tail(chWrite)) = Len(chWrite) - 1
      /\ \A k \in 1 .. Len(Tail(chWrite)) : Tail(chWrite)[k] = chWrite[k + 1]
  BY <1>0, HeadTailProperties
<1>2. i + 1 \in 1 .. Len(chWrite) /\ chWrite[i + 1] = q
  BY <1>1
<1>3. QED
  BY Zenon, <1>2 DEF Queued

(* Nothing is queued in an empty queue.                                   *)
LEMMA EmptyQueued ==
  ASSUME chWrite' = <<>>
  PROVE  \A q : ~Queued(q)'
BY DEF Queued

(* The packet that Write takes next was queued.                           *)
LEMMA HeadQueued ==
  ASSUME TypeOK, chWrite # <<>>
  PROVE  Head(chWrite) \in OutTypes /\ Queued(Head(chWrite))
<1>1. Len(chWrite) \in Nat /\ Len(chWrite) > 0 /\ Head(chWrite) = chWrite[1]
  BY DEF TypeOK
<1>2. 1 \in 1 .. Len(chWrite)
  BY <1>1
<1>3. QED
  BY <1>1, <1>2 DEF Queued, TypeOK

(* Every step keeps the type invariant and the bound of the channels.      *)
LEMMA TypeStep == Inv /\ Next => TypeOK'
<1> SUFFICES ASSUME Inv, Next PROVE TypeOK'
  OBVIOUS
<1> USE ClientAssumption DEF Inv, TypeOK, conn, owner
<1>1. CASE Dial
  BY <1>1 DEF Dial
<1>2. CASE PushHandshake
  <2>1. chWrite = <<>> /\ Append(chWrite, "Handshake") \in Seq(OutTypes)
        /\ Len(Append(chWrite, "Handshake")) <= QueueCap
    BY <1>2 DEF PushHandshake, HandshakeFirst, OutTypes
  <2>2. chWrite' \in Seq(OutTypes) /\ Len(chWrite') <= QueueCap
    BY Zenon, <1>2, <2>1 DEF PushHandshake
  <2>3. QED
    BY <1>2, <2>2 DEF PushHandshake
<1>3. CASE ConnectReturn
  BY <1>3 DEF ConnectReturn
<1>4. ASSUME NEW p \in InTypes, ReadPacket(p) PROVE TypeOK'
  BY <1>4 DEF ReadPacket
<1>5. CASE ReadPush
  BY <1>5 DEF ReadPush, InTypes
<1>6. CASE ReadExit
  BY <1>6 DEF ReadExit
<1>7. CASE WritePacket
  BY <1>7 DEF WritePacket
<1>8. CASE Heartbeat
  <2>1. chWrite' \in Seq(OutTypes) /\ Len(chWrite') <= QueueCap
    <3>1. CASE Len(chWrite) < QueueCap
      BY <1>8, <3>1 DEF Heartbeat, OutTypes
    <3>2. CASE ~(Len(chWrite) < QueueCap)
      BY Zenon, <1>8, <3>2 DEF Heartbeat
    <3>3. QED
      BY Zenon, <3>1, <3>2
  <2>2. QED
    BY <1>8, <2>1 DEF Heartbeat
<1>9. CASE WriteExit
  BY <1>9 DEF WriteExit
<1>10. CASE HandleData
  BY <1>10 DEF HandleData
<1>11. CASE HandleAck
  BY <1>11 DEF HandleAck
<1>12. CASE CloseSignal
  BY <1>12 DEF CloseSignal
<1>13. CASE SetConnected
  BY <1>13 DEF SetConnected
<1>14. CASE ServeExit
  BY <1>14 DEF ServeExit
<1>15. CASE Send
  BY <1>15 DEF Send, OutTypes
<1>16. CASE CloseSwap
  BY <1>16 DEF CloseSwap
<1>17. CASE CloseTransporter
  BY <1>17 DEF CloseTransporter
<1>18. CASE CloseHook
  BY <1>18 DEF CloseHook
<1>19. CASE Cancel
  BY <1>19 DEF Cancel
<1>20. QED
  BY Zenon, <1>1, <1>2, <1>3, <1>4, <1>5, <1>6, <1>7, <1>8, <1>9, <1>10, <1>11, <1>12,
     <1>13, <1>14, <1>15, <1>16, <1>17, <1>18, <1>19
     DEF Next, ConnectStep, ReadStep, WriteStep, ServeStep, OwnerStep

(* The handshake is queued once, alone, and leaves before anything else.   *)
LEMMA HandshakeFirstStep == Inv /\ Next => HandshakeFirst'
<1> SUFFICES ASSUME Inv, Next PROVE HandshakeFirst'
  OBVIOUS
<1>1. ASSUME UNCHANGED <<chWrite, server, caller>> PROVE HandshakeFirst'
  BY Zenon, <1>1 DEF Inv, HandshakeFirst, Queued
<1>2. CASE Dial
  BY Zenon, <1>2 DEF Dial, Inv, HandshakeFirst, Queued
<1>3. CASE PushHandshake
  <2>1. server = "none" /\ server' = server /\ chWrite = <<>> /\ chWrite \in Seq(OutTypes)
    BY Zenon, <1>3 DEF PushHandshake, Inv, TypeOK, HandshakeFirst
  <2>2. CASE writer = "done"
    BY <1>3, <2>1, <2>2 DEF PushHandshake, HandshakeFirst, Queued
  <2>3. CASE writer # "done"
    BY <1>3, <2>1, <2>3 DEF PushHandshake, HandshakeFirst
  <2>4. QED
    BY Zenon, <2>2, <2>3
<1>4. CASE ConnectReturn
  <2>1. caller' = "owner" => ~Queued("Handshake")
    BY Zenon, <1>4 DEF ConnectReturn, Inv, HandshakeFirst, AnswerSent, CipherFirst
  <2>2. UNCHANGED <<chWrite, server>> /\ caller' \in {"owner", "failed"} /\ caller = "wait"
    BY Zenon, <1>4 DEF ConnectReturn
  <2>3. Queued("Handshake")' <=> Queued("Handshake")
    BY Zenon, <2>2 DEF Queued
  <2>4. QED
    BY Zenon, <2>1, <2>2, <2>3 DEF Inv, HandshakeFirst
<1>5. ASSUME NEW p \in InTypes, ReadPacket(p) PROVE HandshakeFirst'
  <2>1. server # "none" /\ UNCHANGED <<chWrite, caller>>
    BY Zenon, <1>5 DEF ReadPacket, owner
  <2>2. ~Queued("Handshake")'
    BY Zenon, <2>1 DEF Inv, HandshakeFirst, Queued
  <2>3. QED
    BY Zenon, <2>1, <2>2 DEF Inv, HandshakeFirst
<1>6. CASE WritePacket
  <2>1. chWrite # <<>> /\ chWrite' = Tail(chWrite) /\ caller' = caller
        /\ server' = IF Head(chWrite) = "Handshake" THEN "asked" ELSE server
    BY Zenon, <1>6 DEF WritePacket, owner
  <2>2. Queued(Head(chWrite))
    BY Zenon, <2>1, HeadQueued DEF Inv
  <2>3. CASE Head(chWrite) = "Handshake"
    <3>1. chWrite = <<"Handshake">>
      BY Zenon, <2>2, <2>3 DEF Inv, HandshakeFirst
    <3>2. chWrite' = <<>>
      BY <2>1, <3>1
    <3>3. ~Queued("Handshake")'
      BY Zenon, <3>2, EmptyQueued
    <3>4. QED
      BY Zenon, <2>1, <3>3 DEF Inv, HandshakeFirst
  <2>4. CASE Head(chWrite) # "Handshake"
    <3>1. ~Queued("Handshake")
      BY <2>4 DEF Inv, HandshakeFirst
    <3>2. ~Queued("Handshake")'
      BY Zenon, <2>1, <3>1, TailQueued DEF Inv
    <3>3. QED
      BY Zenon, <2>1, <3>2 DEF Inv, HandshakeFirst
  <2>5. QED
    BY Zenon, <2>3, <2>4
<1>7. CASE Heartbeat
  <2>1. ~Queued("Handshake") /\ caller \notin {"dial", "push"}
    BY Zenon, <1>7 DEF Heartbeat, Inv, HandshakeFirst, AnswerSent, CipherFirst
  <2>2. ~Queued("Handshake")'
    <3>1. CASE Len(chWrite) < QueueCap
      BY Zenon, <1>7, <2>1, <3>1, AppendQueued DEF Heartbeat, Inv, OutTypes
    <3>2. CASE ~(Len(chWrite) < QueueCap)
      BY Zenon, <1>7, <2>1, <3>2 DEF Heartbeat, Queued
    <3>3. QED
      BY Zenon, <3>1, <3>2
  <2>3. QED
    BY Zenon, <1>7, <2>1, <2>2 DEF Heartbeat, owner, HandshakeFirst
<1>8. CASE WriteExit
  <2>1. ~Queued("Handshake")'
    BY Zenon, <1>8, EmptyQueued DEF WriteExit
  <2>2. QED
    BY Zenon, <1>8, <2>1 DEF WriteExit, owner, Inv, HandshakeFirst
<1>9. CASE Send
  <2>1. ~Queued("Handshake")
    BY Zenon, <1>9 DEF Send, Inv, HandshakeFirst
  <2>2. ~Queued("Handshake")'
    BY Zenon, <1>9, <2>1, AppendQueued DEF Send, Inv, OutTypes
  <2>3. QED
    BY Zenon, <1>9, <2>2 DEF Send, owner, HandshakeFirst
<1>10. ASSUME CloseSwap \/ CloseTransporter \/ CloseHook PROVE HandshakeFirst'
  <2>1. /\ caller \in {"owner", "closing", "hook"} /\ caller' \in {"closing", "hook", "done"}
        /\ UNCHANGED <<chWrite, server>>
    BY Zenon, <1>10 DEF CloseSwap, CloseTransporter, CloseHook, conn
  <2>2. ~Queued("Handshake")'
    BY Zenon, <2>1 DEF Inv, HandshakeFirst, Queued
  <2>3. QED
    BY Zenon, <2>1, <2>2 DEF HandshakeFirst
<1>11. ASSUME ReadPush \/ ReadExit \/ HandleData \/ HandleAck \/ CloseSignal
              \/ SetConnected \/ ServeExit \/ Cancel
       PROVE  UNCHANGED <<chWrite, server, caller>>
  BY Zenon, <1>11 DEF ReadPush, ReadExit, HandleData, HandleAck, CloseSignal, SetConnected,
     ServeExit, Cancel, owner
<1>12. QED
  BY Zenon, <1>1, <1>2, <1>3, <1>4, <1>5, <1>6, <1>7, <1>8, <1>9, <1>10, <1>11
     DEF Next, ConnectStep, ReadStep, WriteStep, ServeStep, OwnerStep

(* An answer is only on its way, or handled, after the server has sent it. *)
LEMMA AnswerSentStep == Inv /\ Next => AnswerSent'
<1> SUFFICES ASSUME Inv, Next PROVE AnswerSent'
  OBVIOUS
<1> DEFINE Answered(q) == \E i \in 1 .. Len(q) : q[i] = "HandshakeAck"
<1>1. ASSUME UNCHANGED <<reader, hold, chRead, cipher>>, server = "answered" => server' = server
      PROVE  AnswerSent'
  BY Zenon, <1>1 DEF Inv, AnswerSent
<1>2. ASSUME NEW p \in InTypes, ReadPacket(p) PROVE AnswerSent'
  <2>1. /\ p = "HandshakeAck" => server' = "answered"
        /\ p # "HandshakeAck" => server' = server
        /\ server = "answered" => p # "HandshakeAck"
        /\ hold' = p /\ UNCHANGED <<chRead, cipher>>
    BY Zenon, <1>2 DEF ReadPacket
  <2>2. QED
    BY Zenon, <2>1 DEF Inv, AnswerSent
<1>3. CASE ReadPush
  <2>1. hold = "HandshakeAck" => server = "answered"
    BY Zenon, <1>3 DEF ReadPush, Inv, AnswerSent
  <2>2. Answered(chRead') => Answered(chRead) \/ hold = "HandshakeAck"
    BY <1>3 DEF ReadPush, Inv, TypeOK
  <2>3. QED
    BY Zenon, <1>3, <2>1, <2>2 DEF ReadPush, Inv, AnswerSent
<1>4. CASE ReadExit
  BY Zenon, <1>4 DEF ReadExit, Inv, AnswerSent
<1>5. CASE WritePacket
  <2>1. server = "answered" => server' = server
    <3>1. chWrite # <<>> /\ server' = IF Head(chWrite) = "Handshake" THEN "asked" ELSE server
      BY Zenon, <1>5 DEF WritePacket
    <3>2. Head(chWrite) = "Handshake" => server = "none"
      BY Zenon, <3>1, HeadQueued DEF Inv, HandshakeFirst
    <3>3. QED
      BY Zenon, <3>1, <3>2
  <2>2. UNCHANGED <<reader, hold, chRead, cipher>>
    BY Zenon, <1>5 DEF WritePacket
  <2>3. QED
    BY Zenon, <1>1, <2>1, <2>2
<1>6. ASSUME HandleData \/ HandleAck PROVE AnswerSent'
  <2>1. chRead # <<>> /\ chRead' = Tail(chRead) /\ UNCHANGED <<reader, hold, server>>
    BY Zenon, <1>6 DEF HandleData, HandleAck
  <2>2. Answered(chRead') => Answered(chRead)
    <3>1. \A i \in 1 .. Len(Tail(chRead)) :
            i + 1 \in 1 .. Len(chRead) /\ Tail(chRead)[i] = chRead[i + 1]
      BY <2>1 DEF Inv, TypeOK
    <3>2. QED
      BY Zenon, <2>1, <3>1
  <2>3. Head(chRead) = "HandshakeAck" => Answered(chRead)
    <3>1. 1 \in 1 .. Len(chRead) /\ Head(chRead) = chRead[1]
      BY <2>1 DEF Inv, TypeOK
    <3>2. QED
      BY Zenon, <3>1
  <2>4. cipher' => cipher \/ Answered(chRead)
    BY Zenon, <1>6, <2>3 DEF HandleData, HandleAck
  <2>5. QED
    BY Zenon, <2>1, <2>2, <2>4 DEF Inv, AnswerSent
<1>7. ASSUME Dial PROVE AnswerSent'
  BY Zenon, <1>7 DEF Dial, Inv, AnswerSent
<1>8. ASSUME \/ PushHandshake \/ ConnectReturn \/ Heartbeat \/ WriteExit \/ CloseSignal
             \/ SetConnected \/ ServeExit \/ Send \/ CloseSwap \/ CloseTransporter
             \/ CloseHook \/ Cancel
      PROVE  UNCHANGED <<reader, hold, chRead, cipher, server>>
  BY Zenon, <1>8 DEF PushHandshake, ConnectReturn, Heartbeat, WriteExit, CloseSignal,
     SetConnected, ServeExit, Send, CloseSwap, CloseTransporter, CloseHook, Cancel
<1>9. QED
  BY Zenon, <1>1, <1>2, <1>3, <1>4, <1>5, <1>6, <1>7, <1>8
     DEF Next, ConnectStep, ReadStep, WriteStep, ServeStep, OwnerStep

(* Nobody pushes anything but the handshake before SetCipher.              *)
LEMMA CipherFirstStep == Inv /\ Next => CipherFirst'
<1> SUFFICES ASSUME Inv, Next PROVE CipherFirst'
  OBVIOUS
<1>1. ASSUME UNCHANGED <<state, hsSignal, serve, cipher, caller>>,
             \A q \in {"Heartbeat", "Forward"} : Queued(q)' => Queued(q) \/ cipher
      PROVE  CipherFirst'
  BY Zenon, <1>1 DEF Inv, CipherFirst
<1>2. CASE Dial
  BY Zenon, <1>2 DEF Dial, Inv, CipherFirst, Queued
<1>3. CASE PushHandshake
  <2>1. \A q \in {"Heartbeat", "Forward"} : Queued(q)' => Queued(q)
    <3>1. CASE writer = "done"
      BY Zenon, <1>3, <3>1 DEF PushHandshake, Queued
    <3>2. CASE writer # "done"
      BY Zenon, <1>3, <3>2, AppendQueued DEF PushHandshake, Inv, OutTypes
    <3>3. QED
      BY Zenon, <3>1, <3>2
  <2>2. QED
    BY Zenon, <1>3, <2>1 DEF PushHandshake, Inv, CipherFirst
<1>4. CASE ConnectReturn
  BY Zenon, <1>4 DEF ConnectReturn, Inv, CipherFirst, Queued
<1>5. CASE WritePacket
  <2>1. \A q : Queued(q)' => Queued(q)
    BY Zenon, <1>5, TailQueued DEF WritePacket, Inv
  <2>2. UNCHANGED <<state, hsSignal, serve, cipher, caller>>
    BY Zenon, <1>5 DEF WritePacket, owner
  <2>3. QED
    BY Zenon, <1>1, <2>1, <2>2
<1>6. CASE Heartbeat
  BY Zenon, <1>6 DEF Heartbeat, owner, Inv, CipherFirst
<1>7. CASE WriteExit
  BY Zenon, <1>7, EmptyQueued, <1>1 DEF WriteExit, owner
<1>8. CASE HandleAck
  BY Zenon, <1>8 DEF HandleAck, owner, Inv, CipherFirst
<1>9. CASE CloseSignal \/ SetConnected
  BY Zenon, <1>9 DEF CloseSignal, SetConnected, owner, Inv, CipherFirst
<1>10. CASE ServeExit
  BY Zenon, <1>10 DEF ServeExit, owner, Inv, CipherFirst, Queued
<1>11. CASE Send
  BY Zenon, <1>11 DEF Send, owner, Inv, CipherFirst
<1>12. CASE CloseSwap \/ CloseTransporter \/ CloseHook
  BY Zenon, <1>12 DEF CloseSwap, CloseTransporter, CloseHook, Inv, CipherFirst, Queued
<1>13. ASSUME (\E p \in InTypes : ReadPacket(p)) \/ ReadPush \/ ReadExit \/ HandleData \/ Cancel
       PROVE  UNCHANGED <<state, hsSignal, serve, cipher, caller, chWrite>>
  BY Zenon, <1>13 DEF ReadPacket, ReadPush, ReadExit, HandleData, Cancel, owner
<1>14. QED
  BY Zenon, <1>1, <1>2, <1>3, <1>4, <1>5, <1>6, <1>7, <1>8, <1>9, <1>10, <1>11, <1>12, <1>13
     DEF Next, ConnectStep, ReadStep, WriteStep, ServeStep, OwnerStep, Queued

(* The inductive invariant holds in every reachable state.                 *)
THEOREM Invariance == Spec => []Inv
<1>1. Init => Inv
  <2>1. Init => TypeOK
    <3> SUFFICES ASSUME Init PROVE TypeOK
      OBVIOUS
    <3>1. /\ chRead \in Seq(InTypes) /\ chWrite \in Seq(OutTypes)
          /\ Len(chRead) <= QueueCap /\ Len(chWrite) <= QueueCap
      BY ClientAssumption DEF Init
    <3>2. sent \in 0 .. MaxData
      BY ClientAssumption DEF Init
    <3>3. QED
      BY Zenon, <3>1, <3>2 DEF Init, TypeOK, InTypes
  <2>2. Init => HandshakeFirst /\ AnswerSent /\ CipherFirst
    BY DEF Init, HandshakeFirst, AnswerSent, CipherFirst, Queued
  <2>3. QED
    BY Zenon, <2>1, <2>2 DEF Inv
<1>2. Inv /\ [Next]_vars => Inv'
  <2> SUFFICES ASSUME Inv, [Next]_vars PROVE Inv'
    OBVIOUS
  <2>1. CASE Next
    BY Zenon, <2>1, TypeStep, HandshakeFirstStep, AnswerSentStep, CipherFirstStep DEF Inv
  <2>2. CASE UNCHANGED vars
    BY <2>2 DEF vars, Inv, TypeOK, HandshakeFirst, AnswerSent, CipherFirst, Queued
  <2>3. QED
    BY Zenon, <2>1, <2>2
<1>3. QED
  BY <1>1, <1>2, PTL DEF Spec

(* chRead and chWrite never exceed their capacity, whatever the server and *)
(* the senders do.                                                         *)
THEOREM TypeCorrect == Spec => []TypeOK
<1>1. Inv => TypeOK
  BY Zenon DEF Inv
<1>2. QED
  BY <1>1, Invariance, PTL

(* Connect returns nil only after the server's answer was handled.         *)
THEOREM ConnectSafe == Spec => []ConnectMeansAnswered
<1>1. Inv => ConnectMeansAnswered
  BY Zenon DEF Inv, ConnectMeansAnswered, HandshakeFirst, AnswerSent, CipherFirst
<1>2. QED
  BY <1>1, Invariance, PTL

(* Write sends nothing but the handshake in clear text, because            *)
(* onHandshakeAck sets the cipher before anybody learns of the connection. *)
THEOREM Encrypted == Spec => EncryptedAfterHandshake
<1>1. Inv => (WritePacket /\ Head(chWrite) # "Handshake" => cipher)
  <2> SUFFICES ASSUME Inv, WritePacket, Head(chWrite) # "Handshake" PROVE cipher
    OBVIOUS
  <2>1. Head(chWrite) \in OutTypes /\ Queued(Head(chWrite))
    BY Zenon, HeadQueued DEF WritePacket, Inv
  <2>2. QED
    BY Zenon, <2>1 DEF OutTypes, Inv, CipherFirst
<1>2. QED
  BY <1>1, Invariance, PTL DEF EncryptedAfterHandshake

-----------------------------------------------------------------------------
(* The client implements ClientLife.                                       *)

\* Before the dialling there is no goroutine that reads or writes, and no handshake.
Started ==
  /\ state = "Init" => /\ caller \in {"dial", "failed"} /\ serve \in {"select", "done"}
                       /\ reader = "off" /\ writer = "off" /\ ~trsClosed /\ ~hsSignal
  /\ caller = "dial" => state = "Init"

(* Dial starts the goroutines and leaves Init in one step, for good.       *)
LEMMA StartedStep == Inv /\ Started /\ [Next]_vars => Started'
<1> SUFFICES ASSUME Inv, Started, [Next]_vars PROVE Started'
  OBVIOUS
<1>1. CASE ConnectStep
  BY <1>1 DEF ConnectStep, Dial, PushHandshake, ConnectReturn, Started, conn
<1>2. CASE ReadStep
  BY Zenon, <1>2 DEF ReadStep, ReadPacket, ReadPush, ReadExit, Started, conn, owner
<1>3. CASE WriteStep
  BY Zenon, <1>3 DEF WriteStep, WritePacket, Heartbeat, WriteExit, Started, conn, owner
<1>4. CASE ServeStep
  BY <1>4
  DEF ServeStep, HandleData, HandleAck, CloseSignal, SetConnected, ServeExit, Started, conn, owner
<1>5. CASE OwnerStep
  BY Zenon, <1>5 DEF OwnerStep, Send, CloseSwap, CloseTransporter, CloseHook, Started, conn, owner
<1>6. CASE Cancel \/ UNCHANGED vars
  BY <1>6 DEF Cancel, Started, owner, vars
<1>7. QED
  BY Zenon, <1>1, <1>2, <1>3, <1>4, <1>5, <1>6 DEF Next

(* What ClientLife sees of a client.                                       *)
LEMMA LifeSame ==
  ASSUME UNCHANGED <<state, hsSignal, trsClosed, caller>>
  PROVE  UNCHANGED Client!lifeVars
BY Zenon DEF Client!lifeVars, Life, Closing, Owned

(* A step of the only client.                                              *)
LEMMA OneClient ==
  ASSUME \/ Client!Dialled("client") \/ Client!Answered("client")
         \/ Client!TransporterCloses("client") \/ Client!ConnectReturnsNil("client")
         \/ Client!SwapClosed("client") \/ Client!CloseIt("client") \/ Client!CallOnClosed("client")
  PROVE  Client!LifeNext
BY Zenon DEF Client!LifeNext, Client!LifeStep, Self

(* Whoever closes the transporter first ends the life of the connection;   *)
(* the others find it closed.                                              *)
LEMMA TransporterLife ==
  ASSUME Inv, Started, state # "Init", trsClosed' = TRUE, UNCHANGED <<state, hsSignal, caller>>
  PROVE  Client!LifeNext \/ UNCHANGED Client!lifeVars
<1>1. CASE trsClosed
  BY Zenon, <1>1, LifeSame
<1>2. CASE ~trsClosed
  <2>1. Life \in {"hs", "up"} /\ Life' = IF Life = "hs" THEN "failed" ELSE "lost"
    BY Zenon, <1>2 DEF Life
  <2>2. Closing' = Closing /\ Owned' = Owned
    BY Zenon DEF Closing, Owned
  <2>3. Client!TransporterCloses("client")
    BY Zenon, <2>1, <2>2 DEF Client!TransporterCloses, Self
  <2>4. QED
    BY Zenon, <2>3, OneClient
<1>3. QED
  BY Zenon, <1>1, <1>2

(* Every step of the goroutines is a step of the client that ClientLife    *)
(* describes, or one that its owner does not see.                          *)
LEMMA NextLife ==
  ASSUME Inv, Started, [Next]_vars
  PROVE  [Client!LifeNext]_(Client!lifeVars)
<1> DEFINE Goal == Client!LifeNext \/ UNCHANGED Client!lifeVars
<1>1. CASE Dial
  <2>1. CASE caller' = "failed"
    BY Zenon, <1>1, <2>1 DEF Dial, conn, Client!lifeVars, Life, Closing, Owned
  <2>2. CASE state' = "Connecting"
    <3>1. Life = "none" /\ Life' = "hs" /\ Closing = "no" /\ Closing' = "no" /\ ~Owned /\ ~Owned'
      BY Zenon, <1>1, <2>2 DEF Dial, conn, Started, Life, Closing, Owned
    <3>2. Client!Dialled("client")
      BY Zenon, <3>1 DEF Client!Dialled, Self
    <3>3. QED
      BY Zenon, <3>2, OneClient
  <2>3. QED
    BY Zenon, <1>1, <2>1, <2>2 DEF Dial
<1>2. CASE PushHandshake
  BY Zenon, <1>2 DEF PushHandshake, conn, Client!lifeVars, Life, Closing, Owned
<1>3. CASE ConnectReturn
  <2>1. CASE caller' = "failed"
    BY Zenon, <1>3, <2>1 DEF ConnectReturn, conn, Client!lifeVars, Life, Closing, Owned
  <2>2. CASE hsSignal /\ caller' = "owner"
    <3>1. /\ Life \in {"up", "lost"} /\ Life' = Life /\ Closing' = Closing
          /\ ~Owned /\ Owned'
      BY Zenon, <1>3, <2>2 DEF ConnectReturn, conn, Started, Life, Closing, Owned
    <3>2. Client!ConnectReturnsNil("client")
      BY Zenon, <3>1 DEF Client!ConnectReturnsNil, Self
    <3>3. QED
      BY Zenon, <3>2, OneClient
  <2>3. QED
    BY Zenon, <1>3, <2>1, <2>2 DEF ConnectReturn
<1>4. CASE ReadExit \/ WriteExit
  BY Zenon, <1>4, TransporterLife DEF ReadExit, WriteExit, owner, Started
<1>5. CASE CloseSignal
  <2>1. CASE hsSignal
    BY Zenon, <1>5, <2>1, LifeSame DEF CloseSignal, conn, owner
  <2>2. CASE ~hsSignal
    <3>1. Life \in {"hs", "failed"} /\ Life' = IF Life = "hs" THEN "up" ELSE "lost"
      BY Zenon, <1>5, <2>2 DEF CloseSignal, conn, owner, Started, Life
    <3>2. Closing' = Closing /\ Owned' = Owned
      BY Zenon, <1>5 DEF CloseSignal, owner, Closing, Owned
    <3>3. Client!Answered("client")
      BY Zenon, <3>1, <3>2 DEF Client!Answered, Self
    <3>4. QED
      BY Zenon, <3>3, OneClient
  <2>3. QED
    BY Zenon, <2>1, <2>2
<1>6. CASE SetConnected
  <2>1. Life' = Life /\ Closing' = Closing /\ Owned' = Owned
    BY Zenon, <1>6 DEF SetConnected, conn, owner, Started, Life, Closing, Owned
  <2>2. QED
    BY Zenon, <2>1 DEF Client!lifeVars
<1>7. CASE CloseSwap
  <2>1. Life' = Life /\ Closing = "no" /\ Closing' = "swapped" /\ Owned /\ Owned'
    BY Zenon, <1>7 DEF CloseSwap, conn, Life, Closing, Owned
  <2>2. Client!SwapClosed("client")
    BY Zenon, <2>1 DEF Client!SwapClosed, Self
  <2>3. QED
    BY Zenon, <2>2, OneClient
<1>8. CASE CloseTransporter
  <2>1. /\ Closing = "swapped" /\ Owned /\ Owned' /\ Life' = "lost"
        /\ \/ Closing' = "done"
           \/ Life = "up" /\ Closing' = "calling"
    BY Zenon, <1>8 DEF CloseTransporter, Inv, CipherFirst, Started, Life, Closing, Owned
  <2>2. Client!CloseIt("client")
    BY Zenon, <2>1 DEF Client!CloseIt, Self
  <2>3. QED
    BY Zenon, <2>2, OneClient
<1>9. CASE CloseHook
  <2>1. Life' = Life /\ Closing = "calling" /\ Closing' = "done" /\ Owned /\ Owned'
    BY Zenon, <1>9 DEF CloseHook, conn, Life, Closing, Owned
  <2>2. Client!CallOnClosed("client")
    BY Zenon, <2>1 DEF Client!CallOnClosed, Self
  <2>3. QED
    BY Zenon, <2>2, OneClient
<1>10. CASE \/ \E p \in InTypes : ReadPacket(p)
            \/ ReadPush \/ WritePacket \/ Heartbeat \/ HandleData \/ HandleAck \/ ServeExit \/ Send
            \/ Cancel \/ UNCHANGED vars
  BY Zenon, <1>10, LifeSame
  DEF ReadPacket, ReadPush, WritePacket, Heartbeat, HandleData, HandleAck, ServeExit, Send, Cancel,
      conn, owner, vars
<1>11. Goal
  BY Zenon, <1>1, <1>2, <1>3, <1>4, <1>5, <1>6, <1>7, <1>8, <1>9, <1>10
  DEF Next, ConnectStep, ReadStep, WriteStep, ServeStep, OwnerStep
<1>12. QED
  BY Zenon, <1>11

(* The client keeps what ClientLife promises to the manager, for any       *)
(* capacity of its channels and whatever the server sends: RelayManager    *)
(* relies on no more than that (ManagerUsesClientLife).                    *)
THEOREM ClientImplementsLife == Spec => ImplementsClientLife
<1>1. Init => Started
  BY Zenon DEF Init, Started
<1>2. Init => Client!LifeInit
  BY Zenon DEF Init, Client!LifeInit, Life, Closing, Owned, Self
<1>3. Inv /\ Started /\ [Next]_vars => [Client!LifeNext]_(Client!lifeVars)
  BY Zenon, NextLife
<1>4. QED
  BY <1>1, <1>2, <1>3, StartedStep, Invariance, PTL DEF Spec, ImplementsClientLife, Client!LifeSpec

-----------------------------------------------------------------------------
(* The codec.                                                              *)

\* The packets that are decoded, taken or not.
Found == Len(out) + Len(output)

\* Where the packet after the first k starts.
Boundary(k) == IF k < Len(encoded) THEN encoded[k + 1].start ELSE total

\* The packets lie one after the other in the stream.
WellFramed ==
  /\ read <= total
  /\ Boundary(0) = 0
  /\ \A i \in DOMAIN encoded : Boundary(i) = EndOf(encoded[i]) /\ EndOf(encoded[i]) <= total
  /\ \A i, j \in DOMAIN encoded : i < j => EndOf(encoded[i]) <= encoded[j].start

\* The decoder is where its variables say: at a header, or behind the header that it has read.
InStep ==
  reading # "failed" =>
    /\ pos <= read
    /\ Found <= Len(encoded)
    /\ IF size < 0 THEN pos = Boundary(Found)
       ELSE /\ Found < Len(encoded)
            /\ cur = Found + 1
            /\ size = encoded[Found + 1].size
            /\ pos = encoded[Found + 1].start + HeaderSize

\* What is decoded is numbered in the order of the stream.
Numbered ==
  /\ Len(out) <= Len(encoded)
  /\ \A i \in DOMAIN out : out[i] = i
  /\ \A i \in DOMAIN output : output[i] = Len(out) + i

\* A header is read as soon as it is there, and between two calls no whole payload is left.
AtRest ==
  /\ reading # "loop" => output = <<>>
  /\ reading # "failed" /\ size < 0 => read - pos < HeaderSize
  /\ reading = "idle" /\ ~(size < 0) => read - pos < size

\* The strengthening that makes DecodedInOrder and NothingHeldBack inductive.
CodecIInv == CodecTypeOK /\ WellFramed /\ InStep /\ Numbered /\ AtRest

\* Appending to a sequence keeps its elements.
LEMMA AppendFacts ==
  ASSUME NEW S, NEW s \in Seq(S), NEW x \in S
  PROVE  /\ Append(s, x) \in Seq(S)
         /\ Len(Append(s, x)) = Len(s) + 1
         /\ DOMAIN Append(s, x) = 1 .. Len(s) + 1
         /\ Append(s, x)[Len(s) + 1] = x
         /\ \A i \in 1 .. Len(s) : Append(s, x)[i] = s[i]
BY SMT

\* What the type of a packet says about its numbers.
LEMMA PacketFacts ==
  ASSUME NEW s \in Seq(Packet)
  PROVE  /\ Len(s) \in Nat /\ DOMAIN s = 1 .. Len(s)
         /\ \A i \in 1 .. Len(s) : /\ s[i].start \in Nat /\ s[i].size \in Nat /\ HeaderSize <= s[i].size
                                   /\ EndOf(s[i]) \in Nat /\ s[i].start < EndOf(s[i])
<1>1. \A p \in Packet : p.start \in Nat /\ p.size \in Sizes  BY Zenon DEF Packet
<1>2. \A n \in Sizes : n \in Nat /\ HeaderSize <= n  BY Zenon, CodecAssumption
<1>3. HeaderSize \in Nat /\ HeaderSize > 0  BY CodecAssumption
<1>4. ASSUME NEW i \in 1 .. Len(s) PROVE s[i] \in Packet  OBVIOUS
<1> QED  BY <1>1, <1>2, <1>3, <1>4 DEF EndOf

\* The empty stream satisfies the invariant.
LEMMA InitIInv == CodecInit => CodecIInv
<1> SUFFICES ASSUME CodecInit PROVE CodecIInv
  OBVIOUS
<1> USE CodecAssumption DEF CodecInit
<1>1. CodecTypeOK  BY DEF CodecTypeOK
<1>2. WellFramed /\ InStep  BY DEF WellFramed, InStep, Found, Boundary
<1>3. Numbered /\ AtRest  BY DEF Numbered, AtRest
<1> QED  BY Zenon, <1>1, <1>2, <1>3 DEF CodecIInv

\* A header that is read where the next packet starts is the header of that packet.
LEMMA HeaderRead ==
  ASSUME CodecTypeOK, WellFramed, NEW k \in Nat, k < Len(encoded), readHeader(encoded[k + 1].start)
  PROVE  pos' = encoded[k + 1].start + HeaderSize /\ cur' = k + 1 /\ size' = encoded[k + 1].size
<1> DEFINE here == {i \in DOMAIN encoded : encoded[i].start = encoded[k + 1].start}
<1>1. k + 1 \in DOMAIN encoded  BY DEF CodecTypeOK
<1>2. \A i \in DOMAIN encoded :
        encoded[i].start \in Nat /\ EndOf(encoded[i]) \in Nat /\ encoded[i].start < EndOf(encoded[i])
  BY Zenon, PacketFacts DEF CodecTypeOK
<1>3. \A i \in DOMAIN encoded : encoded[i].start = encoded[k + 1].start => i = k + 1
  <2> SUFFICES ASSUME NEW i \in DOMAIN encoded, encoded[i].start = encoded[k + 1].start, i # k + 1 PROVE FALSE
    OBVIOUS
  <2>1. i \in Nat  BY DEF CodecTypeOK
  <2>2. CASE i < k + 1
    BY <1>1, <1>2, <2>1, <2>2 DEF WellFramed
  <2>3. CASE k + 1 < i
    BY <1>1, <1>2, <2>1, <2>3 DEF WellFramed
  <2> QED  BY <2>1, <2>2, <2>3
<1>4. here = {k + 1}  BY Zenon, <1>1, <1>3
<1> QED  BY Zenon, <1>4 DEF readHeader

\* A packet that is encoded goes behind the others.
LEMMA EncodeIInv == ASSUME CodecIInv, NEW n \in Sizes, Encode(n) PROVE CodecIInv'
<1> DEFINE p == [start |-> total, size |-> n]
<1> USE CodecAssumption
<1>1. n \in Nat /\ p \in Packet /\ total \in Nat /\ EndOf(p) = total'
  BY Zenon DEF CodecIInv, CodecTypeOK, Packet, Encode, EndOf
<1>2. encoded \in Seq(Packet)  BY Zenon DEF CodecIInv, CodecTypeOK
<1>3. /\ encoded' \in Seq(Packet) /\ Len(encoded') = Len(encoded) + 1 /\ DOMAIN encoded' = 1 .. Len(encoded) + 1
      /\ encoded'[Len(encoded) + 1] = p /\ \A i \in 1 .. Len(encoded) : encoded'[i] = encoded[i]
  BY <1>1, <1>2, AppendFacts DEF Encode
<1>4. CodecTypeOK'  BY <1>1, <1>3 DEF CodecIInv, CodecTypeOK, Encode
<1>5. /\ Len(encoded) \in Nat /\ DOMAIN encoded = 1 .. Len(encoded)
      /\ \A i \in 1 .. Len(encoded) :
           encoded[i].start \in Nat /\ encoded[i].size \in Nat /\ EndOf(encoded[i]) \in Nat
  BY Zenon, <1>2, PacketFacts
<1>6. \A k \in 0 .. Len(encoded) : Boundary(k)' = Boundary(k)
  BY <1>1, <1>3, <1>5 DEF Boundary, Encode
<1>7. WellFramed'
  <2>1. read' <= total'  BY <1>1, <1>4 DEF CodecIInv, WellFramed, CodecTypeOK, Encode
  <2>2. Boundary(0)' = 0  BY <1>5, <1>6 DEF CodecIInv, WellFramed
  <2>3. ASSUME NEW i \in DOMAIN encoded' PROVE Boundary(i)' = EndOf(encoded'[i]) /\ EndOf(encoded'[i]) <= total'
    <3>1. CASE i \in DOMAIN encoded
      <4>1. i \in 1 .. Len(encoded) /\ i \in 0 .. Len(encoded)
        BY <1>5, <3>1
      <4>2. encoded'[i] = encoded[i] /\ Boundary(i)' = Boundary(i)
        BY Zenon, <1>3, <1>6, <4>1
      <4>3. Boundary(i) = EndOf(encoded[i]) /\ EndOf(encoded[i]) <= total
        BY Zenon, <3>1 DEF CodecIInv, WellFramed
      <4>4. EndOf(encoded[i]) \in Nat
        BY Zenon, <1>5, <4>1
      <4>5. total' = total + HeaderSize + n
        BY Zenon DEF Encode
      <4> QED
        BY <1>1, <4>2, <4>3, <4>4, <4>5
    <3>2. CASE i = Len(encoded) + 1
      <4>1. total' \in Nat  BY Zenon, <1>4 DEF CodecTypeOK
      <4>2. EndOf(encoded'[i]) = total'  BY Zenon, <1>1, <1>3, <3>2
      <4>3. Boundary(i)' = total'  BY <1>3, <1>5, <3>2 DEF Boundary
      <4> QED  BY <4>1, <4>2, <4>3
    <3> QED  BY <1>3, <1>5, <3>1, <3>2
  <2>4. ASSUME NEW i \in DOMAIN encoded', NEW j \in DOMAIN encoded', i < j
        PROVE EndOf(encoded'[i]) <= encoded'[j].start
    <3>1. CASE j \in DOMAIN encoded
      BY <1>3, <1>5, <2>4, <3>1 DEF CodecIInv, WellFramed
    <3>2. CASE j = Len(encoded) + 1
      BY <1>1, <1>3, <1>5, <2>4, <3>2 DEF CodecIInv, WellFramed
    <3> QED  BY <1>3, <1>5, <3>1, <3>2
  <2> QED  BY Zenon, <2>1, <2>2, <2>3, <2>4 DEF WellFramed
<1>8. Found' = Found /\ Found \in Nat  BY DEF Found, Encode, CodecIInv, CodecTypeOK
<1>9. InStep'
  <2> SUFFICES ASSUME reading # "failed" PROVE InStep'
    BY Zenon DEF InStep, Encode
  <2>1. Found <= Len(encoded)  BY Zenon DEF CodecIInv, InStep
  <2>2. CASE size < 0
    BY <1>3, <1>5, <1>6, <1>8, <2>1, <2>2 DEF CodecIInv, InStep, Encode
  <2>3. CASE ~(size < 0)
    <3>1. Found + 1 \in 1 .. Len(encoded)  BY <1>5, <1>8, <2>3 DEF CodecIInv, InStep
    <3> QED  BY <1>3, <1>5, <1>8, <2>1, <2>3, <3>1 DEF CodecIInv, InStep, Encode
  <2> QED  BY Zenon, <2>2, <2>3
<1>10. Numbered' /\ AtRest'
  <2>1. UNCHANGED <<read, pos, size, output, out, reading>>
    BY Zenon DEF Encode
  <2>2. Len(out) \in Nat /\ Len(out) <= Len(encoded)
    BY DEF CodecIInv, CodecTypeOK, Numbered
  <2>3. Len(out) <= Len(encoded')
    BY <1>3, <1>5, <2>2
  <2> QED
    BY Zenon, <2>1, <2>3 DEF CodecIInv, Numbered, AtRest
<1> QED  BY Zenon, <1>4, <1>7, <1>9, <1>10 DEF CodecIInv

\* A call of Decode, up to its loop.
LEMMA DecodeIInv == ASSUME CodecIInv, NEW n \in 1 .. BufferSize, Decode(n) PROVE CodecIInv'
<1> USE CodecAssumption
<1>1. /\ n \in Nat /\ n > 0 /\ read \in Nat /\ total \in Nat /\ pos \in Nat /\ size \in Int
      /\ HeaderSize \in Nat /\ HeaderSize > 0 /\ Found \in Nat
  BY DEF CodecIInv, CodecTypeOK, Found
<1>2. /\ reading = "idle" /\ read' = read + n /\ read' <= total /\ read' \in Nat
      /\ encoded' = encoded /\ total' = total /\ output' = output /\ out' = out /\ Found' = Found
  BY <1>1 DEF Decode, Found
<1>3. /\ Len(encoded) \in Nat /\ DOMAIN encoded = 1 .. Len(encoded)
      /\ \A i \in 1 .. Len(encoded) : /\ encoded[i].start \in Nat /\ encoded[i].size \in Nat
                                   /\ HeaderSize <= encoded[i].size /\ EndOf(encoded[i]) \in Nat
  BY Zenon, PacketFacts DEF CodecIInv, CodecTypeOK
<1>4. WellFramed'
  BY Zenon, <1>2 DEF CodecIInv, WellFramed, Boundary
<1>5. Numbered'
  BY Zenon, <1>2 DEF CodecIInv, Numbered
<1>6. CASE read' - pos < HeaderSize
  <2>1. pos' = pos /\ size' = size /\ cur' = cur /\ reading' = reading  BY Zenon, <1>6 DEF Decode
  <2>2. CodecTypeOK'  BY Zenon, <1>2, <2>1 DEF CodecIInv, CodecTypeOK
  <2>3. InStep'  BY <1>1, <1>2, <2>1 DEF CodecIInv, InStep, Boundary
  <2>4. AtRest'
    <3>1. CASE size < 0  BY Zenon, <1>2, <1>6, <2>1, <3>1 DEF CodecIInv, AtRest
    <3>2. CASE ~(size < 0)
      <4>1. HeaderSize <= size  BY <1>1, <1>2, <1>3, <3>2 DEF CodecIInv, InStep
      <4> QED  BY <1>1, <1>2, <1>6, <2>1, <3>2, <4>1 DEF CodecIInv, AtRest
    <3> QED  BY Zenon, <3>1, <3>2
  <2> QED  BY Zenon, <1>4, <1>5, <2>2, <2>3, <2>4 DEF CodecIInv
<1>7. CASE ~(read' - pos < HeaderSize) /\ ~(size < 0)
  <2>1. pos' = pos /\ size' = size /\ cur' = cur /\ reading' = "loop"  BY Zenon, <1>7 DEF Decode
  <2>2. CodecTypeOK'  BY Zenon, <1>2, <2>1 DEF CodecIInv, CodecTypeOK
  <2>3. InStep'  BY <1>1, <1>2, <1>7, <2>1 DEF CodecIInv, InStep
  <2>4. AtRest'  BY Zenon, <1>7, <2>1 DEF AtRest
  <2> QED  BY Zenon, <1>4, <1>5, <2>2, <2>3, <2>4 DEF CodecIInv
<1>8. CASE ~(read' - pos < HeaderSize) /\ size < 0
  <2>1. reading' = "loop" /\ readHeader(pos)  BY Zenon, <1>8 DEF Decode
  <2>2. Found <= Len(encoded) /\ pos = Boundary(Found)  BY Zenon, <1>2, <1>8 DEF CodecIInv, InStep
  <2>3. pos < total  BY <1>1, <1>2, <1>8
  <2>4. Found < Len(encoded) /\ pos = encoded[Found + 1].start
    BY <1>1, <1>3, <2>2, <2>3 DEF Boundary
  <2>5. pos' = pos + HeaderSize /\ cur' = Found + 1 /\ size' = encoded[Found + 1].size
    BY Zenon, <1>1, <2>1, <2>4, HeaderRead DEF CodecIInv
  <2>6. Found + 1 \in 1 .. Len(encoded)  BY <1>1, <1>3, <2>4
  <2>7. CodecTypeOK'
    BY <1>1, <1>2, <1>3, <2>1, <2>5, <2>6, SMTT(20) DEF CodecIInv, CodecTypeOK
  <2>8. InStep'
    <3>1. ~(size' < 0)  BY <1>3, <2>5, <2>6
    <3>2. pos' <= read'  BY <1>1, <1>2, <1>8, <2>5
    <3> QED  BY Zenon, <1>2, <2>2, <2>4, <2>5, <3>1, <3>2 DEF InStep
  <2>9. AtRest'
    <3>1. ~(size' < 0)  BY <1>3, <2>5, <2>6
    <3> QED  BY Zenon, <2>1, <3>1 DEF AtRest
  <2> QED  BY Zenon, <1>4, <1>5, <2>7, <2>8, <2>9 DEF CodecIInv
<1> QED  BY Zenon, <1>6, <1>7, <1>8

\* A round of the loop takes the packet whose header was read, and no other.
LEMMA DecodePacketIInv == ASSUME CodecIInv, DecodePacket PROVE CodecIInv'
<1>1. /\ read \in Nat /\ total \in Nat /\ pos \in Nat /\ size \in Int
      /\ HeaderSize \in Nat /\ HeaderSize > 0
      /\ Len(out) \in Nat /\ Len(output) \in Nat /\ Found = Len(out) + Len(output)
  BY CodecAssumption DEF CodecIInv, CodecTypeOK, Found
<1>2. /\ reading = "loop" /\ reading' = reading /\ size > 0 /\ size <= read - pos /\ output' = Append(output, cur)
      /\ encoded' = encoded /\ total' = total /\ read' = read /\ out' = out
  BY Zenon DEF DecodePacket, Complete
<1>3. /\ Len(encoded) \in Nat /\ DOMAIN encoded = 1 .. Len(encoded)
      /\ \A i \in 1 .. Len(encoded) :
           encoded[i].start \in Nat /\ encoded[i].size \in Nat /\ EndOf(encoded[i]) \in Nat
  BY Zenon, PacketFacts DEF CodecIInv, CodecTypeOK
<1>4. /\ Found < Len(encoded) /\ cur = Found + 1 /\ size = encoded[Found + 1].size
      /\ pos = encoded[Found + 1].start + HeaderSize
  BY <1>1, <1>2 DEF CodecIInv, InStep
<1>5. cur \in 1 .. Len(encoded) /\ cur \in Nat  BY <1>1, <1>3, <1>4
<1>6. /\ output' \in Seq(Nat) /\ Len(output') = Len(output) + 1 /\ DOMAIN output' = 1 .. Len(output) + 1
      /\ output'[Len(output) + 1] = cur /\ \A i \in 1 .. Len(output) : output'[i] = output[i]
  BY <1>2, <1>5, AppendFacts DEF CodecIInv, CodecTypeOK
<1>7. Found' = cur  BY <1>1, <1>2, <1>4, <1>6 DEF Found
<1>8. pos + size = Boundary(cur)
  <2>1. pos + size = EndOf(encoded[cur])  BY Zenon, <1>1, <1>3, <1>4, <1>5 DEF EndOf
  <2> QED  BY Zenon, <1>3, <1>5, <2>1 DEF CodecIInv, WellFramed
<1>9. WellFramed'  BY Zenon, <1>2 DEF CodecIInv, WellFramed, Boundary
<1>10. Numbered'
  <2>1. \A i \in DOMAIN output' : output'[i] = Len(out) + i
    <3>1. DOMAIN output = 1 .. Len(output)  BY DEF CodecIInv, CodecTypeOK
    <3>2. \A i \in 1 .. Len(output) : output[i] = Len(out) + i
      <4>1. \A i \in DOMAIN output : output[i] = Len(out) + i  BY Zenon DEF CodecIInv, Numbered
      <4> QED  BY Zenon, <3>1, <4>1
    <3>3. output'[Len(output) + 1] = Len(out) + (Len(output) + 1)  BY <1>1, <1>4, <1>6
    <3> SUFFICES ASSUME NEW i \in 1 .. Len(output) + 1 PROVE output'[i] = Len(out) + i
      BY Zenon, <1>6
    <3>4. CASE i = Len(output) + 1  BY Zenon, <3>3, <3>4
    <3>5. CASE i \in 1 .. Len(output)
      <4>1. output'[i] = output[i]  BY Zenon, <1>6, <3>5
      <4> QED  BY Zenon, <3>2, <3>5, <4>1
    <3> QED  BY <1>1, <3>4, <3>5
  <2> QED  BY Zenon, <1>2, <2>1 DEF CodecIInv, Numbered
<1>12. CASE ~(read - (pos + size) >= HeaderSize)
  <2>1. pos' = pos + size /\ size' = -1 /\ cur' = cur  BY Zenon, <1>12 DEF DecodePacket
  <2>2. CodecTypeOK'  BY <1>1, <1>2, <1>6, <2>1 DEF CodecIInv, CodecTypeOK
  <2>3. Boundary(cur)' = Boundary(cur)  BY Zenon, <1>2, <2>1 DEF Boundary
  <2>4. InStep'  BY <1>1, <1>2, <1>3, <1>5, <1>7, <1>8, <2>1, <2>3 DEF InStep
  <2>5. AtRest'  BY <1>1, <1>2, <1>12, <2>1 DEF AtRest
  <2> QED  BY Zenon, <1>9, <1>10, <2>2, <2>4, <2>5 DEF CodecIInv
<1>13. CASE read - (pos + size) >= HeaderSize
  <2>1. readHeader(pos + size)  BY Zenon, <1>13 DEF DecodePacket
  <2>2. read <= total  BY Zenon DEF CodecIInv, WellFramed
  <2>3. cur < Len(encoded) /\ pos + size = encoded[cur + 1].start
    BY <1>1, <1>3, <1>5, <1>8, <1>13, <2>2 DEF Boundary
  <2>4. readHeader(encoded[cur + 1].start)  BY Zenon, <2>1, <2>3
  <2>5. pos' = encoded[cur + 1].start + HeaderSize /\ cur' = cur + 1 /\ size' = encoded[cur + 1].size
    BY Zenon, <1>5, <2>3, <2>4, HeaderRead DEF CodecIInv
  <2>6. cur + 1 \in 1 .. Len(encoded)  BY <1>3, <1>5, <2>3
  <2>7. CodecTypeOK'
    <3>1. encoded[cur + 1].start \in Nat /\ encoded[cur + 1].size \in Nat  BY Zenon, <1>3, <2>6
    <3>2. HeaderSize \in Nat /\ cur \in Nat  BY Zenon, <1>1, <1>5
    <3>3. pos' \in Nat  BY <2>5, <3>1, <3>2
    <3>4. size' \in Int /\ cur' \in Nat  BY <2>5, <3>1, <3>2
    <3> QED  BY Zenon, <1>2, <1>6, <3>3, <3>4 DEF CodecIInv, CodecTypeOK
  <2>8. InStep'
    <3>1. ~(size' < 0)  BY <1>3, <2>5, <2>6
    <3>2. pos' <= read'  BY <1>1, <1>2, <1>13, <2>3, <2>5
    <3>3. Found' <= Len(encoded)  BY <1>3, <1>5, <1>7
    <3> QED  BY Zenon, <1>2, <1>7, <2>3, <2>5, <3>1, <3>2, <3>3 DEF InStep
  <2>9. AtRest'
    <3>1. ~(size' < 0)  BY <1>3, <2>5, <2>6
    <3> QED  BY Zenon, <1>2, <3>1 DEF AtRest
  <2> QED  BY Zenon, <1>9, <1>10, <2>7, <2>8, <2>9 DEF CodecIInv
<1> QED  BY Zenon, <1>12, <1>13

\* The error of an oversized packet leaves what was returned before.
LEMMA DecodeExceedsIInv == ASSUME CodecIInv, DecodeExceeds PROVE CodecIInv'
<1> USE DEF DecodeExceeds
<1>1. CodecTypeOK'  BY DEF CodecIInv, CodecTypeOK
<1>2. WellFramed'  BY Zenon DEF CodecIInv, WellFramed, Boundary
<1>3. InStep' /\ AtRest'  BY Zenon DEF InStep, AtRest
<1>4. Numbered'  BY DEF CodecIInv, Numbered
<1> QED  BY Zenon, <1>1, <1>2, <1>3, <1>4 DEF CodecIInv

\* When Decode returns, what it has found follows what it returned before.
LEMMA DecodeReturnIInv == ASSUME CodecIInv, DecodeReturn PROVE CodecIInv'
<1>1. /\ reading = "loop" /\ reading' = "idle" /\ ~Complete /\ out' = out \o output /\ output' = <<>>
      /\ encoded' = encoded /\ total' = total /\ read' = read /\ pos' = pos /\ size' = size /\ cur' = cur
  BY Zenon DEF DecodeReturn
<1>2. /\ out \in Seq(Nat) /\ output \in Seq(Nat) /\ Len(out) \in Nat /\ Len(output) \in Nat
      /\ read \in Nat /\ pos \in Nat /\ size \in Int /\ HeaderSize \in Nat /\ HeaderSize > 0
  BY CodecAssumption DEF CodecIInv, CodecTypeOK
<1>3. /\ out' \in Seq(Nat) /\ Len(out') = Len(out) + Len(output) /\ Len(output') = 0
      /\ DOMAIN out' = 1 .. Len(out) + Len(output)
      /\ \A i \in 1 .. Len(out) + Len(output) : out'[i] = IF i <= Len(out) THEN out[i] ELSE output[i - Len(out)]
  BY <1>1, <1>2
<1>4. Found' = Found /\ Found = Len(out')  BY <1>2, <1>3 DEF Found
<1>5. CodecTypeOK'  BY <1>1, <1>3 DEF CodecIInv, CodecTypeOK
<1>6. WellFramed'  BY Zenon, <1>1 DEF CodecIInv, WellFramed, Boundary
<1>7. InStep'
  <2>1. Boundary(Found)' = Boundary(Found)  BY Zenon, <1>1, <1>4 DEF Boundary
  <2> QED  BY Zenon, <1>1, <1>4, <2>1 DEF CodecIInv, InStep
<1>8. Numbered'
  <2>1. DOMAIN out = 1 .. Len(out) /\ DOMAIN output = 1 .. Len(output)  BY <1>2
  <2>2. \A i \in 1 .. Len(out) + Len(output) : out'[i] = i
    <3> SUFFICES ASSUME NEW i \in 1 .. Len(out) + Len(output) PROVE out'[i] = i
      OBVIOUS
    <3>1. CASE i <= Len(out)
      <4>1. \A j \in DOMAIN out : out[j] = j  BY Zenon DEF CodecIInv, Numbered
      <4>2. i \in 1 .. Len(out)  BY <1>2, <3>1
      <4>3. out'[i] = out[i]  BY Zenon, <1>3, <3>1
      <4> QED  BY Zenon, <2>1, <4>1, <4>2, <4>3
    <3>2. CASE ~(i <= Len(out))
      <4>1. i - Len(out) \in 1 .. Len(output)  BY <1>2, <3>2
      <4>2. output[i - Len(out)] = Len(out) + (i - Len(out))  BY Zenon, <2>1, <4>1 DEF CodecIInv, Numbered
      <4> QED  BY <1>2, <1>3, <3>2, <4>2
    <3> QED  BY Zenon, <3>1, <3>2
  <2>3. Len(out') <= Len(encoded)  BY Zenon, <1>1, <1>4 DEF CodecIInv, InStep
  <2>4. \A i \in DOMAIN out' : out'[i] = i  BY Zenon, <1>3, <2>2
  <2>5. DOMAIN output' = {}  BY <1>1
  <2>6. Len(out') <= Len(encoded')  BY Zenon, <1>1, <2>3
  <2> QED  BY <2>4, <2>5, <2>6, Zenon DEF Numbered
<1>9. AtRest'
  <2>1. size < 0 => read - pos < HeaderSize  BY Zenon, <1>1 DEF CodecIInv, AtRest
  <2>2. ~(size < 0) => size > 0
    <3>1. ASSUME ~(size < 0) PROVE Found + 1 \in 1 .. Len(encoded) /\ size = encoded[Found + 1].size
      BY <1>1, <1>2, <3>1, PacketFacts DEF CodecIInv, InStep, CodecTypeOK, Found
    <3> QED  BY <1>2, <3>1, PacketFacts DEF CodecIInv, CodecTypeOK
  <2>3. ~(size < 0) => read - pos < size  BY <1>1, <1>2, <2>2 DEF Complete
  <2> QED  BY Zenon, <1>1, <2>1, <2>3 DEF AtRest
<1> QED  BY Zenon, <1>5, <1>6, <1>7, <1>8, <1>9 DEF CodecIInv

\* Every step preserves the invariant.
LEMMA NextIInv == CodecIInv /\ [CodecNext]_codecVars => CodecIInv'
<1> SUFFICES ASSUME CodecIInv, [CodecNext]_codecVars PROVE CodecIInv'
  OBVIOUS
<1>1. CASE UNCHANGED codecVars
  BY Zenon, <1>1 DEF codecVars, CodecIInv, CodecTypeOK, WellFramed, InStep, Numbered, AtRest, Boundary, Found
<1>2. ASSUME NEW n \in Sizes, Encode(n) PROVE CodecIInv'  BY Zenon, <1>2, EncodeIInv
<1>3. ASSUME NEW n \in 1 .. BufferSize, Decode(n) PROVE CodecIInv'  BY Zenon, <1>3, DecodeIInv
<1>4. CASE DecodePacket  BY Zenon, <1>4, DecodePacketIInv
<1>5. CASE DecodeExceeds  BY Zenon, <1>5, DecodeExceedsIInv
<1>6. CASE DecodeReturn  BY Zenon, <1>6, DecodeReturnIInv
<1> QED  BY Zenon, <1>1, <1>2, <1>3, <1>4, <1>5, <1>6 DEF CodecNext

\* A packet ends at or after its start.
LEMMA EndsAfter == \A a, b \in Nat : a + HeaderSize + b \in Nat /\ a <= a + HeaderSize + b
BY CodecAssumption

\* The decoder's position rules out that a complete packet is still in the buffer.
LEMMA NothingLeft == CodecIInv => NothingHeldBack
<1>0. SUFFICES ASSUME CodecIInv, reading = "idle", NEW i \in DOMAIN encoded, EndOf(encoded[i]) <= read, ~(i <= Len(out))
               PROVE FALSE
  BY Zenon DEF NothingHeldBack
<1>1. /\ read \in Nat /\ pos \in Nat /\ size \in Int /\ Len(out) \in Nat /\ i \in Nat
      /\ HeaderSize \in Nat /\ HeaderSize > 0
  BY <1>0, CodecAssumption DEF CodecIInv, CodecTypeOK
<1>2. /\ Len(encoded) \in Nat /\ DOMAIN encoded = 1 .. Len(encoded)
      /\ \A j \in 1 .. Len(encoded) : /\ encoded[j].start \in Nat /\ encoded[j].size \in Nat
                                   /\ HeaderSize <= encoded[j].size
                                   /\ EndOf(encoded[j]) = encoded[j].start + HeaderSize + encoded[j].size
  BY Zenon, <1>0, PacketFacts DEF CodecIInv, CodecTypeOK, EndOf
<1>3. Found = Len(out)  BY <1>0, <1>1 DEF CodecIInv, AtRest, Found
<1> DEFINE k == Len(out) + 1
<1>4. k \in 1 .. Len(encoded) /\ k <= i /\ Found + 1 = k  BY <1>0, <1>1, <1>2, <1>3
<1> HIDE DEF k
<1>5. \A j \in {i, k} : /\ encoded[j].start \in Nat /\ encoded[j].size \in Nat /\ HeaderSize <= encoded[j].size
                       /\ EndOf(encoded[j]) = encoded[j].start + HeaderSize + encoded[j].size
  BY Zenon, <1>2, <1>4
<1>6. EndOf(encoded[k]) <= read
  <2>1. CASE i = k  BY Zenon, <1>0, <2>1
  <2>2. CASE k < i
    <3>1. EndOf(encoded[k]) <= encoded[i].start  BY Zenon, <1>0, <1>2, <1>4, <2>2 DEF CodecIInv, WellFramed
    <3>2. /\ encoded[i].start \in Nat /\ EndOf(encoded[k]) \in Nat /\ EndOf(encoded[i]) \in Nat
          /\ encoded[i].start <= EndOf(encoded[i])
      <4>1. EndOf(encoded[i]) \in Nat /\ encoded[i].start <= EndOf(encoded[i])
        BY <1>5, EndsAfter, Zenon
      <4>2. EndOf(encoded[k]) \in Nat
        BY <1>5, EndsAfter, Zenon
      <4> QED  BY Zenon, <1>5, <4>1, <4>2
    <3> QED  BY <1>0, <1>1, <3>1, <3>2
  <2> QED  BY <1>1, <1>2, <1>4, <2>1, <2>2
<1>7. /\ encoded[k].start \in Nat /\ encoded[k].size \in Nat /\ HeaderSize <= encoded[k].size
      /\ encoded[k].start + HeaderSize + encoded[k].size <= read
  BY Zenon, <1>5, <1>6
<1>8. CASE size < 0
  <2>1. pos = encoded[k].start  BY <1>0, <1>1, <1>2, <1>3, <1>4, <1>8 DEF CodecIInv, InStep, Boundary
  <2>2. read - pos < HeaderSize  BY Zenon, <1>0, <1>8 DEF CodecIInv, AtRest
  <2>3. \A a, b, r \in Nat : HeaderSize <= b /\ a + HeaderSize + b <= r => ~(r - a < HeaderSize)  BY <1>1
  <2> QED  BY <1>1, <1>7, <2>1, <2>2, <2>3, Zenon
<1>9. CASE ~(size < 0)
  <2>1. size = encoded[k].size /\ pos = encoded[k].start + HeaderSize  BY Zenon, <1>0, <1>4, <1>9 DEF CodecIInv, InStep
  <2>2. read - pos < size  BY Zenon, <1>0, <1>9 DEF CodecIInv, AtRest
  <2>3. read \in Nat /\ pos \in Nat /\ size \in Nat /\ pos + size <= read  BY Zenon, <1>1, <1>7, <2>1
  <2> QED  BY <2>2, <2>3
<1> QED  BY Zenon, <1>8, <1>9

\* For every size of header and buffer and any cutting of the stream: Decode returns exactly
\* the packets that were encoded, in order.
THEOREM CodecInOrder == CodecSpec => []DecodedInOrder
<1>1. CodecIInv => DecodedInOrder  BY Zenon DEF CodecIInv, Numbered, DecodedInOrder
<1> QED  BY InitIInv, NextIInv, <1>1, PTL DEF CodecSpec

\* For every size of header and buffer and any cutting of the stream: Decode returns a packet
\* in the call that brings its last byte.
THEOREM CodecPrompt == CodecSpec => []NothingHeldBack
BY InitIInv, NextIInv, NothingLeft, PTL DEF CodecSpec
=============================================================================
