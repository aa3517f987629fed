----------------------------- MODULE NodeProofs -----------------------------
(***************************************************************************)
(* Proofs about two parts of the node.  Driver: Terminate leaves no reader *)
(* on the device and no external address is lost on its way to the peers,  *)
(* for any capacities, addresses and number of goroutines that deliver     *)
(* packets.  Mesh: the tunnels learn the endpoints and the probed peers    *)
(* stay, for any number of peers, objects and handlers.                    *)
(***************************************************************************)
EXTENDS Driver, Mesh, SequenceTheorems, TLAPS

-----------------------------------------------------------------------------
(* The driver.                                                             *)

\* The strengthening that makes DeviceReleased inductive: Terminate is entered under a
\* cancelled context, and returns early only before Drive has started goroutines.
Released ==
  /\ pc \in [Goroutines -> {"new", "select", "reading", "writing", "busy", "send", "done"}]
  /\ running \in BOOLEAN
  /\ running = FALSE => \A g \in Goroutines : pc[g] = "new"
  /\ term \in {"wait", "returned"} => cancelled = TRUE
  /\ DeviceReleased

\* Initially Terminate has not been called.
LEMMA InitReleased == Init => Released
  BY Zenon DEF Init, Released, DeviceReleased, Goroutines

\* Every step of Drive, of its goroutines and of the shutdown keeps it.
LEMMA NextReleased == Released /\ [Next]_vars => Released'
<1> SUFFICES ASSUME Released, [Next]_vars PROVE Released'
  OBVIOUS
<1> USE DEF Released, DeviceReleased, Goroutines, Goto, life, pipe, address
<1>1. CASE Drive \/ switchDriverEnable \/ CloseDevice
  BY Zenon, <1>1 DEF Drive, switchDriverEnable, CloseDevice
<1>2. CASE DriveGo
  <2>1. pc'["serveDevRead"] \in {"select", pc["serveDevRead"]}
    BY <1>2 DEF DriveGo
  <2> QED
    BY <1>2, <2>1 DEF DriveGo
<1>3. CASE Cancel \/ Terminate
  <2>1. CASE Cancel
    BY <2>1 DEF Cancel
  <2>2. CASE Terminate
    BY <2>2 DEF Terminate
  <2> QED
    BY Zenon, <1>3, <2>1, <2>2
<1>4. CASE TerminateReturn
  BY <1>4 DEF TerminateReturn, Waited
<1>5. CASE serveDevRead
  BY <1>5 DEF serveDevRead
<1>6. CASE ReadFails \/ ReadPacket \/ TunnelWritten
  BY <1>6 DEF ReadFails, ReadPacket, TunnelWritten
<1>7. CASE serveDevWrite \/ (\E p \in Pushers : OnForward(p)) \/ Push \/ ExternalAddressChanged
  BY <1>7 DEF serveDevWrite, OnForward, Push, ExternalAddressChanged
<1>8. CASE Detect \/ DetectFails \/ (\E a \in Addrs : Detected(a)) \/ event
  BY <1>8 DEF Detect, DetectFails, Detected, event
<1>9. CASE pullPeerGraph \/ renewCredential
  BY <1>9 DEF pullPeerGraph, renewCredential
<1>10. CASE CredentialExpired
  BY <1>10 DEF CredentialExpired
<1>11. ASSUME NEW g \in Goroutines, CallReturns(g) \/ Done(g) PROVE Released'
  BY <1>11 DEF CallReturns, Done
<1>12. CASE UNCHANGED vars
  BY <1>12 DEF vars
<1> QED
  BY Zenon, <1>1, <1>2, <1>3, <1>4, <1>5, <1>6, <1>7, <1>8, <1>9, <1>10, <1>11, <1>12 DEF Next

\* When Terminate has returned no goroutine of this driver reads from the device, whether
\* Terminate waited for the goroutines or came before Drive had started them.
THEOREM DeviceIsReleased == Spec => []DeviceReleased
<1>1. Released => DeviceReleased
  BY DEF Released
<1> QED
  BY InitReleased, NextReleased, <1>1, PTL DEF Spec

\* What the monitor is about to report was detected; TypeOK is not inductive without it.
Detecting == pc["Monitoring"] = "send" => externalAddr \in Addrs

\* The counters, queues and program points at the start.
LEMMA InitType == Init => TypeOK /\ Detecting
<1> SUFFICES ASSUME Init PROVE TypeOK /\ Detecting
  OBVIOUS
<1>1. cancelled \in BOOLEAN /\ enable \in BOOLEAN /\ running \in BOOLEAN
  BY Zenon DEF Init
<1>2. pc \in [Goroutines -> {"new", "select", "reading", "writing", "busy", "send", "done"}]
  BY DEF Init
<1> QED
  BY <1>1, <1>2, DriverAssumption DEF Init, TypeOK, Detecting, Goroutines, Starts

\* The two channels and the queue of senders stay within their bounds, whoever sends and receives.
LEMMA NextType == TypeOK /\ Detecting /\ [Next]_vars => (TypeOK /\ Detecting)'
<1> SUFFICES ASSUME TypeOK, Detecting, [Next]_vars PROVE TypeOK' /\ Detecting'
  OBVIOUS
<1> USE DEF TypeOK, Detecting, Goroutines, Goto, life, pipe, address
<1>1. CASE Drive
  BY <1>1 DEF Drive
<1>2. CASE DriveGo
  <2>1. started' \in 0 .. Len(Starts)
    BY <1>2 DEF DriveGo, Starts
  <2> QED
    BY <1>2, <2>1 DEF DriveGo
<1>3. CASE switchDriverEnable
  BY <1>3 DEF switchDriverEnable
<1>4. CASE Cancel
  BY <1>4 DEF Cancel
<1>5. CASE CloseDevice \/ Terminate \/ TerminateReturn
  BY <1>5 DEF CloseDevice, Terminate, TerminateReturn
<1>6. CASE serveDevRead \/ ReadFails \/ ReadPacket \/ TunnelWritten
  BY <1>6 DEF serveDevRead, ReadFails, ReadPacket, TunnelWritten
<1>7. CASE serveDevWrite
  BY <1>7, DriverAssumption DEF serveDevWrite
<1>8. CASE \E p \in Pushers : OnForward(p)
  BY <1>8 DEF OnForward
<1>9. CASE Push
  BY <1>9, DriverAssumption DEF Push
<1>10. CASE Detect \/ DetectFails \/ (\E a \in Addrs : Detected(a))
  BY <1>10 DEF Detect, DetectFails, Detected
<1>11. CASE event
  <2>1. pc' \in [Goroutines -> {"new", "select", "reading", "writing", "busy", "send", "done"}]
    BY <1>11 DEF event
  <2> QED
    BY <1>11, <2>1, DriverAssumption DEF event
<1>12. CASE ExternalAddressChanged
  BY <1>12, DriverAssumption DEF ExternalAddressChanged
<1>13. CASE pullPeerGraph \/ renewCredential \/ (\E g \in Goroutines : CallReturns(g) \/ Done(g))
  BY <1>13 DEF pullPeerGraph, renewCredential, CallReturns, Done
<1>14. CASE CredentialExpired
  BY <1>14, DriverAssumption DEF CredentialExpired
<1>15. CASE UNCHANGED vars
  BY <1>15 DEF vars
<1> QED
  BY Zenon, <1>1, <1>2, <1>3, <1>4, <1>5, <1>6, <1>7, <1>8, <1>9, <1>10, <1>11, <1>12, <1>13, <1>14, <1>15
     DEF Next

\* chDevWrite and the event channel of the monitor never hold more than their capacities.
THEOREM TypeCorrect == Spec => []TypeOK
<1>1. TypeOK /\ Detecting => TypeOK
  OBVIOUS
<1> QED
  BY InitType, NextType, <1>1, PTL DEF Spec

\* Taking the head of a sequence leaves its last element, unless the head was all of it.
LEMMA LastOfTail ==
  ASSUME NEW S, NEW s \in Seq(S), s # <<>>
  PROVE  IF Tail(s) = <<>> THEN Head(s) = s[Len(s)] ELSE Tail(s)[Len(Tail(s))] = s[Len(s)]
<1>1. /\ Tail(s) \in Seq(S) /\ Len(Tail(s)) = Len(s) - 1
      /\ \A i \in 1 .. Len(Tail(s)) : Tail(s)[i] = s[i + 1]
  BY Zenon, HeadTailProperties
<1>2. Head(s) = s[1]
  OBVIOUS
<1>3. (s = <<>> <=> Len(s) = 0) /\ (Tail(s) = <<>> <=> Len(Tail(s)) = 0)
  BY Zenon, <1>1, EmptySeq
<1>4. Len(s) \in Nat
  BY Zenon, LenProperties
<1>5. CASE Len(s) = 1
  BY <1>1, <1>2, <1>3, <1>5
<1>6. CASE Len(s) > 1
  BY <1>1, <1>3, <1>6
<1> QED
  BY <1>3, <1>4, <1>5, <1>6

\* Monitoring runs only after Drive has started it, and Drive starts it once.
StartedOnce == started < 4 /\ term # "exited" => pc["Monitoring"] = "new"

\* Only the start, CredentialExpired and its own steps move Monitoring; only its own steps and
\* eventsMonitor touch the address.
LEMMA NextAddress ==
  ASSUME TypeOK, Detecting, StartedOnce, AddressNotLost, [Next]_vars
  PROVE  StartedOnce' /\ AddressNotLost'
<1>1. ASSUME UNCHANGED <<started, address>>, pc'["Monitoring"] = pc["Monitoring"],
             term' # "exited" => term # "exited"
      PROVE  StartedOnce' /\ AddressNotLost'
  BY Zenon, <1>1 DEF StartedOnce, AddressNotLost, LastReported, address
<1>2. CASE Drive \/ switchDriverEnable \/ Cancel \/ CloseDevice
  BY Zenon, <1>1, <1>2 DEF Drive, switchDriverEnable, Cancel, CloseDevice
<1>3. CASE Terminate \/ TerminateReturn
  BY <1>1, <1>3 DEF Terminate, TerminateReturn
<1>4. CASE DriveGo
  <2>1. UNCHANGED <<address, term>>
    BY Zenon, <1>4 DEF DriveGo
  <2>2. term # "exited"
    BY <1>4, <2>1 DEF Next, DriveGo, vars, life
  <2>3. started' = started + 1 /\ started \in 0 .. 4
    BY <1>4 DEF DriveGo, TypeOK, Starts
  <2>4. pc'["Monitoring"] = IF started' = 4 THEN "select" ELSE pc["Monitoring"]
    BY <1>4, <2>3 DEF DriveGo, Starts, Goroutines
  <2>5. StartedOnce'
    BY <2>1, <2>3, <2>4 DEF StartedOnce
  <2>6. pc'["Monitoring"] # "send" => pc["Monitoring"] # "send"
    BY <2>3, <2>4, <2>2 DEF StartedOnce
  <2> QED
    BY <2>1, <2>5, <2>6 DEF AddressNotLost, LastReported, address
<1>5. CASE \/ serveDevRead \/ ReadFails \/ ReadPacket \/ TunnelWritten \/ serveDevWrite
           \/ (\E p \in Pushers : OnForward(p)) \/ Push \/ pullPeerGraph \/ renewCredential
           \/ \E g \in Goroutines : CallReturns(g)
  <2>1. UNCHANGED <<life, address>>
    BY Zenon, <1>5 DEF serveDevRead, ReadFails, ReadPacket, TunnelWritten, serveDevWrite, OnForward,
       Push, pullPeerGraph, renewCredential, CallReturns
  <2>2. pc'["Monitoring"] = pc["Monitoring"]
    BY <1>5 DEF serveDevRead, ReadFails, ReadPacket, TunnelWritten, serveDevWrite, OnForward,
       Push, pullPeerGraph, renewCredential, CallReturns, Goto, TypeOK, Goroutines
  <2> QED
    BY Zenon, <1>1, <2>1, <2>2 DEF life
<1>6. CASE Detect \/ DetectFails \/ (\E a \in Addrs : Detected(a)) \/ \E g \in Goroutines : Done(g)
  <2>1. UNCHANGED <<life, events, told>>
    BY <1>6 DEF Detect, DetectFails, Detected, Done, address
  <2>2. /\ pc["Monitoring"] = "new" => pc'["Monitoring"] = "new"
        /\ pc'["Monitoring"] # "send" => pc["Monitoring"] # "send" /\ externalAddr' = externalAddr
    BY <1>6 DEF Detect, DetectFails, Detected, Done, address, Goto, TypeOK, Goroutines
  <2> QED
    BY <2>1, <2>2 DEF StartedOnce, AddressNotLost, LastReported, life
<1>7. CASE event
  <2>1. StartedOnce'
    BY <1>7 DEF event, StartedOnce, life, Goto, TypeOK, Goroutines
  <2>2. events' = Append(events, externalAddr) /\ externalAddr' = externalAddr
    BY <1>7 DEF event
  <2>3. events' # <<>> /\ events'[Len(events')] = externalAddr
    BY <2>2 DEF TypeOK
  <2> QED
    BY Zenon, <2>1, <2>2, <2>3 DEF AddressNotLost, LastReported
<1>8. CASE ExternalAddressChanged
  <2>1. StartedOnce' /\ UNCHANGED <<pc, externalAddr, term>>
    BY <1>8 DEF ExternalAddressChanged, StartedOnce, life
  <2>2. LastReported' = LastReported
    <3>1. events \in Seq(Addrs) /\ events # <<>> /\ events' = Tail(events) /\ told' = Head(events)
      BY <1>8 DEF ExternalAddressChanged, TypeOK
    <3> QED
      BY <3>1, LastOfTail DEF LastReported
  <2> QED
    BY Zenon, <2>1, <2>2 DEF AddressNotLost
<1>9. CASE CredentialExpired
  BY <1>9 DEF CredentialExpired, StartedOnce, AddressNotLost, Goroutines
<1>10. CASE UNCHANGED vars
  BY Zenon, <1>1, <1>10 DEF vars, life
<1> QED
  BY Zenon, <1>2, <1>3, <1>4, <1>5, <1>6, <1>7, <1>8, <1>9, <1>10 DEF Next

\* No detected address is lost or overtaken on its way from the monitor to the peers, for any
\* capacity of the channel: what AddressAnnounced promises needs no more than that eventsMonitor
\* goes on receiving.
THEOREM AddressKept == Spec => []AddressNotLost
<1>1. Init => StartedOnce /\ AddressNotLost
  BY Zenon DEF Init, StartedOnce, AddressNotLost, LastReported, Goroutines
<1>2. /\ TypeOK /\ Detecting /\ StartedOnce /\ AddressNotLost /\ [Next]_vars
      => StartedOnce' /\ AddressNotLost'
  BY NextAddress
<1> QED
  BY <1>1, <1>2, InitType, NextType, PTL DEF Spec

-----------------------------------------------------------------------------
(* The peers of the node.                                                  *)

\* A tunnel of the table that lacks the endpoints is about to get them: from SyncEndpoints,
\* which has not visited the table yet, or from the handler that has installed it.
Promised(p) ==
  tunnel[table[p]] = Nil /\ endpoints # Nil =>
    \/ syncer = "iterate"
    \/ \E h \in Handlers : object[h] = table[p] /\ handler[h] \in {"load", "store"}

\* The strengthening that makes TunnelsLearnEndpoints and ProbedStillKnown inductive.
MeshIInv ==
  /\ MeshTypeOK
  /\ ProbedStillKnown
  /\ group # {} => puller = "stamp"
  /\ \A h \in Handlers : handler[h] # "idle" => who[h] # None
  /\ \A h \in Handlers : handler[h] = "store" => seen[h] # Nil
  /\ syncer = "iterate" => endpoints # Nil
  /\ \A p \in Known : Promised(p)

\* NewManager starts with an empty table.
LEMMA MeshInitIInv == MeshInit => MeshIInv
BY Zenon DEF MeshInit, MeshIInv, MeshTypeOK, ProbedStillKnown, Known

\* The critical section of Update: a peer that stays keeps its object and its tunnel, the
\* others have none or a closed one.
LEMMA UpdateMergeIInv ==
  ASSUME MeshIInv, NEW list \in SUBSET Peers, UpdateMerge(list)
  PROVE  MeshIInv'
<1>0. /\ puller = "idle" /\ group = {} /\ UNCHANGED <<endpoints, routes, group, handle, syncer>>
      /\ latest' = list /\ puller' = "set" /\ panicked' \in BOOLEAN
  BY DEF UpdateMerge, MeshIInv
<1>1. PICK new \in [list \ Known -> Objects] :
        /\ \A p \in DOMAIN new : Unused(new[p])
        /\ table' = [p \in Peers |-> IF p \in DOMAIN new THEN new[p]
                                     ELSE IF p \in list THEN table[p] ELSE None]
        /\ tunnel' = [o \in Objects |-> IF o \in {new[p] : p \in DOMAIN new} THEN None
                                        ELSE IF o \in {table[p] : p \in Known \ list} THEN Closed ELSE tunnel[o]]
  BY DEF UpdateMerge
<1>2. /\ table' \in [Peers -> Objects \cup {None}]
      /\ tunnel' \in [Objects -> Endpoints \cup {None, Nil, Closed}]
  BY <1>1 DEF MeshIInv, MeshTypeOK
<1>3. MeshTypeOK'
  BY <1>0, <1>2 DEF MeshIInv, MeshTypeOK, handle
<1>4. ASSUME NEW p \in Known' PROVE Promised(p)'
  <2>1. CASE p \in DOMAIN new
    <3>1. table'[p] = new[p] /\ new[p] \in Objects /\ tunnel'[new[p]] = None
      BY <1>1, <2>1 DEF Known
    <3> QED  BY <3>1, MeshAssumption DEF Promised
  <2>2. CASE p \notin DOMAIN new
    <3>1. p \in Known /\ table'[p] = table[p] /\ table[p] \in Objects
      BY <1>1, <1>4, <2>2 DEF Known, MeshIInv, MeshTypeOK
    <3>2. tunnel'[table[p]] \in {None, Closed, tunnel[table[p]]}
      BY <1>1, <3>1
    <3>3. Promised(p)
      BY <3>1 DEF MeshIInv
    <3> QED  BY <1>0, <3>1, <3>2, <3>3, MeshAssumption DEF Promised, handle
  <2> QED  BY <2>1, <2>2
<1> QED  BY <1>0, <1>3, <1>4 DEF MeshIInv, ProbedStillKnown, handle

\* Update's routes, Tick and probePeers leave the tunnels alone; nobody but Puller takes a
\* peer out of the table.
LEMMA PullerIInv ==
  ASSUME MeshIInv, UpdateRoutes \/ TickStart \/ (\E due \in SUBSET Peers : ProbeSend(due)) \/ ProbeStamp
  PROVE  MeshIInv'
<1>0. UNCHANGED <<table, tunnel, endpoints, panicked, handle, syncer>>
  BY DEF UpdateRoutes, TickStart, ProbeSend, ProbeStamp
<1>1. /\ routes' \in SUBSET Peers /\ latest' \in SUBSET Peers /\ group' \in SUBSET Known
      /\ puller' \in {"idle", "set", "probe", "stamp"} /\ (group' # {} => puller' = "stamp")
  BY DEF UpdateRoutes, TickStart, ProbeSend, ProbeStamp, MeshIInv, MeshTypeOK, ProbedStillKnown
<1>2. Known' = Known /\ Known \subseteq Peers
  BY <1>0 DEF Known
<1>3. MeshTypeOK' /\ ProbedStillKnown'
  BY <1>0, <1>1, <1>2 DEF MeshIInv, MeshTypeOK, ProbedStillKnown, handle
<1>4. \A p \in Known' : Promised(p)'
  BY <1>0, <1>2 DEF MeshIInv, Promised, handle
<1> QED  BY <1>0, <1>1, <1>3, <1>4 DEF MeshIInv, handle

\* A handler that is not between its tunnel and the endpoints moves, and no tunnel of the
\* table changes: whoever has been promised the endpoints still is.
LEMMA PromiseKept ==
  ASSUME NEW h \in Handlers, NEW p, Promised(p), UNCHANGED <<endpoints, syncer>>,
         handler[h] \notin {"load", "store"},
         table'[p] = table[p], tunnel'[table[p]] = tunnel[table[p]],
         \A g \in Handlers : g # h => handler'[g] = handler[g] /\ object'[g] = object[g]
  PROVE  Promised(p)'
BY DEF Promised

\* The lookup of a catchup or an ack: a new object has no tunnel yet.
LEMMA LookupIInv ==
  ASSUME MeshIInv, NEW h \in Handlers, NEW p \in Peers, NEW o \in Objects,
         CatchupLookup(h, p, o) \/ (AckLookup(h, p) /\ o = table[p])
  PROVE  MeshIInv'
<1>0. /\ handler[h] = "idle" /\ UNCHANGED <<endpoints, routes, panicked, pull, seen, syncer>>
      /\ handler' = [handler EXCEPT ![h] = "tunnel"]
      /\ who' = [who EXCEPT ![h] = p]
      /\ object' = [object EXCEPT ![h] = o]
      /\ isNew' = isNew \/ isNew' = [isNew EXCEPT ![h] = table[p] = None]
  BY DEF CatchupLookup, AckLookup
<1>1. \/ table[p] = o /\ UNCHANGED <<table, tunnel>>
      \/ /\ table[p] = None /\ Unused(o)
         /\ table' = [table EXCEPT ![p] = o] /\ tunnel' = [tunnel EXCEPT ![o] = None]
  BY DEF CatchupLookup, AckLookup
<1>2. o # None /\ p # None
  BY MeshAssumption
<1>3. /\ table' \in [Peers -> Objects \cup {None}]
      /\ tunnel' \in [Objects -> Endpoints \cup {None, Nil, Closed}]
      /\ \A q \in Peers : q # p => table'[q] = table[q]
      /\ table'[p] = o
      /\ \A q \in Known : table'[q] = table[q] /\ tunnel'[table[q]] = tunnel[table[q]]
      /\ p \notin Known => tunnel'[o] = None
  <2>1. /\ table \in [Peers -> Objects \cup {None}]
        /\ tunnel \in [Objects -> Endpoints \cup {None, Nil, Closed}]
    BY DEF MeshIInv, MeshTypeOK
  <2>2. CASE table[p] = o /\ UNCHANGED <<table, tunnel>>
    BY <1>2, <2>1, <2>2 DEF Known
  <2>3. CASE /\ table[p] = None /\ Unused(o)
             /\ table' = [table EXCEPT ![p] = o] /\ tunnel' = [tunnel EXCEPT ![o] = None]
    <3>1. \A q \in Known : q # p /\ table[q] \in Objects \ {o}
      BY <2>1, <2>3 DEF Known, Unused
    <3> QED  BY <2>1, <2>3, <3>1
  <2> QED  BY <1>1, <2>2, <2>3
<1>4. MeshTypeOK'
  <2>1. isNew' \in [Handlers -> BOOLEAN]
    BY Zenon, <1>0 DEF MeshIInv, MeshTypeOK
  <2>2. /\ handler' \in [Handlers -> {"idle", "tunnel", "load", "store", "route"}]
        /\ who' \in [Handlers -> Peers \cup {None}]
        /\ object' \in [Handlers -> Objects \cup {None}]
        /\ \A g \in Handlers : handler'[g] # "idle" => object'[g] # None
    BY <1>0, <1>2 DEF MeshIInv, MeshTypeOK
  <2> QED  BY <1>0, <1>3, <2>1, <2>2 DEF MeshIInv, MeshTypeOK, pull
<1>5. ProbedStillKnown'
  BY <1>0, <1>3 DEF MeshIInv, ProbedStillKnown, Known, pull
<1>6. ASSUME NEW q \in Known' PROVE Promised(q)'
  <2>1. CASE q \in Known
    BY <1>0, <1>3, <2>1, PromiseKept DEF MeshIInv, MeshTypeOK
  <2>2. CASE q \notin Known
    <3>1. q = p
      BY <1>3, <1>6, <2>2 DEF Known
    <3> QED  BY <1>3, <2>2, <3>1, MeshAssumption DEF Promised
  <2> QED  BY <2>1, <2>2
<1>7. \A g \in Handlers : /\ handler'[g] # "idle" => who'[g] # None
                          /\ handler'[g] = "store" => seen'[g] # Nil
  BY <1>0, <1>2 DEF MeshIInv, MeshTypeOK
<1> QED  BY <1>0, <1>4, <1>5, <1>6, <1>7 DEF MeshIInv, pull

\* PeerCatchup installs the tunnel first and reads the endpoints then.
LEMMA SetTunnelIInv ==
  ASSUME MeshIInv, NEW h \in Handlers, SetTunnel(h)
  PROVE  MeshIInv'
<1>0. /\ handler[h] = "tunnel" /\ object[h] \in Objects
      /\ UNCHANGED <<table, endpoints, routes, panicked, pull, who, object, seen, isNew, syncer>>
  BY DEF SetTunnel, MeshIInv, MeshTypeOK
<1>1. /\ tunnel' \in [Objects -> Endpoints \cup {None, Nil, Closed}]
      /\ \A o \in Objects : o # object[h] => tunnel'[o] = tunnel[o]
      /\ handler' \in [Handlers -> {"idle", "tunnel", "load", "store", "route"}]
      /\ handler'[h] = "load" /\ \A g \in Handlers : g # h => handler'[g] = handler[g]
  BY <1>0 DEF SetTunnel, MeshIInv, MeshTypeOK
<1>2. MeshTypeOK'
  BY <1>0, <1>1 DEF MeshIInv, MeshTypeOK, pull
<1>3. Known' = Known
  BY <1>0 DEF Known
<1>4. ASSUME NEW p \in Known PROVE Promised(p)'
  <2>1. CASE table[p] = object[h]
    BY <1>0, <1>1, <2>1 DEF Promised
  <2>2. CASE table[p] # object[h]
    <3>1. table[p] \in Objects
      BY DEF Known, MeshIInv, MeshTypeOK
    <3> QED  BY <1>0, <1>1, <2>2, <3>1, PromiseKept DEF MeshIInv
  <2> QED  BY <2>1, <2>2
<1>5. ProbedStillKnown'
  BY <1>0, <1>3 DEF MeshIInv, ProbedStillKnown, pull
<1> QED  BY <1>0, <1>1, <1>2, <1>3, <1>4, <1>5 DEF MeshIInv, pull

\* A handler that finds no endpoints may go on without, since SyncEndpoints fills the cache
\* before it visits the table.
LEMMA LoadEndpointsIInv ==
  ASSUME MeshIInv, NEW h \in Handlers, LoadEndpoints(h)
  PROVE  MeshIInv'
<1>0. /\ handler[h] = "load"
      /\ UNCHANGED <<table, tunnel, endpoints, routes, panicked, pull, who, object, isNew, syncer>>
  BY DEF LoadEndpoints
<1>1. /\ seen' \in [Handlers -> Endpoints \cup {Nil}] /\ seen'[h] = endpoints
      /\ \A g \in Handlers : g # h => seen'[g] = seen[g]
      /\ handler' \in [Handlers -> {"idle", "tunnel", "load", "store", "route"}]
      /\ handler'[h] = IF endpoints = Nil THEN "route" ELSE "store"
      /\ \A g \in Handlers : g # h => handler'[g] = handler[g]
  BY DEF LoadEndpoints, MeshIInv, MeshTypeOK
<1>2. MeshTypeOK'
  BY <1>0, <1>1 DEF MeshIInv, MeshTypeOK, pull
<1>3. Known' = Known
  BY <1>0 DEF Known
<1>4. ASSUME NEW p \in Known PROVE Promised(p)'
  <2>1. Promised(p)
    BY DEF MeshIInv
  <2>2. endpoints # Nil => \A g \in Handlers : handler[g] \in {"load", "store"} => handler'[g] \in {"load", "store"}
    BY <1>0, <1>1
  <2> QED  BY Zenon, <1>0, <2>1, <2>2 DEF Promised
<1>5. ProbedStillKnown'
  BY <1>0, <1>3 DEF MeshIInv, ProbedStillKnown, pull
<1> QED  BY <1>0, <1>1, <1>2, <1>3, <1>4, <1>5 DEF MeshIInv, pull

\* The endpoints reach whatever tunnel the object has by now.
LEMMA StoreEndpointsIInv ==
  ASSUME MeshIInv, NEW h \in Handlers, StoreEndpoints(h)
  PROVE  MeshIInv'
<1>0. /\ handler[h] = "store" /\ object[h] \in Objects /\ seen[h] \in Endpoints
      /\ UNCHANGED <<table, endpoints, routes, panicked, pull, who, object, isNew, syncer>>
  BY DEF StoreEndpoints, MeshIInv, MeshTypeOK
<1>1. /\ tunnel' \in [Objects -> Endpoints \cup {None, Nil, Closed}]
      /\ tunnel'[object[h]] # Nil
      /\ \A o \in Objects : o # object[h] => tunnel'[o] = tunnel[o]
  BY <1>0, MeshAssumption DEF StoreEndpoints, MeshIInv, MeshTypeOK
<1>2. /\ seen' \in [Handlers -> Endpoints \cup {Nil}]
      /\ handler' \in [Handlers -> {"idle", "tunnel", "load", "store", "route"}] /\ handler'[h] = "route"
      /\ \A g \in Handlers : g # h => handler'[g] = handler[g] /\ seen'[g] = seen[g]
  BY DEF StoreEndpoints, MeshIInv, MeshTypeOK
<1>3. MeshTypeOK'
  BY <1>0, <1>1, <1>2 DEF MeshIInv, MeshTypeOK, pull
<1>4. Known' = Known
  BY <1>0 DEF Known
<1>5. ASSUME NEW p \in Known PROVE Promised(p)'
  <2>1. table[p] \in Objects /\ Promised(p)
    BY DEF Known, MeshIInv, MeshTypeOK
  <2> QED  BY <1>0, <1>1, <1>2, <2>1 DEF Promised
<1>6. ProbedStillKnown'
  BY <1>0, <1>4 DEF MeshIInv, ProbedStillKnown, pull
<1> QED  BY <1>0, <1>2, <1>3, <1>4, <1>5, <1>6 DEF MeshIInv, pull

\* The last step of a catchup.
LEMMA AddRouteIInv ==
  ASSUME MeshIInv, NEW h \in Handlers, AddRoute(h)
  PROVE  MeshIInv'
<1>0. /\ handler[h] = "route" /\ who[h] \in Peers
      /\ UNCHANGED <<table, tunnel, endpoints, panicked, pull, seen, syncer>>
  BY DEF AddRoute, MeshIInv, MeshTypeOK
<1>1. /\ routes' \in SUBSET Peers
      /\ who' \in [Handlers -> Peers \cup {None}] /\ object' \in [Handlers -> Objects \cup {None}]
      /\ isNew' \in [Handlers -> BOOLEAN]
  BY <1>0 DEF AddRoute, MeshIInv, MeshTypeOK
<1>2. /\ handler' \in [Handlers -> {"idle", "tunnel", "load", "store", "route"}] /\ handler'[h] = "idle"
      /\ \A g \in Handlers : g # h => /\ handler'[g] = handler[g] /\ object'[g] = object[g]
                                      /\ who'[g] = who[g]
  BY DEF AddRoute, MeshIInv, MeshTypeOK
<1>3. MeshTypeOK'
  BY <1>0, <1>1, <1>2 DEF MeshIInv, MeshTypeOK, pull
<1>4. Known' = Known
  BY <1>0 DEF Known
<1>5. \A p \in Known : Promised(p)'
  BY <1>0, <1>2, PromiseKept DEF MeshIInv
<1>6. ProbedStillKnown'
  BY Zenon, <1>0, <1>4 DEF MeshIInv, ProbedStillKnown, pull
<1> QED  BY <1>0, <1>2, <1>3, <1>4, <1>5, <1>6 DEF MeshIInv, pull

\* SyncEndpoints fills the cache and then visits the tunnels of the table.
LEMMA SyncIInv ==
  ASSUME MeshIInv, (\E e \in Endpoints : SyncStore(e)) \/ SyncIterate
  PROVE  MeshIInv'
<1>0. UNCHANGED <<table, routes, panicked, pull, handle>>
  BY DEF SyncStore, SyncIterate
<1>1. Known' = Known /\ ProbedStillKnown'
  BY Zenon, <1>0 DEF Known, MeshIInv, ProbedStillKnown, pull
<1>2. CASE \E e \in Endpoints : SyncStore(e)
  <2>1. endpoints' \in Endpoints /\ endpoints' # Nil /\ syncer' = "iterate" /\ UNCHANGED tunnel
    BY <1>2, MeshAssumption DEF SyncStore
  <2>2. MeshTypeOK'
    BY <1>0, <2>1 DEF MeshIInv, MeshTypeOK, pull, handle
  <2>3. \A p \in Known : Promised(p)'
    BY <2>1 DEF Promised
  <2> QED  BY Zenon, <1>0, <1>1, <2>1, <2>2, <2>3 DEF MeshIInv, pull, handle
<1>3. CASE SyncIterate
  <2>1. /\ syncer' = "idle" /\ UNCHANGED endpoints /\ endpoints # Nil
        /\ tunnel' = [o \in Objects |-> IF (\E p \in Peers : table[p] = o) /\ tunnel[o] # None
                                        THEN endpoints ELSE tunnel[o]]
    BY <1>3 DEF SyncIterate, MeshIInv, MeshTypeOK
  <2>2. tunnel' \in [Objects -> Endpoints \cup {None, Nil, Closed}]
    BY <2>1 DEF MeshIInv, MeshTypeOK
  <2>3. MeshTypeOK'
    BY <1>0, <2>1, <2>2 DEF MeshIInv, MeshTypeOK, pull, handle
  <2>4. ASSUME NEW p \in Known PROVE Promised(p)'
    <3>1. p \in Peers /\ table[p] \in Objects
      BY DEF Known, MeshIInv, MeshTypeOK
    <3>2. tunnel'[table[p]] # Nil
      BY <2>1, <3>1, MeshAssumption
    <3> QED  BY <1>0, <3>2 DEF Promised
  <2> QED  BY <1>0, <1>1, <2>1, <2>3, <2>4 DEF MeshIInv, pull, handle
<1> QED  BY <1>2, <1>3

\* Every step of Puller, of the handlers and of SyncEndpoints keeps the invariant.
LEMMA MeshNextIInv == MeshIInv /\ [MeshNext]_meshVars => MeshIInv'
<1> SUFFICES ASSUME MeshIInv, [MeshNext]_meshVars PROVE MeshIInv'
  OBVIOUS
<1>1. ASSUME NEW h \in Handlers, NEW p \in Peers, AckLookup(h, p) PROVE MeshIInv'
  <2>1. table[p] \in Objects
    BY <1>1 DEF AckLookup, MeshIInv, MeshTypeOK
  <2> QED  BY <1>1, <2>1, LookupIInv
<1>2. ASSUME NEW h \in Handlers, NEW p \in Peers, NEW o \in Objects, CatchupLookup(h, p, o) PROVE MeshIInv'
  BY <1>2, LookupIInv
<1>3. CASE UNCHANGED meshVars
  BY <1>3 DEF meshVars, pull, handle, MeshIInv, MeshTypeOK, ProbedStillKnown, Known, Promised
<1> QED  BY <1>1, <1>2, <1>3, UpdateMergeIInv, PullerIInv, SetTunnelIInv, LoadEndpointsIInv,
            StoreEndpointsIInv, AddRouteIInv, SyncIInv DEF MeshNext

\* The strengthened invariant holds for any number of peers, objects and handlers.
THEOREM MeshInvariance == MeshSpec => []MeshIInv
BY MeshInitIInv, MeshNextIInv, PTL DEF MeshSpec

\* Every variable of the mesh keeps its type; a handler past its lookup has a Peer object.
THEOREM MeshTypeCorrect == MeshSpec => []MeshTypeOK
<1>1. MeshIInv => MeshTypeOK
  BY DEF MeshIInv
<1> QED  BY MeshInvariance, <1>1, PTL

\* Once the node has its endpoints no tunnel of the table is left without, in whatever order
\* PeerCatchup and SyncEndpoints write and read the cache and the tunnels.
THEOREM EndpointsLearned == MeshSpec => []TunnelsLearnEndpoints
<1>1. MeshIInv => TunnelsLearnEndpoints
  BY Zenon DEF MeshIInv, TunnelsLearnEndpoints, Quiescent, Promised
<1> QED  BY MeshInvariance, <1>1, PTL

\* The second critical section of probePeers finds every peer of the first one.
THEOREM ProbedKnown == MeshSpec => []ProbedStillKnown
<1>1. MeshIInv => ProbedStillKnown
  BY Zenon DEF MeshIInv
<1> QED  BY MeshInvariance, <1>1, PTL
=============================================================================
