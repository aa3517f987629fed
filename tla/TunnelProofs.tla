---------------------------- MODULE TunnelProofs ----------------------------
(***************************************************************************)
(* Proofs about Tunnel, for any sets of addresses, announcements, endpoint *)
(* objects and goroutines, and any capacity of endpointsCh.                *)
(***************************************************************************)
EXTENDS Tunnel, TLAPS

Running(d) == dpc[d] \in {"loop", "dial", "prune"}

(* The program points of the goroutines and the flag: what OneDiscovery needs *)
(* of the type invariant, and OneDiscovery without its set.                   *)
Inv ==
  /\ disco \in BOOLEAN
  /\ dpc \in [Calls -> {"off", "swap", "loop", "dial", "prune"}]
  /\ \A c, d \in Calls : Running(c) /\ Running(d) => c = d
  /\ disco <=> \E d \in Calls : Running(d)

(* No goroutine of discovery runs when New returns.                          *)
LEMMA InitInv == Init => Inv
  BY Zenon DEF Init, Inv, Running

(* Only DiscoSwap lets a goroutine into the loop, and only when it finds disco *)
(* unset; only DiscoDie, which takes one out, resets the flag.               *)
LEMMA NextInv == Inv /\ [Next]_vars => Inv'
<1> SUFFICES ASSUME Inv, [Next]_vars
             PROVE  Inv'
  OBVIOUS
<1>1. CASE \E s \in Calls : Set(s)
  <2>1. PICK s \in Calls : Set(s)
    BY <1>1
  <2>2. CASE SetCheck(s)
    BY <2>2 DEF Inv, Running, SetCheck, flags
  <2>3. CASE \E as \in Announced : SetPush(s, as)
    BY <2>3 DEF Inv, Running, SetPush, flags, finder
  <2> QED  BY <2>1, <2>2, <2>3 DEF Set
<1>2. CASE \E d \in Calls : Discovery(d)
  <2>1. PICK d \in Calls : Discovery(d)
    BY <1>2
  <2>2. CASE DiscoSwap(d)
    BY <2>2 DEF Inv, Running, DiscoSwap
  <2>3. CASE DiscoReceive(d)
    BY <2>3 DEF Inv, Running, DiscoReceive, flags
  <2>4. CASE DiscoTick(d)
    BY <2>4 DEF Inv, Running, DiscoTick, flags
  <2>5. CASE \E a \in Addrs : DiscoDial(d, a)
    BY <2>5 DEF Inv, Running, DiscoDial, flags
  <2>6. CASE DiscoStore(d)
    BY <2>6 DEF Inv, Running, DiscoStore, flags
  <2>7. CASE DiscoPrune(d)
    BY <2>7 DEF Inv, Running, DiscoPrune, flags
  <2>8. CASE DiscoDie(d)
    BY Zenon, <2>8 DEF Inv, Running, DiscoDie
  <2> QED  BY <2>1, <2>2, <2>3, <2>4, <2>5, <2>6, <2>7, <2>8 DEF Discovery, DiscoBody
<1>3. CASE \E e \in Endpoints : Endpoint(e)
  <2>1. UNCHANGED <<disco, dpc>>
    BY Zenon, <1>3 DEF Endpoint, ReadOther, OnDiscoveryFound, OnDiscoveryNew, OnDiscoveryStore,
                Age, flags, finder
  <2> QED  BY <2>1 DEF Inv, Running
<1>4. CASE Close
  BY <1>4 DEF Inv, Running, Close, CloseSwap, CloseCancel, CloseDie, finder
<1>5. CASE UNCHANGED vars
  BY <1>5 DEF Inv, Running, vars, flags, finder
<1> QED  BY <1>1, <1>2, <1>3, <1>4, <1>5 DEF Next

(* An action that needs a new endpoint object is taken only when one is unused. *)
LEMMA NewEndpointType ==
  ASSUME \E e \in Endpoints : Unused(e)
  PROVE  NewEndpoint \in Endpoints
  BY DEF NewEndpoint

(* newEndpoint and serve keep the types of the endpoint objects.             *)
LEMMA ServeType ==
  ASSUME TypeOK, NEW e \in Endpoints, NEW a \in Addrs \cup {None}, NEW seen \in BOOLEAN,
         Serve(e, a, seen)
  PROVE  /\ addr' \in [Endpoints -> Addrs \cup {None}]
         /\ fresh' \in SUBSET Endpoints
         /\ cancelled' \in SUBSET Endpoints
         /\ reading' \in SUBSET Endpoints
         /\ reading \subseteq reading'
  BY DEF TypeOK, Serve

(* A send that does not block leaves the channel within its capacity.        *)
LEMMA AppendFits ==
  ASSUME NEW S, NEW q \in Seq(S), NEW x \in S, NEW n \in Nat, Len(q) < n
  PROVE  Append(q, x) \in Seq(S) /\ Len(Append(q, x)) <= n
  OBVIOUS

(* The variables of a tunnel keep their types, and endpointsCh never holds    *)
(* more announcements than its capacity.                                     *)
THEOREM TypeCorrect == Spec => []TypeOK
<1>1. ASSUME Init
      PROVE  TypeOK
  <2>1. endpointsCh \in Seq(Announced) /\ Len(endpointsCh) <= ChCap
    BY <1>1, TunnelAssumption DEF Init
  <2> QED  BY Zenon, <1>1, <2>1 DEF Init, TypeOK
<1>2. ASSUME TypeOK, [Next]_vars
      PROVE  TypeOK'
  <2> USE <1>2 DEF flags, objs, finder
  <2>1. CASE \E s \in Calls : Set(s)
    <3>1. PICK s \in Calls : Set(s)
      BY <2>1
    <3>2. CASE SetCheck(s)
      BY <3>2 DEF TypeOK, SetCheck
    <3>3. CASE \E as \in Announced : SetPush(s, as)
      <4>1. PICK as \in Announced : SetPush(s, as)
        BY Zenon, <3>3
      <4>2. endpointsCh' \in Seq(Announced) /\ Len(endpointsCh') <= ChCap
        <5>1. endpointsCh' = Append(endpointsCh, as) /\ Len(endpointsCh) < ChCap
          BY <4>1 DEF SetPush
        <5>2. endpointsCh \in Seq(Announced)
          BY DEF TypeOK
        <5>3. ChCap \in Nat
          BY TunnelAssumption
        <5> QED  BY Zenon, <5>1, <5>2, <5>3, AppendFits
      <4>3. spc' \in [Calls -> {"push", "check", "done"}]
        BY <4>1 DEF TypeOK, SetPush
      <4>4. UNCHANGED <<flags, endpoints, objs, finder>>
        BY <4>1 DEF SetPush
      <4> QED  BY <4>2, <4>3, <4>4 DEF TypeOK
    <3> QED  BY <3>1, <3>2, <3>3 DEF Set
  <2>2. CASE \E d \in Calls : Discovery(d)
    <3>1. PICK d \in Calls : Discovery(d)
      BY <2>2
    <3>2. CASE DiscoSwap(d)
      BY <3>2 DEF TypeOK, DiscoSwap
    <3>3. CASE DiscoReceive(d)
      BY <3>3, TunnelAssumption DEF TypeOK, DiscoReceive
    <3>4. CASE DiscoTick(d)
      BY <3>4 DEF TypeOK, DiscoTick, CloneEndpoints
    <3>5. CASE \E a \in Addrs : DiscoDial(d, a)
      <4>1. PICK a \in Addrs : DiscoDial(d, a)
        BY Zenon, <3>5
      <4>2. NewEndpoint \in Endpoints
        BY <4>1, NewEndpointType DEF DiscoDial
      <4>3. /\ addr' \in [Endpoints -> Addrs \cup {None}]
            /\ fresh' \in SUBSET Endpoints
            /\ cancelled' \in SUBSET Endpoints
            /\ reading' \in SUBSET Endpoints
            /\ reading \subseteq reading'
        BY Zenon, <4>1, <4>2, ServeType DEF DiscoDial
      <4>4. \A g \in Endpoints : snap'[g] # None => g \in reading'
        BY <4>1, <4>3 DEF TypeOK, DiscoDial
      <4> QED  BY <4>1, <4>2, <4>3, <4>4 DEF TypeOK, DiscoDial
    <3>6. CASE DiscoStore(d)
      BY <3>6 DEF TypeOK, DiscoStore
    <3>7. CASE DiscoPrune(d)
      BY <3>7 DEF TypeOK, DiscoPrune
    <3>8. CASE DiscoDie(d)
      BY Zenon, <3>8 DEF TypeOK, DiscoDie
    <3> QED  BY <3>1, <3>2, <3>3, <3>4, <3>5, <3>6, <3>7, <3>8 DEF Discovery, DiscoBody
  <2>3. CASE \E e \in Endpoints : Endpoint(e)
    <3>1. PICK e \in Endpoints : Endpoint(e)
      BY <2>3
    <3>2. CASE ReadOther(e)
      BY <3>2 DEF TypeOK, ReadOther, ReadNext
    <3>3. CASE \E f \in Endpoints : OnDiscoveryFound(e, f)
      BY <3>3 DEF TypeOK, OnDiscoveryFound, ReadNext
    <3>4. CASE OnDiscoveryNew(e)
      <4>1. NewEndpoint \in Endpoints
        BY <3>4, NewEndpointType DEF OnDiscoveryNew
      <4>2. addr[e] \in Addrs \cup {None}
        BY DEF TypeOK
      <4>3. /\ addr' \in [Endpoints -> Addrs \cup {None}]
            /\ fresh' \in SUBSET Endpoints
            /\ cancelled' \in SUBSET Endpoints
            /\ reading' \in SUBSET Endpoints
            /\ reading \subseteq reading'
        BY Zenon, <3>4, <4>1, <4>2, ServeType DEF OnDiscoveryNew
      <4>4. snap' \in [Endpoints -> (SUBSET Endpoints) \cup {None}]
        BY <3>4, <4>1 DEF TypeOK, OnDiscoveryNew
      <4>5. \A g \in Endpoints : snap'[g] # None => g \in reading'
        BY <3>4, <4>3 DEF TypeOK, OnDiscoveryNew
      <4> QED  BY <3>4, <4>3, <4>4, <4>5 DEF TypeOK, OnDiscoveryNew
    <3>5. CASE OnDiscoveryStore(e)
      <4>1. endpoints' \in SUBSET Endpoints
        BY <3>5 DEF TypeOK, OnDiscoveryStore
      <4>2. reading' \in SUBSET Endpoints /\ snap' \in [Endpoints -> (SUBSET Endpoints) \cup {None}]
        BY <3>5 DEF TypeOK, OnDiscoveryStore, ReadNext
      <4>3. \A g \in Endpoints : snap'[g] # None => g \in reading'
        BY <3>5 DEF TypeOK, OnDiscoveryStore, ReadNext
      <4> QED  BY <3>5, <4>1, <4>2, <4>3 DEF TypeOK, OnDiscoveryStore
    <3>6. CASE Age(e)
      BY <3>6 DEF TypeOK, Age
    <3> QED  BY <3>1, <3>2, <3>3, <3>4, <3>5, <3>6 DEF Endpoint
  <2>4. CASE Close
    BY <2>4 DEF TypeOK, Close, CloseSwap, CloseCancel, CloseDie
  <2>5. CASE UNCHANGED vars
    BY <2>5 DEF TypeOK, vars
  <2> QED  BY <2>1, <2>2, <2>3, <2>4, <2>5 DEF Next
<1> QED  BY <1>1, <1>2, PTL DEF Spec

(* However many calls of SetRemoteEndpoints find disco unset and start        *)
(* discovery, one goroutine at most runs its loop, and disco tells whether    *)
(* one does.                                                                 *)
THEOREM SingleDiscovery == Spec => []OneDiscovery
<1>1. Inv => OneDiscovery
  BY DEF Inv, Running, OneDiscovery
<1> QED  BY <1>1, InitInv, NextInv, PTL DEF Spec

(* Somebody attends to an announcement in endpointsCh: the call that sent one *)
(* has still to read disco, or a goroutine has still to swap it, or discovery *)
(* is in its loop; unless the tunnel is closed.                              *)
AnnouncementAttended ==
  endpointsCh # <<>> =>
    \/ \E s \in Calls : spc[s] = "check"
    \/ \E d \in Calls : dpc[d] \in {"swap", "loop", "dial", "prune"}
    \/ closing = "die"

(* A goroutine that leaves without entering the loop leaves another one in it; *)
(* a call that starts none has found disco set.                              *)
LEMMA NextAttended ==
  ASSUME Inv, spc \in [Calls -> {"push", "check", "done"}], AnnouncementAttended, [Next]_vars
  PROVE  AnnouncementAttended'
<1> USE DEF AnnouncementAttended
<1>1. CASE \E s \in Calls : Set(s)
  <2>1. PICK s \in Calls : Set(s)
    BY Zenon, <1>1
  <2>2. CASE SetCheck(s)
    <3>1. CASE disco
      BY <2>2, <3>1 DEF SetCheck, flags, Inv, Running
    <3>2. CASE ~disco
      BY <2>2, <3>2 DEF SetCheck, flags, Inv
    <3> QED
      BY <3>1, <3>2
  <2>3. CASE \E as \in Announced : SetPush(s, as)
    BY <2>3 DEF SetPush
  <2> QED
    BY <2>1, <2>2, <2>3 DEF Set
<1>2. CASE \E d \in Calls : Discovery(d)
  <2>1. PICK d \in Calls : Discovery(d)
    BY Zenon, <1>2
  <2>2. CASE DiscoSwap(d)
    <3>1. PICK c \in Calls : dpc'[c] \in {"loop", "dial", "prune"}
      BY <2>2 DEF DiscoSwap, Inv, Running
    <3> QED
      BY <3>1
  <2>3. CASE DiscoReceive(d) \/ DiscoTick(d) \/ (\E a \in Addrs : DiscoDial(d, a))
    BY Zenon, <2>3 DEF DiscoReceive, DiscoTick, DiscoDial, flags, Inv
  <2>4. CASE DiscoStore(d) \/ DiscoPrune(d)
    BY <2>4 DEF DiscoStore, DiscoPrune, Inv
  <2>5. CASE DiscoDie(d)
    BY Zenon, <2>5 DEF DiscoDie
  <2> QED
    BY Zenon, <2>1, <2>2, <2>3, <2>4, <2>5 DEF Discovery, DiscoBody
<1>3. CASE \E e \in Endpoints : Endpoint(e)
  <2>1. UNCHANGED <<closing, endpointsCh, spc, dpc>>
    BY Zenon, <1>3 DEF Endpoint, ReadOther, OnDiscoveryFound, OnDiscoveryNew, OnDiscoveryStore,
                Age, flags, finder
  <2> QED
    BY <2>1
<1>4. CASE Close
  BY <1>4 DEF Close, CloseSwap, CloseCancel, CloseDie, finder
<1>5. CASE UNCHANGED vars
  BY <1>5 DEF vars, flags, finder
<1> QED
  BY Zenon, <1>1, <1>2, <1>3, <1>4, <1>5 DEF Next

(* No announcement is left in endpointsCh of an open tunnel without a         *)
(* goroutine that will receive it or start one that does, however the reads   *)
(* of disco and its swaps interleave: AnnouncementUsed needs only that these  *)
(* goroutines run.                                                           *)
THEOREM AnnouncementKept == Spec => []AnnouncementAttended
<1>1. Init => AnnouncementAttended
  BY DEF Init, AnnouncementAttended
<1>2. TypeOK => spc \in [Calls -> {"push", "check", "done"}]
  BY DEF TypeOK
<1>3. Inv /\ TypeOK /\ AnnouncementAttended /\ [Next]_vars => AnnouncementAttended'
  BY <1>2, NextAttended
<1> QED
  BY <1>1, <1>3, TypeCorrect, InitInv, NextInv, PTL DEF Spec
=============================================================================
