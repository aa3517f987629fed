--------------------------- MODULE RegistryProofs ---------------------------
(***************************************************************************)
(* RegisteredIsKnown and AssignedRelayExists hold for every number of      *)
(* relay servers, machines and handlers.                                   *)
(***************************************************************************)
EXTENDS Registry, TLAPS

\* What a keepalive has read stays valid: rows are never deleted.
HandlersBacked ==
  \A h \in Keepalives :
    /\ kpc[h] # "idle" => req[h] # None
    /\ kpc[h] \in {"storeID", "storeAddr"} => row[req[h].relay] # None
    /\ kpc[h] = "storeAddr" => byID[req[h].relay] # None
    /\ kpc[h] \in {"update", "commit"} => obj[h] # None /\ row[obj[h]] # None

\* The maps only know objects of relay servers that have a row.
MapsBacked ==
  \A r \in Relays : /\ byID[r] # None => row[byID[r]] # None
                    /\ byAddr[r] # None => row[byAddr[r]] # None

\* A preflight that inserts a device knows its machine.
FlightsBacked == \A h \in Preflights : ppc[h] = "insert" => machine[h] # None

\* A relay server without an entry in a map is being entered into that map.
Covered ==
  \A r \in Relays : row[r] # None =>
    \/ byID[r] # None /\ byAddr[r] # None
    \/ \E h \in Keepalives : /\ req[h] # None /\ req[h].relay = r
                             /\ kpc[h] \in {"storeID", "storeAddr"}

IInv ==
  TypeOK /\ HandlersBacked /\ MapsBacked /\ FlightsBacked /\ Covered /\ AssignedRelayExists

-----------------------------------------------------------------------------
(* A row of devices has a machine and a relay server.                      *)
LEMMA DeviceRows == ASSUME TypeOK, NEW i \in DOMAIN devices
  PROVE devices[i].machine \in Machines /\ devices[i].relay \in Relays \cup {None}
<1>1. devices[i] \in Device  BY DEF TypeOK
<1>2. QED  BY <1>1 DEF Device

(* randomRelayServerID returns 0 or the ID of a row.                       *)
LEMMA RandomRelayBacked == ASSUME TypeOK, MapsBacked, NEW r \in RandomRelay
  PROVE r \in Relays \cup {None} /\ (r # None => row[r] # None)
<1>1. CASE Known = {}  BY <1>1 DEF RandomRelay
<1>2. CASE Known # {}
  <2>1. PICK q \in Relays : byID[q] # None /\ r = byID[q]
    BY <1>2 DEF RandomRelay, Known
  <2>2. QED  BY <2>1 DEF TypeOK, MapsBacked
<1>3. QED  BY <1>1, <1>2

(* The initial maps and tables are empty.                                  *)
LEMMA InitIInv == Init => IInv
  BY RegistryAssumption DEF Init, IInv, TypeOK, HandlersBacked, MapsBacked, FlightsBacked,
     Covered, AssignedRelayExists, Empty

(* preload fills both maps from the table, with an object that has a row.  *)
LEMMA RestartIInv == ASSUME IInv, Restart
  PROVE IInv'
<1>1. TypeOK'
  BY RegistryAssumption DEF IInv, TypeOK, Restart, Preload, Fresh, Empty, Rows, maps, keep, flight
<1>2. HandlersBacked'
  BY RegistryAssumption DEF IInv, HandlersBacked, Restart, Preload, Fresh, Empty, Rows, maps, keep, flight, TypeOK
<1>3. MapsBacked'
  BY RegistryAssumption DEF IInv, MapsBacked, Restart, Preload, Fresh, Empty, Rows, maps, keep, flight, TypeOK
<1>4. FlightsBacked'
  BY RegistryAssumption DEF IInv, FlightsBacked, Restart, Preload, Fresh, Empty, Rows, maps, keep, flight, TypeOK
<1>5. Covered'
  BY RegistryAssumption DEF IInv, Covered, Restart, Preload, Fresh, Empty, Rows, maps, keep, flight, TypeOK
<1>6. AssignedRelayExists'
  BY RegistryAssumption DEF IInv, AssignedRelayExists, Restart, Preload, Fresh, Empty, Rows, maps, keep, flight, TypeOK
<1>7. QED  BY <1>1, <1>2, <1>3, <1>4, <1>5, <1>6 DEF IInv


(* A keepalive reads an object from byAddr: it has a row.                  *)
LEMMA KeepaliveLoadIInv == ASSUME IInv, NEW h \in Keepalives, NEW r \in Relays, NEW k \in Keys, KeepaliveLoad(h, r, k)
  PROVE IInv'
<1>1. TypeOK'
  BY RegistryAssumption DEF IInv, TypeOK, KeepaliveLoad, maps, keep, flight
<1>2. HandlersBacked'
  BY RegistryAssumption DEF IInv, TypeOK, HandlersBacked, MapsBacked, KeepaliveLoad, maps
<1>3. MapsBacked'
  BY RegistryAssumption DEF IInv, MapsBacked, KeepaliveLoad, maps, keep, flight, TypeOK
<1>4. FlightsBacked'
  BY RegistryAssumption DEF IInv, FlightsBacked, KeepaliveLoad, maps, keep, flight, TypeOK
<1>5. Covered'
  BY RegistryAssumption DEF IInv, Covered, KeepaliveLoad, maps, keep, flight, TypeOK
<1>6. AssignedRelayExists'
  BY RegistryAssumption DEF IInv, AssignedRelayExists, KeepaliveLoad, maps, keep, flight, TypeOK
<1>7. QED  BY <1>1, <1>2, <1>3, <1>4, <1>5, <1>6 DEF IInv


(* The new row is the one that its keepalive is about to enter.            *)
LEMMA KeepaliveCreateIInv == ASSUME IInv, NEW h \in Keepalives, KeepaliveCreate(h)
  PROVE IInv'
<1>r. req[h] \in [relay : Relays, key : Keys]
  BY RegistryAssumption DEF IInv, TypeOK, HandlersBacked, KeepaliveCreate
<1>g. \A r \in Relays : row[r] # None => row'[r] # None
  BY <1>r, RegistryAssumption DEF IInv, TypeOK, KeepaliveCreate
<1>1. TypeOK'
  BY Zenon, <1>r DEF IInv, TypeOK, KeepaliveCreate, KeepaliveDone, maps, flight
<1>2. HandlersBacked'
  BY <1>r, <1>g, RegistryAssumption DEF IInv, TypeOK, HandlersBacked, KeepaliveCreate, KeepaliveDone, maps
<1>3. MapsBacked'
  BY <1>g DEF IInv, TypeOK, MapsBacked, KeepaliveCreate, maps
<1>4. FlightsBacked'
  BY RegistryAssumption DEF IInv, FlightsBacked, KeepaliveCreate, KeepaliveDone, maps, keep, flight, TypeOK
<1>5. Covered'
  <2>1. SUFFICES ASSUME NEW r \in Relays, row'[r] # None
                 PROVE \/ byID'[r] # None /\ byAddr'[r] # None
                       \/ \E g \in Keepalives : /\ req'[g] # None /\ req'[g].relay = r
                                                /\ kpc'[g] \in {"storeID", "storeAddr"}
    BY DEF Covered
  <2>2. byID' = byID /\ byAddr' = byAddr  BY DEF KeepaliveCreate, maps
  <2>3. CASE row[r] # None
    BY <2>2, <2>3 DEF IInv, TypeOK, Covered, KeepaliveCreate, KeepaliveDone
  <2>4. CASE row[r] = None
    <3>1. r = req[h].relay /\ kpc'[h] = "storeID" /\ req' = req
      BY <2>1, <2>4, <1>r DEF IInv, TypeOK, KeepaliveCreate
    <3>2. QED  BY <3>1, <1>r, RegistryAssumption
  <2>5. QED  BY <2>3, <2>4
<1>6. AssignedRelayExists'
  <2>1. DOMAIN devices' = DOMAIN devices /\ \A i \in DOMAIN devices : devices'[i] = devices[i]
    BY DEF KeepaliveCreate
  <2>2. QED  BY <1>g, <2>1, DeviceRows DEF IInv, AssignedRelayExists
<1>7. QED  BY <1>1, <1>2, <1>3, <1>4, <1>5, <1>6 DEF IInv


(* The first of the two Stores of RelayKeepalive.                          *)
LEMMA KeepaliveStoreIDIInv == ASSUME IInv, NEW h \in Keepalives, KeepaliveStoreID(h)
  PROVE IInv'
<1>r. req[h] \in [relay : Relays, key : Keys]
  BY RegistryAssumption DEF IInv, TypeOK, HandlersBacked, KeepaliveStoreID
<1>1. TypeOK'
  BY <1>r DEF IInv, TypeOK, KeepaliveStoreID, flight
<1>2. HandlersBacked'
  BY RegistryAssumption DEF IInv, HandlersBacked, KeepaliveStoreID, maps, keep, flight, TypeOK
<1>3. MapsBacked'
  BY <1>r DEF IInv, TypeOK, HandlersBacked, MapsBacked, KeepaliveStoreID
<1>4. FlightsBacked'
  BY RegistryAssumption DEF IInv, FlightsBacked, KeepaliveStoreID, maps, keep, flight, TypeOK
<1>5. Covered'
  BY <1>r, RegistryAssumption DEF IInv, TypeOK, Covered, KeepaliveStoreID
<1>6. AssignedRelayExists'
  BY RegistryAssumption DEF IInv, AssignedRelayExists, KeepaliveStoreID, maps, keep, flight, TypeOK
<1>7. QED  BY <1>1, <1>2, <1>3, <1>4, <1>5, <1>6 DEF IInv


(* After the second Store the relay server is in both maps.                *)
LEMMA KeepaliveStoreAddrIInv == ASSUME IInv, NEW h \in Keepalives, KeepaliveStoreAddr(h)
  PROVE IInv'
<1>r. req[h] \in [relay : Relays, key : Keys]
  BY RegistryAssumption DEF IInv, TypeOK, HandlersBacked, KeepaliveStoreAddr
<1>1. TypeOK'
  BY Zenon, RegistryAssumption DEF IInv, TypeOK, KeepaliveStoreAddr, KeepaliveDone, maps, keep, flight
<1>2. HandlersBacked'
  BY RegistryAssumption DEF IInv, HandlersBacked, KeepaliveStoreAddr, KeepaliveDone, maps, keep, flight, TypeOK
<1>3. MapsBacked'
  BY <1>r DEF IInv, TypeOK, HandlersBacked, MapsBacked, KeepaliveStoreAddr
<1>4. FlightsBacked'
  BY RegistryAssumption DEF IInv, FlightsBacked, KeepaliveStoreAddr, KeepaliveDone, maps, keep, flight, TypeOK
<1>5. Covered'
  BY <1>r, RegistryAssumption DEF IInv, TypeOK, HandlersBacked, Covered, KeepaliveStoreAddr, KeepaliveDone
<1>6. AssignedRelayExists'
  BY RegistryAssumption DEF IInv, AssignedRelayExists, KeepaliveStoreAddr, KeepaliveDone, maps, keep, flight, TypeOK
<1>7. QED  BY <1>1, <1>2, <1>3, <1>4, <1>5, <1>6 DEF IInv


(* Changing the key of an object touches neither rows nor maps.            *)
LEMMA KeepaliveUpdateIInv == ASSUME IInv, NEW h \in Keepalives, KeepaliveUpdate(h)
  PROVE IInv'
<1>r. req[h] \in [relay : Relays, key : Keys]
  BY RegistryAssumption DEF IInv, TypeOK, HandlersBacked, KeepaliveUpdate
<1>o. obj[h] \in Relays /\ row[obj[h]] # None
  BY DEF IInv, TypeOK, HandlersBacked, KeepaliveUpdate
<1>1. TypeOK'
  BY <1>r, <1>o DEF IInv, TypeOK, KeepaliveUpdate, flight
<1>2. HandlersBacked'
  BY RegistryAssumption DEF IInv, HandlersBacked, KeepaliveUpdate, maps, keep, flight, TypeOK
<1>3. MapsBacked'
  BY RegistryAssumption DEF IInv, MapsBacked, KeepaliveUpdate, maps, keep, flight, TypeOK
<1>4. FlightsBacked'
  BY RegistryAssumption DEF IInv, FlightsBacked, KeepaliveUpdate, maps, keep, flight, TypeOK
<1>5. Covered'
  BY RegistryAssumption DEF IInv, Covered, KeepaliveUpdate, maps, keep, flight, TypeOK
<1>6. AssignedRelayExists'
  BY RegistryAssumption DEF IInv, AssignedRelayExists, KeepaliveUpdate, maps, keep, flight, TypeOK
<1>7. QED  BY <1>1, <1>2, <1>3, <1>4, <1>5, <1>6 DEF IInv


(* An update never removes a row.                                          *)
LEMMA KeepaliveCommitIInv == ASSUME IInv, NEW h \in Keepalives, KeepaliveCommit(h)
  PROVE IInv'
<1>r. req[h] \in [relay : Relays, key : Keys]
  BY RegistryAssumption DEF IInv, TypeOK, HandlersBacked, KeepaliveCommit
<1>o. obj[h] \in Relays /\ row[obj[h]] # None
  BY DEF IInv, TypeOK, HandlersBacked, KeepaliveCommit
<1>g. \A r \in Relays : row[r] # None => row'[r] # None
  BY <1>r, RegistryAssumption DEF IInv, TypeOK, KeepaliveCommit
<1>1. TypeOK'
  BY <1>r, <1>o DEF IInv, TypeOK, KeepaliveCommit, KeepaliveDone, maps, flight
<1>2. HandlersBacked'
  BY <1>g DEF IInv, TypeOK, HandlersBacked, KeepaliveCommit, KeepaliveDone, maps
<1>3. MapsBacked'
  BY <1>g DEF IInv, TypeOK, MapsBacked, KeepaliveCommit, maps
<1>4. FlightsBacked'
  BY RegistryAssumption DEF IInv, FlightsBacked, KeepaliveCommit, KeepaliveDone, maps, keep, flight, TypeOK
<1>5. Covered'
  <2>1. \A r \in Relays : row'[r] # None => row[r] # None
    BY <1>r, <1>o DEF IInv, TypeOK, KeepaliveCommit
  <2>2. byID' = byID /\ byAddr' = byAddr  BY DEF KeepaliveCommit, maps
  <2>3. \A g \in Keepalives : kpc[g] \in {"storeID", "storeAddr"} =>
           kpc'[g] = kpc[g] /\ req'[g] = req[g]
    BY DEF IInv, TypeOK, KeepaliveCommit, KeepaliveDone
  <2>4. QED  BY <2>1, <2>2, <2>3 DEF IInv, Covered
<1>6. AssignedRelayExists'
  <2>1. DOMAIN devices' = DOMAIN devices /\ \A i \in DOMAIN devices : devices'[i] = devices[i]
    BY DEF KeepaliveCommit
  <2>2. QED  BY <1>g, <2>1, DeviceRows DEF IInv, AssignedRelayExists
<1>7. QED  BY <1>1, <1>2, <1>3, <1>4, <1>5, <1>6 DEF IInv


(* The query of Preflight changes no table.                                *)
LEMMA PreflightQueryIInv == ASSUME IInv, NEW h \in Preflights, NEW m \in Machines, PreflightQuery(h, m)
  PROVE IInv'
<1>1. TypeOK'
  BY RegistryAssumption, SMTT(20) DEF IInv, TypeOK, PreflightQuery, maps, keep, flight
<1>2. HandlersBacked'
  BY RegistryAssumption DEF IInv, HandlersBacked, PreflightQuery, maps, keep, flight, TypeOK
<1>3. MapsBacked'
  BY RegistryAssumption DEF IInv, MapsBacked, PreflightQuery, maps, keep, flight, TypeOK
<1>4. FlightsBacked'
  BY RegistryAssumption DEF IInv, FlightsBacked, PreflightQuery, maps, keep, flight, TypeOK
<1>5. Covered'
  BY RegistryAssumption DEF IInv, Covered, PreflightQuery, maps, keep, flight, TypeOK
<1>6. AssignedRelayExists'
  BY RegistryAssumption DEF IInv, AssignedRelayExists, PreflightQuery, maps, keep, flight, TypeOK
<1>7. QED  BY <1>1, <1>2, <1>3, <1>4, <1>5, <1>6 DEF IInv


(* The relay server of a new device is one of the maps.                    *)
LEMMA PreflightInsertIInv == ASSUME IInv, NEW h \in Preflights, PreflightInsert(h)
  PROVE IInv'
<1>a. \A r \in RandomRelay : r \in Relays \cup {None} /\ (r # None => row[r] # None)
  BY RandomRelayBacked DEF IInv
<1>m. machine[h] \in Machines
  BY DEF IInv, TypeOK, FlightsBacked, PreflightInsert
<1>1. TypeOK'
  <2>1. PICK r \in Relays \cup {None} :
            \/ devices' = Append(devices, [machine |-> machine[h], relay |-> r])
            \/ devices' = devices
    BY Zenon, <1>a DEF PreflightInsert
  <2>2. devices' \in Seq(Device)
    <3>1. [machine |-> machine[h], relay |-> r] \in Device  BY <1>m DEF Device
    <3>2. devices \in Seq(Device)  BY DEF IInv, TypeOK
    <3>3. QED  BY <2>1, <3>1, <3>2
  <2>3. QED  BY <2>2 DEF IInv, TypeOK, PreflightInsert, PreflightDone, maps, keep
<1>2. HandlersBacked'
  BY RegistryAssumption DEF IInv, HandlersBacked, PreflightInsert, PreflightDone, RandomRelay, Known, Device, maps, keep, flight, TypeOK
<1>3. MapsBacked'
  BY RegistryAssumption DEF IInv, MapsBacked, PreflightInsert, PreflightDone, RandomRelay, Known, Device, maps, keep, flight, TypeOK
<1>4. FlightsBacked'
  BY RegistryAssumption DEF IInv, FlightsBacked, PreflightInsert, PreflightDone, RandomRelay, Known, Device, maps, keep, flight, TypeOK
<1>5. Covered'
  BY RegistryAssumption DEF IInv, Covered, PreflightInsert, PreflightDone, RandomRelay, Known, Device, maps, keep, flight, TypeOK
<1>6. AssignedRelayExists'
  <2>1. CASE devices' = devices
    BY <2>1 DEF IInv, AssignedRelayExists, PreflightInsert
  <2>2. CASE devices' # devices
    <3>1. PICK r \in RandomRelay :
              devices' = Append(devices, [machine |-> machine[h], relay |-> r])
      BY Zenon, <2>2 DEF PreflightInsert
    <3>2. \A i \in DOMAIN devices' :
             \/ i \in DOMAIN devices /\ devices'[i] = devices[i]
             \/ devices'[i] = [machine |-> machine[h], relay |-> r]
      BY <3>1 DEF IInv, TypeOK
    <3>3. QED  BY <1>a, <3>2 DEF IInv, AssignedRelayExists, PreflightInsert
  <2>3. QED  BY <2>1, <2>2
<1>7. QED  BY <1>1, <1>2, <1>3, <1>4, <1>5, <1>6 DEF IInv


(* The new relay server of an old device is one of the maps.               *)
LEMMA PreflightReassignIInv == ASSUME IInv, NEW h \in Preflights, PreflightReassign(h)
  PROVE IInv'
<1>a. \A r \in RandomRelay : r \in Relays \cup {None} /\ (r # None => row[r] # None)
  BY RandomRelayBacked DEF IInv
<1>i. ASSUME NEW i \in DOMAIN devices
      PROVE /\ devices[i] \in Device
            /\ DOMAIN devices' = DOMAIN devices
            /\ \/ devices'[i] = devices[i]
               \/ \E r \in RandomRelay : devices'[i] = [devices[i] EXCEPT !.relay = r]
  BY DEF IInv, TypeOK, PreflightReassign
<1>1. TypeOK'
  <2>1. \A i \in DOMAIN devices : devices'[i] \in Device
    BY Zenon, <1>a, <1>i DEF Device
  <2>2. devices' \in Seq(Device)
    <3>1. devices \in Seq(Device)  BY DEF IInv, TypeOK
    <3>2. Len(devices) \in Nat /\ DOMAIN devices = 1..Len(devices)  BY <3>1
    <3>3. devices \in [1..Len(devices) -> Device]  BY <3>1
    <3>4. devices' = [i \in 1..Len(devices) |-> devices'[i]]
      <4>1. CASE devices' = devices  BY <3>1, <4>1
      <4>2. CASE \E r \in RandomRelay :
                   devices' = [devices EXCEPT ![DeviceOf(machine[h])].relay = r]
        <5> DEFINE x == DeviceOf(machine[h])
        <5>1. PICK r \in RandomRelay :
                  devices' = [devices EXCEPT ![x] = [devices[x] EXCEPT !.relay = r]]
          BY Zenon, <4>2
        <5> HIDE DEF x
        <5> DEFINE v == [devices[x] EXCEPT !.relay = r]
        <5> HIDE DEF v
        <5>2. devices' = [devices EXCEPT ![x] = v]  BY <5>1 DEF v
        <5>3. devices' = [i \in 1..Len(devices) |-> IF i = x THEN v ELSE devices[i]]
          BY Zenon, <3>3, <5>2
        <5>4. QED  BY <5>3
      <4>3. QED  BY Zenon, <4>1, <4>2 DEF PreflightReassign
    <3>5. devices' \in [1..Len(devices) -> Device]  BY <2>1, <3>4, <3>2
    <3>6. QED  BY <3>2, <3>5
  <2>3. QED  BY <2>2 DEF IInv, TypeOK, PreflightReassign, PreflightDone, maps, keep
<1>2. HandlersBacked'
  BY RegistryAssumption DEF IInv, HandlersBacked, PreflightReassign, PreflightDone, RandomRelay, Known, Device, maps, keep, flight, TypeOK
<1>3. MapsBacked'
  BY RegistryAssumption DEF IInv, MapsBacked, PreflightReassign, PreflightDone, RandomRelay, Known, Device, maps, keep, flight, TypeOK
<1>4. FlightsBacked'
  BY RegistryAssumption DEF IInv, FlightsBacked, PreflightReassign, PreflightDone, RandomRelay, Known, Device, maps, keep, flight, TypeOK
<1>5. Covered'
  BY RegistryAssumption DEF IInv, Covered, PreflightReassign, PreflightDone, RandomRelay, Known, Device, maps, keep, flight, TypeOK
<1>6. AssignedRelayExists'
  BY Zenon, <1>a, <1>i DEF IInv, Device, AssignedRelayExists, PreflightReassign, maps
<1>7. QED  BY <1>1, <1>2, <1>3, <1>4, <1>5, <1>6 DEF IInv

-----------------------------------------------------------------------------
(* Every step of the portal preserves the inductive invariant.             *)
LEMMA NextIInv == IInv /\ [Next]_vars => IInv'
<1>1. SUFFICES ASSUME IInv, [Next]_vars PROVE IInv'
  OBVIOUS
<1>2. CASE UNCHANGED vars
  BY <1>1, <1>2 DEF IInv, TypeOK, HandlersBacked, MapsBacked, FlightsBacked, Covered,
     AssignedRelayExists, vars, maps, keep, flight
<1>3. CASE Restart  BY <1>1, <1>3, RestartIInv
<1>4. CASE \E h \in Keepalives, r \in Relays, k \in Keys : KeepaliveLoad(h, r, k)
  BY <1>1, <1>4, KeepaliveLoadIInv
<1>5. CASE \E h \in Keepalives : KeepaliveCreate(h)
  BY <1>1, <1>5, KeepaliveCreateIInv
<1>6. CASE \E h \in Keepalives : KeepaliveStoreID(h)
  BY <1>1, <1>6, KeepaliveStoreIDIInv
<1>7. CASE \E h \in Keepalives : KeepaliveStoreAddr(h)
  BY <1>1, <1>7, KeepaliveStoreAddrIInv
<1>8. CASE \E h \in Keepalives : KeepaliveUpdate(h)
  BY <1>1, <1>8, KeepaliveUpdateIInv
<1>9. CASE \E h \in Keepalives : KeepaliveCommit(h)
  BY <1>1, <1>9, KeepaliveCommitIInv
<1>10. CASE \E h \in Preflights, m \in Machines : PreflightQuery(h, m)
  BY <1>1, <1>10, PreflightQueryIInv
<1>11. CASE \E h \in Preflights : PreflightInsert(h)
  BY <1>1, <1>11, PreflightInsertIInv
<1>12. CASE \E h \in Preflights : PreflightReassign(h)
  BY <1>1, <1>12, PreflightReassignIInv
<1>13. QED
  BY <1>1, <1>2, <1>3, <1>4, <1>5, <1>6, <1>7, <1>8, <1>9, <1>10, <1>11, <1>12 DEF Next

(* The invariant holds in every reachable state.                           *)
THEOREM Invariance == Spec => []IInv
<1>1. QED  BY InitIInv, NextIInv, PTL DEF Spec

(* Variables keep their types under any number of concurrent handlers.     *)
THEOREM TypeCorrect == Spec => []TypeOK
<1>1. IInv => TypeOK  BY DEF IInv
<1>2. QED  BY <1>1, Invariance, PTL

(* A relay server with a row is in both maps or about to be entered, also  *)
(* when the portal stops between the commit and the Stores.                *)
THEOREM RegisteredKnown == Spec => []RegisteredIsKnown
<1>1. IInv => RegisteredIsKnown
  BY DEF IInv, Covered, RegisteredIsKnown, Registering, Rows
<1>2. QED  BY <1>1, Invariance, PTL

(* Preflight only ever assigns relay servers that have a row.              *)
THEOREM AssignedExists == Spec => []AssignedRelayExists
<1>1. IInv => AssignedRelayExists  BY DEF IInv
<1>2. QED  BY <1>1, Invariance, PTL
=============================================================================
