------------------------------ MODULE Registry ------------------------------
(***************************************************************************)
(* Relay servers and devices in the portal: preload in                     *)
(* portal/api/server.go, RelayKeepalive, Preflight and PeerGraph in        *)
(* portal/api/api_internal.go.                                             *)
(*                                                                         *)
(* The portal keeps the relay servers in the table relay_servers and in    *)
(* two maps in memory, byID and byAddr, that point to the same objects.    *)
(* HTTP handlers run concurrently.  A step of the model is a transaction   *)
(* or an access to the maps; a transaction that reads before it writes is  *)
(* two steps, since the database does not make the pair atomic.  The       *)
(* portal may stop at any point and start again; the maps are then filled  *)
(* from the table.                                                         *)
(*                                                                         *)
(* A relay server stands for its address, its unique name and the ID of    *)
(* its row; an object in memory for the relay server whose ID it has.      *)
(***************************************************************************)
EXTENDS Naturals, Sequences

CONSTANTS
  Relays,       \* relay servers
  Keys,         \* public keys of relay servers
  Machines,     \* machines of one user
  Keepalives,   \* goroutines that handle keepalives
  Preflights,   \* goroutines that handle preflights
  MaxOwnDevice, \* devices that a user may own
  MaxRows,      \* bound on the rows of devices
  None          \* no value; as relay server of a device, the ID 0

ASSUME RegistryAssumption ==
  /\ None \notin Relays \cup Keys \cup Machines \cup [relay : Relays, key : Keys]
  /\ MaxOwnDevice \in Nat /\ MaxRows \in Nat

VARIABLES
  row,       \* public key in the row of a relay server, None without a row
  byID,      \* ID -> object
  byAddr,    \* address -> object
  key,       \* public key in an object
  devices,   \* rows of devices, oldest first
  kpc,       \* program points of the Keepalives
  req,       \* keepalive: the relay server and the key it reports
  obj,       \* keepalive: object found in byAddr
  dirty,     \* keepalive: the public key is part of the update
  ppc,       \* program points of the Preflights
  machine    \* preflight: machine that asks

maps  == <<byID, byAddr, key>>
keep  == <<kpc, req, obj, dirty>>
flight == <<ppc, machine>>
vars == <<row, maps, devices, keep, flight>>

Device == [machine : Machines, relay : Relays \cup {None}]

(* Every variable stays in its domain.                                     *)
TypeOK ==
  /\ row \in [Relays -> Keys \cup {None}]
  /\ byID \in [Relays -> Relays \cup {None}]
  /\ byAddr \in [Relays -> Relays \cup {None}]
  /\ key \in [Relays -> Keys \cup {None}]
  /\ devices \in Seq(Device)
  /\ kpc \in [Keepalives -> {"idle", "create", "storeID", "storeAddr", "update", "commit"}]
  /\ req \in [Keepalives -> [relay : Relays, key : Keys] \cup {None}]
  /\ obj \in [Keepalives -> Relays \cup {None}]
  /\ dirty \in [Keepalives -> BOOLEAN]
  /\ ppc \in [Preflights -> {"idle", "insert", "reassign"}]
  /\ machine \in [Preflights -> Machines \cup {None}]

Empty == [r \in Relays |-> None]

\* The goroutines of a portal that has just started.
Fresh ==
  /\ kpc' = [h \in Keepalives |-> "idle"]
  /\ req' = [h \in Keepalives |-> None]
  /\ obj' = [h \in Keepalives |-> None]
  /\ dirty' = [h \in Keepalives |-> FALSE]
  /\ ppc' = [h \in Preflights |-> "idle"]
  /\ machine' = [h \in Preflights |-> None]

Init ==
  /\ row = Empty /\ byID = Empty /\ byAddr = Empty /\ key = Empty
  /\ devices = <<>>
  /\ kpc = [h \in Keepalives |-> "idle"]
  /\ req = [h \in Keepalives |-> None]
  /\ obj = [h \in Keepalives |-> None]
  /\ dirty = [h \in Keepalives |-> FALSE]
  /\ ppc = [h \in Preflights |-> "idle"]
  /\ machine = [h \in Preflights |-> None]

Rows == {r \in Relays : row[r] # None}

-----------------------------------------------------------------------------
(* Restart and preload.  The loop stores the address of its variable, which *)
(* all its iterations share, so every entry points to one object that      *)
(* holds the row read last.                                                *)
Preload(last) ==
  /\ byID' = [r \in Relays |-> IF r \in Rows THEN last ELSE None]
  /\ byAddr' = byID'
  /\ key' = [r \in Relays |-> IF r = last THEN row[r] ELSE None]

Restart ==
  /\ IF Rows = {} THEN byID' = Empty /\ byAddr' = Empty /\ key' = Empty
                  ELSE \E last \in Rows : Preload(last)
  /\ Fresh
  /\ UNCHANGED <<row, devices>>

-----------------------------------------------------------------------------
(* RelayKeepalive                                                          *)

KeepaliveDone(h) ==
  /\ kpc' = [kpc EXCEPT ![h] = "idle"]
  /\ req' = [req EXCEPT ![h] = None]
  /\ obj' = [obj EXCEPT ![h] = None]
  /\ dirty' = [dirty EXCEPT ![h] = FALSE]

KeepaliveLoad(h, r, k) ==
  /\ kpc[h] = "idle"
  /\ req' = [req EXCEPT ![h] = [relay |-> r, key |-> k]]
  /\ obj' = [obj EXCEPT ![h] = byAddr[r]]
  /\ kpc' = [kpc EXCEPT ![h] = IF byAddr[r] = None THEN "create" ELSE "update"]
  /\ UNCHANGED <<row, maps, devices, dirty, flight>>

\* Fault: the maps are filled although the insert has failed.
KeepaliveCreateFaulty(h) ==
  /\ kpc[h] = "create"
  /\ \/ /\ row[req[h].relay] = None
        /\ row' = [row EXCEPT ![req[h].relay] = req[h].key]
     \/ UNCHANGED row
  /\ kpc' = [kpc EXCEPT ![h] = "storeID"]
  /\ UNCHANGED <<maps, devices, req, obj, dirty, flight>>

\* The insert of a name that exists fails; any insert may fail.
KeepaliveCreate(h) ==
  /\ kpc[h] = "create"
  /\ \/ /\ row[req[h].relay] = None
        /\ row' = [row EXCEPT ![req[h].relay] = req[h].key]
        /\ kpc' = [kpc EXCEPT ![h] = "storeID"]
        /\ UNCHANGED <<req, obj, dirty>>
     \/ KeepaliveDone(h) /\ UNCHANGED row
  /\ UNCHANGED <<maps, devices, flight>>

\* Fault: only the map that keepalives use is filled.
KeepaliveStoreIDFaulty(h) ==
  /\ kpc[h] = "storeID"
  /\ key' = [key EXCEPT ![req[h].relay] = req[h].key]
  /\ kpc' = [kpc EXCEPT ![h] = "storeAddr"]
  /\ UNCHANGED <<row, byID, byAddr, devices, req, obj, dirty, flight>>

KeepaliveStoreID(h) ==
  /\ kpc[h] = "storeID"
  /\ byID' = [byID EXCEPT ![req[h].relay] = req[h].relay]
  /\ key' = [key EXCEPT ![req[h].relay] = req[h].key]
  /\ kpc' = [kpc EXCEPT ![h] = "storeAddr"]
  /\ UNCHANGED <<row, byAddr, devices, req, obj, dirty, flight>>

KeepaliveStoreAddr(h) ==
  /\ kpc[h] = "storeAddr"
  /\ byAddr' = [byAddr EXCEPT ![req[h].relay] = req[h].relay]
  /\ KeepaliveDone(h)
  /\ UNCHANGED <<row, byID, key, devices, flight>>

\* The object is changed before the transaction commits.
KeepaliveUpdate(h) ==
  /\ kpc[h] = "update"
  /\ dirty' = [dirty EXCEPT ![h] = key[obj[h]] # req[h].key]
  /\ key' = [key EXCEPT ![obj[h]] = req[h].key]
  /\ kpc' = [kpc EXCEPT ![h] = "commit"]
  /\ UNCHANGED <<row, byID, byAddr, devices, req, obj, flight>>

\* The update goes to the row that has the ID of the object, or fails.
KeepaliveCommit(h) ==
  /\ kpc[h] = "commit"
  /\ \/ row' = IF dirty[h] THEN [row EXCEPT ![obj[h]] = req[h].key] ELSE row
     \/ UNCHANGED row
  /\ KeepaliveDone(h)
  /\ UNCHANGED <<maps, devices, flight>>

-----------------------------------------------------------------------------
(* Preflight                                                               *)

DevicesOf(m) == {i \in DOMAIN devices : devices[i].machine = m}

\* The row that a query for the device of m returns.
DeviceOf(m) == CHOOSE i \in DevicesOf(m) : \A j \in DevicesOf(m) : i <= j

\* The IDs in byID.
Known == {r \in Relays : byID[r] # None}

\* randomRelayServerID: the ID in the object of some entry, 0 without one.
RandomRelay == IF Known = {} THEN {None} ELSE {byID[r] : r \in Known}

PreflightDone(h) ==
  /\ ppc' = [ppc EXCEPT ![h] = "idle"]
  /\ machine' = [machine EXCEPT ![h] = None]

\* A device whose relay server is known is left as it is.
PreflightQuery(h, m) ==
  /\ ppc[h] = "idle"
  /\ \/ /\ DevicesOf(m) = {}
        /\ Len(devices) < MaxOwnDevice
        /\ ppc' = [ppc EXCEPT ![h] = "insert"]
        /\ machine' = [machine EXCEPT ![h] = m]
     \/ /\ DevicesOf(m) # {}
        /\ devices[DeviceOf(m)].relay \notin Known
        /\ ppc' = [ppc EXCEPT ![h] = "reassign"]
        /\ machine' = [machine EXCEPT ![h] = m]
  /\ UNCHANGED <<row, maps, devices, keep>>

PreflightInsert(h) ==
  /\ ppc[h] = "insert"
  /\ Len(devices) < MaxRows
  /\ \/ \E r \in RandomRelay :
          devices' = Append(devices, [machine |-> machine[h], relay |-> r])
     \/ UNCHANGED devices
  /\ PreflightDone(h)
  /\ UNCHANGED <<row, maps, keep>>

PreflightReassign(h) ==
  /\ ppc[h] = "reassign"
  /\ \/ \E r \in RandomRelay : devices' = [devices EXCEPT ![DeviceOf(machine[h])].relay = r]
     \/ UNCHANGED devices
  /\ PreflightDone(h)
  /\ UNCHANGED <<row, maps, keep>>

-----------------------------------------------------------------------------
Next ==
  \/ Restart
  \/ \E h \in Keepalives, r \in Relays, k \in Keys : KeepaliveLoad(h, r, k)
  \/ \E h \in Keepalives :
       \/ KeepaliveCreate(h)
       \/ KeepaliveStoreID(h)
       \/ KeepaliveStoreAddr(h)
       \/ KeepaliveUpdate(h)
       \/ KeepaliveCommit(h)
  \/ \E h \in Preflights, m \in Machines : PreflightQuery(h, m)
  \/ \E h \in Preflights :
       \/ PreflightInsert(h)
       \/ PreflightReassign(h)

Spec == Init /\ [][Next]_vars

-----------------------------------------------------------------------------
\* A keepalive is about to enter the row it has created into the maps.
Registering(r) ==
  \E h \in Keepalives : kpc[h] \in {"storeID", "storeAddr"} /\ req[h].relay = r

(* A relay server that has a row is in both maps, or the keepalive that    *)
(* created the row is still under way: RelayKeepalive does not look for    *)
(* the row, so a relay server that is missing in the maps could never      *)
(* register again (its name is unique), and a crash between the commit and *)
(* the two Stores must not leave it missing.                               *)
RegisteredIsKnown ==
  \A r \in Rows : None \in {byID[r], byAddr[r]} => Registering(r)

(* The relay server of a device, as assigned by Preflight from the maps in *)
(* memory, always has a row, whatever the order of keepalives, preflights, *)
(* failed transactions and restarts.                                       *)
AssignedRelayExists ==
  \A i \in DOMAIN devices : devices[i].relay # None => row[devices[i].relay] # None
=============================================================================
