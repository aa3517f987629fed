-------------------------------- MODULE Mesh --------------------------------
(***************************************************************************)
(* The peers of a node: node/mesh/manager.go and node/mesh/peer/peer.go.   *)
(*                                                                         *)
(* Three kinds of goroutines work on the manager.  Puller                  *)
(* (node/driver/pull_peers.go) calls Update with every new peer graph and  *)
(* Tick in between.  The Handlers are the Serve goroutines of the relay    *)
(* clients, which deliver catchups, acks and probe responses.  The events  *)
(* monitor calls SyncEndpoints when the external address changes.          *)
(*                                                                         *)
(* Manager.mu protects the table of peers.  A step of the model is a       *)
(* critical section, or an access to something that mu does not protect:   *)
(* the tunnel of a peer, the cached endpoints, the router of the device.   *)
(* Remote peers and relay servers are external: any message may arrive,    *)
(* any send may fail.  Time is abstract: a peer may be due for a probe or  *)
(* a catchup whenever it is looked at.                                     *)
(***************************************************************************)
EXTENDS Naturals, FiniteSets

CONSTANTS
  Peers,      \* IDs of the remote peers
  Objects,    \* identities of Peer objects; one is reused when nobody refers to it
  Handlers,   \* Serve goroutines
  Endpoints,  \* values of the sorted list of local endpoints
  None,
  Nil,        \* local endpoints that are not set
  Closed      \* a tunnel that was closed with its peer

ASSUME MeshAssumption ==
  /\ None \notin Peers \cup Objects \cup Endpoints \cup {Nil, Closed}
  /\ {Nil, Closed} \cap Endpoints = {} /\ Nil # Closed
  /\ IsFiniteSet(Peers) /\ IsFiniteSet(Objects)

VARIABLES
  table,      \* Manager.peers (and index): peer ID -> Peer object
  tunnel,     \* tunnel of an object: None, Closed, or its local endpoints
  endpoints,  \* Manager.endpoints
  routes,     \* peers that the router of the device routes to
  panicked,   \* Update has dereferenced a nil tunnel
  puller,     \* program point of Puller
  latest,     \* the routes to the peers that Update has merged
  group,      \* peers that probePeers has sent a request for
  handler,    \* program points of the Handlers
  who,        \* peer whose message a handler handles
  object,     \* Peer object that a handler has looked up
  seen,       \* cached endpoints that a handler has loaded
  isNew,      \* the handler has added the peer
  syncer      \* program point of SyncEndpoints

pull  == <<puller, latest, group>>
handle == <<handler, who, object, seen, isNew>>
meshVars == <<table, tunnel, endpoints, routes, panicked, pull, handle, syncer>>

(* Every variable stays in its domain, and a handler past its lookup has a *)
(* Peer object to work on.                                                 *)
MeshTypeOK ==
  /\ table \in [Peers -> Objects \cup {None}]
  /\ tunnel \in [Objects -> Endpoints \cup {None, Nil, Closed}]
  /\ endpoints \in Endpoints \cup {Nil}
  /\ routes \in SUBSET Peers
  /\ panicked \in BOOLEAN
  /\ puller \in {"idle", "set", "probe", "stamp"}
  /\ latest \in SUBSET Peers /\ group \in SUBSET Peers
  /\ handler \in [Handlers -> {"idle", "tunnel", "load", "store", "route"}]
  /\ who \in [Handlers -> Peers \cup {None}]
  /\ object \in [Handlers -> Objects \cup {None}]
  /\ \A h \in Handlers : handler[h] # "idle" => object[h] # None
  /\ seen \in [Handlers -> Endpoints \cup {Nil}]
  /\ isNew \in [Handlers -> BOOLEAN]
  /\ syncer \in {"idle", "iterate"}

MeshInit ==
  /\ table = [p \in Peers |-> None]
  /\ tunnel = [o \in Objects |-> None]
  /\ endpoints = Nil /\ routes = {} /\ panicked = FALSE
  /\ puller = "idle" /\ latest = {} /\ group = {}
  /\ handler = [h \in Handlers |-> "idle"]
  /\ who = [h \in Handlers |-> None]
  /\ object = [h \in Handlers |-> None]
  /\ seen = [h \in Handlers |-> Nil]
  /\ isNew = [h \in Handlers |-> FALSE]
  /\ syncer = "idle"

Known == {p \in Peers : table[p] # None}

\* An object that is in no table and that no handler works on.
Unused(o) ==
  /\ \A p \in Peers : table[p] # o
  /\ \A h \in Handlers : object[h] # o

-----------------------------------------------------------------------------
(* Update and Tick                                                         *)

\* Fault: Update may run while Tick probes the peers.
UpdateMergeFaulty(list) ==
  /\ puller \in {"idle", "stamp"} /\ ~panicked
  /\ \E new \in [list \ Known -> Objects] :
       /\ \A p \in DOMAIN new : Unused(new[p])
       /\ \A p, q \in DOMAIN new : new[p] = new[q] => p = q
       /\ table' = [p \in Peers |-> IF p \in DOMAIN new THEN new[p]
                                    ELSE IF p \in list THEN table[p] ELSE None]
       /\ LET made == {new[p] : p \in DOMAIN new}
              gone == {table[p] : p \in Known \ list}
          IN  /\ tunnel' = [o \in Objects |-> IF o \in made THEN None
                                              ELSE IF o \in gone THEN Closed ELSE tunnel[o]]
              /\ panicked' = (\E o \in gone : tunnel[o] = None)
  /\ latest' = list
  /\ puller' = "set"
  /\ UNCHANGED <<endpoints, routes, group, handle, syncer>>

\* The critical section of Update.  A peer that is known keeps its object, new
\* peers get new ones; then the objects that are no longer listed are closed,
\* which panics when one of them has no tunnel.
UpdateMerge(list) ==
  /\ puller = "idle" /\ ~panicked
  /\ \E new \in [list \ Known -> Objects] :
       /\ \A p \in DOMAIN new : Unused(new[p])
       /\ \A p, q \in DOMAIN new : new[p] = new[q] => p = q
       /\ table' = [p \in Peers |-> IF p \in DOMAIN new THEN new[p]
                                    ELSE IF p \in list THEN table[p] ELSE None]
       /\ LET made == {new[p] : p \in DOMAIN new}
              gone == {table[p] : p \in Known \ list}
          IN  /\ tunnel' = [o \in Objects |-> IF o \in made THEN None
                                              ELSE IF o \in gone THEN Closed ELSE tunnel[o]]
              /\ panicked' = (\E o \in gone : tunnel[o] = None)
  /\ latest' = list
  /\ puller' = "set"
  /\ UNCHANGED <<endpoints, routes, group, handle, syncer>>

\* router.Set, after the critical section.
UpdateRoutes ==
  /\ puller = "set" /\ ~panicked
  /\ routes' = latest
  /\ latest' = {}
  /\ puller' = "probe"
  /\ UNCHANGED <<table, tunnel, endpoints, panicked, group, handle, syncer>>

TickStart ==
  /\ puller = "idle" /\ ~panicked
  /\ puller' = "probe"
  /\ UNCHANGED <<table, tunnel, endpoints, routes, panicked, latest, group,
                 handle, syncer>>

\* probePeers: the peers that are due and whose relay server takes the request.
ProbeSend(due) ==
  /\ puller = "probe" /\ ~panicked
  /\ due \subseteq Known
  /\ group' = due
  /\ puller' = "stamp"
  /\ UNCHANGED <<table, tunnel, endpoints, routes, panicked, latest, handle, syncer>>

\* The second critical section of probePeers dereferences table entries.
ProbeStamp ==
  /\ puller = "stamp" /\ ~panicked
  /\ group' = {}
  /\ puller' = "idle"
  /\ UNCHANGED <<table, tunnel, endpoints, routes, panicked, latest, handle, syncer>>

-----------------------------------------------------------------------------
(* PeerCatchup and PeerCatchupAck, run by a handler.                       *)

\* Critical section of PeerCatchup: an unknown peer is added.
CatchupLookup(h, p, o) ==
  /\ handler[h] = "idle" /\ ~panicked
  /\ IF table[p] = None
     THEN /\ Unused(o)
          /\ table' = [table EXCEPT ![p] = o]
          /\ tunnel' = [tunnel EXCEPT ![o] = None]
     ELSE o = table[p] /\ UNCHANGED <<table, tunnel>>
  /\ handler' = [handler EXCEPT ![h] = "tunnel"]
  /\ who' = [who EXCEPT ![h] = p]
  /\ object' = [object EXCEPT ![h] = o]
  /\ isNew' = [isNew EXCEPT ![h] = table[p] = None]
  /\ UNCHANGED <<endpoints, routes, panicked, pull, seen, syncer>>

\* PeerCatchupAck ignores an unknown peer.
AckLookup(h, p) ==
  /\ handler[h] = "idle" /\ ~panicked
  /\ table[p] # None
  /\ handler' = [handler EXCEPT ![h] = "tunnel"]
  /\ who' = [who EXCEPT ![h] = p]
  /\ object' = [object EXCEPT ![h] = table[p]]
  /\ UNCHANGED <<table, tunnel, endpoints, routes, panicked, pull, seen,
                 isNew, syncer>>

\* SetTunnel, which closes the tunnel before.
SetTunnel(h) ==
  /\ handler[h] = "tunnel" /\ ~panicked
  /\ tunnel' = [tunnel EXCEPT ![object[h]] = Nil]
  /\ handler' = [handler EXCEPT ![h] = "load"]
  /\ UNCHANGED <<table, endpoints, routes, panicked, pull, who, object, seen, isNew, syncer>>

LoadEndpoints(h) ==
  /\ handler[h] = "load" /\ ~panicked
  /\ seen' = [seen EXCEPT ![h] = endpoints]
  /\ handler' = [handler EXCEPT ![h] = IF endpoints = Nil THEN "route" ELSE "store"]
  /\ UNCHANGED <<table, tunnel, endpoints, routes, panicked, pull, who,
                 object, isNew, syncer>>

\* p.Tunnel() may be the tunnel of another handler by now, or closed by Update.
StoreEndpoints(h) ==
  /\ handler[h] = "store" /\ ~panicked
  /\ tunnel' = [tunnel EXCEPT ![object[h]] = IF @ = Closed THEN Closed ELSE seen[h]]
  /\ seen' = [seen EXCEPT ![h] = Nil]
  /\ handler' = [handler EXCEPT ![h] = "route"]
  /\ UNCHANGED <<table, endpoints, routes, panicked, pull, who, object,
                 isNew, syncer>>

\* router.Add for a peer that was added; then the ack, which may fail.
AddRoute(h) ==
  /\ handler[h] = "route" /\ ~panicked
  /\ routes' = IF isNew[h] THEN routes \cup {who[h]} ELSE routes
  /\ handler' = [handler EXCEPT ![h] = "idle"]
  /\ who' = [who EXCEPT ![h] = None]
  /\ object' = [object EXCEPT ![h] = None]
  /\ isNew' = [isNew EXCEPT ![h] = FALSE]
  /\ UNCHANGED <<table, tunnel, endpoints, panicked, pull, seen, syncer>>
-----------------------------------------------------------------------------
(* SyncEndpoints                                                           *)

\* Endpoints that did not change are ignored.
SyncStore(e) ==
  /\ syncer = "idle" /\ ~panicked
  /\ e # endpoints
  /\ endpoints' = e
  /\ syncer' = "iterate"
  /\ UNCHANGED <<table, tunnel, routes, panicked, pull, handle>>

\* Fault: only the peers that the device routes to are told.
SyncIterateFaulty ==
  /\ syncer # "idle" /\ ~panicked
  /\ tunnel' = [o \in Objects |-> IF /\ \E p \in routes : table[p] = o
                                    /\ tunnel[o] # None
                                 THEN endpoints ELSE tunnel[o]]
  /\ syncer' = "idle"
  /\ UNCHANGED <<table, endpoints, routes, panicked, pull, handle>>

\* Every tunnel of the table is told; the messages to the remote peers may fail.
SyncIterate ==
  /\ syncer # "idle" /\ ~panicked
  /\ tunnel' = [o \in Objects |-> IF /\ \E p \in Peers : table[p] = o
                                    /\ tunnel[o] # None
                                 THEN endpoints ELSE tunnel[o]]
  /\ syncer' = "idle"
  /\ UNCHANGED <<table, endpoints, routes, panicked, pull, handle>>

-----------------------------------------------------------------------------
MeshNext ==
  \/ \E list \in SUBSET Peers : UpdateMerge(list)
  \/ UpdateRoutes
  \/ TickStart
  \/ \E due \in SUBSET Peers : ProbeSend(due)
  \/ ProbeStamp
  \/ \E h \in Handlers, p \in Peers :
       \/ \E o \in Objects : CatchupLookup(h, p, o)
       \/ AckLookup(h, p)
  \/ \E h \in Handlers :
       \/ SetTunnel(h)
       \/ LoadEndpoints(h)
       \/ StoreEndpoints(h)
       \/ AddRoute(h)
  \/ \E e \in Endpoints : SyncStore(e)
  \/ SyncIterate

MeshSpec == MeshInit /\ [][MeshNext]_meshVars

-----------------------------------------------------------------------------
Quiescent == /\ puller = "idle" /\ syncer = "idle"
             /\ \A h \in Handlers : handler[h] = "idle"

(* Once the node has found its endpoints, no tunnel of the table is left   *)
(* without them, whatever the order in which PeerCatchup installs the      *)
(* tunnel and reads the cache and SyncEndpoints fills the cache and visits *)
(* the table: PeerCatchup writes before it reads, SyncEndpoints too.       *)
TunnelsLearnEndpoints ==
  Quiescent /\ endpoints # Nil =>
    \A p \in Known : tunnel[table[p]] # Nil

(* The peers that probePeers has sent a request for are still in the table *)
(* when it dereferences their entries in its second critical section,      *)
(* although it released the lock in between.                               *)
ProbedStillKnown == group \subseteq Known
=============================================================================
