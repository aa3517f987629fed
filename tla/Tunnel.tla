------------------------------- MODULE Tunnel -------------------------------
(***************************************************************************)
(* The tunnel to a remote peer: node/mesh/tunnel/tunnel.go and endpoint.go. *)
(*                                                                         *)
(* The goroutines are: the callers of SetRemoteEndpoints, which deliver    *)
(* the endpoints that the remote peer has announced; the goroutine of      *)
(* discovery that they start; the reading goroutine of every UDP endpoint; *)
(* and the one that closes the tunnel.  The list of endpoints is an atomic *)
(* value: goroutines load it, change a copy and store the copy; the        *)
(* objects in it are shared.                                               *)
(*                                                                         *)
(* Time is abstract: an endpoint that was seen may become stale at any     *)
(* moment.  Packets may be lost.  Latencies and Write, which changes none  *)
(* of this state, are left out.                                            *)
(***************************************************************************)
EXTENDS Naturals, Sequences

CONSTANTS
  Addrs,         \* UDP addresses of the remote peer
  Announced,     \* the sets of addresses it may announce
  Endpoints,     \* identities of Endpoint objects; an unused one is reused
  Calls,         \* calls of SetRemoteEndpoints
  ChCap,         \* capacity of endpointsCh (2 in the code)
  None

ASSUME TunnelAssumption ==
  /\ None \notin Addrs \cup Announced \cup Endpoints
  /\ Announced \subseteq SUBSET Addrs
  /\ ChCap \in Nat \ {0}

VARIABLES
  disco,               \* Tunnel.disco
  closing,             \* Close: not called, closed is set, endpoints cancelled, die closed
  endpointsCh,
  endpoints,           \* Tunnel.endpoints, as a set
  addr,                \* Endpoint.address
  fresh,               \* endpoints whose lastSeen is at most two intervals old
  cancelled,           \* endpoints whose cancelFn was called
  reading,             \* endpoints whose reading goroutine runs
  snap,                \* reading goroutine: the list it is about to store, or None
  spc,                 \* program point of a call
  dpc,                 \* program point of the discovery goroutine it may start
  current,             \* discovery: currentEndpoints
  cloned, outdated     \* discovery: the list it works on, what remains in byAddress

objs   == <<addr, fresh, cancelled, reading, snap>>
finder == <<dpc, current, cloned, outdated>>
flags  == <<disco, closing>>
vars == <<flags, endpointsCh, endpoints, objs, spc, finder>>

(* Every variable stays in its domain; endpointsCh, which SetRemoteEndpoints *)
(* fills and discovery empties, holds at most its capacity; only a running   *)
(* reader is inside onDiscovery.                                             *)
TypeOK ==
  /\ disco \in BOOLEAN /\ closing \in {"no", "closed", "cancelled", "die"}
  /\ endpointsCh \in Seq(Announced) /\ Len(endpointsCh) <= ChCap
  /\ endpoints \in SUBSET Endpoints
  /\ addr \in [Endpoints -> Addrs \cup {None}]
  /\ fresh \in SUBSET Endpoints
  /\ cancelled \in SUBSET Endpoints
  /\ reading \in SUBSET Endpoints
  /\ snap \in [Endpoints -> (SUBSET Endpoints) \cup {None}]
  /\ \A e \in Endpoints : snap[e] # None => e \in reading
  /\ spc \in [Calls -> {"push", "check", "done"}]
  /\ dpc \in [Calls -> {"off", "swap", "loop", "dial", "prune"}]
  /\ current \in Announced \cup {None}
  /\ cloned \in SUBSET Endpoints /\ outdated \in SUBSET Endpoints

Init ==
  /\ disco = FALSE /\ closing = "no"
  /\ endpointsCh = <<>> /\ endpoints = {}
  /\ addr = [e \in Endpoints |-> None]
  /\ fresh = {} /\ cancelled = {} /\ reading = {}
  /\ snap = [e \in Endpoints |-> None]
  /\ spc = [s \in Calls |-> "push"]
  /\ dpc = [d \in Calls |-> "off"]
  /\ current = None /\ cloned = {} /\ outdated = {}

\* Nobody refers to the object.
Unused(e) ==
  /\ e \notin endpoints \cup reading \cup cloned \cup outdated
  /\ \A f \in Endpoints : snap[f] # None => e \notin snap[f]

\* Identities are interchangeable: a new object has any unused one.
NewEndpoint == CHOOSE e \in Endpoints : Unused(e)

-----------------------------------------------------------------------------
(* SetRemoteEndpoints                                                      *)

\* The send blocks while the channel is full.
SetPush(s, as) ==
  /\ spc[s] = "push"
  /\ Len(endpointsCh) < ChCap
  /\ endpointsCh' = Append(endpointsCh, as)
  /\ spc' = [spc EXCEPT ![s] = "check"]
  /\ UNCHANGED <<flags, endpoints, objs, finder>>

\* Fault: the goroutine of discovery is not started.
SetCheckFaulty(s) ==
  /\ spc[s] = "check"
  /\ spc' = [spc EXCEPT ![s] = "done"]
  /\ UNCHANGED <<flags, endpointsCh, endpoints, objs, finder>>

SetCheck(s) ==
  /\ spc[s] = "check"
  /\ spc' = [spc EXCEPT ![s] = "done"]
  /\ dpc' = [dpc EXCEPT ![s] = IF disco THEN @ ELSE "swap"]
  /\ UNCHANGED <<flags, endpointsCh, endpoints, objs, current, cloned, outdated>>

-----------------------------------------------------------------------------
(* discovery                                                               *)

\* Fault: what Swap returns is ignored.
DiscoSwapFaulty(d) ==
  /\ dpc[d] = "swap"
  /\ dpc' = [dpc EXCEPT ![d] = "loop"]
  /\ disco' = TRUE
  /\ UNCHANGED <<closing, endpointsCh, endpoints, objs, spc, current, cloned,
                 outdated>>

DiscoSwap(d) ==
  /\ dpc[d] = "swap"
  /\ dpc' = [dpc EXCEPT ![d] = IF disco THEN "off" ELSE "loop"]
  /\ disco' = TRUE
  /\ UNCHANGED <<closing, endpointsCh, endpoints, objs, spc, current, cloned,
                 outdated>>

DiscoReceive(d) ==
  /\ dpc[d] = "loop"
  /\ endpointsCh # <<>>
  /\ current' = Head(endpointsCh)
  /\ endpointsCh' = Tail(endpointsCh)
  /\ UNCHANGED <<flags, endpoints, objs, spc, dpc, cloned, outdated>>

\* What was not seen lately is left out, new endpoints included.
CloneEndpoints == endpoints \cap fresh

DiscoTick(d) ==
  /\ dpc[d] = "loop"
  /\ current \notin {None, {}}
  /\ cloned' = CloneEndpoints
  /\ dpc' = [dpc EXCEPT ![d] = "dial"]
  /\ UNCHANGED <<flags, endpointsCh, endpoints, objs, spc, current, outdated>>

\* The endpoint object in which newEndpoint and serve have been called.
Serve(e, a, seen) ==
  /\ addr' = [addr EXCEPT ![e] = a]
  /\ fresh' = IF seen THEN fresh \cup {e} ELSE fresh \ {e}
  /\ cancelled' = cancelled \ {e}
  /\ reading' = reading \cup {e}

\* An address without an endpoint is dialled; the dial may fail.
DiscoDial(d, a) ==
  /\ dpc[d] = "dial"
  /\ a \in current /\ \A f \in cloned : addr[f] # a
  /\ \E e \in Endpoints : Unused(e)
  /\ Serve(NewEndpoint, a, FALSE)
  /\ cloned' = cloned \cup {NewEndpoint}
  /\ UNCHANGED <<flags, endpointsCh, endpoints, snap, spc, dpc, current, outdated>>

\* The remains of byAddress: for each address that is no longer announced, one
\* of the endpoints that have it.
Remains(S) ==
  /\ S \subseteq {e \in cloned : addr[e] \notin current}
  /\ {addr[e] : e \in S} = {addr[e] : e \in cloned} \ current
  /\ \A e, f \in S : addr[e] = addr[f] => e = f

\* Discovery packets were sent to all current endpoints; the list is stored,
\* with the outdated endpoints.
DiscoStore(d) ==
  /\ dpc[d] = "dial"
  /\ endpoints' = cloned
  /\ outdated' \in {S \in SUBSET cloned : Remains(S)}
  /\ cloned' = {}
  /\ dpc' = [dpc EXCEPT ![d] = "prune"]
  /\ UNCHANGED <<flags, endpointsCh, objs, spc, current>>

DiscoPrune(d) ==
  /\ dpc[d] = "prune"
  /\ cancelled' = cancelled \cup outdated
  /\ outdated' = {}
  /\ dpc' = [dpc EXCEPT ![d] = "loop"]
  /\ UNCHANGED <<flags, endpointsCh, endpoints, addr, fresh, reading,
                 snap, spc, current, cloned>>

\* The goroutine returns; its deferred call resets disco.
DiscoDie(d) ==
  /\ dpc[d] = "loop" /\ closing = "die"
  /\ dpc' = [dpc EXCEPT ![d] = "off"]
  /\ disco' = FALSE
  /\ current' = None
  /\ UNCHANGED <<closing, endpointsCh, endpoints, objs, spc, cloned, outdated>>
-----------------------------------------------------------------------------
(* The goroutines of an endpoint                                           *)

\* serveRead looks at its context between two packets.
ReadNext(e) == reading' = IF e \in cancelled THEN reading \ {e} ELSE reading

\* A packet that is not a discovery, or a discovery that meets an empty list.
ReadOther(e) ==
  /\ e \in reading /\ snap[e] = None /\ e \in cancelled
  /\ ReadNext(e)
  /\ UNCHANGED <<flags, endpointsCh, endpoints, addr, fresh, cancelled, snap, spc, finder>>

\* onDiscovery finds an endpoint with the address.
OnDiscoveryFound(e, f) ==
  /\ e \in reading /\ snap[e] = None
  /\ f \in endpoints /\ addr[f] = addr[e]
  /\ fresh' = fresh \cup {f}
  /\ ReadNext(e)
  /\ UNCHANGED <<flags, endpointsCh, endpoints, addr, cancelled, snap,
                 spc, finder>>

\* onDiscovery finds none: it makes a second endpoint of the connection.
OnDiscoveryNew(e) ==
  /\ e \in reading /\ snap[e] = None
  /\ endpoints # {} /\ \A g \in endpoints : addr[g] # addr[e]
  /\ \E f \in Endpoints : Unused(f)
  /\ Serve(NewEndpoint, addr[e], TRUE)
  /\ snap' = [snap EXCEPT ![e] = endpoints \cup {NewEndpoint}]
  /\ UNCHANGED <<flags, endpointsCh, endpoints, spc, finder>>

OnDiscoveryStore(e) ==
  /\ snap[e] # None
  /\ endpoints' = snap[e]
  /\ snap' = [snap EXCEPT ![e] = None]
  /\ ReadNext(e)
  /\ UNCHANGED <<flags, endpointsCh, addr, fresh, cancelled, spc,
                 finder>>

\* Nothing was received from the endpoint for twice the discovery interval.
Age(e) ==
  /\ e \in fresh
  /\ fresh' = fresh \ {e}
  /\ UNCHANGED <<flags, endpointsCh, endpoints, addr, cancelled, reading,
                 snap, spc, finder>>

-----------------------------------------------------------------------------
(* Close                                                                   *)

CloseSwap ==
  /\ closing = "no"
  /\ closing' = "closed"
  /\ UNCHANGED <<disco, endpointsCh, endpoints, objs, spc, finder>>

CloseCancel ==
  /\ closing = "closed"
  /\ closing' = "cancelled"
  /\ cancelled' = cancelled \cup endpoints
  /\ UNCHANGED <<disco, endpointsCh, endpoints, addr, fresh, reading,
                 snap, spc, finder>>

CloseDie ==
  /\ closing = "cancelled"
  /\ closing' = "die"
  /\ UNCHANGED <<disco, endpointsCh, endpoints, objs, spc, finder>>

-----------------------------------------------------------------------------
Set(s) == SetCheck(s) \/ \E as \in Announced : SetPush(s, as)

\* What discovery does outside its select statement.
DiscoBody(d) == DiscoSwap(d) \/ DiscoStore(d) \/ DiscoPrune(d)

Discovery(d) ==
  \/ DiscoBody(d)
  \/ DiscoReceive(d)
  \/ DiscoTick(d)
  \/ \E a \in Addrs : DiscoDial(d, a)
  \/ DiscoDie(d)

Endpoint(e) ==
  \/ ReadOther(e)
  \/ \E f \in Endpoints : OnDiscoveryFound(e, f)
  \/ OnDiscoveryNew(e)
  \/ OnDiscoveryStore(e)
  \/ Age(e)

Close == CloseSwap \/ CloseCancel \/ CloseDie

Next ==
  \/ \E s \in Calls : Set(s)
  \/ \E d \in Calls : Discovery(d)
  \/ \E e \in Endpoints : Endpoint(e)
  \/ Close

(* The scheduler runs every goroutine that can run.  The select of discovery *)
(* picks among the ready cases at random, and its timer is set to 30 seconds *)
(* by every tick, so a waiting announcement is not overlooked for ever: this *)
(* is strong fairness of the receiving case.  No packet has to arrive, no    *)
(* tunnel has to be closed and no dial has to succeed.                       *)
Fairness ==
  /\ \A s \in Calls : WF_vars(SetCheck(s))
  /\ \A d \in Calls : WF_vars(DiscoBody(d)) /\ SF_vars(DiscoReceive(d))

Spec == Init /\ [][Next]_vars /\ Fairness

-----------------------------------------------------------------------------
(* At most one goroutine is in the loop of discovery, and then disco is set, *)
(* whatever the order in which SetRemoteEndpoints reads disco, starts        *)
(* goroutines and these swap the flag; so the local state of discovery is    *)
(* that of one goroutine.                                                    *)
OneDiscovery ==
  LET running == {d \in Calls : dpc[d] \in {"loop", "dial", "prune"}}
  IN /\ \A c, d \in running : c = d
     /\ disco <=> running # {}

(* An announcement in endpointsCh becomes the list that discovery works on,  *)
(* unless the tunnel is closed: SetRemoteEndpoints, which reads disco after  *)
(* its send, never leaves one behind without a goroutine to receive it.      *)
AnnouncementUsed ==
  \A as \in Announced :
    (\E i \in 1..Len(endpointsCh) : endpointsCh[i] = as) ~> (current = as \/ closing # "no")
=============================================================================
