---------------------------- MODULE RelayManager ----------------------------
(***************************************************************************)
(* The set of relay clients of a node: internal/relay/client_manager.go.   *)
(*                                                                         *)
(* Puller is the goroutine of node/driver/pull_peers.go that calls Update  *)
(* for every new peer graph and Tick in between.  Adders are the Serve     *)
(* goroutines that run OnSyncPeer and call AddServer.  Stopper is the      *)
(* caller of Stop.  All of them run connect or Client.Close as             *)
(* subroutines; the program points of a thread are those of the            *)
(* subroutine it is in.  The consumer of the events is the goroutine of    *)
(* node/driver/events_monitor.go.                                          *)
(*                                                                         *)
(* A client is what ClientLife specifies: it dials, waits for the          *)
(* handshake, is up, and is lost when its transporter closes (a lost       *)
(* connection, its context, or Close).                                     *)
(***************************************************************************)
EXTENDS Naturals, Sequences, FiniteSets

CONSTANTS
  Servers,    \* IDs of relay servers
  None,
  Clients,    \* identities of Client objects; one is reused when nobody refers to it
  Puller, Adders, Stopper,
  Lists,      \* sets of relay servers that peer graphs may contain
  EventCap    \* capacity of Manager.events (1024 in the code)

Threads == {Puller, Stopper} \cup Adders

ASSUME ManagerAssumption ==
  /\ None \notin Servers \cup Clients \cup Adders
  /\ Puller # Stopper /\ {Puller, Stopper} \cap Adders = {}
  /\ Lists \subseteq SUBSET Servers
  /\ EventCap \in Nat \ {0}

VARIABLES
  clients,    \* Manager.clients: server -> client
  pending,    \* keys of Manager.pending
  events,     \* number of events in Manager.events
  mgrClosed,  \* Manager.closed
  wanted,     \* servers of the peer graph that Update works on or finished
  ctxDone,    \* the context of the driver is cancelled
  srv,        \* server of a client
  life,       \* "none", "hs" (dialled), "up" (hsSignal closed); the transporter is
              \* closed: "failed" (before the answer), "lost" (after it)
  ctx,        \* context a client runs under: Puller's (the driver's), that of a running
              \* AddServer, or None: one that is done
  expired,    \* threads in AddServer whose context is done
  hook,       \* clients with OnClosed registered
  closed,     \* clients with Client.closed set
  ticking,    \* Puller is in Tick
  pc, at, cl, res, todo   \* of every thread: program point, server, client,
                          \* result of connect, keys still to visit

table   == <<clients, pending>>
env     == <<wanted, ctxDone, mgrClosed>>
objects == <<srv, life, ctx, hook, closed>>
local   == <<pc, at, cl, res, todo>>
vars == <<table, env, objects, local, events, expired, ticking>>

ConnectPoints == {"load", "dial", "wait", "store", "event", "register", "ret"}
ClosePoints   == {"clSwap", "clTrs", "hkCheck", "hkEvent", "hkDelete", "hkPend"}
PCs == {"idle", "list", "prune", "prunePend", "tick", "range", "addLoad", "done"}
         \cup ConnectPoints \cup ClosePoints

Dead == {"none", "failed", "lost"}

(* Every variable stays in its domain; a thread in connect has a server, and *)
(* one that uses a client has a client; events holds at most EventCap.       *)
TypeOK ==
  /\ clients \in [Servers -> Clients \cup {None}]
  /\ pending \in SUBSET Servers
  /\ events \in 0..EventCap
  /\ wanted \in SUBSET Servers
  /\ mgrClosed \in BOOLEAN /\ ctxDone \in BOOLEAN
  /\ ticking \in BOOLEAN
  /\ srv \in [Clients -> Servers \cup {None}]
  /\ life \in [Clients -> {"hs", "up"} \cup Dead]
  /\ hook \in SUBSET Clients
  /\ closed \in SUBSET Clients
  /\ ctx \in [Clients -> {Puller, None} \cup Adders]
  /\ expired \in SUBSET Adders
  /\ pc \in [Threads -> PCs]
  /\ at \in [Threads -> Servers \cup {None}]
  /\ cl \in [Threads -> Clients \cup {None}]
  /\ res \in [Threads -> BOOLEAN]
  /\ todo \in [Threads -> SUBSET Servers]

Init ==
  /\ clients = [s \in Servers |-> None] /\ pending = {}
  /\ wanted = {} /\ ctxDone = FALSE /\ mgrClosed = FALSE
  /\ events = 0
  /\ srv = [c \in Clients |-> None]
  /\ life = [c \in Clients |-> "none"]
  /\ hook = {} /\ closed = {}
  /\ ctx = [c \in Clients |-> None]
  /\ expired = {} /\ ticking = FALSE
  /\ pc = [t \in Threads |-> "idle"]
  /\ at = [t \in Threads |-> None]
  /\ cl = [t \in Threads |-> None]
  /\ res = [t \in Threads |-> FALSE]
  /\ todo = [t \in Threads |-> {}]

Go(t, p) == pc' = [pc EXCEPT ![t] = p]

\* The context that thread t passes to connect is done.
CtxDone(t) == IF t \in Adders THEN t \in expired ELSE ctxDone

-----------------------------------------------------------------------------
(* connect, run by Puller and by the Adders for the server at[t].          *)

Return(t, r) == Go(t, "ret") /\ res' = [res EXCEPT ![t] = r]

ConnectLoad(t) ==
  /\ pc[t] = "load"
  /\ IF clients[at[t]] # None THEN Return(t, TRUE) ELSE Go(t, "dial") /\ UNCHANGED res
  /\ UNCHANGED <<table, env, objects, at, cl, todo, events, expired, ticking>>

\* A Client object that nobody refers to any more.
Unused(c) ==
  /\ life[c] \in Dead
  /\ \A s \in Servers : clients[s] # c
  /\ \A t \in Threads : cl[t] # c

\* A bad public key, or no connection.
DialFails(t) ==
  /\ pc[t] = "dial"
  /\ Return(t, FALSE)
  /\ UNCHANGED <<table, env, objects, at, cl, todo, events, expired, ticking>>

\* Fault: the client gets a context of its own.
DialFaulty(t, c) ==
  /\ pc[t] = "dial"
  /\ Unused(c)
  /\ srv' = [srv EXCEPT ![c] = at[t]]
  /\ life' = [life EXCEPT ![c] = "hs"]
  /\ ctx' = [ctx EXCEPT ![c] = Stopper]
  /\ hook' = hook \ {c} /\ closed' = closed \ {c}
  /\ cl' = [cl EXCEPT ![t] = c]
  /\ Go(t, "wait")
  /\ UNCHANGED <<table, env, at, res, todo, events, expired, ticking>>

\* NewClient, Serve in a goroutine, Dial.  net.Dial does not look at the context.
Dial(t, c) ==
  /\ pc[t] = "dial"
  /\ Unused(c)
  /\ srv' = [srv EXCEPT ![c] = at[t]]
  /\ life' = [life EXCEPT ![c] = "hs"]
  /\ ctx' = [ctx EXCEPT ![c] = IF t \in expired THEN None ELSE t]
  /\ hook' = hook \ {c} /\ closed' = closed \ {c}
  /\ cl' = [cl EXCEPT ![t] = c]
  /\ Go(t, "wait")
  /\ UNCHANGED <<table, env, at, res, todo, events, expired, ticking>>

\* Fault: Connect waits for the handshake signal only.
ConnectReturnFaulty(t) ==
  /\ pc[t] = "wait"
  /\ life[cl[t]] \in {"up", "lost"} /\ Go(t, "store") /\ UNCHANGED <<res, cl>>
  /\ UNCHANGED <<table, env, objects, at, todo, events, expired, ticking>>

\* Connect returns on the handshake signal or on the context, and on nothing else.
ConnectReturn(t) ==
  /\ pc[t] = "wait"
  /\ \/ life[cl[t]] \in {"up", "lost"} /\ Go(t, "store") /\ UNCHANGED <<res, cl>>
     \/ CtxDone(t) /\ Return(t, FALSE) /\ cl' = [cl EXCEPT ![t] = None]
  /\ UNCHANGED <<table, env, objects, at, todo, events, expired, ticking>>

ConnectStore(t) ==
  /\ pc[t] = "store"
  /\ clients' = [clients EXCEPT ![at[t]] = cl[t]]
  /\ Go(t, "event")
  /\ UNCHANGED <<pending, env, objects, at, cl, res, todo, events, expired, ticking>>

\* The send on the full channel blocks.
ConnectEvent(t) ==
  /\ pc[t] = "event"
  /\ events < EventCap
  /\ events' = events + 1
  /\ Go(t, "register")
  /\ UNCHANGED <<table, env, objects, at, cl, res, todo, expired, ticking>>

\* The callbacks for messages and OnClosed.
ConnectRegister(t) ==
  /\ pc[t] = "register"
  /\ hook' = hook \cup {cl[t]}
  /\ Return(t, TRUE)
  /\ cl' = [cl EXCEPT ![t] = None]
  /\ UNCHANGED <<table, env, srv, life, ctx, closed, at, todo, events,
                 expired, ticking>>

-----------------------------------------------------------------------------
(* The life of a client outside of the manager.                            *)

\* Serve handles the answer, also one that Read had pushed before the transporter closed.
HandshakeAnswered(c) ==
  /\ life[c] \in {"hs", "failed"}
  /\ life' = [life EXCEPT ![c] = IF @ = "hs" THEN "up" ELSE "lost"]
  /\ UNCHANGED <<table, env, local, srv, ctx, hook, closed, events, expired, ticking>>

Dies(c) ==
  /\ life[c] \in {"hs", "up"}
  /\ life' = [life EXCEPT ![c] = IF @ = "hs" THEN "failed" ELSE "lost"]
  /\ UNCHANGED <<table, env, local, srv, ctx, hook, closed, events,
                 expired, ticking>>

\* The connection breaks: Read and Write return and close the transporter.
Lose(c) == Dies(c)

\* Write returns on the context and closes the transporter.
ContextKills(c) ==
  /\ ctx[c] = None \/ (ctx[c] = Puller /\ ctxDone)
  /\ Dies(c)

Cancel ==
  /\ ~ctxDone
  /\ ctxDone' = TRUE
  /\ UNCHANGED <<table, objects, local, wanted, mgrClosed, events,
                 expired, ticking>>

\* eventsMonitor receives an event.  After the context is done it may be gone.
TakeEvent ==
  /\ events > 0
  /\ events' = events - 1
  /\ UNCHANGED <<table, env, objects, local, expired, ticking>>

-----------------------------------------------------------------------------
(* Client.Close on cl[t] and the OnClosed callback that connect registers. *)

AfterClose(t) ==
  /\ Go(t, IF t = Stopper THEN "range" ELSE "prune")
  /\ cl' = [cl EXCEPT ![t] = None]

CloseSwap(t) ==
  /\ pc[t] = "clSwap"
  /\ closed' = closed \cup {cl[t]}
  /\ IF cl[t] \in closed THEN AfterClose(t) ELSE Go(t, "clTrs") /\ UNCHANGED cl
  /\ UNCHANGED <<table, env, srv, life, ctx, hook, at, res, todo, events,
                 expired, ticking>>

\* Fault: Close calls onClosed whatever the transporter's Close says.
CloseTransporterFaulty(t) ==
  /\ pc[t] = "clTrs"
  /\ life' = [life EXCEPT ![cl[t]] = "lost"]
  /\ IF cl[t] \in hook THEN Go(t, "hkCheck") /\ UNCHANGED cl ELSE AfterClose(t)
  /\ UNCHANGED <<table, env, srv, ctx, hook, closed, at, res, todo, events,
                 expired, ticking>>

\* The error of a transporter that is closed already makes Close return before
\* onClosed.
CloseTransporter(t) ==
  /\ pc[t] = "clTrs"
  /\ life' = [life EXCEPT ![cl[t]] = "lost"]
  /\ IF life[cl[t]] # "lost" /\ cl[t] \in hook
     THEN Go(t, "hkCheck") /\ UNCHANGED cl
     ELSE AfterClose(t)
  /\ UNCHANGED <<table, env, srv, ctx, hook, closed, at, res, todo, events,
                 expired, ticking>>

HookCheck(t) ==
  /\ pc[t] = "hkCheck"
  /\ IF mgrClosed \/ clients[srv[cl[t]]] = None
     THEN AfterClose(t)
     ELSE Go(t, "hkEvent") /\ UNCHANGED cl
  /\ UNCHANGED <<table, env, objects, at, res, todo, events, expired, ticking>>

HookEvent(t) ==
  /\ pc[t] = "hkEvent"
  /\ events < EventCap
  /\ events' = events + 1
  /\ Go(t, "hkDelete")
  /\ UNCHANGED <<table, env, objects, at, cl, res, todo, expired, ticking>>

HookDelete(t) ==
  /\ pc[t] = "hkDelete"
  /\ clients' = [clients EXCEPT ![srv[cl[t]]] = None]
  /\ Go(t, "hkPend")
  /\ UNCHANGED <<pending, env, objects, at, cl, res, todo, events, expired, ticking>>

HookPend(t) ==
  /\ pc[t] = "hkPend"
  /\ pending' = pending \cup {srv[cl[t]]}
  /\ AfterClose(t)
  /\ UNCHANGED <<clients, env, objects, at, res, todo, events, expired, ticking>>

CloseStep(t) ==
  \/ CloseSwap(t) \/ CloseTransporter(t) \/ HookCheck(t) \/ HookEvent(t)
  \/ HookDelete(t) \/ HookPend(t)

-----------------------------------------------------------------------------
(* Update and Tick, run by Puller.                                         *)

\* Keys of clients.
Managed == {s \in Servers : clients[s] # None}

\* A new peer graph reaches Update.
UpdateStart(list) ==
  /\ pc[Puller] = "idle"
  /\ wanted' = list
  /\ ticking' = FALSE
  /\ todo' = [todo EXCEPT ![Puller] = list]
  /\ Go(Puller, "list")
  /\ UNCHANGED <<table, objects, ctxDone, mgrClosed, at, cl, res, events, expired>>

TickStart ==
  /\ pc[Puller] = "idle"
  /\ ticking' = TRUE
  /\ todo' = [todo EXCEPT ![Puller] = pending]
  /\ Go(Puller, "tick")
  /\ UNCHANGED <<table, env, objects, at, cl, res, events, expired>>

\* The next server of the peer graph, or the next entry that Range finds in pending.
PullerConnects(s) ==
  /\ pc[Puller] \in {"list", "tick"}
  /\ s \in todo[Puller]
  /\ todo' = [todo EXCEPT ![Puller] = @ \ {s}]
  /\ IF ticking /\ s \notin pending
     THEN UNCHANGED <<pc, at>>
     ELSE Go(Puller, "load") /\ at' = [at EXCEPT ![Puller] = s]
  /\ UNCHANGED <<table, env, objects, cl, res, events, expired, ticking>>

\* Fault: Tick drops an entry of pending whatever connect says.
PullerConnectedFaulty ==
  /\ pc[Puller] = "ret"
  /\ pending' = IF ticking THEN pending \ {at[Puller]}
                ELSE IF res[Puller] THEN pending ELSE pending \cup {at[Puller]}
  /\ Go(Puller, IF ticking THEN "tick" ELSE "list")
  /\ at' = [at EXCEPT ![Puller] = None]
  /\ res' = [res EXCEPT ![Puller] = FALSE]
  /\ UNCHANGED <<clients, env, objects, cl, todo, events, expired, ticking>>

PullerConnected ==
  /\ pc[Puller] = "ret"
  /\ pending' = CASE res[Puller] /\ ticking -> pending \ {at[Puller]}
                  [] res[Puller] /\ ~ticking -> pending
                  [] ~res[Puller] /\ ticking -> pending
                  [] ~res[Puller] /\ ~ticking -> pending \cup {at[Puller]}
  /\ Go(Puller, IF ticking THEN "tick" ELSE "list")
  /\ at' = [at EXCEPT ![Puller] = None]
  /\ res' = [res EXCEPT ![Puller] = FALSE]
  /\ UNCHANGED <<clients, env, objects, cl, todo, events, expired, ticking>>

TickDone ==
  /\ pc[Puller] = "tick" /\ todo[Puller] = {}
  /\ Go(Puller, "idle")
  /\ UNCHANGED <<table, env, objects, at, cl, res, todo, events, expired, ticking>>

PruneStart ==
  /\ pc[Puller] = "list" /\ todo[Puller] = {}
  /\ todo' = [todo EXCEPT ![Puller] = Managed]
  /\ Go(Puller, "prune")
  /\ UNCHANGED <<table, env, objects, at, cl, res, events, expired, ticking>>

\* Range visits an entry; a redundant one is deleted before it is closed.
PruneVisit(s) ==
  /\ pc[Puller] = "prune" /\ s \in todo[Puller]
  /\ todo' = [todo EXCEPT ![Puller] = @ \ {s}]
  /\ IF s \in wanted \/ clients[s] = None
     THEN UNCHANGED <<clients, pc, at, cl>>
     ELSE /\ clients' = [clients EXCEPT ![s] = None]
          /\ at' = [at EXCEPT ![Puller] = s]
          /\ cl' = [cl EXCEPT ![Puller] = clients[s]]
          /\ Go(Puller, "prunePend")
  /\ UNCHANGED <<pending, env, objects, res, events, expired, ticking>>

PrunePending ==
  /\ pc[Puller] = "prunePend"
  /\ pending' = pending \ {at[Puller]}
  /\ at' = [at EXCEPT ![Puller] = None]
  /\ Go(Puller, "clSwap")
  /\ UNCHANGED <<clients, env, objects, cl, res, todo, events, expired, ticking>>

UpdateDone ==
  /\ pc[Puller] = "prune" /\ todo[Puller] = {}
  /\ Go(Puller, "idle")
  /\ UNCHANGED <<table, env, objects, at, cl, res, todo, events, expired, ticking>>

\* The loop of pullPeerGraph ends.
PullerExit ==
  /\ pc[Puller] = "idle" /\ ctxDone
  /\ Go(Puller, "done")
  /\ UNCHANGED <<table, env, objects, at, cl, res, todo, events, expired, ticking>>

-----------------------------------------------------------------------------
(* AddServer, run by the Serve goroutine of a client that got a Catchup.   *)

AddStart(t, s) ==
  /\ pc[t] = "idle"
  /\ \E c \in hook : life[c] = "up"
  /\ at' = [at EXCEPT ![t] = s]
  /\ Go(t, "addLoad")
  /\ UNCHANGED <<table, env, objects, cl, res, todo, events, expired, ticking>>

AddLoad(t) ==
  /\ pc[t] = "addLoad"
  /\ IF clients[at[t]] # None
     THEN Go(t, "idle") /\ at' = [at EXCEPT ![t] = None]
     ELSE Go(t, "load") /\ UNCHANGED at
  /\ UNCHANGED <<table, env, objects, cl, res, todo, events, expired, ticking>>

\* The context of a running AddServer is done: so is that of the clients under it.
EndContext(t) == ctx' = [c \in Clients |-> IF ctx[c] = t THEN None ELSE ctx[c]]

\* Three seconds are over.
Timeout(t) ==
  /\ pc[t] \in ConnectPoints \ {"ret"} /\ t \notin expired
  /\ expired' = expired \cup {t}
  /\ EndContext(t)
  /\ UNCHANGED <<table, env, local, srv, life, hook, closed, events,
                 ticking>>

\* The pending list, and the deferred cancel.
AddReturn(t) ==
  /\ pc[t] = "ret"
  /\ pending' = IF res[t] THEN pending ELSE pending \cup {at[t]}
  /\ EndContext(t)
  /\ expired' = expired \ {t}
  /\ at' = [at EXCEPT ![t] = None]
  /\ res' = [res EXCEPT ![t] = FALSE]
  /\ Go(t, "idle")
  /\ UNCHANGED <<clients, env, srv, life, hook, closed, cl, todo, events, ticking>>

-----------------------------------------------------------------------------
(* Stop, called by Terminate after the context is cancelled.               *)

StopStart ==
  /\ pc[Stopper] = "idle" /\ ctxDone
  /\ mgrClosed' = TRUE
  /\ todo' = [todo EXCEPT ![Stopper] = Managed]
  /\ Go(Stopper, "range")
  /\ UNCHANGED <<table, objects, wanted, ctxDone, at, cl, res, events,
                 expired, ticking>>

StopVisit(s) ==
  /\ pc[Stopper] = "range" /\ s \in todo[Stopper]
  /\ todo' = [todo EXCEPT ![Stopper] = @ \ {s}]
  /\ IF clients[s] = None
     THEN UNCHANGED <<pc, cl>>
     ELSE Go(Stopper, "clSwap") /\ cl' = [cl EXCEPT ![Stopper] = clients[s]]
  /\ UNCHANGED <<table, env, objects, at, res, events, expired, ticking>>

StopDone ==
  /\ pc[Stopper] = "range" /\ todo[Stopper] = {}
  /\ Go(Stopper, "done")
  /\ UNCHANGED <<table, env, objects, at, cl, res, todo, events, expired, ticking>>

-----------------------------------------------------------------------------
ConnectStep(t) ==
  \/ ConnectLoad(t) \/ DialFails(t) \/ (\E c \in Clients : Dial(t, c))
  \/ ConnectReturn(t) \/ ConnectStore(t) \/ ConnectEvent(t) \/ ConnectRegister(t)

UpdateStep ==
  \/ \E s \in Servers : PullerConnects(s) \/ PruneVisit(s)
  \/ PullerConnected \/ TickDone \/ PruneStart \/ PrunePending \/ UpdateDone

AddStep(t) == AddLoad(t) \/ AddReturn(t)

StopStep == StopStart \/ (\E s \in Servers : StopVisit(s)) \/ StopDone

Next ==
  \/ \E list \in Lists : UpdateStart(list)
  \/ TickStart \/ PullerExit \/ UpdateStep \/ StopStep
  \/ \E t \in Adders : AddStep(t) \/ Timeout(t) \/ \E s \in Servers : AddStart(t, s)
  \/ \E t \in Adders \cup {Puller} : ConnectStep(t)
  \/ \E t \in {Puller, Stopper} : CloseStep(t)
  \/ \E c \in Clients : HandshakeAnswered(c) \/ Lose(c) \/ ContextKills(c)
  \/ Cancel \/ TakeEvent

Spec == Init /\ [][Next]_vars

\* The goroutines make progress, a Range and a select are fair, a context that is
\* done stops its clients, timers fire, and the events are received while the
\* driver runs.  Nothing is assumed of the network and of the peer graphs.
Fairness ==
  /\ WF_vars(TickStart) /\ SF_vars(PullerExit) /\ WF_vars(UpdateStep)
  /\ WF_vars(StopStep)
  /\ \A t \in Adders : WF_vars(AddStep(t)) /\ WF_vars(Timeout(t))
  /\ \A t \in Adders \cup {Puller} : WF_vars(ConnectStep(t))
  /\ \A t \in {Puller, Stopper} : WF_vars(CloseStep(t))
  /\ \A c \in Clients : WF_vars(ContextKills(c))
  /\ WF_vars(~ctxDone /\ TakeEvent)

FairSpec == Spec /\ Fairness

-----------------------------------------------------------------------------
(* Between two calls of Update and Tick, every relay server of the last peer *)
(* graph has a client or waits on the pending list, whatever AddServer does  *)
(* at the same time: connect, Update's fallback to pending, Tick's removal   *)
(* from pending, and the pruning never drop it from both.                    *)
ListedServed ==
  pc[Puller] = "idle" => \A s \in wanted : clients[s] # None \/ s \in pending

(* After the context is cancelled every connection ends and none comes back: *)
(* those of Update and Tick with the driver's context, those of AddServer    *)
(* with its own.                                                             *)
ShutdownKills == ctxDone ~> [](\A c \in Clients : life[c] \notin {"hs", "up"})

(* After the context is cancelled the goroutine that runs Update and Tick    *)
(* ends, so that Terminate's wait is over, unless the events channel is full *)
(* for ever.                                                                 *)
PullerStops == ctxDone ~> (pc[Puller] = "done" \/ [](events = EventCap))

-----------------------------------------------------------------------------
(* The abstract specification of the clients, and what its variables are here. *)

\* Connect has returned nil for c to the thread t, which has not registered its callbacks yet.
Holds(t, c) == pc[t] \in {"store", "event", "register"} /\ cl[t] = c

ConnectedClients == hook \cup {c \in Clients : \E t \in Threads : Holds(t, c)}

\* Some thread is at the point p of Client.Close of c.
ClosingAt(c, p) == \E t \in Threads : pc[t] = p /\ cl[t] = c

Closing(c) ==
  IF c \notin closed THEN "no"
  ELSE IF ClosingAt(c, "clTrs") THEN "swapped"
  ELSE IF ClosingAt(c, "hkCheck") THEN "calling" ELSE "done"

Client == INSTANCE ClientLife WITH
  Reused <- TRUE, connected <- ConnectedClients, closing <- [c \in Clients |-> Closing(c)]

(* The manager treats its clients as ClientLife, which RelayClient            *)
(* implements, lets their owner: whatever Update, Tick, AddServer and Stop do *)
(* at the same time, a client is closed only after its Connect returned nil,  *)
(* by one thread, and its callback runs at most once and not for a broken     *)
(* connection.                                                                *)
UsesClientLife == Client!LifeSpec
=============================================================================
