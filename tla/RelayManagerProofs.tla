------------------------- MODULE RelayManagerProofs -------------------------
(* No relay server of the peer graph is forgotten, every client is used as   *)
(* ClientLife allows, and none is left with a context that nobody ends, for  *)
(* any number of relay servers, clients and goroutines that add servers.     *)
EXTENDS RelayManager, TLAPS

Connectors == Adders \cup {Puller}

\* Which program points a thread may be at.
Points ==
  /\ pc[Puller] \in {"idle", "list", "tick", "prune", "prunePend", "done"}
                       \cup ConnectPoints \cup ClosePoints
  /\ pc[Stopper] \in {"idle", "range", "clSwap", "clTrs", "hkCheck", "done"}
  /\ \A t \in Adders : pc[t] \in {"idle", "addLoad"} \cup ConnectPoints

\* An entry of clients belongs to its key, and a client in use has a server.
Keyed ==
  /\ \A s \in Servers : clients[s] # None => srv[clients[s]] = s
  /\ \A t \in Threads : cl[t] # None => srv[cl[t]] \in Servers

\* A thread that works on a server or a client has one; connect works on a client of at[t].
Equipped ==
  /\ \A t \in Connectors :
       /\ pc[t] \in ConnectPoints => at[t] \in Servers
       /\ pc[t] \in {"wait", "store", "event", "register"} => cl[t] \in Clients
       /\ pc[t] \in {"wait", "store"} => srv[cl[t]] = at[t]
  /\ \A t \in Adders : pc[t] = "addLoad" => at[t] \in Servers
  /\ pc[Puller] = "prunePend" => at[Puller] \in Servers /\ cl[Puller] \in Clients
  /\ \A t \in {Puller, Stopper} : pc[t] \in ClosePoints => cl[t] \in Clients

\* Stop runs with Manager.closed set, so that its callbacks change nothing.
StopsClosed == pc[Stopper] # "idle" => mgrClosed

\* Pruning and the callback that it runs into only touch servers that are not wanted.
PrunesUnwanted ==
  /\ pc[Puller] = "prunePend" => at[Puller] \notin wanted /\ srv[cl[Puller]] = at[Puller]
  /\ pc[Puller] \in ClosePoints => srv[cl[Puller]] \notin wanted

\* What Puller knows of the server that it connects to.
Connected ==
  \/ pc[Puller] \in {"event", "register"}
  \/ pc[Puller] = "ret" /\ res[Puller]
  => clients[at[Puller]] # None

\* The loop that Puller is in.
Loops ==
  /\ pc[Puller] = "tick" => ticking
  /\ pc[Puller] \in {"list", "prune", "prunePend"} \cup ClosePoints => ~ticking

\* A wanted server is served, or Update has not done with it yet.
Served(s) == clients[s] # None \/ s \in pending

Ahead(s) ==
  /\ ~ticking
  /\ \/ pc[Puller] \in {"list"} \cup ConnectPoints /\ s \in todo[Puller]
     \/ pc[Puller] \in ConnectPoints /\ s = at[Puller]

WantedServed == \A s \in wanted : Served(s) \/ Ahead(s)

IInv ==
  /\ TypeOK /\ Points /\ Keyed /\ Equipped /\ StopsClosed /\ PrunesUnwanted
  /\ Connected /\ Loops /\ WantedServed

\* connect returns at once for a server that has a client, which is what Connected asks of a
\* result of TRUE.
LEMMA ConnectLoadIInv ==
  ASSUME IInv, NEW t \in Connectors, ConnectLoad(t)
  PROVE  IInv'
<1> USE DEF IInv, ConnectLoad, Go
<1>1. TypeOK'
  <2>1. /\ pc' \in [Threads -> PCs]
        /\ UNCHANGED <<table, env, objects, at, cl, todo, events, expired, ticking>>
    BY Zenon DEF Return, TypeOK, PCs, ConnectPoints
  <2>2. res' \in [Threads -> BOOLEAN]
    BY Zenon DEF Return, TypeOK
  <2> QED
    BY Zenon, <2>1, <2>2 DEF TypeOK, table, env, objects
<1>2. Points'
  BY ManagerAssumption DEF Points, TypeOK, Threads, ConnectPoints, Return
<1>3. Keyed'
  BY Zenon DEF Keyed, table, objects
<1>4. Equipped'
  BY ManagerAssumption DEF Equipped, objects, TypeOK, Threads, Connectors, ClosePoints, Return, Points
<1>5. StopsClosed'
  BY ManagerAssumption DEF StopsClosed, env, TypeOK, Threads, Return
<1>6. PrunesUnwanted'
  BY ManagerAssumption DEF PrunesUnwanted, env, objects, TypeOK, Threads, ClosePoints, Return
<1>7. Connected'
  BY Zenon DEF Connected, table, TypeOK, Threads, Return
<1>8. Loops'
  BY ManagerAssumption DEF Loops, TypeOK, Threads, ClosePoints, Return
<1>9. WantedServed'
  BY ManagerAssumption DEF WantedServed, Served, Ahead, table, env, TypeOK, Threads, ConnectPoints, Return
<1> QED
  BY Zenon, <1>1, <1>2, <1>3, <1>4, <1>5, <1>6, <1>7, <1>8, <1>9

\* connect gives up; its caller still has the server in hand.
LEMMA DialFailsIInv ==
  ASSUME IInv, NEW t \in Connectors, DialFails(t)
  PROVE  IInv'
<1> USE DEF IInv, DialFails, Go
<1>1. TypeOK'
  BY ZenonT(30) DEF TypeOK, table, env, objects, PCs, ConnectPoints, Return
<1>2. Points'
  BY Zenon, ManagerAssumption DEF Points, ConnectPoints, Return, TypeOK, Threads
<1>3. Keyed'
  BY Zenon DEF Keyed, table, objects
<1>4. Equipped'
  BY ManagerAssumption DEF Equipped, objects, TypeOK, Threads, ClosePoints, Return, Points
<1>5. StopsClosed'
  BY Zenon, ManagerAssumption DEF StopsClosed, env, Return, TypeOK, Threads
<1>6. PrunesUnwanted'
  BY Zenon, ManagerAssumption DEF PrunesUnwanted, env, objects, ClosePoints, Return, TypeOK, Threads
<1>7. Connected'
  BY DEF Connected, table, TypeOK, Return
<1>8. Loops'
  BY Zenon, ManagerAssumption DEF Loops, ClosePoints, Return, TypeOK, Threads
<1>9. WantedServed'
  BY Zenon, ManagerAssumption DEF WantedServed, Served, Ahead, table, env, ConnectPoints, Return, TypeOK, Threads
<1> QED
  BY Zenon, <1>1, <1>2, <1>3, <1>4, <1>5, <1>6, <1>7, <1>8, <1>9

\* connect makes a client for the server in hand: an object that no table and no thread refers
\* to, so that Keyed is not disturbed.
LEMMA DialIInv ==
  ASSUME IInv, NEW t \in Connectors, NEW c \in Clients, Dial(t, c)
  PROVE  IInv'
<1> USE DEF IInv, Dial, Go
<1>1. TypeOK'
  BY Zenon DEF TypeOK, table, env, PCs, ConnectPoints, Connectors, Threads
<1>2. Points'
  BY Zenon, ManagerAssumption DEF Points, ConnectPoints, TypeOK, Threads
<1>3. Keyed'
  BY DEF Keyed, table, TypeOK, ConnectPoints, Unused, Equipped
<1>4. Equipped'
  BY ManagerAssumption DEF Equipped, TypeOK, Threads, Connectors, ConnectPoints, Unused
<1>5. StopsClosed' /\ Connected'
  BY Zenon, ManagerAssumption DEF StopsClosed, Connected, env, table, TypeOK, Threads
<1>6. PrunesUnwanted'
  BY ManagerAssumption DEF PrunesUnwanted, env, Threads, ClosePoints, Unused, TypeOK
<1>7. Loops'
  BY Zenon, ManagerAssumption DEF Loops, ClosePoints, TypeOK, Threads
<1>8. WantedServed'
  BY Zenon, ManagerAssumption DEF WantedServed, Served, Ahead, table, env, ConnectPoints, TypeOK, Threads
<1> QED
  BY Zenon, <1>1, <1>2, <1>3, <1>4, <1>5, <1>6, <1>7, <1>8

\* connect goes on with the answer of the server or gives up with its context.
LEMMA ConnectReturnIInv ==
  ASSUME IInv, NEW t \in Connectors, ConnectReturn(t)
  PROVE  IInv'
<1> USE DEF IInv, ConnectReturn, Go
<1>1. TypeOK'
  <2>1. /\ pc' \in [Threads -> PCs]
        /\ UNCHANGED <<table, env, objects, at, todo, events, expired, ticking>>
    BY Zenon DEF Return, TypeOK, PCs, ConnectPoints
  <2>2. res' \in [Threads -> BOOLEAN]
    BY Zenon DEF Return, TypeOK
  <2>3. cl' \in [Threads -> Clients \cup {None}]
    BY ZenonT(30) DEF TypeOK
  <2> QED
    BY Zenon, <2>1, <2>2, <2>3 DEF TypeOK, table, env, objects
<1>2. Points'
  BY ManagerAssumption DEF Points, TypeOK, Threads, ConnectPoints, Return
<1>3. Keyed'
  BY ZenonT(30) DEF Keyed, table, objects, TypeOK
<1>4. Equipped'
  BY ManagerAssumption DEF Equipped, objects, TypeOK, Threads, Connectors, ClosePoints, Return, Points
<1>5. StopsClosed'
  BY ManagerAssumption DEF StopsClosed, env, TypeOK, Threads, Return
<1>6. PrunesUnwanted'
  BY ManagerAssumption DEF PrunesUnwanted, env, objects, TypeOK, Threads, ClosePoints, Return
<1>7. Connected'
  BY Zenon DEF Connected, table, TypeOK, Threads, Return
<1>8. Loops'
  BY ManagerAssumption DEF Loops, TypeOK, Threads, ClosePoints, Return
<1>9. WantedServed'
  BY ManagerAssumption DEF WantedServed, Served, Ahead, table, env, TypeOK, Threads, ConnectPoints, Return
<1> QED
  BY Zenon, <1>1, <1>2, <1>3, <1>4, <1>5, <1>6, <1>7, <1>8, <1>9

\* connect enters its client under the server that it was made for.
LEMMA ConnectStoreIInv ==
  ASSUME IInv, NEW t \in Connectors, ConnectStore(t)
  PROVE  IInv'
<1> USE DEF IInv, ConnectStore, Go
<1>1. TypeOK'
  BY ZenonT(30) DEF TypeOK, env, objects, PCs, ConnectPoints, Connectors, Threads
<1>2. Points'
  BY Zenon, ManagerAssumption DEF Points, ConnectPoints, TypeOK, Threads
<1>3. Keyed'
  BY DEF Keyed, objects, Equipped
<1>4. Equipped'
  BY ManagerAssumption DEF Equipped, objects, TypeOK, Keyed, Threads
<1>5. StopsClosed'
  BY Zenon, ManagerAssumption DEF StopsClosed, env, TypeOK, Threads
<1>6. PrunesUnwanted'
  BY Zenon, ManagerAssumption DEF PrunesUnwanted, env, objects, ClosePoints, TypeOK, Threads
<1>7. Connected'
  BY ManagerAssumption DEF Connected, TypeOK, ConnectPoints, Equipped
<1>8. Loops'
  BY Zenon, ManagerAssumption DEF Loops, ClosePoints, TypeOK, Threads
<1>9. WantedServed'
  BY ManagerAssumption DEF WantedServed, Served, Ahead, env, ConnectPoints, Equipped, TypeOK, Threads
<1> QED
  BY Zenon, <1>1, <1>2, <1>3, <1>4, <1>5, <1>6, <1>7, <1>8, <1>9

\* connect reports the connection, within the capacity of events.
LEMMA ConnectEventIInv ==
  ASSUME IInv, NEW t \in Connectors, ConnectEvent(t)
  PROVE  IInv'
<1> USE DEF IInv, ConnectEvent, Go
<1>1. TypeOK'
  BY ManagerAssumption DEF TypeOK, table, env, objects, PCs, ConnectPoints, Connectors, Threads
<1>2. Points'
  BY Zenon, ManagerAssumption DEF Points, ConnectPoints, TypeOK, Threads
<1>3. Keyed' /\ StopsClosed' /\ Connected'
  BY Zenon, ManagerAssumption DEF Keyed, StopsClosed, Connected, table, objects, env, TypeOK, Threads
<1>4. Equipped'
  BY ManagerAssumption DEF Equipped, objects, ConnectPoints, TypeOK, Threads
<1>5. PrunesUnwanted'
  BY Zenon, ManagerAssumption DEF PrunesUnwanted, env, objects, ClosePoints, TypeOK, Threads
<1>6. Loops'
  BY Zenon, ManagerAssumption DEF Loops, ClosePoints, TypeOK, Threads
<1>7. WantedServed'
  BY Zenon, ManagerAssumption DEF WantedServed, Served, Ahead, table, env, ConnectPoints, TypeOK, Threads
<1> QED
  BY Zenon, <1>1, <1>2, <1>3, <1>4, <1>5, <1>6, <1>7

\* connect registers OnClosed and returns with the entry in place.
LEMMA ConnectRegisterIInv ==
  ASSUME IInv, NEW t \in Connectors, ConnectRegister(t)
  PROVE  IInv'
<1> USE DEF IInv, ConnectRegister, Go
<1>1. TypeOK'
  BY ZenonT(30) DEF TypeOK, table, env, PCs, ConnectPoints, Equipped, Return
<1>2. Points'
  BY Zenon, ManagerAssumption DEF Points, ConnectPoints, Return, TypeOK, Threads
<1>3. Keyed'
  BY DEF Keyed, table
<1>4. Equipped'
  BY ManagerAssumption DEF Equipped, TypeOK, Threads, ClosePoints, Return, Points
<1>5. StopsClosed'
  BY Zenon, ManagerAssumption DEF StopsClosed, env, Return, TypeOK, Threads
<1>6. PrunesUnwanted'
  BY Zenon, ManagerAssumption DEF PrunesUnwanted, env, ClosePoints, Return, TypeOK, Threads
<1>7. Connected'
  BY DEF Connected, table, Return
<1>8. Loops'
  BY Zenon, ManagerAssumption DEF Loops, ClosePoints, Return, TypeOK, Threads
<1>9. WantedServed'
  BY Zenon, ManagerAssumption DEF WantedServed, Served, Ahead, table, env, ConnectPoints, Return, TypeOK, Threads
<1> QED
  BY Zenon, <1>1, <1>2, <1>3, <1>4, <1>5, <1>6, <1>7, <1>8, <1>9

\* Close is entered; a client closed before needs no more.
LEMMA CloseSwapIInv ==
  ASSUME IInv, NEW t \in {Puller, Stopper}, CloseSwap(t)
  PROVE  IInv'
<1> USE DEF IInv, CloseSwap, Go
<1>1. TypeOK'
  BY DEF TypeOK, table, env, PCs, ClosePoints, Equipped, AfterClose
<1>2. Points'
  BY ManagerAssumption DEF Points, TypeOK, Threads, ClosePoints, AfterClose
<1>3. Keyed'
  BY Zenon DEF Keyed, table, TypeOK, AfterClose
<1>4. Equipped'
  BY ManagerAssumption DEF Equipped, TypeOK, Threads, Connectors, ConnectPoints, ClosePoints, AfterClose
<1>5. StopsClosed'
  BY ManagerAssumption DEF StopsClosed, env, TypeOK, Threads, AfterClose
<1>6. PrunesUnwanted'
  BY ManagerAssumption DEF PrunesUnwanted, env, TypeOK, Threads, ClosePoints, AfterClose
<1>7. Connected'
  BY Zenon DEF Connected, table, TypeOK, Threads, AfterClose
<1>8. Loops'
  BY ManagerAssumption DEF Loops, TypeOK, Threads, ConnectPoints, AfterClose, Points
<1>9. WantedServed'
  BY ManagerAssumption DEF WantedServed, Served, Ahead, table, env, TypeOK, Threads, ConnectPoints, AfterClose
<1> QED
  BY Zenon, <1>1, <1>2, <1>3, <1>4, <1>5, <1>6, <1>7, <1>8, <1>9

\* Close goes on to the callback or is over.
LEMMA CloseTransporterIInv ==
  ASSUME IInv, NEW t \in {Puller, Stopper}, CloseTransporter(t)
  PROVE  IInv'
<1> USE DEF IInv, CloseTransporter, Go
<1>1. TypeOK'
  BY Zenon DEF TypeOK, table, env, PCs, ClosePoints, Equipped, Dead, AfterClose
<1>2. Points'
  BY ManagerAssumption DEF Points, TypeOK, Threads, ClosePoints, AfterClose
<1>3. Keyed'
  BY Zenon DEF Keyed, table, TypeOK, AfterClose
<1>4. Equipped'
  BY ManagerAssumption DEF Equipped, TypeOK, Threads, Connectors, ConnectPoints, ClosePoints, AfterClose
<1>5. StopsClosed'
  BY ManagerAssumption DEF StopsClosed, env, TypeOK, Threads, AfterClose
<1>6. PrunesUnwanted'
  BY ManagerAssumption DEF PrunesUnwanted, env, TypeOK, Threads, ClosePoints, AfterClose
<1>7. Connected'
  BY Zenon DEF Connected, table, TypeOK, Threads, AfterClose
<1>8. Loops'
  BY ManagerAssumption DEF Loops, TypeOK, Threads, ConnectPoints, AfterClose, Points
<1>9. WantedServed'
  BY ManagerAssumption DEF WantedServed, Served, Ahead, table, env, TypeOK, Threads, ConnectPoints, AfterClose
<1> QED
  BY Zenon, <1>1, <1>2, <1>3, <1>4, <1>5, <1>6, <1>7, <1>8, <1>9

\* The callback ends here under Stop, which has set Manager.closed.
LEMMA HookCheckIInv ==
  ASSUME IInv, NEW t \in {Puller, Stopper}, HookCheck(t)
  PROVE  IInv'
<1> USE DEF IInv, HookCheck, Go
<1>1. TypeOK'
  BY Zenon DEF TypeOK, table, env, objects, PCs, ClosePoints, AfterClose
<1>2. Points'
  BY ManagerAssumption DEF Points, TypeOK, Threads, ClosePoints, AfterClose, StopsClosed
<1>3. Keyed'
  BY Zenon DEF Keyed, table, objects, TypeOK, AfterClose
<1>4. Equipped'
  BY ManagerAssumption DEF Equipped, objects, TypeOK, Threads, Connectors, ConnectPoints, ClosePoints, AfterClose
<1>5. StopsClosed'
  BY ManagerAssumption DEF StopsClosed, env, TypeOK, Threads, AfterClose
<1>6. PrunesUnwanted'
  BY ManagerAssumption DEF PrunesUnwanted, env, objects, TypeOK, Threads, ClosePoints, AfterClose
<1>7. Connected'
  BY Zenon DEF Connected, table, TypeOK, Threads, AfterClose
<1>8. Loops'
  BY ManagerAssumption DEF Loops, TypeOK, Threads, ConnectPoints, AfterClose, Points
<1>9. WantedServed'
  BY ManagerAssumption DEF WantedServed, Served, Ahead, table, env, TypeOK, Threads, ConnectPoints, AfterClose
<1> QED
  BY Zenon, <1>1, <1>2, <1>3, <1>4, <1>5, <1>6, <1>7, <1>8, <1>9

\* The callback of a pruned client reports it.
LEMMA HookEventIInv ==
  ASSUME IInv, NEW t \in {Puller, Stopper}, HookEvent(t)
  PROVE  IInv'
<1> USE DEF IInv, HookEvent, Go
<1>1. TypeOK'
  BY ManagerAssumption DEF TypeOK, table, env, objects, PCs, ClosePoints, Threads
<1>2. Points'
  BY Zenon, ManagerAssumption DEF Points, ClosePoints, TypeOK, Threads
<1>3. Keyed' /\ StopsClosed' /\ Connected'
  BY Zenon, ManagerAssumption DEF Keyed, StopsClosed, Connected, table, objects, env, TypeOK, Threads
<1>4. Equipped'
  BY ManagerAssumption DEF Equipped, objects, ConnectPoints, Points, TypeOK, Threads
<1>5. PrunesUnwanted'
  BY Zenon, ManagerAssumption DEF PrunesUnwanted, env, objects, ConnectPoints, Points, TypeOK, Threads
<1>6. Loops'
  BY Zenon, ManagerAssumption DEF Loops, ConnectPoints, Points, TypeOK, Threads
<1>7. WantedServed'
  BY Zenon, ManagerAssumption DEF WantedServed, Served, Ahead, table, env, ConnectPoints, TypeOK, Threads
<1> QED
  BY Zenon, <1>1, <1>2, <1>3, <1>4, <1>5, <1>6, <1>7

\* The callback of a pruned client deletes an entry, but that of a server that nobody wants.
LEMMA HookDeleteIInv ==
  ASSUME IInv, NEW t \in {Puller, Stopper}, HookDelete(t)
  PROVE  IInv'
<1> USE DEF IInv, HookDelete, Go
<1>1. TypeOK'
  BY ZenonT(30) DEF TypeOK, env, objects, PCs, ClosePoints
<1>2. Points'
  BY Zenon, ManagerAssumption DEF Points, ClosePoints, TypeOK, Threads
<1>3. Keyed' /\ StopsClosed'
  BY ManagerAssumption DEF Keyed, StopsClosed, objects, env, TypeOK, Threads
<1>4. Equipped'
  BY ManagerAssumption DEF Equipped, objects, ConnectPoints, Points, TypeOK, Threads
<1>5. PrunesUnwanted'
  BY Zenon, ManagerAssumption DEF PrunesUnwanted, env, objects, ConnectPoints, Points, TypeOK, Threads
<1>6. Connected'
  BY Zenon DEF Connected, Points, TypeOK, Threads
<1>7. Loops'
  BY Zenon, ManagerAssumption DEF Loops, ConnectPoints, Points, TypeOK, Threads
<1>8. WantedServed'
  BY ManagerAssumption DEF WantedServed, Served, Ahead, env, ConnectPoints, PrunesUnwanted, Points, TypeOK, Threads
<1> QED
  BY Zenon, <1>1, <1>2, <1>3, <1>4, <1>5, <1>6, <1>7, <1>8

\* The callback of a pruned client only adds to the pending list.
LEMMA HookPendIInv ==
  ASSUME IInv, NEW t \in {Puller, Stopper}, HookPend(t)
  PROVE  IInv'
<1> USE DEF IInv, HookPend, Go
<1>1. TypeOK'
  BY ManagerAssumption DEF TypeOK, env, objects, PCs, ConnectPoints, Threads, Equipped, Keyed,
     AfterClose
<1>2. Points'
  BY Zenon, ManagerAssumption DEF Points, AfterClose, TypeOK, Threads
<1>3. Keyed'
  BY DEF Keyed, objects, AfterClose
<1>4. Equipped'
  BY ManagerAssumption DEF Equipped, objects, TypeOK, ConnectPoints, ClosePoints, AfterClose, Threads
<1>5. StopsClosed'
  BY Zenon, ManagerAssumption DEF StopsClosed, env, AfterClose, TypeOK, Threads
<1>6. PrunesUnwanted'
  BY Zenon, ManagerAssumption DEF PrunesUnwanted, env, objects, TypeOK, ClosePoints, AfterClose, Threads
<1>7. Connected'
  BY Zenon DEF Connected, AfterClose, TypeOK, Threads
<1>8. Loops'
  BY Zenon, ManagerAssumption DEF Loops, ConnectPoints, AfterClose, Points, TypeOK, Threads
<1>9. WantedServed'
  BY Zenon, ManagerAssumption DEF WantedServed, Served, Ahead, env, ConnectPoints, AfterClose, TypeOK, Threads
<1> QED
  BY Zenon, <1>1, <1>2, <1>3, <1>4, <1>5, <1>6, <1>7, <1>8, <1>9

\* With a new peer graph all servers of it are ahead.
LEMMA UpdateStartIInv ==
  ASSUME IInv, NEW list \in Lists, UpdateStart(list)
  PROVE  IInv'
<1> USE DEF IInv, UpdateStart, Go
<1>1. TypeOK'
  BY ZenonT(30), ManagerAssumption DEF TypeOK, table, objects, PCs
<1>2. Points'
  BY Zenon, ManagerAssumption DEF Points, TypeOK, Threads
<1>3. Keyed' /\ Connected' /\ Loops'
  BY Zenon, ManagerAssumption DEF Keyed, Connected, Loops, table, objects, TypeOK, Threads
<1>4. Equipped'
  BY ManagerAssumption DEF Equipped, objects, ConnectPoints, ClosePoints, TypeOK, Threads
<1>5. StopsClosed'
  BY Zenon, ManagerAssumption DEF StopsClosed, TypeOK, Threads
<1>6. PrunesUnwanted'
  BY Zenon, ManagerAssumption DEF PrunesUnwanted, ClosePoints, TypeOK, Threads
<1>7. WantedServed'
  BY Zenon, ManagerAssumption DEF WantedServed, Served, Ahead, table, TypeOK, Threads
<1> QED
  BY Zenon, <1>1, <1>2, <1>3, <1>4, <1>5, <1>6, <1>7

\* Tick starts when no wanted server is ahead any more.
LEMMA TickStartIInv ==
  ASSUME IInv, TickStart
  PROVE  IInv'
<1> USE DEF IInv, TickStart, Go
<1>1. TypeOK'
  BY ZenonT(30) DEF TypeOK, table, env, objects, PCs
<1>2. Points'
  BY Zenon, ManagerAssumption DEF Points, TypeOK, Threads
<1>3. Keyed' /\ Connected'
  <2>1. Keyed'  BY Zenon DEF Keyed, table, objects
  <2>2. Connected'  BY Zenon DEF Connected, table, objects, TypeOK
  <2> QED  BY Zenon, <2>1, <2>2
<1>4. Equipped'
  BY ManagerAssumption DEF Equipped, objects, ConnectPoints, ClosePoints, TypeOK, Threads
<1>5. StopsClosed'
  BY Zenon, ManagerAssumption DEF StopsClosed, env, TypeOK, Threads
<1>6. PrunesUnwanted'
  BY Zenon, ManagerAssumption DEF PrunesUnwanted, env, ClosePoints, TypeOK, Threads
<1>7. Loops'
  BY Zenon, ManagerAssumption DEF Loops, ClosePoints, TypeOK, Threads
<1>8. WantedServed'
  BY Zenon, ManagerAssumption DEF WantedServed, Served, Ahead, table, env, ConnectPoints, TypeOK, Threads
<1> QED
  BY Zenon, <1>1, <1>2, <1>3, <1>4, <1>5, <1>6, <1>7, <1>8

\* The server taken from the list is in hand, so it stays ahead.
LEMMA PullerConnectsIInv ==
  ASSUME IInv, NEW s \in Servers, PullerConnects(s)
  PROVE  IInv'
<1> USE DEF IInv, PullerConnects, Go
<1>1. TypeOK'
  BY ZenonT(30) DEF TypeOK, table, env, objects, PCs, ConnectPoints
<1>2. Points'
  BY ManagerAssumption DEF Points, TypeOK, Threads, ConnectPoints
<1>3. Keyed'
  BY Zenon DEF Keyed, table, objects
<1>4. Equipped'
  BY ManagerAssumption DEF Equipped, objects, TypeOK, Threads, Connectors, ClosePoints
<1>5. StopsClosed'
  BY ManagerAssumption DEF StopsClosed, env, TypeOK, Threads
<1>6. PrunesUnwanted'
  BY ManagerAssumption DEF PrunesUnwanted, env, TypeOK, ClosePoints, Threads
<1>7. Connected'
  BY Zenon DEF Connected, table, TypeOK
<1>8. Loops'
  BY ManagerAssumption DEF Loops, TypeOK, ClosePoints, Threads
<1>9. WantedServed'
  BY ManagerAssumption DEF WantedServed, Served, Ahead, table, env, TypeOK, ConnectPoints, Threads
<1> QED
  BY Zenon, <1>1, <1>2, <1>3, <1>4, <1>5, <1>6, <1>7, <1>8, <1>9

\* After connect the server has a client or is put on the pending list; Tick takes it from there
\* only in the first case.
LEMMA PullerConnectedIInv ==
  ASSUME IInv, PullerConnected
  PROVE  IInv'
<1> USE DEF IInv, PullerConnected, Go
<1>1. TypeOK'
  BY ZenonT(30) DEF TypeOK, env, objects, PCs, ConnectPoints, Connectors, Equipped
<1>2. Points'
  BY Zenon, ManagerAssumption DEF Points, TypeOK, Threads
<1>3. Keyed' /\ StopsClosed'
  BY Zenon, ManagerAssumption DEF Keyed, StopsClosed, objects, env, TypeOK, Threads
<1>4. Equipped'
  BY ManagerAssumption DEF Equipped, objects, TypeOK, ConnectPoints, ClosePoints, Threads
<1>5. PrunesUnwanted'
  BY Zenon, ManagerAssumption DEF PrunesUnwanted, env, ClosePoints, TypeOK, Threads
<1>6. Connected'
  BY DEF Connected, TypeOK
<1>7. Loops'
  BY Zenon, ManagerAssumption DEF Loops, ClosePoints, TypeOK, Threads
<1>8. WantedServed'
  BY Zenon, ManagerAssumption DEF WantedServed, Served, Ahead, env, Connected, TypeOK, Threads
<1> QED
  BY Zenon, <1>1, <1>2, <1>3, <1>4, <1>5, <1>6, <1>7, <1>8

\* Tick ends with nothing changed.
LEMMA TickDoneIInv ==
  ASSUME IInv, TickDone
  PROVE  IInv'
<1> USE DEF IInv, TickDone, Go
<1>1. TypeOK'
  BY ZenonT(30) DEF TypeOK, table, env, objects, PCs
<1>2. Points' /\ Keyed' /\ StopsClosed' /\ Connected'
  BY Zenon, ManagerAssumption DEF Points, Keyed, StopsClosed, Connected, table, objects, env, TypeOK, Threads
<1>3. Equipped'
  BY ManagerAssumption DEF Equipped, objects, ConnectPoints, ClosePoints, TypeOK, Threads
<1>4. PrunesUnwanted'
  BY Zenon, ManagerAssumption DEF PrunesUnwanted, env, ClosePoints, TypeOK, Threads
<1>5. Loops'
  BY Zenon, ManagerAssumption DEF Loops, ClosePoints, TypeOK, Threads
<1>6. WantedServed'
  BY Zenon, ManagerAssumption DEF WantedServed, Served, Ahead, table, env, Loops, TypeOK, Threads
<1> QED
  BY Zenon, <1>1, <1>2, <1>3, <1>4, <1>5, <1>6

\* The list is done, so all wanted servers are served.
LEMMA PruneStartIInv ==
  ASSUME IInv, PruneStart
  PROVE  IInv'
<1> USE DEF IInv, PruneStart, Go
<1>1. TypeOK'
  BY ZenonT(30) DEF TypeOK, table, env, objects, PCs, Managed
<1>2. Points'
  BY Zenon, ManagerAssumption DEF Points, TypeOK, Threads
<1>3. Keyed' /\ StopsClosed' /\ Connected' /\ Loops'
  BY Zenon, ManagerAssumption DEF Keyed, StopsClosed, Connected, Loops, table, objects, env, TypeOK, Threads
<1>4. Equipped'
  BY ManagerAssumption DEF Equipped, objects, ConnectPoints, ClosePoints, TypeOK, Threads
<1>5. PrunesUnwanted'
  BY Zenon, ManagerAssumption DEF PrunesUnwanted, env, ClosePoints, TypeOK, Threads
<1>6. WantedServed'
  BY Zenon, ManagerAssumption DEF WantedServed, Served, Ahead, table, env, ConnectPoints, TypeOK, Threads
<1> QED
  BY Zenon, <1>1, <1>2, <1>3, <1>4, <1>5, <1>6

\* Pruning takes the entry of a server that is not wanted, and its client with it.
LEMMA PruneVisitIInv ==
  ASSUME IInv, NEW s \in Servers, PruneVisit(s)
  PROVE  IInv'
<1> USE DEF IInv, PruneVisit, Go
<1>1. TypeOK'
  BY ZenonT(30) DEF TypeOK, env, objects, PCs
<1>2. Points'
  BY ManagerAssumption DEF Points, TypeOK, Threads
<1>3. Keyed'
  BY DEF Keyed, objects, TypeOK
<1>4. Equipped'
  BY ManagerAssumption DEF Equipped, objects, TypeOK, Threads, Connectors
<1>5. StopsClosed'
  BY ManagerAssumption DEF StopsClosed, env, TypeOK, Threads
<1>6. PrunesUnwanted'
  BY ManagerAssumption DEF PrunesUnwanted, env, objects, TypeOK, Keyed, Threads
<1>7. Connected'
  BY Zenon DEF Connected, TypeOK
<1>8. Loops'
  BY ManagerAssumption DEF Loops, TypeOK, Threads
<1>9. WantedServed'
  BY ManagerAssumption DEF WantedServed, Served, Ahead, env, TypeOK, ConnectPoints, Threads
<1> QED
  BY Zenon, <1>1, <1>2, <1>3, <1>4, <1>5, <1>6, <1>7, <1>8, <1>9

\* The pruned server, which is not wanted, leaves the pending list.
LEMMA PrunePendingIInv ==
  ASSUME IInv, PrunePending
  PROVE  IInv'
<1> USE DEF IInv, PrunePending, Go
<1>1. TypeOK'
  BY ZenonT(30) DEF TypeOK, env, objects, PCs, ClosePoints
<1>2. Points'
  BY Zenon, ManagerAssumption DEF Points, ClosePoints, TypeOK, Threads
<1>3. Keyed' /\ StopsClosed' /\ Connected' /\ Loops'
  BY Zenon, ManagerAssumption DEF Keyed, StopsClosed, Connected, Loops, objects, env, TypeOK, Threads
<1>4. Equipped'
  BY ManagerAssumption DEF Equipped, objects, TypeOK, ConnectPoints, Threads
<1>5. PrunesUnwanted'
  BY Zenon, ManagerAssumption DEF PrunesUnwanted, env, objects, TypeOK, Threads
<1>6. WantedServed'
  BY ManagerAssumption DEF WantedServed, Served, Ahead, env, ConnectPoints, PrunesUnwanted, TypeOK, Threads
<1> QED
  BY Zenon, <1>1, <1>2, <1>3, <1>4, <1>5, <1>6

\* Update ends with nothing changed.
LEMMA UpdateDoneIInv ==
  ASSUME IInv, UpdateDone
  PROVE  IInv'
<1> USE DEF IInv, UpdateDone, Go
<1>1. TypeOK'
  BY ZenonT(30) DEF TypeOK, table, env, objects, PCs
<1>2. Points' /\ Keyed' /\ StopsClosed' /\ Connected' /\ Loops'
  BY Zenon, ManagerAssumption DEF Points, Keyed, StopsClosed, Connected, Loops, table, objects, env, TypeOK, Threads
<1>3. Equipped'
  BY ManagerAssumption DEF Equipped, objects, ConnectPoints, ClosePoints, TypeOK, Threads
<1>4. PrunesUnwanted'
  BY Zenon, ManagerAssumption DEF PrunesUnwanted, env, objects, TypeOK, Threads, ClosePoints
<1>5. WantedServed'
  BY Zenon, ManagerAssumption DEF WantedServed, Served, Ahead, table, env, ConnectPoints, TypeOK, Threads
<1> QED
  BY Zenon, <1>1, <1>2, <1>3, <1>4, <1>5

\* The pulling goroutine ends.
LEMMA PullerExitIInv ==
  ASSUME IInv, PullerExit
  PROVE  IInv'
<1> USE DEF IInv, PullerExit, Go
<1>1. TypeOK'
  BY ZenonT(30) DEF TypeOK, table, env, objects, PCs
<1>2. Points'
  BY Zenon, ManagerAssumption DEF Points, TypeOK, Threads
<1>3. Keyed' /\ Connected'
  <2>1. Keyed'  BY Zenon DEF Keyed, table, objects
  <2>2. Connected'  BY Zenon DEF Connected, table, objects, TypeOK
  <2> QED  BY Zenon, <2>1, <2>2
<1>4. Equipped'
  BY ManagerAssumption DEF Equipped, objects, ConnectPoints, ClosePoints, TypeOK, Threads
<1>5. StopsClosed'
  BY Zenon, ManagerAssumption DEF StopsClosed, env, TypeOK, Threads
<1>6. PrunesUnwanted'
  BY Zenon, ManagerAssumption DEF PrunesUnwanted, env, ClosePoints, TypeOK, Threads
<1>7. Loops'
  BY Zenon, ManagerAssumption DEF Loops, ClosePoints, TypeOK, Threads
<1>8. WantedServed'
  BY Zenon, ManagerAssumption DEF WantedServed, Served, Ahead, table, env, ConnectPoints, TypeOK, Threads
<1> QED
  BY Zenon, <1>1, <1>2, <1>3, <1>4, <1>5, <1>6, <1>7, <1>8

\* AddServer is called for any server.
LEMMA AddStartIInv ==
  ASSUME IInv, NEW t \in Adders, NEW s \in Servers, AddStart(t, s)
  PROVE  IInv'
<1> USE DEF IInv, AddStart, Go
<1>1. TypeOK'
  BY ZenonT(30) DEF TypeOK, table, env, objects, PCs
<1>2. Points'
  BY Zenon, ManagerAssumption DEF Points, TypeOK, Threads
<1>3. Keyed' /\ Connected'
  <2>1. Keyed'  BY Zenon DEF Keyed, table, objects
  <2>2. Connected'  BY DEF Connected, table, objects, TypeOK
  <2> QED  BY Zenon, <2>1, <2>2
<1>4. Equipped'
  BY ManagerAssumption, SMTT(30) DEF Equipped, objects, TypeOK, Threads
<1>5. StopsClosed'
  BY Zenon, ManagerAssumption DEF StopsClosed, env, TypeOK, Threads
<1>6. PrunesUnwanted'
  BY Zenon, ManagerAssumption DEF PrunesUnwanted, env, objects, TypeOK, Threads, ClosePoints
<1>7. Loops'
  BY Zenon, ManagerAssumption DEF Loops, TypeOK, Threads
<1>8. WantedServed'
  BY Zenon, ManagerAssumption DEF WantedServed, Served, Ahead, table, env, TypeOK, Threads
<1> QED
  BY Zenon, <1>1, <1>2, <1>3, <1>4, <1>5, <1>6, <1>7, <1>8

\* AddServer returns for a server that has a client, or connects.
LEMMA AddLoadIInv ==
  ASSUME IInv, NEW t \in Adders, AddLoad(t)
  PROVE  IInv'
<1> USE DEF IInv, AddLoad, Go
<1>1. TypeOK'
  BY Zenon DEF TypeOK, table, env, objects, PCs, ConnectPoints
<1>2. Points'
  BY ManagerAssumption DEF Points, TypeOK, Threads, ConnectPoints
<1>3. Keyed'
  BY Zenon DEF Keyed, table, objects
<1>4. Equipped'
  <2>1. /\ \A u \in Threads \ {t} : pc'[u] = pc[u] /\ at'[u] = at[u]
        /\ UNCHANGED <<cl, srv>>
    BY Zenon DEF objects, TypeOK, Threads
  <2>2. /\ pc'[t] = "idle" \/ (pc'[t] = "load" /\ at'[t] \in Servers)
        /\ t \in Threads /\ t # Puller /\ t # Stopper
    BY ManagerAssumption DEF Equipped, TypeOK, Threads
  <2>3. Threads = Adders \cup {Puller, Stopper} /\ Connectors = Adders \cup {Puller}
    BY Zenon DEF Threads, Connectors
  <2> HIDE DEF AddLoad, Go
  <2> QED
    BY Zenon, <2>1, <2>2, <2>3 DEF Equipped, ConnectPoints
<1>5. StopsClosed'
  BY ManagerAssumption DEF StopsClosed, env, TypeOK, Threads
<1>6. PrunesUnwanted'
  BY ManagerAssumption DEF PrunesUnwanted, env, objects, TypeOK, Threads
<1>7. Connected'
  BY Zenon DEF Connected, table, TypeOK, Threads
<1>8. Loops'
  BY ManagerAssumption DEF Loops, TypeOK, Threads
<1>9. WantedServed'
  BY ManagerAssumption DEF WantedServed, Served, Ahead, table, env, TypeOK, Threads
<1> QED
  BY ZenonT(30), <1>1, <1>2, <1>3, <1>4, <1>5, <1>6, <1>7, <1>8, <1>9

\* AddServer puts a server that it could not reach on the pending list and takes none off it.
LEMMA AddReturnIInv ==
  ASSUME IInv, NEW t \in Adders, AddReturn(t)
  PROVE  IInv'
<1> USE DEF IInv, AddReturn, Go
<1>1. TypeOK'
  BY ZenonT(30) DEF TypeOK, env, PCs, Connectors, Points, Equipped, EndContext
<1>2. Points' /\ Keyed' /\ StopsClosed'
  BY Zenon, ManagerAssumption DEF Points, Keyed, StopsClosed, env, TypeOK, Threads
<1>3. Equipped'
  BY ManagerAssumption, SMTT(30) DEF Equipped, TypeOK, ConnectPoints, Threads
<1>4. PrunesUnwanted'
  BY Zenon, ManagerAssumption DEF PrunesUnwanted, env, objects, TypeOK, Threads, ClosePoints
<1>5. Connected'
  BY DEF Connected, TypeOK
<1>6. Loops'
  BY Zenon, ManagerAssumption DEF Loops, TypeOK, Threads
<1>7. WantedServed'
  BY Zenon, ManagerAssumption DEF WantedServed, Served, Ahead, env, TypeOK, Threads
<1> QED
  BY Zenon, <1>1, <1>2, <1>3, <1>4, <1>5, <1>6, <1>7

\* Stop sets Manager.closed before it closes a client.
LEMMA StopStartIInv ==
  ASSUME IInv, StopStart
  PROVE  IInv'
<1> USE DEF IInv, StopStart, Go
<1>1. TypeOK'
  BY ZenonT(30) DEF TypeOK, table, objects, PCs, Managed
<1>2. Points'
  BY Zenon, ManagerAssumption DEF Points, TypeOK, Threads
<1>3. Keyed' /\ StopsClosed' /\ Connected'
  BY Zenon, ManagerAssumption DEF Keyed, StopsClosed, Connected, table, objects, TypeOK, Threads
<1>4. Equipped'
  <2>1. /\ \A t \in Connectors : pc'[t] = pc[t]
        /\ pc'[Stopper] = "range"
        /\ UNCHANGED <<at, cl, srv>>
    BY Zenon, ManagerAssumption DEF Connectors, objects, TypeOK, Threads
  <2>2. "range" \notin ClosePoints
    BY Zenon DEF ClosePoints
  <2> QED
    BY Zenon, <2>1, <2>2 DEF Equipped, Connectors
<1>5. PrunesUnwanted'
  BY Zenon, ManagerAssumption DEF PrunesUnwanted, objects, TypeOK, Threads
<1>6. Loops'
  BY Zenon, ManagerAssumption DEF Loops, TypeOK, Threads
<1>7. WantedServed'
  BY Zenon, ManagerAssumption DEF WantedServed, Served, Ahead, table, TypeOK, Threads
<1> QED
  BY Zenon, <1>1, <1>2, <1>3, <1>4, <1>5, <1>6, <1>7

\* Stop closes a client that stays in the table.
LEMMA StopVisitIInv ==
  ASSUME IInv, NEW s \in Servers, StopVisit(s)
  PROVE  IInv'
<1> USE DEF IInv, StopVisit, Go
<1>1. TypeOK'
  BY ZenonT(30) DEF TypeOK, table, env, objects, PCs, ClosePoints
<1>2. Points'
  BY ManagerAssumption DEF Points, TypeOK, Threads
<1>3. Keyed'
  BY Zenon DEF Keyed, table, objects, TypeOK
<1>4. Equipped'
  <2>1. /\ \A t \in Connectors : pc'[t] = pc[t] /\ cl'[t] = cl[t]
        /\ UNCHANGED <<at, srv>>
    BY ManagerAssumption DEF Connectors, objects, TypeOK, Threads
  <2>2. pc'[Stopper] \in ClosePoints => cl'[Stopper] \in Clients
    BY ManagerAssumption DEF ClosePoints, TypeOK, Threads
  <2> QED
    BY Zenon, <2>1, <2>2 DEF Equipped, Connectors
<1>5. StopsClosed'
  BY Zenon, ManagerAssumption DEF StopsClosed, env, TypeOK, Threads
<1>6. PrunesUnwanted'
  <2>1. pc'[Puller] = pc[Puller] /\ cl'[Puller] = cl[Puller]
    BY ManagerAssumption DEF TypeOK, Threads
  <2>2. UNCHANGED <<at, srv, wanted>>
    BY Zenon DEF env, objects
  <2> QED
    BY Zenon, <2>1, <2>2 DEF PrunesUnwanted
<1>7. Connected'
  BY Zenon DEF Connected, table, TypeOK, Threads
<1>8. Loops'
  BY ManagerAssumption DEF Loops, TypeOK, Threads
<1>9. WantedServed'
  BY ManagerAssumption DEF WantedServed, Served, Ahead, table, env, TypeOK, Threads
<1> QED
  BY Zenon, <1>1, <1>2, <1>3, <1>4, <1>5, <1>6, <1>7, <1>8, <1>9

\* Stop ends with nothing changed.
LEMMA StopDoneIInv ==
  ASSUME IInv, StopDone
  PROVE  IInv'
<1> USE DEF IInv, StopDone, Go
<1>1. TypeOK'
  BY ZenonT(30) DEF TypeOK, table, env, objects, PCs
<1>2. Points'
  BY Zenon, ManagerAssumption DEF Points, TypeOK, Threads
<1>3. Keyed' /\ StopsClosed' /\ Connected'
  BY Zenon, ManagerAssumption DEF Keyed, StopsClosed, Connected, table, objects, env, TypeOK, Threads
<1>4. Equipped'
  BY Zenon, ManagerAssumption DEF Equipped, objects, TypeOK, Threads, Connectors, ConnectPoints, ClosePoints
<1>5. PrunesUnwanted'
  BY Zenon, ManagerAssumption DEF PrunesUnwanted, env, objects, TypeOK, Threads, ClosePoints
<1>6. Loops'
  BY Zenon, ManagerAssumption DEF Loops, TypeOK, Threads
<1>7. WantedServed'
  BY Zenon, ManagerAssumption DEF WantedServed, Served, Ahead, table, env, TypeOK, Threads, ConnectPoints
<1> QED
  BY ZenonT(30), <1>1, <1>2, <1>3, <1>4, <1>5, <1>6, <1>7

\* What the manager's maps and the threads of the manager do not see keeps the invariant.
LEMMA QuietIInv ==
  ASSUME IInv, TypeOK', UNCHANGED <<table, wanted, mgrClosed, local, srv, ticking>>
  PROVE  IInv'
<1> USE DEF IInv, table, local
<1>1. Points' /\ StopsClosed' /\ Loops'
  BY Zenon DEF Points, StopsClosed, Loops
<1>2. Keyed' /\ Equipped'
  BY Zenon DEF Keyed, Equipped
<1>3. PrunesUnwanted' /\ Connected'
  BY ZenonT(30) DEF PrunesUnwanted, Connected
<1>4. WantedServed'
  BY Zenon DEF WantedServed, Served, Ahead
<1> QED
  BY Zenon, <1>1, <1>2, <1>3, <1>4

\* The life of clients outside of the manager, the cancelled context, the consumer of the events
\* and the timeout of AddServer: none of them touches a map.
LEMMA EnvironmentIInv ==
  ASSUME IInv,
         \/ \E c \in Clients : HandshakeAnswered(c) \/ Lose(c) \/ ContextKills(c)
         \/ Cancel \/ TakeEvent
         \/ \E t \in Adders : Timeout(t)
  PROVE  IInv'
<1>1. CASE \E c \in Clients : HandshakeAnswered(c) \/ Lose(c) \/ ContextKills(c)
  <2>1. UNCHANGED <<table, env, local, srv, ctx, hook, closed, events, expired, ticking>>
    BY Zenon, <1>1 DEF HandshakeAnswered, Lose, ContextKills, Dies
  <2>2. life' \in [Clients -> {"hs", "up"} \cup Dead]
    BY Zenon, <1>1 DEF HandshakeAnswered, Lose, ContextKills, Dies, Dead, IInv, TypeOK
  <2>3. TypeOK'
    BY Zenon, <2>1, <2>2 DEF IInv, TypeOK, table, env, local
  <2> QED
    BY Zenon, <2>1, <2>3, QuietIInv DEF env
<1>2. CASE Cancel
  <2>1. TypeOK'
    BY Zenon, <1>2 DEF Cancel, IInv, TypeOK, table, objects, local
  <2> QED
    BY Zenon, <1>2, <2>1, QuietIInv DEF Cancel, objects
<1>3. CASE TakeEvent
  <2>1. TypeOK'
    BY <1>3, ManagerAssumption DEF TakeEvent, IInv, TypeOK, table, env, objects, local
  <2> QED
    BY Zenon, <1>3, <2>1, QuietIInv DEF TakeEvent, env, objects
<1>4. CASE \E t \in Adders : Timeout(t)
  <2>1. PICK t \in Adders : Timeout(t)
    BY Zenon, <1>4
  <2>2. TypeOK'
    BY Zenon, <2>1 DEF Timeout, EndContext, IInv, TypeOK, table, env, local
  <2> QED
    BY Zenon, <2>1, <2>2, QuietIInv DEF Timeout, env
<1> QED
  BY Zenon, <1>1, <1>2, <1>3, <1>4

\* The manager starts with empty maps and no work.
LEMMA InitIInv == Init => IInv
<1> SUFFICES ASSUME Init PROVE IInv
  OBVIOUS
<1> USE DEF Init
<1>1. TypeOK
  <2>1. /\ res \in [Threads -> BOOLEAN]
        /\ mgrClosed \in BOOLEAN /\ ctxDone \in BOOLEAN /\ ticking \in BOOLEAN
    BY Zenon
  <2>2. /\ clients \in [Servers -> Clients \cup {None}] /\ pending \in SUBSET Servers
        /\ events \in 0..EventCap /\ wanted \in SUBSET Servers
    BY ManagerAssumption
  <2>3. /\ srv \in [Clients -> Servers \cup {None}]
        /\ life \in [Clients -> {"hs", "up"} \cup Dead]
        /\ hook \in SUBSET Clients /\ closed \in SUBSET Clients
        /\ ctx \in [Clients -> {Puller, None} \cup Adders] /\ expired \in SUBSET Adders
    BY Zenon DEF Dead
  <2>4. /\ pc \in [Threads -> PCs] /\ at \in [Threads -> Servers \cup {None}]
        /\ cl \in [Threads -> Clients \cup {None}] /\ todo \in [Threads -> SUBSET Servers]
    BY Zenon DEF PCs
  <2> QED
    BY Zenon, <2>1, <2>2, <2>3, <2>4 DEF TypeOK
<1>2. Points /\ StopsClosed /\ Loops
  BY Zenon DEF Points, StopsClosed, Loops, Threads, ClosePoints
<1>3. Keyed /\ Equipped
  BY Zenon DEF Keyed, Equipped, Threads, Connectors, ConnectPoints, ClosePoints
<1>4. PrunesUnwanted /\ Connected
  BY Zenon DEF PrunesUnwanted, Connected, Threads, ClosePoints
<1>5. WantedServed
  BY Zenon DEF WantedServed
<1> QED
  BY Zenon, <1>1, <1>2, <1>3, <1>4, <1>5 DEF IInv

\* Every step keeps the invariant.
LEMMA NextIInv == IInv /\ [Next]_vars => IInv'
<1> SUFFICES ASSUME IInv, [Next]_vars PROVE IInv'
  OBVIOUS
<1>1. CASE UNCHANGED vars
  <2>1. TypeOK'
    BY Zenon, <1>1 DEF vars, IInv, TypeOK, table, env, objects, local
  <2> QED
    BY Zenon, <1>1, <2>1, QuietIInv DEF vars, env, objects
<1>2. CASE \E list \in Lists : UpdateStart(list)
  BY Zenon, <1>2, UpdateStartIInv
<1>3. CASE TickStart \/ PullerExit
  BY Zenon, <1>3, TickStartIInv, PullerExitIInv
<1>4. CASE UpdateStep
  BY Zenon, <1>4, PullerConnectsIInv, PruneVisitIInv, PullerConnectedIInv, TickDoneIInv,
     PruneStartIInv, PrunePendingIInv, UpdateDoneIInv DEF UpdateStep
<1>5. CASE StopStep
  BY Zenon, <1>5, StopStartIInv, StopVisitIInv, StopDoneIInv DEF StopStep
<1>6. CASE \E t \in Adders : AddStep(t) \/ \E s \in Servers : AddStart(t, s)
  BY Zenon, <1>6, AddLoadIInv, AddReturnIInv, AddStartIInv DEF AddStep
<1>7. CASE \E t \in Adders \cup {Puller} : ConnectStep(t)
  <2>1. PICK t \in Connectors : ConnectStep(t)
    BY Zenon, <1>7 DEF Connectors
  <2> QED
    BY Zenon, <2>1, ConnectLoadIInv, DialFailsIInv, DialIInv, ConnectReturnIInv, ConnectStoreIInv,
       ConnectEventIInv, ConnectRegisterIInv DEF ConnectStep
<1>8. CASE \E t \in {Puller, Stopper} : CloseStep(t)
  BY Zenon, <1>8, CloseSwapIInv, CloseTransporterIInv, HookCheckIInv, HookEventIInv, HookDeleteIInv,
     HookPendIInv DEF CloseStep
<1>9. CASE \/ \E c \in Clients : HandshakeAnswered(c) \/ Lose(c) \/ ContextKills(c)
           \/ Cancel \/ TakeEvent
           \/ \E t \in Adders : Timeout(t)
  BY Zenon, <1>9, EnvironmentIInv
<1> QED
  BY Zenon, <1>1, <1>2, <1>3, <1>4, <1>5, <1>6, <1>7, <1>8, <1>9 DEF Next

\* The inductive invariant holds in every reachable state.
THEOREM Invariance == Spec => []IInv
<1> QED
  BY InitIInv, NextIInv, PTL DEF Spec

\* The variables of the manager keep their types and events its capacity, for any number of relay
\* servers, clients and goroutines.
THEOREM TypeCorrect == Spec => []TypeOK
<1>1. IInv => TypeOK
  BY Zenon DEF IInv
<1> QED
  BY <1>1, Invariance, PTL

\* No relay server of the last peer graph is forgotten: between two calls of Update and Tick it
\* has a client or is pending, whatever AddServer, the pruning and failing connections did to
\* the two maps in the meantime.
THEOREM ListedSafe == Spec => []ListedServed
<1>1. IInv => ListedServed
  BY Zenon DEF IInv, WantedServed, Served, Ahead, ListedServed, ConnectPoints
<1> QED
  BY <1>1, Invariance, PTL

-----------------------------------------------------------------------------
(* The manager keeps to the life of its clients (ClientLife).                *)

\* Between the swap of Client.closed and the end of the callback.
PastSwap == ClosePoints \ {"clSwap"}

\* A client whose Connect returned nil had its answer.
Alive == \A c \in ConnectedClients : life[c] \in {"up", "lost"}

\* The map holds connected clients only, and so do the threads that close one.
EntriesConnected == \A s \in Servers : clients[s] # None => clients[s] \in ConnectedClients

ClosesConnected ==
  \A t \in {Puller, Stopper} :
    pc[t] \in {"prunePend"} \cup ClosePoints => cl[t] \in ConnectedClients

\* The thread past the swap of a client is the one that swapped.
ClosesOnce ==
  /\ \A t \in {Puller, Stopper} : pc[t] \in PastSwap => cl[t] \in closed
  /\ pc[Puller] \in PastSwap /\ pc[Stopper] \in PastSwap => cl[Puller] # cl[Stopper]

LifeInv == Alive /\ EntriesConnected /\ ClosesConnected /\ ClosesOnce

\* Between the return of Connect and the registered callbacks.
HoldPoints == {"store", "event", "register"}

\* What a thread does outside of the points that ClientLife sees is no step of a client.
LEMMA Unseen ==
  ASSUME NEW t \in Threads, UNCHANGED <<life, hook, closed>>,
         \A u \in Threads \ {t} : pc'[u] = pc[u] /\ cl'[u] = cl[u],
         \/ {pc[t], pc'[t]} \cap (HoldPoints \cup {"clTrs", "hkCheck"}) = {}
         \/ {pc[t], pc'[t]} \subseteq HoldPoints /\ cl'[t] = cl[t]
  PROVE  /\ ConnectedClients' = ConnectedClients
         /\ UNCHANGED Client!lifeVars
<1>1. \A u \in Threads, c \in Clients :
        /\ Holds(u, c)' <=> Holds(u, c)
        /\ \A p \in {"clTrs", "hkCheck"} : (pc[u] = p /\ cl[u] = c)' <=> (pc[u] = p /\ cl[u] = c)
  BY Zenon DEF Holds, HoldPoints
<1>2. ConnectedClients' = ConnectedClients
  BY Zenon, <1>1 DEF ConnectedClients
<1>3. \A c \in Clients, p \in {"clTrs", "hkCheck"} : ClosingAt(c, p)' <=> ClosingAt(c, p)
  BY <1>1 DEF ClosingAt
<1>4. \A c \in Clients : Closing(c)' = Closing(c)
  BY Zenon, <1>3 DEF Closing
<1>5. [c \in Clients |-> Closing(c)]' = [c \in Clients |-> Closing(c)]
  BY Zenon, <1>4
<1> QED
  BY Zenon, <1>2, <1>5 DEF Client!lifeVars

\* Such a step keeps LifeInv too, when it leaves connected clients in the map and takes none but a
\* connected client to close.
LEMMA UnseenStep ==
  ASSUME LifeInv, NEW t \in Threads, UNCHANGED <<life, hook, closed>>,
         \A u \in Threads \ {t} : pc'[u] = pc[u] /\ cl'[u] = cl[u],
         \/ {pc[t], pc'[t]} \cap (HoldPoints \cup {"clTrs", "hkCheck"}) = {}
         \/ {pc[t], pc'[t]} \subseteq HoldPoints /\ cl'[t] = cl[t],
         \A s \in Servers : clients'[s] # None => clients'[s] \in ConnectedClients,
         pc'[t] \in {"prunePend"} \cup ClosePoints => cl'[t] \in ConnectedClients,
         pc'[t] \in PastSwap => pc[t] \in PastSwap /\ cl'[t] = cl[t]
  PROVE  LifeInv' /\ UNCHANGED Client!lifeVars
<1>1. ConnectedClients' = ConnectedClients /\ UNCHANGED Client!lifeVars
  BY Zenon, Unseen
<1>2. Alive' /\ EntriesConnected'
  BY Zenon, <1>1 DEF LifeInv, Alive, EntriesConnected
<1>3. ClosesConnected'
  BY Zenon, <1>1 DEF LifeInv, ClosesConnected, Threads
<1>4. ClosesOnce'
  BY Zenon, ManagerAssumption DEF LifeInv, ClosesOnce, Threads
<1> QED
  BY Zenon, <1>1, <1>2, <1>3, <1>4 DEF LifeInv

\* connect up to the dialling, and after Connect has returned: the entry that it makes is for a
\* client that is connected.
LEMMA ConnectUnseen ==
  ASSUME IInv, LifeInv, NEW t \in Connectors,
         ConnectLoad(t) \/ DialFails(t) \/ ConnectStore(t) \/ ConnectEvent(t)
  PROVE  LifeInv' /\ UNCHANGED Client!lifeVars
<1>1. t \in Threads /\ UNCHANGED <<life, hook, closed, cl>>
  BY Zenon DEF ConnectLoad, DialFails, ConnectStore, ConnectEvent, Connectors, Threads, objects
<1>2. \A u \in Threads \ {t} : pc'[u] = pc[u] /\ cl'[u] = cl[u]
  BY Zenon, <1>1 DEF ConnectLoad, DialFails, ConnectStore, ConnectEvent, Return, Go, IInv, TypeOK
<1>3. \/ pc[t] \in {"load", "dial"} /\ pc'[t] \in {"dial", "ret"}
      \/ pc[t] \in {"store", "event"} /\ pc'[t] \in {"event", "register"}
  BY Zenon, <1>1 DEF ConnectLoad, DialFails, ConnectStore, ConnectEvent, Return, Go, IInv, TypeOK
<1>4. \A s \in Servers : clients'[s] # None => clients'[s] \in ConnectedClients
  <2>1. CASE ConnectStore(t)
    <3>1. cl[t] \in Clients /\ Holds(t, cl[t])
      BY Zenon, <2>1 DEF ConnectStore, Holds, IInv, Equipped
    <3>2. cl[t] \in ConnectedClients
      BY Zenon, <1>1, <3>1 DEF ConnectedClients
    <3> QED
      BY Zenon, <2>1, <3>2 DEF ConnectStore, LifeInv, EntriesConnected, IInv, TypeOK
  <2>2. CASE UNCHANGED clients
    BY Zenon, <2>2 DEF LifeInv, EntriesConnected
  <2> QED
    BY Zenon, <2>1, <2>2 DEF ConnectLoad, DialFails, ConnectEvent, table
<1>5. pc'[t] \notin {"prunePend"} \cup ClosePoints
  BY Zenon, <1>3 DEF ClosePoints
<1> QED
  BY Zenon, <1>1, <1>2, <1>3, <1>4, <1>5, UnseenStep DEF HoldPoints, PastSwap

\* The callback after its check: it only takes an entry away.
LEMMA HookUnseen ==
  ASSUME IInv, LifeInv, NEW t \in {Puller, Stopper}, HookEvent(t) \/ HookDelete(t) \/ HookPend(t)
  PROVE  LifeInv' /\ UNCHANGED Client!lifeVars
<1>1. t \in Threads /\ UNCHANGED <<life, hook, closed>>
  BY Zenon DEF HookEvent, HookDelete, HookPend, Threads, objects
<1>2. \A u \in Threads \ {t} : pc'[u] = pc[u] /\ cl'[u] = cl[u]
  BY Zenon, <1>1 DEF HookEvent, HookDelete, HookPend, AfterClose, Go, IInv, TypeOK
<1>3. /\ pc[t] \in {"hkEvent", "hkDelete", "hkPend"}
      /\ \/ pc'[t] \in {"hkDelete", "hkPend"} /\ cl'[t] = cl[t]
         \/ pc'[t] \in {"range", "prune"}
  BY Zenon, <1>1 DEF HookEvent, HookDelete, HookPend, AfterClose, Go, IInv, TypeOK
<1>4. \A s \in Servers : clients'[s] # None => clients'[s] = clients[s]
  BY Zenon DEF HookEvent, HookDelete, HookPend, table, IInv, TypeOK
<1>5. \A s \in Servers : clients'[s] # None => clients'[s] \in ConnectedClients
  BY Zenon, <1>4 DEF LifeInv, EntriesConnected
<1>6. pc'[t] \in {"prunePend"} \cup ClosePoints => cl'[t] \in ConnectedClients
  BY Zenon, <1>3 DEF LifeInv, ClosesConnected, ClosePoints
<1>7. pc'[t] \in PastSwap => pc[t] \in PastSwap /\ cl'[t] = cl[t]
  BY Zenon, <1>3 DEF PastSwap, ClosePoints
<1> QED
  BY Zenon, <1>1, <1>2, <1>3, <1>5, <1>6, <1>7, UnseenStep DEF HoldPoints

\* Update and Tick: pruning takes its client out of the map, where only connected ones are.
LEMMA PullerUnseen ==
  ASSUME IInv, LifeInv,
         \/ \E list \in Lists : UpdateStart(list)
         \/ TickStart \/ PullerExit \/ UpdateStep
  PROVE  LifeInv' /\ UNCHANGED Client!lifeVars
<1> USE DEF UpdateStart, TickStart, PullerExit, UpdateStep, PullerConnects, PruneVisit,
            PullerConnected, TickDone, PruneStart, PrunePending, UpdateDone
<1>1. Puller \in Threads /\ UNCHANGED <<life, hook, closed>>
  BY Zenon DEF Threads, objects
<1>2. \A u \in Threads \ {Puller} : pc'[u] = pc[u] /\ cl'[u] = cl[u]
  BY Zenon, <1>1 DEF Go, IInv, TypeOK
<1>3. /\ pc[Puller] \in {"idle", "list", "tick", "ret", "prune", "prunePend"}
      /\ pc'[Puller] \in {"idle", "list", "tick", "load", "prune", "prunePend", "clSwap", "done"}
  BY Zenon, <1>1 DEF Go, IInv, TypeOK
<1>4. \A s \in Servers : clients'[s] # None => clients'[s] = clients[s]
  BY Zenon DEF table, IInv, TypeOK
<1>5. \A s \in Servers : clients'[s] # None => clients'[s] \in ConnectedClients
  BY Zenon, <1>4 DEF LifeInv, EntriesConnected
<1>6. pc'[Puller] \in {"prunePend"} \cup ClosePoints => cl'[Puller] \in ConnectedClients
  <2>1. CASE \E s \in Servers : PruneVisit(s)
    BY <1>1, <2>1 DEF Go, IInv, TypeOK, LifeInv, EntriesConnected, ClosePoints
  <2>2. CASE PrunePending
    BY Zenon, <2>2 DEF LifeInv, ClosesConnected
  <2>3. CASE pc'[Puller] \in {"idle", "list", "tick", "load", "prune", "done"}
    BY Zenon, <2>3 DEF ClosePoints
  <2> QED
    BY Zenon, <1>1, <1>3, <2>1, <2>2, <2>3 DEF Go, IInv, TypeOK
<1>7. pc'[Puller] \notin PastSwap
  BY Zenon, <1>3 DEF PastSwap, ClosePoints
<1> HIDE DEF UpdateStart, TickStart, PullerExit, UpdateStep, PullerConnects, PruneVisit,
             PullerConnected, TickDone, PruneStart, PrunePending, UpdateDone
<1> QED
  BY Zenon, <1>1, <1>2, <1>3, <1>5, <1>6, <1>7, UnseenStep DEF HoldPoints

\* Stop takes the clients that it closes from the map.
LEMMA StopUnseen ==
  ASSUME IInv, LifeInv, StopStep
  PROVE  LifeInv' /\ UNCHANGED Client!lifeVars
<1> USE DEF StopStep, StopStart, StopVisit, StopDone
<1>1. Stopper \in Threads /\ UNCHANGED <<life, hook, closed, clients>>
  BY Zenon DEF Threads, objects, table
<1>2. \A u \in Threads \ {Stopper} : pc'[u] = pc[u] /\ cl'[u] = cl[u]
  BY Zenon, <1>1 DEF Go, IInv, TypeOK
<1>3. pc[Stopper] \in {"idle", "range"} /\ pc'[Stopper] \in {"range", "clSwap", "done"}
  BY Zenon, <1>1 DEF Go, IInv, TypeOK
<1>4. \A s \in Servers : clients'[s] # None => clients'[s] \in ConnectedClients
  BY Zenon, <1>1 DEF LifeInv, EntriesConnected
<1>5. pc'[Stopper] \in {"prunePend"} \cup ClosePoints => cl'[Stopper] \in ConnectedClients
  BY Zenon, <1>1, <1>3 DEF Go, IInv, TypeOK, LifeInv, EntriesConnected, ClosePoints
<1>6. pc'[Stopper] \notin PastSwap
  BY Zenon, <1>3 DEF PastSwap, ClosePoints
<1> HIDE DEF StopStep, StopStart, StopVisit, StopDone
<1> QED
  BY Zenon, <1>1, <1>2, <1>3, <1>4, <1>5, <1>6, UnseenStep DEF HoldPoints

\* AddServer outside of connect.
LEMMA AddUnseen ==
  ASSUME IInv, LifeInv, NEW t \in Adders, AddStep(t) \/ \E s \in Servers : AddStart(t, s)
  PROVE  LifeInv' /\ UNCHANGED Client!lifeVars
<1> USE DEF AddStep, AddLoad, AddReturn, AddStart
<1>1. t \in Threads /\ UNCHANGED <<life, hook, closed, clients, cl>>
  BY Zenon DEF Threads, objects, table
<1>2. \A u \in Threads \ {t} : pc'[u] = pc[u] /\ cl'[u] = cl[u]
  BY Zenon, <1>1 DEF Go, IInv, TypeOK
<1>3. pc[t] \in {"idle", "addLoad", "ret"} /\ pc'[t] \in {"idle", "addLoad", "load"}
  BY Zenon, <1>1 DEF Go, IInv, TypeOK
<1>4. \A s \in Servers : clients'[s] # None => clients'[s] \in ConnectedClients
  BY Zenon, <1>1 DEF LifeInv, EntriesConnected
<1>5. pc'[t] \notin {"prunePend"} \cup ClosePoints
  BY Zenon, <1>3 DEF ClosePoints
<1> HIDE DEF AddStep, AddLoad, AddReturn, AddStart
<1> QED
  BY Zenon, <1>1, <1>2, <1>3, <1>4, <1>5, UnseenStep DEF HoldPoints, PastSwap

\* The context, the events and the timeout of AddServer.
LEMMA QuietUnseen ==
  ASSUME LifeInv, UNCHANGED <<clients, life, hook, closed, pc, cl>>
  PROVE  LifeInv' /\ UNCHANGED Client!lifeVars
<1>1. ConnectedClients' = ConnectedClients
  BY Zenon DEF ConnectedClients, Holds
<1>2. \A c \in Clients : Closing(c)' = Closing(c)
  BY Zenon DEF Closing, ClosingAt
<1>3. UNCHANGED Client!lifeVars
  BY Zenon, <1>1, <1>2 DEF Client!lifeVars
<1>4. Alive' /\ EntriesConnected' /\ ClosesConnected' /\ ClosesOnce'
  BY Zenon, <1>1 DEF LifeInv, Alive, EntriesConnected, ClosesConnected, ClosesOnce
<1> QED
  BY Zenon, <1>3, <1>4 DEF LifeInv

\* Dial takes a client that no thread and no entry refers to, so that nobody is closing it.
LEMMA DialLife ==
  ASSUME IInv, LifeInv, NEW t \in Connectors, NEW c \in Clients, Dial(t, c)
  PROVE  LifeInv' /\ Client!Dialled(c)
<1>1. t \in Threads /\ t # Stopper
  BY Zenon, ManagerAssumption DEF Connectors, Threads
<1>2. /\ pc[t] = "dial" /\ pc'[t] = "wait" /\ cl'[t] = c
      /\ \A u \in Threads \ {t} : pc'[u] = pc[u] /\ cl'[u] = cl[u]
  BY Zenon, <1>1 DEF Dial, Go, IInv, TypeOK
<1>3. \A u \in Threads : cl[u] # c
  BY Zenon DEF Dial, Unused
<1>4. /\ hook' = hook \ {c} /\ closed' = closed \ {c} /\ UNCHANGED clients
      /\ life' = [life EXCEPT ![c] = "hs"] /\ life[c] \in Dead
  BY Zenon DEF Dial, Unused, table
<1>5. ConnectedClients' = ConnectedClients \ {c}
  <2>1. \A u \in Threads, d \in Clients : Holds(u, d)' <=> Holds(u, d) /\ d # c
    BY Zenon, <1>2, <1>3 DEF Holds
  <2>2. hook' = hook \ {c}
    BY Zenon, <1>4
  <2> QED
    BY Zenon, <2>1, <2>2 DEF ConnectedClients
<1>6. \A d \in Clients, p \in {"clTrs", "hkCheck"} : ClosingAt(d, p)' <=> ClosingAt(d, p)
  BY Zenon, <1>2, <1>3 DEF ClosingAt
<1>7. \A d \in Clients : Closing(d)' = IF d = c THEN "no" ELSE Closing(d)
  BY Zenon, <1>4, <1>6 DEF Closing
<1>8. Closing(c) \in {"no", "done"}
  BY Zenon, <1>3 DEF Closing, ClosingAt
<1>9. Client!Dialled(c)
  <2>1. [d \in Clients |-> Closing(d)]' = [[d \in Clients |-> Closing(d)] EXCEPT ![c] = "no"]
    BY Zenon, <1>7
  <2> QED
    BY Zenon, <1>4, <1>5, <1>8, <2>1 DEF Client!Dialled, Dead
<1>10. Alive'
  BY Zenon, <1>4, <1>5 DEF LifeInv, Alive, IInv, TypeOK, ConnectedClients
<1>11. EntriesConnected'
  BY Zenon, <1>4, <1>5 DEF LifeInv, EntriesConnected, Dial, Unused
<1>12. ClosesConnected'
  BY Zenon, <1>1, <1>2, <1>3, <1>5 DEF LifeInv, ClosesConnected, Threads, ClosePoints
<1>13. ClosesOnce'
  BY Zenon, <1>1, <1>2, <1>3, <1>4 DEF LifeInv, ClosesOnce, Threads, PastSwap, ClosePoints
<1> QED
  BY Zenon, <1>9, <1>10, <1>11, <1>12, <1>13 DEF LifeInv

\* connect stores a client only after its answer; without one the client stays unconnected.
LEMMA ConnectReturnLife ==
  ASSUME IInv, LifeInv, NEW t \in Connectors, ConnectReturn(t)
  PROVE  LifeInv' /\ (Client!LifeNext \/ UNCHANGED Client!lifeVars)
<1>1. t \in Threads /\ t # Stopper
  BY Zenon, ManagerAssumption DEF Connectors, Threads
<1>2. UNCHANGED <<life, hook, closed, clients>> /\ pc[t] = "wait" /\ cl[t] \in Clients
  BY Zenon DEF ConnectReturn, objects, table, IInv, Equipped
<1>3. \A u \in Threads \ {t} : pc'[u] = pc[u] /\ cl'[u] = cl[u]
  BY Zenon, <1>1 DEF ConnectReturn, Return, Go, IInv, TypeOK
<1>4. CASE pc'[t] = "ret"
  <2>1. \A s \in Servers : clients'[s] # None => clients'[s] \in ConnectedClients
    BY Zenon, <1>2 DEF LifeInv, EntriesConnected
  <2> QED
    BY Zenon, <1>1, <1>2, <1>3, <1>4, <2>1, UnseenStep DEF HoldPoints, PastSwap, ClosePoints
<1>5. CASE pc'[t] = "store" /\ cl' = cl /\ life[cl[t]] \in {"up", "lost"}
  <2> DEFINE c == cl[t]
  <2>1. \A u \in Threads, d \in Clients : Holds(u, d)' <=> Holds(u, d) \/ (u = t /\ d = c)
    BY Zenon, <1>2, <1>3, <1>5 DEF Holds
  <2>2. ConnectedClients' = ConnectedClients \cup {c}
    BY Zenon, <1>1, <1>2, <2>1 DEF ConnectedClients
  <2>3. \A d \in Clients, p \in {"clTrs", "hkCheck"} : ClosingAt(d, p)' <=> ClosingAt(d, p)
    BY Zenon, <1>2, <1>3, <1>5 DEF ClosingAt
  <2>4. \A d \in Clients : Closing(d)' = Closing(d)
    BY Zenon, <1>2, <2>3 DEF Closing
  <2>5. Client!ConnectReturnsNil(c)
    BY Zenon, <1>2, <1>5, <2>2, <2>4 DEF Client!ConnectReturnsNil
  <2>6. Client!LifeNext
    BY Zenon, <1>2, <2>5 DEF Client!LifeNext, Client!LifeStep
  <2>7. Alive' /\ EntriesConnected'
    BY Zenon, <1>2, <1>5, <2>2 DEF LifeInv, Alive, EntriesConnected
  <2>8. ClosesConnected'
    BY Zenon, <1>1, <1>3, <1>5, <2>2 DEF LifeInv, ClosesConnected, Threads, ClosePoints
  <2>9. ClosesOnce'
    BY Zenon, <1>1, <1>2, <1>3, <1>5 DEF LifeInv, ClosesOnce, Threads, PastSwap, ClosePoints
  <2> QED
    BY Zenon, <2>6, <2>7, <2>8, <2>9 DEF LifeInv
<1> QED
  BY Zenon, <1>1, <1>4, <1>5 DEF ConnectReturn, Return, Go, IInv, TypeOK

\* A client with registered callbacks is as connected as one in the hands of connect.
LEMMA ConnectRegisterLife ==
  ASSUME IInv, LifeInv, NEW t \in Connectors, ConnectRegister(t)
  PROVE  LifeInv' /\ UNCHANGED Client!lifeVars
<1>1. t \in Threads /\ t # Stopper
  BY Zenon, ManagerAssumption DEF Connectors, Threads
<1>2. /\ UNCHANGED <<life, closed, clients>> /\ hook' = hook \cup {cl[t]}
      /\ pc[t] = "register" /\ cl[t] \in Clients /\ pc'[t] = "ret" /\ cl'[t] = None
      /\ \A u \in Threads \ {t} : pc'[u] = pc[u] /\ cl'[u] = cl[u]
  BY Zenon, <1>1 DEF ConnectRegister, table, Return, Go, IInv, TypeOK, Equipped
<1>3. \A u \in Threads, d \in Clients :
        /\ Holds(u, d)' => Holds(u, d)
        /\ Holds(u, d) => Holds(u, d)' \/ d = cl[t]
        /\ Holds(t, cl[t])
  BY Zenon, <1>2 DEF Holds
<1>4. ConnectedClients' = ConnectedClients
  BY Zenon, <1>1, <1>2, <1>3 DEF ConnectedClients
<1>5. \A d \in Clients, p \in {"clTrs", "hkCheck"} : ClosingAt(d, p)' <=> ClosingAt(d, p)
  BY Zenon, <1>2 DEF ClosingAt
<1>6. \A d \in Clients : Closing(d)' = Closing(d)
  BY Zenon, <1>2, <1>5 DEF Closing
<1>7. UNCHANGED Client!lifeVars
  BY Zenon, <1>2, <1>4, <1>6 DEF Client!lifeVars
<1>8. Alive' /\ EntriesConnected'
  BY Zenon, <1>2, <1>4 DEF LifeInv, Alive, EntriesConnected
<1>9. ClosesConnected'
  BY Zenon, <1>1, <1>2, <1>4 DEF LifeInv, ClosesConnected, Threads, ClosePoints
<1>10. ClosesOnce'
  BY Zenon, <1>1, <1>2 DEF LifeInv, ClosesOnce, Threads, PastSwap, ClosePoints
<1> QED
  BY Zenon, <1>7, <1>8, <1>9, <1>10 DEF LifeInv

\* What happens to the life of a client outside of the manager.
LEMMA OutsideLife ==
  ASSUME IInv, LifeInv, NEW c \in Clients, HandshakeAnswered(c) \/ Dies(c)
  PROVE  LifeInv' /\ (Client!Answered(c) \/ Client!TransporterCloses(c))
<1>1. UNCHANGED <<clients, hook, closed, pc, cl>>
  BY Zenon DEF HandshakeAnswered, Dies, table, local
<1>2. ConnectedClients' = ConnectedClients
  BY Zenon, <1>1 DEF ConnectedClients, Holds
<1>3. \A d \in Clients : Closing(d)' = Closing(d)
  BY Zenon, <1>1 DEF Closing, ClosingAt
<1>4. Client!Answered(c) \/ Client!TransporterCloses(c)
  <2>1. CASE HandshakeAnswered(c)
    BY Zenon, <1>2, <1>3, <2>1 DEF HandshakeAnswered, Client!Answered
  <2>2. CASE Dies(c)
    BY Zenon, <1>2, <1>3, <2>2 DEF Dies, Client!TransporterCloses
  <2> QED
    BY Zenon, <2>1, <2>2
<1>5. Alive'
  <2>1. \A d \in Clients : life[d] \in {"up", "lost"} => life'[d] \in {"up", "lost"}
    BY Zenon DEF HandshakeAnswered, Dies, IInv, TypeOK
  <2>2. ConnectedClients \subseteq Clients
    BY Zenon DEF ConnectedClients, IInv, TypeOK
  <2> QED
    BY Zenon, <1>2, <2>1, <2>2 DEF LifeInv, Alive
<1>6. EntriesConnected' /\ ClosesConnected' /\ ClosesOnce'
  BY Zenon, <1>1, <1>2 DEF LifeInv, EntriesConnected, ClosesConnected, ClosesOnce
<1> QED
  BY Zenon, <1>4, <1>5, <1>6 DEF LifeInv

\* Close of a client: the thread that swaps is the only one that goes on.
LEMMA CloseSwapLife ==
  ASSUME IInv, LifeInv, NEW t \in {Puller, Stopper}, CloseSwap(t)
  PROVE  LifeInv' /\ (Client!LifeNext \/ UNCHANGED Client!lifeVars)
<1>1. t \in Threads
  BY Zenon DEF Threads
<1>2. UNCHANGED <<life, hook, clients>> /\ pc[t] = "clSwap" /\ cl[t] \in ConnectedClients
  BY Zenon DEF CloseSwap, table, LifeInv, ClosesConnected, ClosePoints
<1>3. \A u \in Threads \ {t} : pc'[u] = pc[u] /\ cl'[u] = cl[u]
  BY Zenon, <1>1 DEF CloseSwap, AfterClose, Go, IInv, TypeOK
<1>4. \A s \in Servers : clients'[s] # None => clients'[s] \in ConnectedClients
  BY Zenon, <1>2 DEF LifeInv, EntriesConnected
<1>5. CASE cl[t] \in closed
  <2>1. closed' = closed /\ pc'[t] \in {"range", "prune"}
    BY Zenon, <1>1, <1>5 DEF CloseSwap, AfterClose, Go, IInv, TypeOK
  <2> QED
    BY Zenon, <1>1, <1>2, <1>3, <1>4, <2>1, UnseenStep DEF HoldPoints, PastSwap, ClosePoints
<1>6. CASE cl[t] \notin closed
  <2> DEFINE c == cl[t]
  <2>1. closed' = closed \cup {c} /\ pc'[t] = "clTrs" /\ cl' = cl
    BY Zenon, <1>1, <1>6 DEF CloseSwap, Go, IInv, TypeOK
  <2>2. c \in Clients
    BY Zenon, <1>2 DEF ConnectedClients, IInv, TypeOK
  <2>3. \A u \in Threads, d \in Clients : Holds(u, d)' <=> Holds(u, d)
    BY Zenon, <1>2, <1>3, <2>1 DEF Holds
  <2>4. ConnectedClients' = ConnectedClients
    BY Zenon, <1>2, <2>3 DEF ConnectedClients
  <2>5. \A d \in Clients, p \in {"clTrs", "hkCheck"} :
          ClosingAt(d, p)' <=> ClosingAt(d, p) \/ (d = c /\ p = "clTrs")
    BY Zenon, <1>1, <1>2, <1>3, <2>1 DEF ClosingAt
  <2>6. \A d \in Clients : Closing(d)' = IF d = c THEN "swapped" ELSE Closing(d)
    BY Zenon, <2>1, <2>5 DEF Closing
  <2>7. Closing(c) = "no"
    BY Zenon, <1>6 DEF Closing
  <2>8. Client!SwapClosed(c)
    BY Zenon, <1>2, <2>2, <2>4, <2>6, <2>7 DEF Client!SwapClosed
  <2>9. Client!LifeNext
    BY Zenon, <2>2, <2>8 DEF Client!LifeNext, Client!LifeStep
  <2>10. Alive' /\ EntriesConnected'
    BY Zenon, <1>2, <2>4 DEF LifeInv, Alive, EntriesConnected
  <2>11. ClosesConnected'
    BY Zenon, <1>1, <1>2, <1>3, <2>1, <2>4 DEF LifeInv, ClosesConnected, Threads, ClosePoints
  <2>12. ClosesOnce'
    BY <1>3, <1>6, <2>1, ManagerAssumption DEF LifeInv, ClosesOnce, Threads, PastSwap
  <2> QED
    BY Zenon, <2>9, <2>10, <2>11, <2>12 DEF LifeInv
<1> QED
  BY Zenon, <1>5, <1>6

\* The transporter is closed, and the callback is due only when it was open.
LEMMA CloseTransporterLife ==
  ASSUME IInv, LifeInv, NEW t \in {Puller, Stopper}, CloseTransporter(t)
  PROVE  LifeInv' /\ Client!CloseIt(cl[t])
<1> DEFINE c == cl[t]
<1>1. t \in Threads
  BY Zenon DEF Threads
<1>2. /\ UNCHANGED <<hook, closed, clients>> /\ pc[t] = "clTrs" /\ c \in ConnectedClients
      /\ c \in Clients /\ c \in closed /\ life' = [life EXCEPT ![c] = "lost"]
  BY Zenon DEF CloseTransporter, table, LifeInv, ClosesConnected, ClosesOnce, ClosePoints, PastSwap,
         ConnectedClients, IInv, TypeOK
<1>3. /\ \A u \in Threads \ {t} : pc'[u] = pc[u] /\ cl'[u] = cl[u]
      /\ \/ pc'[t] = "hkCheck" /\ cl'[t] = c /\ life[c] # "lost"
         \/ pc'[t] \in {"range", "prune"}
  BY Zenon, <1>1 DEF CloseTransporter, AfterClose, Go, IInv, TypeOK
<1>4. \A u \in Threads \ {t} : pc[u] \in {"clTrs", "hkCheck"} => cl[u] # c
  BY Zenon, <1>2, ManagerAssumption
  DEF LifeInv, ClosesOnce, PastSwap, ClosePoints, IInv, Points, Threads, ConnectPoints
<1>5. \A u \in Threads, d \in Clients : Holds(u, d)' <=> Holds(u, d)
  BY Zenon, <1>2, <1>3 DEF Holds
<1>6. ConnectedClients' = ConnectedClients
  BY Zenon, <1>2, <1>5 DEF ConnectedClients
<1>7. \A d \in Clients, p \in {"clTrs", "hkCheck"} :
        ClosingAt(d, p)' <=> IF d = c THEN p = pc'[t] ELSE ClosingAt(d, p)
  BY Zenon, <1>1, <1>2, <1>3, <1>4 DEF ClosingAt
<1>8. ClosingAt(c, "clTrs")
  BY Zenon, <1>1, <1>2 DEF ClosingAt
<1>9. \A d \in Clients :
        Closing(d)' = IF d # c THEN Closing(d) ELSE IF pc'[t] = "hkCheck" THEN "calling" ELSE "done"
  BY Zenon, <1>2, <1>3, <1>7 DEF Closing
<1>10. Closing(c) = "swapped"
  BY Zenon, <1>2, <1>8 DEF Closing
<1>11. life[c] \in {"up", "lost"}
  BY Zenon, <1>2 DEF LifeInv, Alive
<1>12. Client!CloseIt(c)
  <2>1. CASE pc'[t] = "hkCheck"
    BY Zenon, <1>2, <1>3, <1>6, <1>9, <1>10, <1>11, <2>1 DEF Client!CloseIt
  <2>2. CASE pc'[t] # "hkCheck"
    BY Zenon, <1>2, <1>6, <1>9, <1>10, <2>2 DEF Client!CloseIt
  <2> QED
    BY Zenon, <2>1, <2>2
<1>13. Alive' /\ EntriesConnected'
  BY Zenon, <1>2, <1>6 DEF LifeInv, Alive, EntriesConnected, IInv, TypeOK, ConnectedClients
<1>14. ClosesConnected'
  BY Zenon, <1>1, <1>2, <1>3, <1>6 DEF LifeInv, ClosesConnected, Threads, ClosePoints
<1>15. ClosesOnce'
  BY Zenon, <1>2, <1>3, ManagerAssumption DEF LifeInv, ClosesOnce, Threads, PastSwap, ClosePoints
<1> QED
  BY Zenon, <1>12, <1>13, <1>14, <1>15 DEF LifeInv

\* The check of the callback is the one step of it that ClientLife sees.
LEMMA HookCheckLife ==
  ASSUME IInv, LifeInv, NEW t \in {Puller, Stopper}, HookCheck(t)
  PROVE  LifeInv' /\ Client!CallOnClosed(cl[t])
<1> DEFINE c == cl[t]
<1>1. t \in Threads
  BY Zenon DEF Threads
<1>2. /\ UNCHANGED <<life, hook, closed, clients>> /\ pc[t] = "hkCheck"
      /\ c \in ConnectedClients /\ c \in Clients /\ c \in closed
  BY Zenon DEF HookCheck, table, objects, LifeInv, ClosesConnected, ClosesOnce, ClosePoints, PastSwap,
         ConnectedClients, IInv, TypeOK
<1>3. /\ \A u \in Threads \ {t} : pc'[u] = pc[u] /\ cl'[u] = cl[u]
      /\ \/ pc'[t] = "hkEvent" /\ cl'[t] = c
         \/ pc'[t] \in {"range", "prune"}
  BY Zenon, <1>1 DEF HookCheck, AfterClose, Go, IInv, TypeOK
<1>4. \A u \in Threads \ {t} : pc[u] \in {"clTrs", "hkCheck"} => cl[u] # c
  BY Zenon, <1>2, ManagerAssumption
  DEF LifeInv, ClosesOnce, PastSwap, ClosePoints, IInv, Points, Threads, ConnectPoints
<1>5. \A u \in Threads, d \in Clients : Holds(u, d)' <=> Holds(u, d)
  BY Zenon, <1>2, <1>3 DEF Holds
<1>6. ConnectedClients' = ConnectedClients
  BY Zenon, <1>2, <1>5 DEF ConnectedClients
<1>7. \A d \in Clients, p \in {"clTrs", "hkCheck"} :
        ClosingAt(d, p)' <=> ClosingAt(d, p) /\ d # c
  BY Zenon, <1>1, <1>2, <1>3, <1>4 DEF ClosingAt
<1>8. ClosingAt(c, "hkCheck") /\ ~ClosingAt(c, "clTrs")
  BY Zenon, <1>1, <1>2, <1>4 DEF ClosingAt
<1>9. \A d \in Clients : Closing(d)' = IF d = c THEN "done" ELSE Closing(d)
  BY Zenon, <1>2, <1>7 DEF Closing
<1>10. Closing(c) = "calling"
  BY Zenon, <1>2, <1>8 DEF Closing
<1>11. Client!CallOnClosed(c)
  BY Zenon, <1>2, <1>6, <1>9, <1>10 DEF Client!CallOnClosed
<1>12. Alive' /\ EntriesConnected'
  BY Zenon, <1>2, <1>6 DEF LifeInv, Alive, EntriesConnected
<1>13. ClosesConnected'
  BY Zenon, <1>1, <1>2, <1>3, <1>6 DEF LifeInv, ClosesConnected, Threads, ClosePoints
<1>14. ClosesOnce'
  BY Zenon, <1>2, <1>3, ManagerAssumption DEF LifeInv, ClosesOnce, Threads, PastSwap, ClosePoints
<1> QED
  BY Zenon, <1>11, <1>12, <1>13, <1>14 DEF LifeInv

\* Every step of the manager is a step of one client, or none of any.
LEMMA NextLife ==
  ASSUME IInv, LifeInv, [Next]_vars
  PROVE  LifeInv' /\ [Client!LifeNext]_(Client!lifeVars)
<1> DEFINE Goal == LifeInv' /\ (Client!LifeNext \/ UNCHANGED Client!lifeVars)
<1>1. CASE UNCHANGED vars \/ Cancel \/ TakeEvent \/ \E t \in Adders : Timeout(t)
  BY Zenon, <1>1, QuietUnseen DEF vars, Cancel, TakeEvent, Timeout, table, objects, local
<1>2. CASE \/ \E list \in Lists : UpdateStart(list)
           \/ TickStart \/ PullerExit \/ UpdateStep
  BY Zenon, <1>2, PullerUnseen
<1>3. CASE StopStep
  BY Zenon, <1>3, StopUnseen
<1>4. CASE \E t \in Adders : AddStep(t) \/ \E s \in Servers : AddStart(t, s)
  BY Zenon, <1>4, AddUnseen
<1>5. CASE \E t \in Adders \cup {Puller} : ConnectStep(t)
  <2>1. PICK t \in Connectors : ConnectStep(t)
    BY Zenon, <1>5 DEF Connectors
  <2>2. CASE \E c \in Clients : Dial(t, c)
    BY Zenon, <2>2, DialLife DEF Client!LifeNext, Client!LifeStep
  <2> QED
    BY Zenon, <2>1, <2>2, ConnectUnseen, ConnectReturnLife, ConnectRegisterLife DEF ConnectStep
<1>6. CASE \E t \in {Puller, Stopper} : CloseStep(t)
  <2>1. PICK t \in {Puller, Stopper} : CloseStep(t)
    BY Zenon, <1>6
  <2>2. CASE CloseTransporter(t) \/ HookCheck(t)
    <3>1. cl[t] \in Clients
      BY Zenon, <2>2 DEF CloseTransporter, HookCheck, IInv, Equipped, ClosePoints
    <3> QED
      BY Zenon, <2>2, <3>1, CloseTransporterLife, HookCheckLife DEF Client!LifeNext, Client!LifeStep
  <2> QED
    BY Zenon, <2>1, <2>2, CloseSwapLife, HookUnseen DEF CloseStep
<1>7. CASE \E c \in Clients : HandshakeAnswered(c) \/ Lose(c) \/ ContextKills(c)
  BY Zenon, <1>7, OutsideLife DEF Lose, ContextKills, Client!LifeNext, Client!LifeStep
<1>8. Goal
  BY Zenon, <1>1, <1>2, <1>3, <1>4, <1>5, <1>6, <1>7 DEF Next
<1> QED
  BY Zenon, <1>8

\* No client exists at the start.
LEMMA InitLife == Init => LifeInv /\ Client!LifeInit
<1> SUFFICES ASSUME Init PROVE LifeInv /\ Client!LifeInit
  OBVIOUS
<1>1. ConnectedClients = {} /\ \A c \in Clients : Closing(c) = "no"
  BY Zenon DEF Init, ConnectedClients, Holds, Closing
<1>2. Client!LifeInit
  BY Zenon, <1>1 DEF Init, Client!LifeInit
<1>3. LifeInv
  BY Zenon, <1>1 DEF Init, LifeInv, Alive, EntriesConnected, ClosesConnected, ClosesOnce, Threads,
     PastSwap, ClosePoints
<1> QED
  BY Zenon, <1>2, <1>3

\* The manager uses its clients as ClientLife allows, for any number of relay servers, clients and
\* goroutines: it closes a client only after Connect returned nil for it, two threads never both
\* go past the swap of Client.closed, the callback runs once at most and for a connection that
\* Close itself ended, and no client that anybody refers to is dialled again.
THEOREM ManagerUsesClientLife == Spec => UsesClientLife
<1>1. Init => Client!LifeInit
  BY Zenon, InitLife
<1>2. IInv /\ LifeInv /\ [Next]_vars => LifeInv' /\ [Client!LifeNext]_(Client!lifeVars)
  BY Zenon, NextLife
<1>3. Init => LifeInv
  BY Zenon, InitLife
<1> QED
  BY <1>1, <1>2, <1>3, Invariance, PTL DEF Spec, UsesClientLife, Client!LifeSpec

-----------------------------------------------------------------------------
(* The contexts of the clients.                                              *)

\* The context under which a client runs is the driver's, or that of an AddServer still under way,
\* or done: when AddServer returns or times out, no client is left with a context nobody ends.
NoOrphan ==
  \A c \in Clients : ctx[c] \in Adders =>
    pc[ctx[c]] \in ConnectPoints /\ ctx[c] \notin expired

\* A client of AddServer loses its context with the call, and never before it has one: a step
\* that ends connect ends the context, and only a thread in connect gives its context away.
LEMMA NextNoOrphan == IInv /\ NoOrphan /\ [Next]_vars => NoOrphan'
<1> SUFFICES ASSUME IInv, NoOrphan, [Next]_vars PROVE NoOrphan'
  OBVIOUS
<1>1. CASE \E t \in Adders : AddReturn(t) \/ Timeout(t)
  BY <1>1, ManagerAssumption DEF AddReturn, Timeout, EndContext, NoOrphan, Go, IInv, TypeOK, local, Threads
<1>2. CASE \E t \in Connectors, c \in Clients : Dial(t, c)
  BY <1>2, ManagerAssumption DEF Dial, NoOrphan, Go, IInv, TypeOK, ConnectPoints, Connectors, Threads
<1>3. CASE /\ UNCHANGED <<ctx, expired>>
           /\ \A u \in Adders : pc[u] \in ConnectPoints => pc'[u] \in ConnectPoints
  BY Zenon, <1>3 DEF NoOrphan
<1>4. CASE \/ UNCHANGED vars \/ StopStep \/ Cancel \/ TakeEvent
           \/ \E t \in {Puller, Stopper} : CloseStep(t)
           \/ \E c \in Clients : HandshakeAnswered(c) \/ Lose(c) \/ ContextKills(c)
           \/ \E list \in Lists : UpdateStart(list)
           \/ TickStart \/ PullerExit \/ UpdateStep
  <2>1. UNCHANGED <<ctx, expired>>
    BY Zenon, <1>4
    DEF vars, objects, StopStep, StopStart, StopVisit, StopDone, Cancel, TakeEvent, CloseStep,
        CloseSwap, CloseTransporter, HookCheck, HookEvent, HookDelete, HookPend, HandshakeAnswered,
        Lose, ContextKills, Dies, UpdateStart, TickStart, PullerExit, UpdateStep, PullerConnects,
        PruneVisit, PullerConnected, TickDone, PruneStart, PrunePending, UpdateDone
  <2>2. \A u \in Adders : pc'[u] = pc[u]
    <3>1. \A u \in Adders : u \in Threads /\ u \notin {Puller, Stopper}
      BY Zenon, ManagerAssumption DEF Threads
    <3>2. pc' = pc \/ \E t \in {Puller, Stopper} : \E p \in PCs : Go(t, p)
      BY Zenon, <1>4
      DEF vars, local, StopStep, StopStart, StopVisit, StopDone, Cancel, TakeEvent, CloseStep,
          CloseSwap, CloseTransporter, HookCheck, HookEvent, HookDelete, HookPend, AfterClose,
          HandshakeAnswered, Lose, ContextKills, Dies, UpdateStart, TickStart, PullerExit,
          UpdateStep, PullerConnects, PruneVisit, PullerConnected, TickDone, PruneStart,
          PrunePending, UpdateDone, PCs, ClosePoints, ConnectPoints
    <3> QED
      BY Zenon, <3>1, <3>2 DEF Go, IInv, TypeOK
  <2> QED
    BY Zenon, <1>3, <2>1, <2>2
<1>5. CASE \E t \in Adders : AddLoad(t) \/ \E s \in Servers : AddStart(t, s)
  <2>1. PICK t \in Adders : AddLoad(t) \/ \E s \in Servers : AddStart(t, s)
    BY Zenon, <1>5
  <2>2. UNCHANGED <<ctx, expired>> /\ pc[t] \in {"idle", "addLoad"}
    BY Zenon, <2>1 DEF AddLoad, AddStart, objects
  <2>3. \A u \in Adders \ {t} : pc'[u] = pc[u]
    BY Zenon, <2>1 DEF AddLoad, AddStart, Go, IInv, TypeOK, Threads
  <2> QED
    BY Zenon, <1>3, <2>2, <2>3 DEF ConnectPoints
<1>6. CASE \E t \in Connectors : \/ ConnectLoad(t) \/ DialFails(t) \/ ConnectReturn(t)
                                 \/ ConnectStore(t) \/ ConnectEvent(t) \/ ConnectRegister(t)
  <2>1. PICK t \in Connectors : \/ ConnectLoad(t) \/ DialFails(t) \/ ConnectReturn(t)
                                \/ ConnectStore(t) \/ ConnectEvent(t) \/ ConnectRegister(t)
    BY Zenon, <1>6
  <2>2. UNCHANGED <<ctx, expired>> /\ \E p \in ConnectPoints : Go(t, p)
    BY Zenon, <2>1 DEF ConnectLoad, DialFails, ConnectReturn, ConnectStore, ConnectEvent, ConnectRegister,
                Return, objects, ConnectPoints
  <2>3. \A u \in Adders : pc'[u] = pc[u] \/ pc'[u] \in ConnectPoints
    BY Zenon, <2>2 DEF Go, IInv, TypeOK, Threads
  <2> QED
    BY Zenon, <1>3, <2>2, <2>3
<1> QED
  BY Zenon, <1>1, <1>2, <1>4, <1>5, <1>6 DEF Next, ConnectStep, AddStep, Connectors

\* No client outlives its context: whenever a client runs under the context of an AddServer, that
\* call is in connect and its context is not done.
THEOREM NoOrphanSafe == Spec => []NoOrphan
<1>1. Init => NoOrphan
  BY Zenon, ManagerAssumption DEF Init, NoOrphan
<1> QED
  BY <1>1, NextNoOrphan, Invariance, PTL DEF Spec
=============================================================================
