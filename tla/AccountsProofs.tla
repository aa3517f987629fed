--------------------------- MODULE AccountsProofs ---------------------------
(***************************************************************************)
(* Proofs about Accounts, for any number of accounts, machines, keys,      *)
(* tokens and handlers: the two entries of a token, logout, one-off keys   *)
(* and the owner of a token that was made from a key.                      *)
(***************************************************************************)
EXTENDS Accounts, FiniteSetTheorems, TLAPS

\* A handler at one of these points has a token that nobody else knows.
Making == {"setRefresh", "undo", "saveMachine"}

\* A handler at one of these points is on its way to a token.
Granting == {"exchange", "setAccess"} \cup Making

\* A request has what a handler at point p is going to read.
Fits(p, r) ==
  /\ p \in Granting \cup {"register"} => r.machine # None
  /\ p \in Making \cup {"delRefresh"} <=> r.tok # None
  /\ p \in {"exchange", "saveMachine", "createKey", "deleteKey"} => r.key # None
  /\ p = "register" => r.key = None /\ r.user # Nobody
  /\ r.first => r.key # None

Filled == \A h \in Handlers : pc[h] # "idle" => Fits(pc[h], req[h])

\* Whoever got hold of a key, a handler or a token, has the user of its row.
Row(p, r) ==
  p \in Granting /\ r.key # None =>
    /\ keys[r.key] # None
    /\ p # "exchange" /\ keys[r.key] # Gone => r.user = keys[r.key].user

ClaimRow(t) ==
  claims[t] # None /\ claims[t].key # None =>
    /\ keys[claims[t].key] # None
    /\ keys[claims[t].key] # Gone => claims[t].user = keys[claims[t].key].user

Rows == (\A h \in Handlers : Row(pc[h], req[h])) /\ (\A t \in Tokens : ClaimRow(t))

\* The store has no entry of a token that was not made, and none of another user.
Stored ==
  \A t \in Tokens : IF claims[t] = None THEN access[t] = None /\ refresh[t] = None
                                        ELSE access[t] \in {None, claims[t].user}

\* A token in the making is known to its maker only; a token that is logged out has lost
\* its first entry.
Own(p, r) ==
  /\ p \in Making =>
       /\ r.tok \notin held /\ claims[r.tok] # None
       /\ claims[r.tok].machine = r.machine /\ claims[r.tok].key = r.key
       /\ access[r.tok] # None
       /\ refresh[r.tok] # None <=> p = "saveMachine"
  /\ p = "delRefresh" => r.tok \in held /\ access[r.tok] = None

\* A token in the making has one maker.
Owns ==
  /\ \A h \in Handlers : Own(pc[h], req[h])
  /\ \A g, h \in Handlers : pc[g] \in Making /\ pc[h] \in Making /\ req[g].tok = req[h].tok => g = h

\* The handlers that are on their way to a token of key k.
Using(k) == {h \in Handlers : pc[h] \in Granting /\ req[h].key = k}

\* The machines that have a token of key k or may get one without another look at the row.
Reach(k) == served[k] \cup {req[h].machine : h \in Using(k)}

\* Key k is in the table and one-off.
Once(k) == keys[k] \notin {None, Gone} /\ keys[k].type = "one-off"

\* The machine of a token that was handed out is one of those that its key has served.
Backed == \A t \in held : claims[t].key # None => claims[t].machine \in served[claims[t].key]

\* As long as the row of a one-off key names no machine, nobody has a token of it and
\* every handler that is past the row will save its machine.
First(k) ==
  /\ IsFiniteSet(served[k])
  /\ keys[k] = None => served[k] = {}
  /\ Once(k) => IF keys[k].machine = None
                THEN served[k] = {} /\ \A h \in Using(k) : pc[h] = "exchange" \/ req[h].first
                ELSE keys[k].machine \in served[k]

FirstUse == \A k \in Keys : First(k)

\* The machines within reach of a one-off key are no more than the handlers.
Bounded == \A k \in Keys : Once(k) => Cardinality(Reach(k)) <= Cardinality(Handlers)

IInv ==
  /\ TypeOK /\ Filled /\ Rows /\ Stored /\ Owns /\ PairOrNothing
  /\ Backed /\ FirstUse /\ Bounded

-----------------------------------------------------------------------------
(* Facts about requests and counting.                                      *)

\* Handler h has gone to point p with request r, and no other handler has moved.
Moved(h, p, r) ==
  /\ pc' \in [Handlers -> Points]
  /\ req' \in [Handlers -> Request \cup {None}]
  /\ \A g \in Handlers : pc'[g] # "idle" <=> req'[g] # None
  /\ pc'[h] = p /\ req'[h] = r
  /\ \A g \in Handlers : g # h => pc'[g] = pc[g] /\ req'[g] = req[g]

\* A handler that goes to another point with a request, or stops, keeps the types.
LEMMA GoType ==
  ASSUME TypeOK, NEW h \in Handlers, NEW p, NEW r, Go(h, p, r),
         (p \in Points \ {"idle"} /\ r \in Request) \/ (p = "idle" /\ r = None)
  PROVE  Moved(h, p, r)
<1>1. p \in Points /\ r \in Request \cup {None} /\ (p # "idle" <=> r # None)
  BY Zenon, AccountsAssumption DEF Points
<1>2. /\ pc \in [Handlers -> Points] /\ req \in [Handlers -> Request \cup {None}]
      /\ \A g \in Handlers : pc[g] # "idle" <=> req[g] # None
  BY Zenon DEF TypeOK
<1>3. pc' = [pc EXCEPT ![h] = p] /\ req' = [req EXCEPT ![h] = r]
  BY Zenon DEF Go
<1> QED  BY Zenon, <1>1, <1>2, <1>3 DEF Moved

\* The request that a handler starts with.
LEMMA NewRequestType ==
  ASSUME NEW u \in UserIDs, NEW m \in Machines \cup {None}, NEW k \in Keys \cup {None}
  PROVE  /\ NewRequest(u, m, k) \in Request
         /\ \A t \in Tokens : [NewRequest(u, m, k) EXCEPT !.tok = t] \in Request
BY Zenon DEF NewRequest, Request

\* A handler at work has a request.
LEMMA HasRequest ==
  ASSUME TypeOK, NEW h \in Handlers, pc[h] # "idle"
  PROVE  req[h] \in Request
BY Zenon DEF TypeOK

\* The fields of a request.
LEMMA RequestFields ==
  ASSUME NEW r \in Request
  PROVE  /\ r.user \in UserIDs /\ r.machine \in Machines \cup {None} /\ r.key \in Keys \cup {None}
         /\ r.tok \in Tokens \cup {None} /\ r.first \in BOOLEAN
BY Zenon DEF Request

\* A request stays one when its user is set.
LEMMA SetUser ==
  ASSUME NEW r \in Request, NEW u \in UserIDs, NEW s, s = [r EXCEPT !.user = u]
  PROVE  /\ s \in Request /\ s.user = u /\ s.machine = r.machine /\ s.key = r.key
         /\ s.tok = r.tok /\ s.first = r.first
BY Zenon DEF Request

\* A request stays one when its token is set.
LEMMA SetToken ==
  ASSUME NEW r \in Request, NEW t \in Tokens, NEW s, s = [r EXCEPT !.tok = t]
  PROVE  /\ s \in Request /\ s.user = r.user /\ s.machine = r.machine /\ s.key = r.key
         /\ s.tok = t /\ s.first = r.first
BY Zenon DEF Request

\* A finite set stays one when an element is added, or none.
LEMMA StaysFinite ==
  ASSUME NEW S, IsFiniteSet(S), NEW x, NEW T \in {S, S \cup {x}}
  PROVE  IsFiniteSet(T)
<1>1. IsFiniteSet(S \cup {x})
  BY Zenon, FS_AddElement
<1> QED  BY Zenon, <1>1

\* The machines of some handlers are no more than the handlers.
LEMMA ImageCount ==
  ASSUME NEW f, NEW S \in SUBSET Handlers
  PROVE  Cardinality({f[h].machine : h \in S}) <= Cardinality(Handlers)
<1> DEFINE T == {f[h].machine : h \in S}
           F == [h \in S |-> f[h].machine]
<1>1. IsFiniteSet(S) /\ Cardinality(S) <= Cardinality(Handlers) /\ Cardinality(S) \in Nat
      /\ Cardinality(Handlers) \in Nat
  BY Zenon, FS_Subset, FS_CardinalityType, AccountsAssumption
<1>2. F \in Surjection(S, T)
  BY Zenon DEF Surjection
<1>3. IsFiniteSet(T) /\ Cardinality(T) <= Cardinality(S)
  BY Zenon, <1>1, <1>2, FS_Surjection
<1>4. Cardinality(T) \in Nat
  BY Zenon, <1>3, FS_CardinalityType
<1> QED  BY <1>1, <1>3, <1>4

\* A step after which a one-off key has served nobody, or reaches no more machines than
\* before, keeps the bound.
LEMMA BoundedStep ==
  ASSUME FirstUse, Bounded, TypeOK,
         \A k \in Keys : Once(k)' => served'[k] = {} \/ (Once(k) /\ Reach(k)' \subseteq Reach(k))
  PROVE  Bounded'
<1> SUFFICES ASSUME NEW k \in Keys, Once(k)'
             PROVE  Cardinality(Reach(k)') <= Cardinality(Handlers)
  BY Zenon DEF Bounded
<1>1. CASE served'[k] = {}
  <2>1. Reach(k)' = {req'[h].machine : h \in Using(k)'}
    BY Zenon, <1>1 DEF Reach
  <2>2. Using(k)' \in SUBSET Handlers
    BY Zenon DEF Using
  <2> QED  BY Zenon, <2>1, <2>2, ImageCount
<1>2. CASE Once(k) /\ Reach(k)' \subseteq Reach(k)
  <2> DEFINE T == {req[h].machine : h \in Using(k)}
             F == [h \in Using(k) |-> req[h].machine]
  <2>1. IsFiniteSet(Using(k))
    BY Zenon, FS_Subset, AccountsAssumption DEF Using
  <2>2. F \in Surjection(Using(k), T)
    BY Zenon DEF Surjection
  <2>3. IsFiniteSet(T)
    BY Zenon, <2>1, <2>2, FS_Surjection
  <2>4. IsFiniteSet(Reach(k))
    BY Zenon, <2>3, FS_Union DEF Reach, FirstUse, First
  <2>5. Cardinality(Reach(k)') <= Cardinality(Reach(k))
    BY Zenon, <1>2, <2>4, FS_Subset
  <2>6. Cardinality(Reach(k)') \in Nat /\ Cardinality(Reach(k)) \in Nat /\ Cardinality(Handlers) \in Nat
    BY Zenon, <1>2, <2>4, FS_Subset, FS_CardinalityType, AccountsAssumption
  <2>7. Cardinality(Reach(k)) <= Cardinality(Handlers)
    BY Zenon, <1>2 DEF Bounded
  <2> QED  BY <2>5, <2>6, <2>7
<1> QED  BY Zenon, <1>1, <1>2

\* What is known of key k stays when nobody joins those on their way to a token of it.
LEMMA FirstKept ==
  ASSUME FirstUse, NEW k \in Keys, keys'[k] = keys[k], served'[k] = served[k],
         \A g \in Using(k)' : g \in Using(k) /\ pc'[g] = pc[g] /\ req'[g] = req[g]
  PROVE  First(k)'
<1>1. Once(k)' <=> Once(k)
  BY Zenon DEF Once
<1> QED  BY Zenon, <1>1 DEF FirstUse, First

\* A step that changes no row and serves nobody, in which every handler on its way to a
\* token has been so before, with the same request, keeps what is known of one-off keys.
LEMMA Calm ==
  ASSUME TypeOK, FirstUse, Bounded, UNCHANGED <<keys, served>>,
         \A g \in Handlers : pc'[g] \in Granting /\ req'[g].key \in Keys =>
           /\ pc[g] \in Granting /\ req[g].key = req'[g].key /\ req[g].machine = req'[g].machine
           /\ pc'[g] # "exchange" => pc[g] # "exchange" /\ req[g].first = req'[g].first
  PROVE  FirstUse' /\ Bounded'
<1>1. \A k \in Keys : Using(k)' \subseteq Using(k) /\ (Once(k)' <=> Once(k))
  BY Zenon DEF Using, Once
<1>2. FirstUse'
  BY Zenon, <1>1 DEF FirstUse, First, Using
<1>3. \A k \in Keys : Reach(k)' \subseteq Reach(k)
  BY <1>1 DEF Reach, Using
<1> QED  BY Zenon, <1>1, <1>2, <1>3, BoundedStep

\* The token of a handler that has one.
LEMMA HasToken ==
  ASSUME TypeOK, Filled, NEW g \in Handlers, pc[g] \in Making \cup {"delRefresh"}
  PROVE  req[g].tok \in Tokens
<1>1. pc[g] # "idle"
  BY Zenon DEF Making
<1>2. req[g].tok \in Tokens \cup {None}
  BY Zenon, <1>1, HasRequest, RequestFields
<1> QED  BY Zenon, <1>1, <1>2 DEF Filled, Fits

\* Nothing changes about token s.
Same(s) ==
  /\ claims'[s] = claims[s] /\ access'[s] = access[s] /\ refresh'[s] = refresh[s]
  /\ s \in held' <=> s \in held
  /\ s \in broken' <=> s \in broken

\* One handler moves with a request that fits: the other requests fit as before.
LEMMA FilledStep ==
  ASSUME Filled, NEW h \in Handlers, NEW p, NEW r, Moved(h, p, r), p # "idle" => Fits(p, r)
  PROVE  Filled'
BY Zenon DEF Filled, Moved, Fits

\* One handler moves with a request that fits its row, and no row changes.
LEMMA RowsStep ==
  ASSUME Rows, UNCHANGED keys, NEW h \in Handlers, NEW p, NEW r, Moved(h, p, r), Row(p, r),
         \A t \in Tokens : claims'[t] = claims[t] \/ ClaimRow(t)'
  PROVE  Rows'
<1>1. \A g \in Handlers : Row(pc'[g], req'[g])
  BY Zenon DEF Rows, Moved
<1>2. \A g \in Handlers : Row(pc[g], req[g])'
  BY Zenon, <1>1 DEF Row
<1>3. \A t \in Tokens : ClaimRow(t)'
  BY Zenon DEF Rows, ClaimRow
<1> QED  BY Zenon, <1>2, <1>3 DEF Rows

\* One handler moves and one token, which nobody else is making, changes: the others stay
\* with their makers.
LEMMA OwnsStep ==
  ASSUME TypeOK, Filled, Owns, NEW t, \A s \in Tokens : s # t => Same(s),
         NEW h \in Handlers, NEW p, NEW r, Moved(h, p, r), Own(p, r)',
         p \in Making => r.tok = t,
         \A g \in Handlers : g # h /\ pc[g] \in Making => req[g].tok # t,
         t \in held /\ access[t] = None => t \in held' /\ access'[t] = None
  PROVE  Owns'
<1>1. ASSUME NEW g \in Handlers, g # h PROVE Own(pc[g], req[g])'
  <2>1. pc'[g] = pc[g] /\ req'[g] = req[g] /\ Own(pc[g], req[g])
    BY Zenon, <1>1 DEF Moved, Owns
  <2>2. pc[g] \in Making \cup {"delRefresh"} => req[g].tok \in Tokens
    BY Zenon, HasToken
  <2>3. pc[g] \in Making => Same(req[g].tok)
    BY Zenon, <1>1, <2>2
  <2>4. pc[g] = "delRefresh" => Same(req[g].tok) \/ req[g].tok = t
    BY Zenon, <2>2
  <2> QED  BY <2>1, <2>3, <2>4 DEF Own, Same, Making
<1>2. \A g \in Handlers : Own(pc[g], req[g])'
  BY Zenon, <1>1 DEF Moved, Own
<1>3. \A f, g \in Handlers : pc'[f] \in Making /\ pc'[g] \in Making /\ req'[f].tok = req'[g].tok => f = g
  BY DEF Moved, Owns
<1> QED  BY Zenon, <1>2, <1>3 DEF Owns

\* One handler moves, which has no other token than t, and no other token changes: what
\* has to be seen to is the pair of t.
LEMMA PairStep ==
  ASSUME PairOrNothing, NEW t, \A s \in Tokens : s # t => Same(s),
         NEW h \in Handlers, NEW p, NEW r, Moved(h, p, r),
         pc[h] # "idle" => req[h].tok \in {t, None},
         p # "idle" => r.tok \in {t, None},
         t \in Tokens => \/ (p # "idle" /\ r.tok = t) \/ t \in broken'
                         \/ (access'[t] = None <=> refresh'[t] = None)
  PROVE  PairOrNothing'
<1> SUFFICES ASSUME NEW s \in Tokens, s \notin broken', claims'[s] # None, claims'[s].live, ~Busy(s)'
             PROVE  access'[s] = None <=> refresh'[s] = None
  BY Zenon DEF PairOrNothing
<1>1. CASE s = t
  BY Zenon, <1>1 DEF Busy, Moved
<1>2. CASE s # t
  <2>1. Same(s) /\ s # None
    BY Zenon, <1>2, AccountsAssumption
  <2>2. ~Busy(s)
    BY Zenon, <1>2, <2>1 DEF Busy, Moved
  <2> QED  BY Zenon, <2>1, <2>2 DEF PairOrNothing, Same
<1> QED  BY Zenon, <1>1, <1>2

\* A handler that works on no token, or has stored both entries of one, moves to a point
\* where it has none, and no token changes.
LEMMA Aside ==
  ASSUME IInv, NEW h \in Handlers, NEW p, NEW r, Moved(h, p, r),
         p \notin Making \cup {"delRefresh"},
         UNCHANGED <<claims, access, refresh, held, broken>>,
         p # "idle" => Fits(p, r),
         pc[h] # "idle" /\ req[h].tok # None => access[req[h].tok] # None /\ refresh[req[h].tok] # None
  PROVE  Filled' /\ Stored' /\ Owns' /\ PairOrNothing'
<1>1. Filled'
  BY Zenon, FilledStep DEF IInv
<1>2. Stored'
  BY Zenon DEF IInv, Stored
<1>3. \A s : Same(s)
  BY Zenon DEF Same
<1>4. Owns'
  <2>1. Own(p, r)'
    BY Zenon DEF Own
  <2>2. \A g \in Handlers : g # h /\ pc[g] \in Making => req[g].tok # None
    BY Zenon, HasToken, AccountsAssumption DEF IInv
  <2> QED  BY Zenon, <1>3, <2>1, <2>2, OwnsStep DEF IInv
<1>5. PairOrNothing'
  <2> DEFINE t == IF pc[h] = "idle" THEN None ELSE req[h].tok
  <2>1. p # "idle" => r.tok = None
    BY Zenon DEF Fits
  <2>2. t \in Tokens => (access'[t] = None <=> refresh'[t] = None)
    BY Zenon, AccountsAssumption
  <2>3. pc[h] # "idle" => req[h].tok \in {t, None}
    OBVIOUS
  <2> HIDE DEF t
  <2> QED  BY Zenon, <1>3, <2>1, <2>2, <2>3, PairStep DEF IInv
<1> QED  BY Zenon, <1>1, <1>2, <1>4, <1>5

\* A handler that stops or goes on to a later point, with the same key, machine and
\* intent to save, leaves what is known of one-off keys.
LEMMA StopCalm ==
  ASSUME TypeOK, FirstUse, Bounded, UNCHANGED <<keys, served>>,
         NEW h \in Handlers, NEW p, NEW r, Moved(h, p, r), p # "exchange",
         p \in Granting => /\ pc[h] \in Granting \ {"exchange"} /\ r.key = req[h].key
                           /\ r.machine = req[h].machine /\ r.first = req[h].first
  PROVE  FirstUse' /\ Bounded'
<1>1. \A g \in Handlers : pc'[g] \in Granting =>
        /\ pc[g] \in Granting /\ req[g].key = req'[g].key /\ req[g].machine = req'[g].machine
        /\ pc'[g] # "exchange" => pc[g] # "exchange" /\ req[g].first = req'[g].first
  BY Zenon DEF Moved
<1> QED  BY Zenon, <1>1, Calm

\* A pair that is handed out adds a machine to those that its key has served.
LEMMA Serves ==
  ASSUME TypeOK, NEW r, r.key \in Keys \cup {None}, r.machine \in Machines, HandOut(r)
  PROVE  /\ served' \in [Keys -> SUBSET Machines]
         /\ \A k \in Keys : served'[k] = IF r.key = k THEN served[k] \cup {r.machine} ELSE served[k]
<1>1. served \in [Keys -> SUBSET Machines]
  BY Zenon DEF TypeOK
<1>2. CASE r.key = None
  BY Zenon, <1>1, <1>2, AccountsAssumption DEF HandOut
<1>3. CASE r.key \in Keys
  <2>1. served' = [served EXCEPT ![r.key] = @ \cup {r.machine}]
    BY Zenon, <1>3, AccountsAssumption DEF HandOut
  <2> QED  BY Zenon, <1>1, <1>3, <2>1
<1> QED  BY Zenon, <1>2, <1>3

-----------------------------------------------------------------------------
(* The actions.                                                            *)

\* A handler takes up a request that has what it will not read again.
LEMMA BeginIInv ==
  ASSUME IInv, NEW h \in Handlers, pc[h] = "idle",
         NEW p \in {"register", "setAccess", "exchange", "createKey", "deleteKey"},
         NEW r \in Request, Go(h, p, r), UNCHANGED <<tables, tokens>>,
         r.tok = None, ~r.first,
         p \in Granting \cup {"register"} => r.machine # None,
         p \in {"exchange", "createKey", "deleteKey"} => r.key # None,
         p = "register" => r.key = None /\ r.user # Nobody,
         p \in Granting /\ r.key # None =>
           /\ p = "exchange" /\ keys[r.key] # None
           /\ Once(r.key) /\ keys[r.key].machine # None => r.machine \in served[r.key]
  PROVE  IInv'
<1>1. Moved(h, p, r)
  BY Zenon, GoType DEF IInv, Points
<1>2. TypeOK' /\ Backed'
  BY Zenon, <1>1 DEF IInv, tables, tokens, Moved, TypeOK, Backed
<1>3. Filled' /\ Stored' /\ Owns' /\ PairOrNothing'
  <2>1. Fits(p, r) /\ p \notin Making \cup {"delRefresh"}
    BY Zenon DEF Fits, Making, Granting
  <2> QED  BY Zenon, <1>1, <2>1, Aside DEF tokens
<1>4. Rows'
  BY Zenon, <1>1, RowsStep DEF IInv, Row, tables, tokens
<1>5. /\ \A k \in Keys : Once(k)' <=> Once(k)
      /\ \A k \in Keys : \A g \in Using(k)' : IF g = h THEN p = "exchange" /\ r.key = k
                                              ELSE g \in Using(k) /\ pc'[g] = pc[g] /\ req'[g] = req[g]
  BY Zenon, <1>1, AccountsAssumption DEF Once, Using, Moved, tables
<1>6. FirstUse'
  <2>1. \A k \in Keys : \A g \in Using(k)' :
          pc'[g] = "exchange" \/ (g \in Using(k) /\ pc'[g] = pc[g] /\ req'[g] = req[g])
    BY Zenon, <1>1, <1>5 DEF Moved
  <2> QED  BY <1>5, <2>1 DEF IInv, FirstUse, First, tables, tokens
<1>7. Bounded'
  <2>1. ASSUME NEW k \in Keys, Once(k)' PROVE served'[k] = {} \/ (Once(k) /\ Reach(k)' \subseteq Reach(k))
    <3>1. Once(k) /\ served' = served
      BY Zenon, <1>5, <2>1 DEF tokens
    <3>2. CASE keys[k].machine = None
      BY Zenon, <3>1, <3>2 DEF IInv, FirstUse, First
    <3>3. CASE keys[k].machine # None
      <4>1. h \in Using(k)' => r.machine \in served[k]
        BY Zenon, <1>5, <3>1, <3>3, AccountsAssumption DEF Granting
      <4>2. \A g \in Using(k)' : req'[g].machine \in Reach(k)
        BY Zenon, <1>1, <1>5, <4>1 DEF Reach, Moved
      <4> QED  BY Zenon, <3>1, <4>2 DEF Reach
    <3> QED  BY Zenon, <3>2, <3>3
  <2> QED  BY Zenon, <2>1, BoundedStep DEF IInv
<1> QED  BY Zenon, <1>2, <1>3, <1>4, <1>6, <1>7 DEF IInv

\* A handler that works on no token, or leaves a pair behind, stops.
LEMMA EndIInv ==
  ASSUME IInv, NEW h \in Handlers, pc[h] # "idle", Stop(h), UNCHANGED <<tables, tokens>>,
         req[h].tok # None => access[req[h].tok] # None /\ refresh[req[h].tok] # None
  PROVE  IInv'
<1>1. Moved(h, "idle", None)
  BY Zenon, GoType DEF IInv, Stop
<1>2. TypeOK' /\ Backed'
  BY Zenon, <1>1 DEF IInv, tables, tokens, Moved, TypeOK, Backed
<1>3. Filled' /\ Stored' /\ Owns' /\ PairOrNothing'
  BY Zenon, <1>1, Aside DEF tokens, Making
<1>4. Rows'
  BY Zenon, <1>1, RowsStep DEF IInv, Row, tables, tokens, Granting, Making
<1>5. FirstUse' /\ Bounded'
  BY Zenon, <1>1, StopCalm DEF IInv, tables, tokens, Granting, Making
<1> QED  BY Zenon, <1>2, <1>3, <1>4, <1>5 DEF IInv

\* Login begins a request.
LEMMA LoginIInv ==
  ASSUME IInv, NEW h \in Handlers, NEW a \in Accounts, NEW m \in Machines, Login(h, a, m)
  PROVE  IInv'
<1> DEFINE r == NewRequest(a, m, None)
           p == IF a \in users THEN "setAccess" ELSE "register"
<1>1. r \in Request
  BY Zenon, NewRequestType DEF UserIDs
<1>2. r.tok = None /\ ~r.first /\ r.machine = m /\ r.key = None /\ r.user = a /\ a # Nobody /\ m # None
  BY Zenon, AccountsAssumption DEF NewRequest
<1>3. Go(h, p, r) /\ pc[h] = "idle" /\ UNCHANGED <<tables, tokens>>
  BY Zenon DEF Login
<1> QED  BY Zenon, <1>1, <1>2, <1>3, BeginIInv DEF Granting, Making

\* An exchange of a key begins a request: the machine fits the row.
LEMMA ExchangeKeyIInv ==
  ASSUME IInv, NEW h \in Handlers, NEW k \in Keys, NEW m \in Machines, ExchangeKey(h, k, m)
  PROVE  IInv'
<1> DEFINE r == NewRequest(keys[k].user, m, k)
<1>1. keys[k] \in AuthKey
  BY Zenon DEF IInv, TypeOK, ExchangeKey
<1>2. r \in Request
  BY Zenon, <1>1, NewRequestType DEF UserIDs, AuthKey
<1>3. r.tok = None /\ ~r.first /\ r.machine = m /\ r.key = k /\ m # None /\ k # None
  BY Zenon, AccountsAssumption DEF NewRequest
<1>4. /\ Go(h, "exchange", r) /\ pc[h] = "idle" /\ UNCHANGED <<tables, tokens>>
      /\ keys[k] # None /\ (keys[k].type = "one-off" => keys[k].machine \in {m, None})
  BY Zenon DEF ExchangeKey, MachineFits
<1>5. Once(k) /\ keys[k].machine # None => m \in served[k]
  BY Zenon, <1>4 DEF IInv, FirstUse, First, Once
<1> QED  BY Zenon, <1>2, <1>3, <1>4, <1>5, BeginIInv DEF Granting, Making

\* An exchange of a token begins a request: the machine of a token that was handed out
\* is one of those that the key has served.
LEMMA ExchangeTokenIInv ==
  ASSUME IInv, NEW h \in Handlers, NEW t \in Tokens, ExchangeToken(h, t)
  PROVE  IInv'
<1> DEFINE k == claims[t].key
           r == NewRequest(FetchAuth(t), claims[t].machine, k)
           p == IF k = None THEN "setAccess" ELSE "exchange"
<1>1. t \in held /\ claims[t] \in Claims /\ access[t] \in UserIDs \cup {None}
  BY Zenon DEF IInv, TypeOK, ExchangeToken, Verifies
<1>2. k \in Keys \cup {None} /\ claims[t].machine \in Machines /\ FetchAuth(t) \in UserIDs
  BY Zenon, <1>1 DEF Claims, FetchAuth, UserIDs
<1>3. r \in Request
  BY Zenon, <1>2, NewRequestType
<1>4. r.tok = None /\ ~r.first /\ r.machine = claims[t].machine /\ r.key = k /\ r.machine # None
  BY Zenon, <1>2, AccountsAssumption DEF NewRequest
<1>5. Go(h, p, r) /\ pc[h] = "idle" /\ UNCHANGED <<tables, tokens>>
  BY Zenon DEF ExchangeToken
<1>6. k # None => keys[k] # None /\ claims[t].machine \in served[k]
  BY Zenon, <1>1, AccountsAssumption DEF IInv, Rows, ClaimRow, Backed
<1> QED  BY Zenon, <1>3, <1>4, <1>5, <1>6, BeginIInv DEF Granting, Making

\* Work on a key begins with whom the token stood for.
LEMMA AuthorizeIInv ==
  ASSUME IInv, NEW h \in Handlers, NEW t \in Tokens, NEW k \in Keys,
         NEW p \in {"createKey", "deleteKey"}, Authorize(h, t, p, k)
  PROVE  IInv'
<1> DEFINE r == NewRequest(FetchAuth(t), None, k)
<1>1. FetchAuth(t) \in UserIDs
  BY Zenon DEF IInv, TypeOK, FetchAuth, UserIDs
<1>2. r \in Request
  BY Zenon, <1>1, NewRequestType
<1>3. r.tok = None /\ ~r.first /\ r.key = k /\ k # None
  BY Zenon, AccountsAssumption DEF NewRequest
<1>4. Go(h, p, r) /\ pc[h] = "idle" /\ UNCHANGED <<tables, tokens>>
  BY Zenon DEF Authorize
<1> QED  BY Zenon, <1>2, <1>3, <1>4, BeginIInv DEF Granting, Making

\* The account gets its row, and the request goes on for nobody.
LEMMA RegisterIInv ==
  ASSUME IInv, NEW h \in Handlers, Register(h)
  PROVE  IInv'
<1>0. pc[h] = "register" /\ req[h] \in Request /\ req[h].tok = None /\ req[h].key = None
  BY Zenon, HasRequest DEF IInv, Filled, Fits, Register, Making
<1>1. CASE Stop(h) /\ UNCHANGED users
  BY Zenon, <1>0, <1>1, EndIInv DEF Register, tables
<1>2. CASE users' = users \cup {req[h].user} /\ Go(h, "setAccess", [req[h] EXCEPT !.user = Nobody])
  <2> DEFINE r == [req[h] EXCEPT !.user = Nobody]
  <2>1. /\ r \in Request /\ r.user = Nobody /\ r.machine = req[h].machine /\ r.key = None
        /\ r.tok = None /\ r.first = req[h].first
    BY <1>0, SetUser DEF UserIDs
  <2>2. Moved(h, "setAccess", r)
    BY Zenon, <1>2, <2>1, GoType DEF IInv, Points
  <2>3. users' \subseteq Accounts
    <3>1. req[h].user \in Accounts
      BY Zenon, <1>0, RequestFields DEF IInv, Filled, Fits, UserIDs
    <3> QED  BY Zenon, <1>2, <3>1 DEF IInv, TypeOK
  <2>4. UNCHANGED <<keys, claims, access, refresh, held, served, broken>>
    BY Zenon DEF Register, tokens
  <2> HIDE DEF r
  <2>5. TypeOK' /\ Backed'
    BY Zenon, <2>2, <2>3, <2>4 DEF IInv, TypeOK, Backed, Moved
  <2>6. Fits("setAccess", r)
    BY Zenon, <1>0, <2>1 DEF IInv, Filled, Fits, Making, Granting
  <2>7. Filled' /\ Stored' /\ Owns' /\ PairOrNothing'
    BY Zenon, <1>0, <2>2, <2>4, <2>6, Aside DEF Making
  <2>8. Rows'
    BY Zenon, <2>1, <2>2, <2>4, RowsStep DEF IInv, Row
  <2>9. FirstUse' /\ Bounded'
    <3>1. \A g \in Handlers : pc'[g] \in Granting /\ req'[g].key \in Keys => pc'[g] = pc[g] /\ req'[g] = req[g]
      BY Zenon, <2>1, <2>2, AccountsAssumption DEF Moved
    <3> QED  BY Zenon, <2>4, <3>1, Calm DEF IInv
  <2> QED  BY Zenon, <2>5, <2>7, <2>8, <2>9 DEF IInv
<1> QED  BY Zenon, <1>1, <1>2 DEF Register

\* A token is made and its first entry stored.
LEMMA SetAccessIInv ==
  ASSUME IInv, NEW h \in Handlers, SetAccess(h)
  PROVE  IInv'
<1>0. /\ pc[h] = "setAccess" /\ req[h] \in Request /\ req[h].tok = None /\ req[h].machine \in Machines
      /\ req[h].user \in UserIDs /\ req[h].key \in Keys \cup {None}
  BY Zenon, HasRequest, RequestFields DEF IInv, Filled, Fits, SetAccess, Making, Granting
<1>1. CASE Stop(h) /\ UNCHANGED <<claims, access>>
  BY Zenon, <1>0, <1>1, EndIInv DEF SetAccess, tokens
<1>2. ASSUME NEW t \in Tokens, claims[t] = None,
             claims' = [claims EXCEPT ![t] = [user |-> req[h].user, machine |-> req[h].machine,
                                              key |-> req[h].key, live |-> TRUE]],
             access' = [access EXCEPT ![t] = req[h].user],
             Go(h, "setRefresh", [req[h] EXCEPT !.tok = t])
      PROVE  IInv'
  <2> DEFINE r == [req[h] EXCEPT !.tok = t]
             c == [user |-> req[h].user, machine |-> req[h].machine, key |-> req[h].key, live |-> TRUE]
  <2>1. /\ r \in Request /\ r.user = req[h].user /\ r.machine = req[h].machine /\ r.key = req[h].key
        /\ r.tok = t /\ r.first = req[h].first
    BY <1>0, SetToken
  <2>2. Moved(h, "setRefresh", r)
    BY Zenon, <1>2, <2>1, GoType DEF IInv, Points
  <2>3. /\ c \in Claims /\ c # None
        /\ c.user = req[h].user /\ c.machine = req[h].machine /\ c.key = req[h].key
    <3>1. c \in Claims
      BY Zenon, <1>0 DEF Claims
    <3> QED  BY Zenon, <3>1, AccountsAssumption
  <2>4. /\ claims' \in [Tokens -> Claims \cup {None}] /\ claims'[t] = c
        /\ \A s \in Tokens : s # t => claims'[s] = claims[s]
    BY Zenon, <1>2, <2>3 DEF IInv, TypeOK
  <2>5. /\ access' \in [Tokens -> UserIDs \cup {None}] /\ access'[t] = req[h].user
        /\ req[h].user # None /\ \A s \in Tokens : s # t => access'[s] = access[s]
    BY Zenon, <1>0, <1>2, AccountsAssumption DEF IInv, TypeOK
  <2>6. t \notin held /\ t \notin broken /\ t # None /\ refresh[t] = None
    BY Zenon, <1>2, AccountsAssumption DEF IInv, TypeOK, Stored
  <2>7. UNCHANGED <<users, keys, refresh, held, served, broken>>
    BY Zenon DEF SetAccess, tables
  <2> HIDE DEF r, c
  <2>8. TypeOK'
    BY Zenon, <2>2, <2>3, <2>4, <2>5, <2>6, <2>7 DEF IInv, TypeOK, Moved
  <2>9. Filled'
    <3>1. Fits("setRefresh", r)
      BY Zenon, <1>0, <2>1, <2>6 DEF IInv, Filled, Fits, Making, Granting
    <3> QED  BY Zenon, <2>2, <3>1, FilledStep DEF IInv
  <2>10. Rows'
    <3>1. Row("setRefresh", r) /\ Row("setAccess", req[h])
      BY Zenon, <1>0, <2>1 DEF IInv, Rows, Row, Granting, Making
    <3>2. ClaimRow(t)'
      BY Zenon, <2>3, <2>4, <2>7, <3>1 DEF Row, ClaimRow, Granting
    <3> QED  BY Zenon, <2>2, <2>4, <2>7, <3>1, <3>2, RowsStep DEF IInv
  <2>11. Stored'
    BY Zenon, <2>3, <2>4, <2>5, <2>7 DEF IInv, Stored
  <2>12. \A s \in Tokens : s # t => Same(s)
    BY Zenon, <2>4, <2>5, <2>7 DEF Same
  <2>13. Owns'
    <3>1. \A g \in Handlers : g # h /\ pc[g] \in Making => req[g].tok # t
      BY Zenon, <1>2 DEF IInv, Owns, Own
    <3>2. \A q : q = r => Own("setRefresh", q)'
      BY Zenon, <2>1, <2>3, <2>4, <2>5, <2>6, <2>7 DEF Own
    <3>3. TypeOK /\ Filled /\ Owns
      BY Zenon DEF IInv
    <3> QED  BY <2>1, <2>2, <2>6, <2>12, <3>1, <3>2, <3>3, OwnsStep
  <2>14. PairOrNothing'
    BY Zenon, <1>0, <2>1, <2>2, <2>12, PairStep DEF IInv
  <2>15. Backed'
    BY Zenon, <2>4, <2>6, <2>7 DEF IInv, Backed, TypeOK
  <2>16. FirstUse' /\ Bounded'
    BY Zenon, <1>0, <2>1, <2>2, <2>7, StopCalm DEF IInv, Granting
  <2> QED  BY Zenon, <2>8, <2>9, <2>10, <2>11, <2>13, <2>14, <2>15, <2>16 DEF IInv
<1> QED  BY Zenon, <1>1, <1>2 DEF SetAccess

\* A handler that has made a token knows it alone.
LEMMA MakerFacts ==
  ASSUME IInv, NEW h \in Handlers, pc[h] \in Making
  PROVE  /\ req[h] \in Request /\ req[h].tok \in Tokens /\ req[h].tok \notin held
         /\ claims[req[h].tok] \in Claims /\ claims[req[h].tok] # None
         /\ claims[req[h].tok].machine = req[h].machine /\ claims[req[h].tok].key = req[h].key
         /\ req[h].machine \in Machines /\ req[h].user \in UserIDs /\ req[h].key \in Keys \cup {None}
         /\ access[req[h].tok] # None
         /\ refresh[req[h].tok] # None <=> pc[h] = "saveMachine"
         /\ \A g \in Handlers : pc[g] \in Making \cup {"delRefresh"} /\ req[g].tok = req[h].tok => g = h
<1>1. pc[h] # "idle" /\ req[h] \in Request
  BY Zenon, HasRequest DEF IInv, Making
<1>2. req[h].tok \in Tokens /\ req[h].machine \in Machines
  BY Zenon, <1>1, RequestFields DEF IInv, Filled, Fits, Granting
<1>3. Own(pc[h], req[h])
  BY Zenon DEF IInv, Owns
<1>4. claims[req[h].tok] \in Claims
  BY Zenon, <1>2, <1>3 DEF IInv, TypeOK, Own
<1>5. \A g \in Handlers : pc[g] = "delRefresh" => req[g].tok # req[h].tok
  BY Zenon, <1>3 DEF IInv, Owns, Own
<1>6. \A g \in Handlers : pc[g] \in Making /\ req[g].tok = req[h].tok => g = h
  BY Zenon DEF IInv, Owns
<1> QED  BY Zenon, <1>1, <1>2, <1>3, <1>4, <1>5, <1>6, RequestFields DEF Own

\* The second entry is stored, or the handler goes to take the first one back.
LEMMA SetRefreshIInv ==
  ASSUME IInv, NEW h \in Handlers, SetRefresh(h)
  PROVE  IInv'
<1> DEFINE t == req[h].tok
<1>0. pc[h] = "setRefresh" /\ pc[h] \in Making /\ UNCHANGED <<users, keys, claims, access, broken>>
  BY Zenon DEF SetRefresh, Making, tables
<1>1. /\ req[h] \in Request /\ t \in Tokens /\ t \notin held /\ t # None /\ claims[t] # None
      /\ claims[t].machine = req[h].machine /\ claims[t].key = req[h].key
      /\ req[h].machine \in Machines /\ req[h].user \in UserIDs /\ req[h].key \in Keys \cup {None}
      /\ access[t] # None /\ refresh[t] = None
      /\ \A g \in Handlers : g # h /\ pc[g] \in Making => req[g].tok # t
  BY Zenon, <1>0, MakerFacts, AccountsAssumption
<1>2. Fits("setRefresh", req[h]) /\ Row("setRefresh", req[h])
  BY Zenon, <1>0 DEF IInv, Filled, Rows
<1>3. CASE Go(h, "undo", req[h]) /\ UNCHANGED <<refresh, held, served>>
  <2>1. Moved(h, "undo", req[h])
    BY Zenon, <1>1, <1>3, GoType DEF IInv, Points
  <2>2. TypeOK' /\ Stored' /\ Backed'
    BY Zenon, <1>0, <1>3, <2>1 DEF IInv, TypeOK, Stored, Backed, Moved
  <2>3. Filled'
    BY Zenon, <1>2, <2>1, FilledStep DEF IInv, Fits, Making, Granting
  <2>4. Rows'
    BY Zenon, <1>0, <1>2, <2>1, RowsStep DEF IInv, Row, Making, Granting
  <2>5. \A s \in Tokens : s # t => Same(s)
    BY Zenon, <1>0, <1>3 DEF Same
  <2>6. Owns'
    <3>1. \A q : q = req[h] => Own("undo", q)'
      BY Zenon, <1>0, <1>1, <1>3 DEF Own
    <3> QED  BY Zenon, <1>1, <2>1, <2>5, <3>1, OwnsStep DEF IInv
  <2>7. PairOrNothing'
    BY Zenon, <2>1, <2>5, PairStep DEF IInv
  <2>8. FirstUse' /\ Bounded'
    BY Zenon, <1>0, <1>3, <2>1, StopCalm DEF IInv, Granting, Making
  <2> QED  BY Zenon, <2>2, <2>3, <2>4, <2>6, <2>7, <2>8 DEF IInv
<1>4. CASE /\ refresh' = [refresh EXCEPT ![t] = req[h].user]
           /\ IF req[h].first THEN Go(h, "saveMachine", req[h]) /\ UNCHANGED <<held, served>>
                              ELSE Stop(h) /\ HandOut(req[h])
  <2>1. /\ refresh' \in [Tokens -> UserIDs \cup {None}] /\ refresh'[t] # None
        /\ \A s \in Tokens : s # t => refresh'[s] = refresh[s]
    BY Zenon, <1>1, <1>4, AccountsAssumption DEF IInv, TypeOK
  <2>2. Stored'
    BY Zenon, <1>0, <1>1, <2>1 DEF IInv, Stored
  <2>3. CASE req[h].first /\ Go(h, "saveMachine", req[h]) /\ UNCHANGED <<held, served>>
    <3>1. Moved(h, "saveMachine", req[h])
      BY Zenon, <1>1, <2>3, GoType DEF IInv, Points
    <3>2. TypeOK' /\ Backed'
      BY Zenon, <1>0, <2>1, <2>3, <3>1 DEF IInv, TypeOK, Backed, Moved
    <3>3. Filled'
      BY Zenon, <1>2, <2>3, <3>1, FilledStep DEF IInv, Fits, Making, Granting
    <3>4. Rows'
      BY Zenon, <1>0, <1>2, <3>1, RowsStep DEF IInv, Row, Making, Granting
    <3>5. \A s \in Tokens : s # t => Same(s)
      BY Zenon, <1>0, <2>1, <2>3 DEF Same
    <3>6. Owns'
      <4>1. \A q : q = req[h] => Own("saveMachine", q)'
        BY Zenon, <1>0, <1>1, <2>1, <2>3 DEF Own
      <4> QED  BY Zenon, <1>1, <3>1, <3>5, <4>1, OwnsStep DEF IInv
    <3>7. PairOrNothing'
      BY Zenon, <3>1, <3>5, PairStep DEF IInv
    <3>8. FirstUse' /\ Bounded'
      BY Zenon, <1>0, <2>3, <3>1, StopCalm DEF IInv, Granting, Making
    <3> QED  BY Zenon, <2>2, <3>2, <3>3, <3>4, <3>6, <3>7, <3>8 DEF IInv
  <2>4. CASE ~req[h].first /\ Stop(h) /\ HandOut(req[h])
    <3>1. Moved(h, "idle", None)
      BY Zenon, <2>4, GoType DEF IInv, Stop
    <3>2. held' = held \cup {t}
      BY Zenon, <2>4 DEF HandOut
    <3>3. /\ served' \in [Keys -> SUBSET Machines]
          /\ \A k \in Keys : served'[k] = IF req[h].key = k THEN served[k] \cup {req[h].machine} ELSE served[k]
      BY Zenon, <1>1, <2>4, Serves DEF IInv
    <3>4. TypeOK'
      BY Zenon, <1>0, <1>1, <2>1, <3>1, <3>2, <3>3 DEF IInv, TypeOK, Moved
    <3>5. Filled'
      BY Zenon, <3>1, FilledStep DEF IInv
    <3>6. Rows'
      BY Zenon, <1>0, <3>1, RowsStep DEF IInv, Row, Making, Granting
    <3>7. \A s \in Tokens : s # t => Same(s)
      BY Zenon, <1>0, <2>1, <3>2 DEF Same
    <3>8. Owns'
      <4>1. Own("idle", None)'
        BY Zenon DEF Own, Making
      <4> QED  BY Zenon, <1>1, <3>1, <3>7, <4>1, OwnsStep DEF IInv, Making
    <3>9. PairOrNothing'
      BY Zenon, <1>0, <1>1, <2>1, <3>1, <3>7, PairStep DEF IInv
    <3>10. Backed'
      <4>1. \A s \in held \cup {t} : claims[s].key \in Keys \cup {None}
        BY Zenon, <1>1 DEF IInv, TypeOK, Claims
      <4> QED  BY <1>0, <1>1, <3>2, <3>3, <4>1 DEF IInv, Backed
    <3>11. /\ \A k \in Keys : Once(k)' <=> Once(k)
           /\ \A k \in Keys : \A g \in Using(k)' : g \in Using(k) /\ pc'[g] = pc[g] /\ req'[g] = req[g]
      BY Zenon, <1>0, <3>1 DEF Using, Once, Moved, Granting, Making
    <3>12. FirstUse'
      <4>1. ASSUME NEW k \in Keys PROVE IsFiniteSet(served'[k])
        <5>1. IsFiniteSet(served[k]) /\ served'[k] \in {served[k], served[k] \cup {req[h].machine}}
          BY Zenon, <3>3 DEF IInv, FirstUse, First
        <5> QED  BY Zenon, <5>1, StaysFinite
      <4>2. \A k \in Keys : Once(k) /\ keys[k].machine = None => req[h].key # k
        BY Zenon, <1>0, <2>4 DEF IInv, FirstUse, First, Using, Granting, Making
      <4>3. req[h].key \in Keys => keys[req[h].key] # None
        BY Zenon, <1>2, AccountsAssumption DEF Row, Granting, Making
      <4>4. ASSUME NEW k \in Keys PROVE First(k)'
        <5>1. CASE req[h].key = k
          BY Zenon, <1>0, <3>3, <3>11, <4>1, <4>2, <4>3, <5>1 DEF IInv, FirstUse, First
        <5>2. CASE req[h].key # k
          BY Zenon, <1>0, <3>3, <3>11, <5>2, FirstKept DEF IInv
        <5> QED  BY Zenon, <5>1, <5>2
      <4> QED  BY Zenon, <4>4 DEF FirstUse
    <3>13. Bounded'
      <4>1. ASSUME NEW k \in Keys PROVE Reach(k)' \subseteq Reach(k)
        <5>1. req[h].key = k => req[h].machine \in Reach(k)
          BY Zenon, <1>0 DEF Reach, Using, Granting
        <5> QED  BY <3>3, <3>11, <5>1 DEF Reach
      <4> QED  BY Zenon, <3>11, <4>1, BoundedStep DEF IInv
    <3> QED  BY Zenon, <2>2, <3>4, <3>5, <3>6, <3>8, <3>9, <3>10, <3>12, <3>13 DEF IInv
  <2> QED  BY Zenon, <1>4, <2>3, <2>4
<1> QED  BY Zenon, <1>3, <1>4 DEF SetRefresh

\* The first entry is taken back, or the token counts as broken.
LEMMA UndoIInv ==
  ASSUME IInv, NEW h \in Handlers, Undo(h)
  PROVE  IInv'
<1> DEFINE t == req[h].tok
<1>1. pc[h] = "undo" /\ pc[h] \in Making /\ UNCHANGED <<users, keys, claims, refresh, held, served>>
  BY Zenon DEF Undo, Making, tables
<1>2. Moved(h, "idle", None)
  BY Zenon, GoType DEF IInv, Undo, Stop
<1>3. /\ t \in Tokens /\ t \notin held /\ claims[t] # None /\ refresh[t] = None
      /\ \A g \in Handlers : g # h /\ pc[g] \in Making => req[g].tok # t
  BY Zenon, <1>1, MakerFacts
<1>4. /\ access' \in [Tokens -> UserIDs \cup {None}] /\ access'[t] \in {None, access[t]}
      /\ \A s \in Tokens : s # t => access'[s] = access[s]
      /\ broken' \in {broken, broken \cup {t}} /\ (access'[t] = None \/ t \in broken')
  BY Zenon, <1>3 DEF IInv, TypeOK, Undo
<1> HIDE DEF t
<1>5. TypeOK'
  BY Zenon, <1>1, <1>2, <1>3, <1>4 DEF IInv, TypeOK, Moved
<1>6. Filled'
  BY Zenon, <1>2, FilledStep DEF IInv
<1>7. Rows' /\ Backed'
  BY Zenon, <1>1, <1>2, RowsStep DEF IInv, Row, Backed, Making, Granting
<1>8. Stored'
  BY Zenon, <1>1, <1>3, <1>4 DEF IInv, Stored
<1>9. \A s \in Tokens : s # t => Same(s)
  BY Zenon, <1>1, <1>4 DEF Same
<1>10. Owns'
  <2>1. Own("idle", None)'
    BY Zenon DEF Own, Making
  <2> QED  BY Zenon, <1>2, <1>3, <1>9, <2>1, OwnsStep DEF IInv, Making
<1>11. PairOrNothing'
  BY Zenon, <1>1, <1>2, <1>3, <1>4, <1>9, PairStep DEF IInv, t
<1>12. FirstUse' /\ Bounded'
  BY Zenon, <1>1, <1>2, StopCalm DEF IInv, Granting, Making
<1> QED  BY Zenon, <1>5, <1>6, <1>7, <1>8, <1>10, <1>11, <1>12 DEF IInv

\* The row of a key is read; its user is the one of the token.
LEMMA ReadKeyIInv ==
  ASSUME IInv, NEW h \in Handlers, ReadKey(h)
  PROVE  IInv'
<1> DEFINE k == req[h].key
<1>0. /\ pc[h] = "exchange" /\ req[h] \in Request /\ req[h].tok = None
      /\ req[h].machine \in Machines /\ k \in Keys
  BY Zenon, HasRequest, RequestFields DEF IInv, Filled, Fits, ReadKey, Making, Granting
<1>1. CASE keys[k] = Gone
  BY Zenon, <1>0, <1>1, EndIInv DEF ReadKey
<1>2. CASE keys[k] # Gone
  <2> DEFINE b == keys[k].type = "one-off" /\ keys[k].machine = None
             r == [req[h] EXCEPT !.user = keys[k].user, !.first = b]
  <2>1. keys[k] \in AuthKey /\ keys[k] # None /\ keys[k].user \in UserIDs
    <3>1. keys[k] # None
      BY Zenon, <1>0, AccountsAssumption DEF IInv, Rows, Row, Granting
    <3>2. keys[k] \in AuthKey
      BY Zenon, <1>0, <1>2, <3>1 DEF IInv, TypeOK
    <3> QED  BY Zenon, <3>1, <3>2 DEF AuthKey, UserIDs
  <2>2. /\ r \in Request /\ r.user = keys[k].user /\ r.machine = req[h].machine /\ r.key = k
        /\ r.tok = None /\ r.first = b
    <3>1. ASSUME NEW c \in BOOLEAN, NEW s, s = [req[h] EXCEPT !.user = keys[k].user, !.first = c]
          PROVE  /\ s \in Request /\ s.user = keys[k].user /\ s.machine = req[h].machine /\ s.key = k
                 /\ s.tok = None /\ s.first = c
      <4> HIDE DEF k
      <4> QED  BY Zenon, <1>0, <2>1, <3>1 DEF Request, k
    <3>2. b \in BOOLEAN
      OBVIOUS
    <3> HIDE DEF b
    <3> QED  BY <3>1, <3>2, Zenon
  <2>3. Go(h, "setAccess", r)
    BY Zenon, <1>2 DEF ReadKey
  <2>4. Moved(h, "setAccess", r) /\ UNCHANGED <<tables, tokens>>
    BY Zenon, <2>2, <2>3, GoType DEF IInv, Points, ReadKey
  <2>5. Once(k) /\ keys[k].machine = None => r.first
    BY Zenon, <2>2 DEF Once
  <2>6. UNCHANGED <<keys, claims, access, refresh, held, served, broken>>
    BY Zenon, <2>4 DEF tables, tokens
  <2> HIDE DEF r, b, k
  <2>7. TypeOK' /\ Backed'
    BY Zenon, <2>4 DEF IInv, TypeOK, Backed, Moved, tables, tokens
  <2>8. Fits("setAccess", r)
    BY Zenon, <1>0, <2>2, AccountsAssumption DEF Fits, Making, Granting
  <2>9. Filled' /\ Stored' /\ Owns' /\ PairOrNothing'
    BY Zenon, <1>0, <2>4, <2>6, <2>8, Aside DEF Making
  <2>10. Rows'
    BY Zenon, <1>0, <2>1, <2>2, <2>4, <2>6, RowsStep DEF IInv, Row
  <2>11. /\ \A j \in Keys : Once(j)' <=> Once(j)
         /\ \A j \in Keys : \A g \in Using(j)' :
              /\ g \in Using(j) /\ req'[g].machine = req[g].machine
              /\ IF g = h THEN j = k /\ req'[g] = r ELSE pc'[g] = pc[g] /\ req'[g] = req[g]
    BY Zenon, <1>0, <2>2, <2>4, <2>6 DEF Using, Once, Granting, Making, Moved, k
  <2>12. FirstUse'
    <3>1. ASSUME NEW j \in Keys, Once(j), keys[j].machine = None, NEW g \in Using(j)'
          PROVE  pc'[g] = "exchange" \/ req'[g].first
      <4>1. CASE g = h
        BY Zenon, <2>5, <2>11, <3>1, <4>1
      <4>2. CASE g # h
        <5>1. g \in Using(j) /\ pc'[g] = pc[g] /\ req'[g] = req[g]
          BY Zenon, <2>11, <3>1, <4>2
        <5> QED  BY Zenon, <3>1, <5>1 DEF IInv, FirstUse, First
      <4> QED  BY Zenon, <4>1, <4>2
    <3> QED  BY Zenon, <2>6, <2>11, <3>1 DEF IInv, FirstUse, First
  <2>13. Bounded'
    <3>1. \A j \in Keys : Reach(j)' \subseteq Reach(j)
      BY <2>6, <2>11 DEF Reach
    <3> QED  BY Zenon, <2>11, <3>1, BoundedStep DEF IInv
  <2> QED  BY Zenon, <2>7, <2>9, <2>10, <2>12, <2>13 DEF IInv
<1> QED  BY Zenon, <1>1, <1>2

\* The machine is saved in the row and the pair handed out, or nothing of it.
LEMMA SaveMachineIInv ==
  ASSUME IInv, NEW h \in Handlers, SaveMachine(h)
  PROVE  IInv'
<1> DEFINE t == req[h].tok
           k == req[h].key
           m == req[h].machine
<1>0. /\ pc[h] = "saveMachine" /\ pc[h] \in Making /\ Stop(h)
      /\ UNCHANGED <<users, claims, access, refresh, broken>>
  BY Zenon DEF SaveMachine, Making
<1>1. CASE UNCHANGED <<keys, held, served>>
  BY Zenon, <1>0, <1>1, MakerFacts, EndIInv DEF tables, tokens
<1>2. CASE HandOut(req[h]) /\ keys' = [keys EXCEPT ![k] = IF @ = Gone THEN @ ELSE [@ EXCEPT !.machine = m]]
  <2>1. Moved(h, "idle", None)
    BY Zenon, <1>0, GoType DEF IInv, Stop
  <2>2. k \in Keys /\ m \in Machines /\ keys[k] \in AuthKey \cup {Gone} /\ keys[k] # None /\ m # None
    BY Zenon, <1>0, MakerFacts, AccountsAssumption DEF IInv, TypeOK, Filled, Fits, Rows, Row, Granting
  <2>3. /\ keys' \in [Keys -> AuthKey \cup {None, Gone}]
        /\ keys[k] = Gone <=> keys'[k] = Gone
        /\ keys'[k] # None
        /\ keys[k] # Gone => /\ keys'[k].user = keys[k].user /\ keys'[k].type = keys[k].type
                             /\ keys'[k].machine = m
        /\ \A j \in Keys : j # k => keys'[j] = keys[j]
    <3>1. keys[k] # Gone => /\ [keys[k] EXCEPT !.machine = m] \in AuthKey
                            /\ [keys[k] EXCEPT !.machine = m].user = keys[k].user
                            /\ [keys[k] EXCEPT !.machine = m].type = keys[k].type
                            /\ [keys[k] EXCEPT !.machine = m].machine = m
      BY Zenon, <2>2 DEF AuthKey
    <3>2. keys'[k] = IF keys[k] = Gone THEN Gone ELSE [keys[k] EXCEPT !.machine = m]
      BY Zenon, <1>2, <2>2 DEF IInv, TypeOK
    <3>3. keys \in [Keys -> AuthKey \cup {None, Gone}]
      BY Zenon DEF IInv, TypeOK
    <3> QED  BY Zenon, <1>2, <2>2, <3>1, <3>2, <3>3, AccountsAssumption
  <2>4. /\ held' = held \cup {t} /\ t \in Tokens /\ t \notin held /\ claims[t] # None
        /\ claims[t].machine = m /\ claims[t].key = k /\ access[t] # None /\ refresh[t] # None
        /\ \A g \in Handlers : g # h /\ pc[g] \in Making => req[g].tok # t
    BY Zenon, <1>0, <1>2, MakerFacts DEF HandOut
  <2>5. /\ served' \in [Keys -> SUBSET Machines]
        /\ \A j \in Keys : served'[j] = IF k = j THEN served[j] \cup {m} ELSE served[j]
    BY Zenon, <1>2, <2>2, Serves DEF IInv
  <2> HIDE DEF t, k, m
  <2>6. TypeOK'
    BY Zenon, <1>0, <2>1, <2>3, <2>4, <2>5 DEF IInv, TypeOK, Moved
  <2>7. Filled' /\ Stored'
    BY Zenon, <1>0, <2>1, FilledStep DEF IInv, Stored
  <2>8. Rows'
    <3>1. ASSUME NEW g \in Handlers PROVE Row(pc[g], req[g])'
      <4>1. CASE pc'[g] \in Granting /\ req'[g].key # None
        <5>1. pc[g] = pc'[g] /\ req'[g] = req[g] /\ pc[g] # "idle" /\ Row(pc[g], req[g])
          BY Zenon, <2>1, <4>1 DEF IInv, Rows, Moved, Granting, Making
        <5>2. req[g].key \in Keys
          BY Zenon, <4>1, <5>1, HasRequest, RequestFields DEF IInv
        <5> QED  BY Zenon, <2>3, <4>1, <5>1, <5>2 DEF Row
      <4> QED  BY Zenon, <4>1 DEF Row
    <3>2. ASSUME NEW s \in Tokens PROVE ClaimRow(s)'
      <4>1. claims[s] # None /\ claims[s].key # None => claims[s].key \in Keys
        BY Zenon DEF IInv, TypeOK, Claims
      <4> QED  BY Zenon, <1>0, <2>3, <4>1 DEF IInv, Rows, ClaimRow
    <3> QED  BY Zenon, <3>1, <3>2 DEF Rows
  <2>9. \A s \in Tokens : s # t => Same(s)
    BY Zenon, <1>0, <2>4 DEF Same
  <2>10. Owns'
    <3>1. Own("idle", None)'
      BY Zenon DEF Own, Making
    <3> QED  BY Zenon, <2>1, <2>4, <2>9, <3>1, OwnsStep DEF IInv, Making
  <2>11. PairOrNothing'
    BY Zenon, <1>0, <2>1, <2>4, <2>9, PairStep DEF IInv, t
  <2>12. Backed'
    <3>1. \A s \in held \cup {t} : claims[s].key \in Keys \cup {None}
      BY Zenon, <2>4 DEF IInv, TypeOK, Claims
    <3> QED  BY Zenon, <1>0, <2>4, <2>5, <3>1 DEF IInv, Backed
  <2>13. /\ \A j \in Keys : Once(j)' <=> Once(j)
         /\ \A j \in Keys : \A g \in Using(j)' : g \in Using(j) /\ pc'[g] = pc[g] /\ req'[g] = req[g]
    BY Zenon, <2>1, <2>2, <2>3 DEF Using, Once, Moved, Granting, Making
  <2>14. FirstUse'
    <3>1. ASSUME NEW j \in Keys PROVE IsFiniteSet(served'[j])
      <4>1. IsFiniteSet(served[j]) /\ served'[j] \in {served[j], served[j] \cup {m}}
        BY Zenon, <2>5 DEF IInv, FirstUse, First
      <4> QED  BY Zenon, <4>1, StaysFinite
    <3>2. ASSUME NEW j \in Keys, j # k PROVE First(j)'
      <4>1. keys'[j] = keys[j] /\ served'[j] = served[j]
        BY Zenon, <2>3, <2>5, <3>2
      <4> QED  BY Zenon, <2>13, <4>1, FirstKept DEF IInv
    <3>3. ASSUME NEW j \in Keys, j = k PROVE First(j)'
      <4>1. m \in served'[j] /\ keys'[j] # None /\ (Once(j) => keys'[j].machine = m) /\ m # None
        BY Zenon, <2>2, <2>3, <2>5, <3>3 DEF Once
      <4> QED  BY Zenon, <2>13, <3>1, <4>1 DEF First
    <3> QED  BY Zenon, <3>2, <3>3 DEF FirstUse
  <2>15. Bounded'
    <3>1. ASSUME NEW j \in Keys PROVE Reach(j)' \subseteq Reach(j)
      <4>1. k = j => m \in Reach(j)
        BY Zenon, <1>0 DEF Using, Reach, Granting, k, m
      <4> QED  BY Zenon, <2>5, <2>13, <4>1 DEF Reach
    <3> QED  BY Zenon, <2>13, <3>1, BoundedStep DEF IInv
  <2> QED  BY Zenon, <2>6, <2>7, <2>8, <2>10, <2>11, <2>12, <2>14, <2>15 DEF IInv
<1> QED  BY Zenon, <1>1, <1>2 DEF SaveMachine

\* Logout takes the first entry of a token away.
LEMMA LogoutIInv ==
  ASSUME IInv, NEW h \in Handlers, NEW t \in Tokens, Logout(h, t)
  PROVE  IInv'
<1> DEFINE r == [NewRequest(claims[t].user, None, None) EXCEPT !.tok = t]
<1>1. t \in held /\ claims[t] \in Claims /\ t # None
  BY Zenon, AccountsAssumption DEF IInv, TypeOK, Logout, Verifies
<1>2. r \in Request /\ r.tok = t /\ ~r.first
  BY Zenon, <1>1, NewRequestType DEF Claims, NewRequest
<1>3. Moved(h, "delRefresh", r)
  BY Zenon, <1>2, GoType DEF IInv, Points, Logout
<1>4. /\ access' \in [Tokens -> UserIDs \cup {None}] /\ access'[t] = None
      /\ \A s \in Tokens : s # t => access'[s] = access[s]
  BY Zenon DEF Logout, IInv, TypeOK
<1>5. pc[h] = "idle" /\ UNCHANGED <<users, keys, claims, refresh, held, served, broken>>
  BY Zenon DEF Logout, tables
<1> HIDE DEF r
<1>6. TypeOK' /\ Backed'
  BY Zenon, <1>3, <1>4, <1>5 DEF IInv, TypeOK, Backed, Moved
<1>7. Filled'
  <2>1. Fits("delRefresh", r)
    BY Zenon, <1>1, <1>2 DEF Fits, Making, Granting
  <2> QED  BY Zenon, <1>3, <2>1, FilledStep DEF IInv
<1>8. Rows'
  BY Zenon, <1>3, <1>5, RowsStep DEF IInv, Row, Making, Granting
<1>9. Stored'
  BY Zenon, <1>1, <1>4, <1>5, AccountsAssumption DEF IInv, Stored
<1>10. \A s \in Tokens : s # t => Same(s)
  BY Zenon, <1>4, <1>5 DEF Same
<1>11. Owns'
  <2>1. \A q : q = r => Own("delRefresh", q)'
    BY Zenon, <1>1, <1>2, <1>4, <1>5 DEF Own, Making
  <2>2. \A g \in Handlers : g # h /\ pc[g] \in Making => req[g].tok # t
    BY Zenon, <1>1 DEF IInv, Owns, Own
  <2> QED  BY Zenon, <1>1, <1>3, <1>4, <1>5, <1>10, <2>1, <2>2, OwnsStep DEF IInv, Making
<1>12. PairOrNothing'
  BY Zenon, <1>2, <1>3, <1>5, <1>10, PairStep DEF IInv
<1>13. FirstUse' /\ Bounded'
  BY Zenon, <1>3, <1>5, StopCalm DEF IInv, Granting, Making
<1> QED  BY Zenon, <1>6, <1>7, <1>8, <1>9, <1>11, <1>12, <1>13 DEF IInv

\* Logout takes the second entry away, or the token counts as broken.
LEMMA LogoutRefreshIInv ==
  ASSUME IInv, NEW h \in Handlers, LogoutRefresh(h)
  PROVE  IInv'
<1> DEFINE t == req[h].tok
<1>1. pc[h] = "delRefresh" /\ UNCHANGED <<users, keys, claims, access, held, served>>
  BY Zenon DEF LogoutRefresh, tables
<1>2. Moved(h, "idle", None)
  BY Zenon, GoType DEF IInv, LogoutRefresh, Stop
<1>3. t \in Tokens /\ t \in held /\ claims[t] # None /\ access[t] = None
  BY Zenon, <1>1 DEF IInv, Owns, Own, TypeOK
<1>4. /\ refresh' \in [Tokens -> UserIDs \cup {None}] /\ refresh'[t] \in {None, refresh[t]}
      /\ \A s \in Tokens : s # t => refresh'[s] = refresh[s]
      /\ broken' \in {broken, broken \cup {t}} /\ (refresh'[t] = None \/ t \in broken')
  BY Zenon, <1>3 DEF IInv, TypeOK, LogoutRefresh
<1> HIDE DEF t
<1>5. TypeOK'
  BY Zenon, <1>1, <1>2, <1>3, <1>4 DEF IInv, TypeOK, Moved
<1>6. Filled'
  BY Zenon, <1>2, FilledStep DEF IInv
<1>7. Rows' /\ Backed'
  BY Zenon, <1>1, <1>2, RowsStep DEF IInv, Row, Backed, Making, Granting
<1>8. Stored'
  BY Zenon, <1>1, <1>3, <1>4 DEF IInv, Stored
<1>9. \A s \in Tokens : s # t => Same(s)
  BY Zenon, <1>1, <1>4 DEF Same
<1>10. Owns'
  <2>1. Own("idle", None)'
    BY Zenon DEF Own, Making
  <2>2. \A g \in Handlers : g # h /\ pc[g] \in Making => req[g].tok # t
    BY Zenon, <1>3 DEF IInv, Owns, Own
  <2> QED  BY Zenon, <1>1, <1>2, <1>9, <2>1, <2>2, OwnsStep DEF IInv, Making
<1>11. PairOrNothing'
  BY Zenon, <1>1, <1>2, <1>3, <1>4, <1>9, PairStep DEF IInv, t
<1>12. FirstUse' /\ Bounded'
  BY Zenon, <1>1, <1>2, StopCalm DEF IInv, Granting, Making
<1> QED  BY Zenon, <1>5, <1>6, <1>7, <1>8, <1>10, <1>11, <1>12 DEF IInv

\* A token that nobody works on is the token of no handler.
LEMMA NotBusy ==
  ASSUME IInv, NEW t \in Tokens, ~Busy(t), NEW h \in Handlers, pc[h] \in Making \cup {"delRefresh"}
  PROVE  req[h].tok \in Tokens /\ req[h].tok # t
<1>1. req[h].tok \in Tokens /\ pc[h] # "idle"
  BY Zenon, HasToken DEF IInv, Making
<1> QED  BY Zenon, <1>1 DEF Busy

\* A token that nobody works on changes, and no handler moves: the others are as before.
LEMMA OwnsQuiet ==
  ASSUME IInv, NEW t \in Tokens, ~Busy(t), UNCHANGED <<pc, req>>, \A s \in Tokens : s # t => Same(s)
  PROVE  Owns'
<1>1. ASSUME NEW h \in Handlers PROVE Own(pc[h], req[h])'
  <2>1. pc[h] \in Making \cup {"delRefresh"} => Same(req[h].tok)
    BY Zenon, NotBusy
  <2>2. Own(pc[h], req[h]) /\ pc'[h] = pc[h] /\ req'[h] = req[h]
    BY Zenon DEF IInv, Owns
  <2> QED  BY Zenon, <2>1, <2>2 DEF Own, Same
<1> QED  BY Zenon, <1>1 DEF IInv, Owns

\* A token that nobody works on expires with its first entry.
LEMMA ExpireAccessIInv ==
  ASSUME IInv, NEW t \in Tokens, ExpireAccess(t)
  PROVE  IInv'
<1>1. /\ claims[t] \in Claims /\ ~Busy(t)
      /\ UNCHANGED <<users, keys, refresh, held, pc, req, served, broken>>
  BY Zenon DEF IInv, TypeOK, ExpireAccess, tables
<1>2. /\ claims' \in [Tokens -> Claims \cup {None}] /\ claims'[t] # None /\ ~claims'[t].live
      /\ claims'[t].user = claims[t].user /\ claims'[t].machine = claims[t].machine
      /\ claims'[t].key = claims[t].key
      /\ \A s \in Tokens : s # t => claims'[s] = claims[s]
  <2> DEFINE c == [claims[t] EXCEPT !.live = FALSE]
  <2>1. /\ c \in Claims /\ ~c.live
        /\ c.user = claims[t].user /\ c.machine = claims[t].machine /\ c.key = claims[t].key
    BY Zenon, <1>1 DEF Claims
  <2>2. claims' = [claims EXCEPT ![t] = c]
    BY Zenon DEF ExpireAccess
  <2> HIDE DEF c
  <2> QED  BY Zenon, <2>1, <2>2, AccountsAssumption DEF IInv, TypeOK
<1>3. /\ access' \in [Tokens -> UserIDs \cup {None}] /\ access'[t] = None
      /\ \A s \in Tokens : s # t => access'[s] = access[s]
  BY Zenon DEF ExpireAccess, IInv, TypeOK
<1>4. TypeOK' /\ Filled'
  BY Zenon, <1>1, <1>2, <1>3 DEF IInv, TypeOK, Filled, Fits
<1>5. Rows'
  <2>1. \A h \in Handlers : Row(pc[h], req[h])'
    BY Zenon, <1>1 DEF IInv, Rows, Row
  <2>2. \A s \in Tokens : ClaimRow(s)'
    BY Zenon, <1>1, <1>2, AccountsAssumption DEF IInv, Rows, ClaimRow
  <2> QED  BY Zenon, <2>1, <2>2 DEF Rows
<1>6. Stored'
  BY Zenon, <1>1, <1>2, <1>3, AccountsAssumption DEF IInv, Stored
<1>7. \A s \in Tokens : s # t => Same(s)
  BY Zenon, <1>1, <1>2, <1>3 DEF Same
<1>8. Owns'
  BY Zenon, <1>1, <1>7, OwnsQuiet
<1>9. PairOrNothing'
  <2>1. \A s \in Tokens : Busy(s)' <=> Busy(s)
    BY Zenon, <1>1 DEF Busy
  <2>2. \A s \in Tokens : s # t =>
          claims'[s] = claims[s] /\ access'[s] = access[s] /\ refresh'[s] = refresh[s]
    BY Zenon, <1>7 DEF Same
  <2>3. ASSUME NEW s \in Tokens, s \notin broken', claims'[s] # None, claims'[s].live, ~Busy(s)'
        PROVE  access'[s] = None <=> refresh'[s] = None
    <3>1. s # t
      BY Zenon, <1>2, <2>3
    <3>2. claims'[s] = claims[s] /\ access'[s] = access[s] /\ refresh'[s] = refresh[s]
      BY Zenon, <2>2, <3>1
    <3>3. s \notin broken /\ ~Busy(s) /\ claims[s] # None /\ claims[s].live
      BY Zenon, <1>1, <2>1, <2>3, <3>2
    <3> QED
      BY Zenon, <3>2, <3>3 DEF IInv, PairOrNothing
  <2> QED
    BY Zenon, <2>3 DEF PairOrNothing
<1>10. Backed'
  BY Zenon, <1>1, <1>2, AccountsAssumption DEF IInv, Backed, TypeOK
<1>11. FirstUse' /\ Bounded'
  BY Zenon, <1>1, Calm DEF IInv
<1> QED  BY Zenon, <1>4, <1>5, <1>6, <1>8, <1>9, <1>10, <1>11 DEF IInv

\* The second entry of an expired token that nobody works on expires.
LEMMA ExpireRefreshIInv ==
  ASSUME IInv, NEW t \in Tokens, ExpireRefresh(t)
  PROVE  IInv'
<1>1. /\ claims[t] # None /\ ~claims[t].live /\ ~Busy(t)
      /\ UNCHANGED <<users, keys, claims, access, held, pc, req, served, broken>>
  BY Zenon DEF ExpireRefresh, tables
<1>2. /\ refresh' \in [Tokens -> UserIDs \cup {None}] /\ refresh'[t] = None
      /\ \A s \in Tokens : s # t => refresh'[s] = refresh[s]
  BY Zenon DEF ExpireRefresh, IInv, TypeOK
<1>3. TypeOK' /\ Filled' /\ Backed'
  BY Zenon, <1>1, <1>2 DEF IInv, TypeOK, Filled, Fits, Backed
<1>4. Rows'
  BY Zenon, <1>1 DEF IInv, Rows, Row, ClaimRow
<1>5. Stored'
  BY Zenon, <1>1, <1>2 DEF IInv, Stored
<1>6. \A s \in Tokens : s # t => Same(s)
  BY Zenon, <1>1, <1>2 DEF Same
<1>7. Owns'
  BY Zenon, <1>1, <1>6, OwnsQuiet
<1>8. PairOrNothing'
  BY <1>1, <1>6 DEF IInv, PairOrNothing, Busy, Same
<1>9. FirstUse' /\ Bounded'
  BY Zenon, <1>1, Calm DEF IInv
<1> QED  BY Zenon, <1>3, <1>4, <1>5, <1>7, <1>8, <1>9 DEF IInv

\* A token that the store has forgotten and nobody works on is thrown away.
LEMMA ForgetIInv ==
  ASSUME IInv, NEW t \in Tokens, Forget(t)
  PROVE  IInv'
<1>1. /\ access[t] = None /\ refresh[t] = None /\ ~Busy(t) /\ held' = held \ {t} /\ broken' = broken \ {t}
      /\ UNCHANGED <<users, keys, access, refresh, pc, req, served>>
  BY Zenon DEF Forget, tables
<1>2. /\ claims' \in [Tokens -> Claims \cup {None}] /\ claims'[t] = None
      /\ \A s \in Tokens : s # t => claims'[s] = claims[s]
  BY Zenon DEF Forget, IInv, TypeOK
<1>3. TypeOK' /\ Filled' /\ Backed'
  BY Zenon, <1>1, <1>2 DEF IInv, TypeOK, Filled, Fits, Backed
<1>4. Rows'
  <2>1. \A h \in Handlers : Row(pc[h], req[h])'
    BY Zenon, <1>1 DEF IInv, Rows, Row
  <2>2. \A s \in Tokens : ClaimRow(s)'
    BY Zenon, <1>1, <1>2 DEF IInv, Rows, ClaimRow
  <2> QED  BY Zenon, <2>1, <2>2 DEF Rows
<1>5. Stored'
  BY Zenon, <1>1, <1>2 DEF IInv, Stored
<1>6. \A s \in Tokens : s # t => Same(s)
  BY Zenon, <1>1, <1>2 DEF Same
<1>7. Owns'
  BY Zenon, <1>1, <1>6, OwnsQuiet
<1>8. PairOrNothing'
  BY <1>1, <1>2, <1>6 DEF IInv, PairOrNothing, Busy, Same
<1>9. FirstUse' /\ Bounded'
  BY Zenon, <1>1, Calm DEF IInv
<1> QED  BY Zenon, <1>3, <1>4, <1>5, <1>7, <1>8, <1>9 DEF IInv

\* A handler that works on no token makes or deletes the row of key k and stops: whoever
\* got hold of a key has found its row, so a row that is made now was used by nobody.
LEMMA KeyIInv ==
  ASSUME IInv, NEW h \in Handlers, pc[h] # "idle", req[h].tok = None, Stop(h),
         UNCHANGED <<users, claims, access, refresh, held, served, broken>>,
         NEW k \in Keys, NEW row \in AuthKey \cup {Gone}, keys' = [keys EXCEPT ![k] = row],
         row # Gone => keys[k] = None /\ row.machine = None
  PROVE  IInv'
<1>1. Moved(h, "idle", None)
  BY Zenon, GoType DEF IInv, Stop
<1>2. /\ keys' \in [Keys -> AuthKey \cup {None, Gone}] /\ keys'[k] = row /\ row # None
      /\ \A j \in Keys : j # k => keys'[j] = keys[j]
  BY Zenon, AccountsAssumption DEF IInv, TypeOK
<1>3. TypeOK' /\ Backed'
  BY Zenon, <1>1, <1>2 DEF IInv, TypeOK, Backed, Moved
<1>4. Filled' /\ Stored' /\ Owns' /\ PairOrNothing'
  BY Zenon, <1>1, Aside DEF Making
<1>5. ASSUME NEW g \in Handlers, pc'[g] \in Granting
      PROVE  /\ pc[g] = pc'[g] /\ req[g] = req'[g] /\ req[g].key \in Keys \cup {None}
             /\ Row(pc[g], req[g])
  <2>1. pc[g] = pc'[g] /\ req[g] = req'[g] /\ pc[g] # "idle"
    BY Zenon, <1>1, <1>5 DEF Moved, Granting, Making
  <2> QED  BY Zenon, <2>1, HasRequest, RequestFields DEF IInv, Rows
<1>6. Rows'
  <2>1. ASSUME NEW g \in Handlers PROVE Row(pc[g], req[g])'
    BY ZenonT(30), <1>2, <1>5 DEF Row
  <2>2. ASSUME NEW t \in Tokens PROVE ClaimRow(t)'
    <3>1. claims[t] # None /\ claims[t].key # None => claims[t].key \in Keys
      BY Zenon DEF IInv, TypeOK, Claims
    <3> QED  BY Zenon, <1>2, <3>1 DEF IInv, Rows, ClaimRow
  <2> QED  BY Zenon, <2>1, <2>2 DEF Rows
<1>7. /\ \A j \in Keys : \A g \in Using(j)' : g \in Using(j) /\ pc'[g] = pc[g] /\ req'[g] = req[g]
      /\ \A j \in Keys : j # k => (Once(j)' <=> Once(j))
  BY Zenon, <1>2, <1>5 DEF Using, Once
<1>8. ASSUME row # Gone PROVE served[k] = {} /\ Using(k)' = {}
  <2>1. served[k] = {}
    BY Zenon, <1>8 DEF IInv, FirstUse, First
  <2>2. \A g \in Handlers : pc'[g] \in Granting => req'[g].key # k
    <3> SUFFICES ASSUME NEW g \in Handlers, pc'[g] \in Granting, req'[g].key = k PROVE FALSE
      OBVIOUS
    <3>1. pc[g] = pc'[g] /\ req[g] = req'[g] /\ Row(pc[g], req[g])
      BY Zenon, <1>5
    <3> QED  BY Zenon, <1>8, <3>1, AccountsAssumption DEF Row
  <2> QED  BY Zenon, <2>1, <2>2 DEF Using
<1>9. FirstUse'
  <2>1. Once(k)' => row # Gone
    BY Zenon, <1>2 DEF Once
  <2>2. First(k)'
    BY Zenon, <1>2, <1>8, <2>1 DEF IInv, FirstUse, First
  <2>3. ASSUME NEW j \in Keys, j # k PROVE First(j)'
    BY Zenon, <1>2, <1>7, <2>3, FirstKept DEF IInv
  <2> QED  BY Zenon, <2>2, <2>3 DEF FirstUse
<1>10. Bounded'
  <2>1. \A j \in Keys : Reach(j)' \subseteq Reach(j)
    BY Zenon, <1>7 DEF Reach
  <2>2. Once(k)' => served'[k] = {}
    BY Zenon, <1>2, <1>8 DEF Once
  <2> QED  BY Zenon, <1>7, <2>1, <2>2, BoundedStep DEF IInv
<1> QED  BY Zenon, <1>3, <1>4, <1>6, <1>9, <1>10 DEF IInv

\* A key gets its row, unless it has one, its user is unknown or the insert fails.
LEMMA CreateKeyIInv ==
  ASSUME IInv, NEW h \in Handlers, CreateKey(h)
  PROVE  IInv'
<1>1. /\ pc[h] # "idle" /\ Stop(h) /\ UNCHANGED <<users, claims, access, refresh, held, served, broken>>
      /\ req[h].tok = None /\ req[h].key \in Keys
  BY Zenon, HasRequest, RequestFields DEF IInv, Filled, Fits, CreateKey, Making, tokens
<1>2. CASE UNCHANGED keys
  BY Zenon, <1>1, <1>2, EndIInv DEF tables, tokens
<1>3. ASSUME NEW type \in {"one-off", "reusable"}, req[h].user \in users, keys[req[h].key] = None,
             keys' = [keys EXCEPT ![req[h].key] = [user |-> req[h].user, type |-> type, machine |-> None]]
      PROVE  IInv'
  <2>1. ASSUME NEW row, row = [user |-> req[h].user, type |-> type, machine |-> None]
        PROVE  row \in AuthKey /\ row.machine = None
    BY Zenon, <1>3, <2>1 DEF IInv, TypeOK, AuthKey
  <2> QED  BY Zenon, <1>1, <1>3, <2>1, KeyIInv
<1> QED  BY Zenon, <1>2, <1>3 DEF CreateKey

\* The row of a key is deleted, unless it is another user's or the statement fails.
LEMMA DeleteKeyIInv ==
  ASSUME IInv, NEW h \in Handlers, DeleteKey(h)
  PROVE  IInv'
<1>1. /\ pc[h] # "idle" /\ Stop(h) /\ UNCHANGED <<users, claims, access, refresh, held, served, broken>>
      /\ req[h].tok = None /\ req[h].key \in Keys
  BY Zenon, HasRequest, RequestFields DEF IInv, Filled, Fits, DeleteKey, Making, tokens
<1>2. CASE UNCHANGED keys
  BY Zenon, <1>1, <1>2, EndIInv DEF tables, tokens
<1>3. CASE keys' = [keys EXCEPT ![req[h].key] = Gone]
  BY Zenon, <1>1, <1>3, KeyIInv
<1> QED  BY Zenon, <1>2, <1>3 DEF DeleteKey

\* The portal stops and every handler with it: the tokens they worked on count as broken.
LEMMA CrashIInv ==
  ASSUME IInv, Crash
  PROVE  IInv'
<1>1. /\ UNCHANGED <<users, keys, claims, access, refresh, held, served>>
      /\ broken' = broken \cup ({req[h].tok : h \in {g \in Handlers : pc[g] # "idle"}} \ {None})
      /\ \A h \in Handlers : pc'[h] = "idle" /\ req'[h] = None
      /\ pc' \in [Handlers -> Points] /\ req' \in [Handlers -> Request \cup {None}]
  BY Zenon DEF Crash, tables, Points
<1>2. \A t \in Tokens : (t \in broken' <=> t \in broken \/ Busy(t)) /\ ~Busy(t)'
  BY Zenon, <1>1, AccountsAssumption DEF Busy
<1>3. TypeOK'
  <2>1. ASSUME NEW h \in Handlers, pc[h] # "idle", req[h].tok # None
        PROVE  req[h].tok \in Tokens /\ claims[req[h].tok] # None
    <3>1. req[h].tok \in Tokens /\ pc[h] \in Making \cup {"delRefresh"}
      BY Zenon, <2>1, HasRequest, RequestFields DEF IInv, Filled, Fits
    <3> QED  BY Zenon, <3>1 DEF IInv, Owns, Own, TypeOK
  <2>2. broken' \subseteq {t \in Tokens : claims[t] # None}
    BY <1>1, <2>1 DEF IInv, TypeOK
  <2> QED  BY Zenon, <1>1, <2>2 DEF IInv, TypeOK
<1>4. Filled' /\ Stored' /\ Backed'
  BY Zenon, <1>1 DEF IInv, Filled, Stored, Backed
<1>5. Rows'
  BY Zenon, <1>1 DEF IInv, Rows, Row, ClaimRow, Granting, Making
<1>6. Owns'
  BY Zenon, <1>1 DEF Owns, Own, Making
<1>7. PairOrNothing'
  BY Zenon, <1>1, <1>2 DEF IInv, PairOrNothing
<1>8. FirstUse' /\ Bounded'
  BY Zenon, <1>1, Calm DEF IInv, Granting, Making
<1> QED  BY Zenon, <1>3, <1>4, <1>5, <1>6, <1>7, <1>8 DEF IInv

-----------------------------------------------------------------------------
(* The theorems.                                                           *)

\* The invariant holds at the start, with whatever rows the tables have.
LEMMA InitIInv == Init => IInv
<1> SUFFICES ASSUME Init PROVE IInv
  OBVIOUS
<1> USE DEF Init
<1>1. TypeOK
  <2>1. keys \in [Keys -> AuthKey \cup {None, Gone}]
    BY Zenon DEF AuthKey
  <2>2. access = [t \in Tokens |-> None] /\ refresh = [t \in Tokens |-> None]
    OBVIOUS
  <2> QED  BY Zenon, <2>1, <2>2 DEF TypeOK, Points
<1>2. Filled /\ Rows /\ Stored /\ Owns /\ Backed
  BY Zenon DEF Filled, Rows, Row, ClaimRow, Stored, Owns, Own, Backed, Granting, Making
<1>3. PairOrNothing
  BY Zenon DEF PairOrNothing
<1>4. \A k \in Keys : Using(k) = {} /\ served[k] = {}
  BY Zenon DEF Using, Granting, Making
<1>5. FirstUse
  <2>1. \A k \in Keys : Once(k) => keys[k].machine = None
    BY Zenon DEF Once
  <2> QED  BY Zenon, <1>4, <2>1, FS_EmptySet DEF FirstUse, First
<1>6. Bounded
  <2>1. \A k \in Keys : Reach(k) = {}
    BY Zenon, <1>4 DEF Reach
  <2>2. Cardinality({}) = 0 /\ Cardinality(Handlers) \in Nat
    BY Zenon, FS_EmptySet, FS_CardinalityType, AccountsAssumption
  <2>3. 0 <= Cardinality(Handlers)
    BY <2>2
  <2> QED  BY <2>1, <2>2, <2>3, Zenon DEF Bounded
<1> QED  BY Zenon, <1>1, <1>2, <1>3, <1>5, <1>6 DEF IInv

\* Every step keeps the invariant.
LEMMA NextIInv == IInv /\ [Next]_vars => IInv'
<1> SUFFICES ASSUME IInv, [Next]_vars PROVE IInv'
  OBVIOUS
<1>1. ASSUME NEW h \in Handlers, Handle(h) PROVE IInv'
  BY Zenon, <1>1, LoginIInv, ExchangeKeyIInv, ExchangeTokenIInv, LogoutIInv, AuthorizeIInv, RegisterIInv,
     SetAccessIInv, SetRefreshIInv, UndoIInv, ReadKeyIInv, SaveMachineIInv, LogoutRefreshIInv,
     CreateKeyIInv, DeleteKeyIInv DEF Handle
<1>2. ASSUME NEW t \in Tokens, ExpireAccess(t) \/ ExpireRefresh(t) \/ Forget(t) PROVE IInv'
  BY Zenon, <1>2, ExpireAccessIInv, ExpireRefreshIInv, ForgetIInv
<1>3. CASE UNCHANGED vars
  <2>1. TypeOK' /\ Filled' /\ Stored' /\ Backed'
    BY Zenon, <1>3 DEF vars, IInv, TypeOK, Filled, Fits, Stored, Backed
  <2>2. Rows' /\ Owns'
    BY Zenon, <1>3 DEF vars, IInv, Rows, Row, ClaimRow, Owns, Own
  <2>3. PairOrNothing'
    BY Zenon, <1>3 DEF vars, IInv, PairOrNothing, Busy
  <2>4. FirstUse' /\ Bounded'
    BY Zenon, <1>3, Calm DEF vars, IInv
  <2> QED  BY Zenon, <2>1, <2>2, <2>3, <2>4 DEF IInv
<1> QED  BY Zenon, <1>1, <1>2, <1>3, CrashIInv DEF Next

\* For any accounts, machines, keys, tokens and handlers, and with failures and crashes at
\* every step, the strengthened invariant of the portal's accounts holds.
THEOREM Invariance == Spec => []IInv
BY InitIInv, NextIInv, PTL DEF Spec

\* Every variable of the accounts keeps its type.
THEOREM TypeCorrect == Spec => []TypeOK
<1>1. IInv => TypeOK
  BY Zenon DEF IInv
<1> QED  BY Invariance, <1>1, PTL

\* CreateAuth and DeleteTokens leave both entries of a token in the store or none, unless
\* a second failure or a crash hits the same token.
THEOREM PairSafe == Spec => []PairOrNothing
<1>1. IInv => PairOrNothing
  BY Zenon DEF IInv
<1> QED  BY Invariance, <1>1, PTL

\* A token that ExchangeKey makes from a key stands for the owner of the key.
THEOREM KeyTokensSafe == Spec => []KeyTokensOwned
<1>1. IInv => KeyTokensOwned
  BY Zenon, AccountsAssumption DEF IInv, KeyTokensOwned, Rows, ClaimRow, Stored
<1> QED  BY Invariance, <1>1, PTL

\* A one-off key serves no more machines than there are requests at a time, although the
\* check of the machine and its save are steps of their own.
THEOREM OneOffSafe == Spec => []OneOffMachines
<1>1. ASSUME IInv, NEW k \in Keys, Once(k) PROVE Cardinality(served[k]) <= Cardinality(Handlers)
  <2>1. IsFiniteSet(served[k]) /\ Cardinality(Reach(k)) <= Cardinality(Handlers)
    BY Zenon, <1>1 DEF IInv, FirstUse, First, Bounded
  <2>2. IsFiniteSet(Reach(k))
    <3>1. IsFiniteSet(Using(k))
      BY Zenon, FS_Subset, AccountsAssumption DEF Using
    <3>2. [h \in Using(k) |-> req[h].machine] \in Surjection(Using(k), {req[h].machine : h \in Using(k)})
      BY Zenon DEF Surjection
    <3>3. IsFiniteSet({req[h].machine : h \in Using(k)})
      BY Zenon, <3>1, <3>2, FS_Surjection
    <3> QED  BY Zenon, <2>1, <3>3, FS_Union DEF Reach
  <2>3. served[k] \in SUBSET Reach(k)
    BY Zenon DEF Reach
  <2>4. Cardinality(served[k]) <= Cardinality(Reach(k))
    BY Zenon, <2>2, <2>3, FS_Subset
  <2>5. Cardinality(served[k]) \in Nat /\ Cardinality(Reach(k)) \in Nat /\ Cardinality(Handlers) \in Nat
    BY Zenon, <2>1, <2>2, FS_CardinalityType, AccountsAssumption
  <2> QED  BY <2>1, <2>4, <2>5
<1>2. IInv => OneOffMachines
  BY Zenon, <1>1 DEF OneOffMachines, Once
<1> QED  BY Invariance, <1>2, PTL

\* No creation of a pair, exchange or logout that is under way brings an entry of a token
\* back when both are gone: Set writes only for a token whose first entry is there.
THEOREM LogoutFinal == Spec => LogoutIsFinal
<1> DEFINE Final == \A t \in Tokens : claims[t] # None /\ access[t] = None /\ refresh[t] = None =>
                      access'[t] = None /\ refresh'[t] = None
<1>1. ASSUME IInv, [Next]_vars, NEW t \in Tokens, claims[t] # None, access[t] = None, refresh[t] = None
      PROVE  access'[t] = None /\ refresh'[t] = None
  <2>1. access \in [Tokens -> UserIDs \cup {None}] /\ refresh \in [Tokens -> UserIDs \cup {None}]
    BY Zenon, <1>1 DEF IInv, TypeOK
  <2>2. ASSUME NEW h \in Handlers, SetAccess(h) PROVE access'[t] = None /\ refresh'[t] = None
    BY Zenon, <1>1, <2>1, <2>2 DEF SetAccess
  <2>3. ASSUME NEW h \in Handlers, SetRefresh(h) PROVE access'[t] = None /\ refresh'[t] = None
    <3>1. req[h].tok # t
      BY Zenon, <1>1, <2>3, MakerFacts DEF SetRefresh, Making
    <3> QED  BY Zenon, <1>1, <2>1, <2>3, <3>1 DEF SetRefresh
  <2>4. ASSUME NEW h \in Handlers, Undo(h) \/ LogoutRefresh(h) PROVE access'[t] = None /\ refresh'[t] = None
    BY Zenon, <1>1, <2>1, <2>4 DEF Undo, LogoutRefresh
  <2>5. ASSUME NEW h \in Handlers, NEW s \in Tokens, Logout(h, s) PROVE access'[t] = None /\ refresh'[t] = None
    BY Zenon, <1>1, <2>1, <2>5 DEF Logout
  <2>6. ASSUME NEW s \in Tokens, ExpireAccess(s) \/ ExpireRefresh(s) \/ Forget(s)
        PROVE  access'[t] = None /\ refresh'[t] = None
    BY Zenon, <1>1, <2>1, <2>6 DEF ExpireAccess, ExpireRefresh, Forget
  <2>7. CASE UNCHANGED <<access, refresh>>
    BY Zenon, <1>1, <2>7
  <2>8. ASSUME NEW h \in Handlers,
               \/ \E a \in Accounts, m \in Machines : Login(h, a, m)
               \/ \E k \in Keys, m \in Machines : ExchangeKey(h, k, m)
               \/ \E s \in Tokens : ExchangeToken(h, s)
               \/ \E s \in Tokens, k \in Keys, p \in {"createKey", "deleteKey"} : Authorize(h, s, p, k)
               \/ Register(h) \/ ReadKey(h) \/ SaveMachine(h) \/ CreateKey(h) \/ DeleteKey(h)
        PROVE  UNCHANGED <<access, refresh>>
    BY Zenon, <2>8 DEF Login, ExchangeKey, ExchangeToken, Authorize, Register, ReadKey, SaveMachine, CreateKey,
                DeleteKey, tokens
  <2>9. CASE Crash \/ UNCHANGED vars
    BY Zenon, <1>1, <2>9 DEF Crash, vars
  <2> QED  BY Zenon, <1>1, <2>2, <2>3, <2>4, <2>5, <2>6, <2>7, <2>8, <2>9 DEF Next, Handle
<1>2. IInv /\ [Next]_vars => [Final]_vars
  BY Zenon, <1>1
<1> QED  BY Invariance, <1>2, PTL DEF Spec, LogoutIsFinal
=============================================================================
