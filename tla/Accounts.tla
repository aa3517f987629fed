------------------------------ MODULE Accounts ------------------------------
(***************************************************************************)
(* Who may call the portal: login through GitHub, token pairs, keys that   *)
(* are exchanged for token pairs, and logout.  portal/api/api_sso.go,      *)
(* api_key.go, plugins.go, portal/sso/github/github.go and pkg/jwt/jwt.go, *)
(* over the tables users, github_users and auth_keys and the store of      *)
(* tokens (internal/ledis), which is on disk and outlives the process.     *)
(*                                                                         *)
(* One step is one transaction or one access to the store.  Either may     *)
(* fail, and the portal may stop between any two of them.  A token is the  *)
(* UUID in its claims; its signature is taken to be good.  A response that *)
(* is lost has the effect of a token that its holder does not use.         *)
(***************************************************************************)
EXTENDS Naturals, FiniteSets

CONSTANTS
  Accounts,   \* GitHub accounts; the row of users made for one bears its name
  Machines,
  Keys,       \* IDs of auth_keys
  Tokens,     \* UUIDs
  Handlers,   \* requests that are handled at the same time
  None,
  Nobody,     \* user ID 0
  Gone        \* the row was deleted

UserIDs == Accounts \cup {Nobody}

VARIABLES
  users,      \* accounts with a row in github_users and one in users
  keys,       \* rows of auth_keys
  claims,     \* what a token says, None when it was not made yet
  access,     \* the store: user ID of AccessUUID
  refresh,    \* the store: user ID of RefreshUUID
  held,       \* tokens that were handed to a client
  pc, req,    \* program point and locals of a handler
  served,     \* history: machines that got a token of a key
  broken      \* history: tokens whose store entries a second failure or a crash left as they were

vars == <<users, keys, claims, access, refresh, held, pc, req, served, broken>>
tokens == <<claims, access, refresh, held, served, broken>>
tables == <<users, keys>>

AuthKey == [user : Accounts, type : {"one-off", "reusable"}, machine : Machines \cup {None}]

Claims == [user : UserIDs, machine : Machines, key : Keys \cup {None}, live : BOOLEAN]

Request == [user : UserIDs, machine : Machines \cup {None}, key : Keys \cup {None},
            tok : Tokens \cup {None}, first : BOOLEAN]

\* What is absent, or was deleted, is told from every value.
ASSUME AccountsAssumption ==
  /\ {None, Gone} \cap AuthKey = {} /\ None # Gone
  /\ None \notin UserIDs \cup Machines \cup Keys \cup Tokens \cup Claims \cup Request
  /\ Nobody \notin Accounts
  /\ IsFiniteSet(Handlers)

Points == {"idle", "register", "exchange", "setAccess", "setRefresh", "undo", "saveMachine",
           "delRefresh", "createKey", "deleteKey"}

TypeOK ==
  /\ users \subseteq Accounts
  /\ keys \in [Keys -> AuthKey \cup {None, Gone}]
  /\ claims \in [Tokens -> Claims \cup {None}]
  /\ access \in [Tokens -> UserIDs \cup {None}]
  /\ refresh \in [Tokens -> UserIDs \cup {None}]
  /\ held \cup broken \subseteq {t \in Tokens : claims[t] # None}
  /\ served \in [Keys -> SUBSET Machines]
  /\ pc \in [Handlers -> Points]
  /\ req \in [Handlers -> Request \cup {None}]
  /\ \A h \in Handlers : pc[h] # "idle" <=> req[h] # None

\* The tables may hold users, and keys of theirs, from an earlier life of the portal.
Init ==
  /\ users \in SUBSET Accounts
  /\ keys \in [Keys -> {None} \cup [user : users, type : {"one-off", "reusable"}, machine : {None}]]
  /\ claims = [t \in Tokens |-> None]
  /\ access = claims
  /\ refresh = claims
  /\ held = {} /\ broken = {}
  /\ served = [k \in Keys |-> {}]
  /\ pc = [h \in Handlers |-> "idle"]
  /\ req = [h \in Handlers |-> None]

-----------------------------------------------------------------------------
Go(h, point, r) ==
  /\ pc' = [pc EXCEPT ![h] = point]
  /\ req' = [req EXCEPT ![h] = r]

Stop(h) == Go(h, "idle", None)

NewRequest(u, m, k) == [user |-> u, machine |-> m, key |-> k, tok |-> None, first |-> FALSE]

\* A handler works on token t.
Busy(t) == \E h \in Handlers : pc[h] # "idle" /\ req[h].tok = t

\* The response takes the pair to the client.
HandOut(r) ==
  /\ held' = held \cup {r.tok}
  /\ served' = IF r.key = None THEN served ELSE [served EXCEPT ![r.key] = @ \cup {r.machine}]

\* ExtractTokenMetadata: the token verifies and has not expired.
Verifies(t) == t \in held /\ claims[t].live

\* FetchAuth: the store answers nothing for a missing key, which parses to 0.
FetchAuth(t) == IF access[t] = None THEN Nobody ELSE access[t]

-----------------------------------------------------------------------------
(* GithubAuthCallback and UserInfo: the row of a known account is read; an *)
(* unknown one is inserted by a later statement of the transaction.        *)
Login(h, a, m) ==
  /\ pc[h] = "idle"
  /\ Go(h, IF a \in users THEN "setAccess" ELSE "register", NewRequest(a, m, None))
  /\ UNCHANGED <<tables, tokens>>

(* CreateUser: github_users is unique by account.  The user that is made   *)
(* is not the one that UserInfo returns: that one is empty, with ID 0.     *)
Register(h) ==
  /\ pc[h] = "register"
  /\ \/ Stop(h) /\ UNCHANGED users
     \/ /\ req[h].user \notin users
        /\ users' = users \cup {req[h].user}
        /\ Go(h, "setAccess", [req[h] EXCEPT !.user = Nobody])
  /\ UNCHANGED <<keys, tokens>>

(* CreateToken, and the first Set of CreateAuth.                           *)
\* Fault: the pair is handed out before its second entry is stored.
SetAccessFaulty(h) ==
  /\ pc[h] = "setAccess"
  /\ \E t \in Tokens :
       /\ claims[t] = None
       /\ claims' = [claims EXCEPT ![t] = [user |-> req[h].user, machine |-> req[h].machine,
                                           key |-> req[h].key, live |-> TRUE]]
       /\ access' = [access EXCEPT ![t] = req[h].user]
       /\ held' = held \cup {t}
       /\ Go(h, "setRefresh", [req[h] EXCEPT !.tok = t])
  /\ UNCHANGED <<tables, refresh, served, broken>>

SetAccess(h) ==
  /\ pc[h] = "setAccess"
  /\ \/ Stop(h) /\ UNCHANGED <<claims, access>>
     \/ \E t \in Tokens :
          /\ claims[t] = None
          /\ claims' = [claims EXCEPT ![t] = [user |-> req[h].user, machine |-> req[h].machine,
                                              key |-> req[h].key, live |-> TRUE]]
          /\ access' = [access EXCEPT ![t] = req[h].user]
          /\ Go(h, "setRefresh", [req[h] EXCEPT !.tok = t])
  /\ UNCHANGED <<tables, refresh, held, served, broken>>

(* The second Set of CreateAuth.  A failure leads to the deferred Del.     *)
(* The pair is handed out unless there is a machine to be saved first.     *)
\* Fault: no deferred Del when the second Set fails.
SetRefreshFaulty(h) ==
  /\ pc[h] = "setRefresh"
  /\ \/ Stop(h) /\ UNCHANGED <<refresh, held, served>>
     \/ /\ refresh' = [refresh EXCEPT ![req[h].tok] = req[h].user]
        /\ Stop(h)
        /\ HandOut(req[h])
  /\ UNCHANGED <<tables, claims, access, broken>>

SetRefresh(h) ==
  /\ pc[h] = "setRefresh"
  /\ \/ Go(h, "undo", req[h]) /\ UNCHANGED <<refresh, held, served>>
     \/ /\ refresh' = [refresh EXCEPT ![req[h].tok] = req[h].user]
        /\ IF req[h].first
           THEN Go(h, "saveMachine", req[h]) /\ UNCHANGED <<held, served>>
           ELSE Stop(h) /\ HandOut(req[h])
  /\ UNCHANGED <<tables, claims, access, broken>>

Undo(h) ==
  /\ pc[h] = "undo"
  /\ \/ access' = [access EXCEPT ![req[h].tok] = None] /\ UNCHANGED broken
     \/ broken' = broken \cup {req[h].tok} /\ UNCHANGED access
  /\ Stop(h)
  /\ UNCHANGED <<tables, claims, refresh, held, served>>

-----------------------------------------------------------------------------
(* peerAuthKeyValidator in front of ExchangeKey: the machine of a one-off  *)
(* key must be this one or none yet.                                       *)
MachineFits(k, m) == keys[k].type = "one-off" => keys[k].machine \in {m, None}

ExchangeKey(h, k, m) ==
  /\ pc[h] = "idle"
  /\ keys[k] \notin {None, Gone}
  /\ MachineFits(k, m)
  /\ Go(h, "exchange", NewRequest(keys[k].user, m, k))
  /\ UNCHANGED <<tables, tokens>>

(* tokenValidator in front of ExchangeKey: a token for a new pair.  That   *)
(* of a key leads to its row, that of a login to the user of the token.    *)
ExchangeToken(h, t) ==
  /\ pc[h] = "idle"
  /\ Verifies(t)
  /\ LET k == claims[t].key
     IN Go(h, IF k = None THEN "setAccess" ELSE "exchange",
           NewRequest(FetchAuth(t), claims[t].machine, k))
  /\ UNCHANGED <<tables, tokens>>

(* ExchangeKey reads the row by its ID.                                    *)
\* Fault: the user of the request's context instead of the row's.
ReadKeyFaulty(h) ==
  /\ pc[h] = "exchange"
  /\ LET row == keys[req[h].key]
     IN IF row = Gone THEN Stop(h)
        ELSE Go(h, "setAccess", [req[h] EXCEPT
               !.first = row.type = "one-off" /\ row.machine = None])
  /\ UNCHANGED <<tables, tokens>>

ReadKey(h) ==
  /\ pc[h] = "exchange"
  /\ LET row == keys[req[h].key]
     IN IF row = Gone THEN Stop(h)
        ELSE Go(h, "setAccess", [req[h] EXCEPT
               !.user = row.user, !.first = row.type = "one-off" /\ row.machine = None])
  /\ UNCHANGED <<tables, tokens>>

(* The machine is saved when the row had none at the time of ReadKey.      *)
\* Fault: the updater is built and not run.
SaveMachineFaulty(h) ==
  /\ pc[h] = "saveMachine"
  /\ HandOut(req[h])
  /\ Stop(h)
  /\ UNCHANGED <<tables, claims, access, refresh, broken>>

SaveMachine(h) ==
  /\ pc[h] = "saveMachine"
  /\ \/ UNCHANGED <<keys, held, served>>
     \/ /\ keys' = [keys EXCEPT ![req[h].key] =
                      IF @ = Gone THEN @ ELSE [@ EXCEPT !.machine = req[h].machine]]
        /\ HandOut(req[h])
  /\ Stop(h)
  /\ UNCHANGED <<users, claims, access, refresh, broken>>

-----------------------------------------------------------------------------
(* Logout and DeleteTokens.  The last transaction of Logout is about       *)
(* ephemeral keys, which CreateKey does not make.                          *)
Logout(h, t) ==
  /\ pc[h] = "idle"
  /\ Verifies(t)
  /\ access' = [access EXCEPT ![t] = None]
  /\ Go(h, "delRefresh", [NewRequest(claims[t].user, None, None) EXCEPT !.tok = t])
  /\ UNCHANGED <<tables, claims, refresh, held, served, broken>>

LogoutRefresh(h) ==
  /\ pc[h] = "delRefresh"
  /\ LET t == req[h].tok
     IN \/ refresh' = [refresh EXCEPT ![t] = None] /\ UNCHANGED broken
        \/ broken' = broken \cup {t} /\ UNCHANGED refresh
  /\ Stop(h)
  /\ UNCHANGED <<tables, claims, access, held, served>>

(* The access token and entry of a login expire, those of a key do not     *)
(* (noExpiry); the refresh entry of a login expires later.                 *)
ExpireAccess(t) ==
  /\ claims[t] # None /\ claims[t].key = None /\ claims[t].live
  /\ ~Busy(t)
  /\ claims' = [claims EXCEPT ![t].live = FALSE]
  /\ access' = [access EXCEPT ![t] = None]
  /\ UNCHANGED <<tables, refresh, held, pc, req, served, broken>>

ExpireRefresh(t) ==
  /\ claims[t] # None /\ ~claims[t].live /\ refresh[t] # None
  /\ ~Busy(t)
  /\ refresh' = [refresh EXCEPT ![t] = None]
  /\ UNCHANGED <<tables, claims, access, held, pc, req, served, broken>>

(* A client throws a token away that the store has forgotten; then its     *)
(* UUID may stand for a new one.                                           *)
Forget(t) ==
  /\ claims[t] # None /\ access[t] = None /\ refresh[t] = None /\ ~Busy(t)
  /\ claims' = [claims EXCEPT ![t] = None]
  /\ held' = held \ {t}
  /\ broken' = broken \ {t}
  /\ UNCHANGED <<tables, access, refresh, pc, req, served>>

-----------------------------------------------------------------------------
(* CreateKey and DeleteKey run for the user whom the token stood for when  *)
(* tokenValidator looked.  The foreign key refuses a row of user ID 0, and *)
(* CreateKey does not notice.                                              *)
Authorize(h, t, point, k) ==
  /\ pc[h] = "idle"
  /\ Verifies(t)
  /\ Go(h, point, NewRequest(FetchAuth(t), None, k))
  /\ UNCHANGED <<tables, tokens>>

CreateKey(h) ==
  /\ pc[h] = "createKey"
  /\ \/ UNCHANGED keys
     \/ \E type \in {"one-off", "reusable"} :
          /\ req[h].user \in users
          /\ keys[req[h].key] = None
          /\ keys' = [keys EXCEPT ![req[h].key] = [user |-> req[h].user, type |-> type, machine |-> None]]
  /\ Stop(h)
  /\ UNCHANGED <<users, tokens>>

DeleteKey(h) ==
  /\ pc[h] = "deleteKey"
  /\ \/ UNCHANGED keys
     \/ /\ keys[req[h].key] \notin {None, Gone}
        /\ keys[req[h].key].user = req[h].user
        /\ keys' = [keys EXCEPT ![req[h].key] = Gone]
  /\ Stop(h)
  /\ UNCHANGED <<users, tokens>>

Crash ==
  /\ \E h \in Handlers : pc[h] # "idle"
  /\ broken' = broken \cup ({req[h].tok : h \in {g \in Handlers : pc[g] # "idle"}} \ {None})
  /\ pc' = [h \in Handlers |-> "idle"]
  /\ req' = [h \in Handlers |-> None]
  /\ UNCHANGED <<tables, claims, access, refresh, held, served>>

-----------------------------------------------------------------------------
Handle(h) ==
  \/ \E a \in Accounts, m \in Machines : Login(h, a, m)
  \/ \E k \in Keys, m \in Machines : ExchangeKey(h, k, m)
  \/ \E t \in Tokens : ExchangeToken(h, t) \/ Logout(h, t)
  \/ \E t \in Tokens, k \in Keys, point \in {"createKey", "deleteKey"} : Authorize(h, t, point, k)
  \/ Register(h) \/ SetAccess(h) \/ SetRefresh(h) \/ Undo(h)
  \/ ReadKey(h) \/ SaveMachine(h) \/ LogoutRefresh(h) \/ CreateKey(h) \/ DeleteKey(h)

Next ==
  \/ \E h \in Handlers : Handle(h)
  \/ \E t \in Tokens : ExpireAccess(t) \/ ExpireRefresh(t) \/ Forget(t)
  \/ Crash

Spec == Init /\ [][Next]_vars

-----------------------------------------------------------------------------
(* The two entries of a token are in the store together or not at all once *)
(* no handler works on it, unless a second failure or a crash hit the same *)
(* token: CreateAuth takes the first entry back when the second fails.     *)
PairOrNothing ==
  \A t \in Tokens \ broken :
    claims[t] # None /\ claims[t].live /\ ~Busy(t) => (access[t] = None <=> refresh[t] = None)

(* A logout is final: once both entries of a token are gone, no creation   *)
(* of a pair, exchange or logout that is still under way brings one back.  *)
LogoutIsFinal ==
  [][\A t \in Tokens : claims[t] # None /\ access[t] = None /\ refresh[t] = None =>
       access'[t] = None /\ refresh'[t] = None]_vars

(* A one-off key gives tokens to at most as many machines as there were    *)
(* requests under way when it was first used: every other exchange sees    *)
(* the machine that was saved.  ("save the machine id for one-machine      *)
(* check", api_key.go; the check and the save are steps of their own, so   *)
(* one machine cannot be had.)                                             *)
OneOffMachines ==
  \A k \in Keys : keys[k] \notin {None, Gone} /\ keys[k].type = "one-off" =>
    Cardinality(served[k]) <= Cardinality(Handlers)

(* A token made from a key stands for the user who owns the key, and for   *)
(* nobody else as long as it is stored: ExchangeKey trusts the row that it *)
(* reads after the validator has seen another version of it.               *)
KeyTokensOwned ==
  \A t \in Tokens, k \in Keys :
    claims[t] # None /\ claims[t].key = k /\ keys[k] # Gone =>
      claims[t].user = keys[k].user /\ access[t] \in {None, keys[k].user}
=============================================================================
