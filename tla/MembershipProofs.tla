-------------------------- MODULE MembershipProofs --------------------------
(***************************************************************************)
(* Proofs that networks keep one owner, their creator, and that a deleted  *)
(* network leaves nothing, for any number of users, networks, invitations  *)
(* and requests that overlap; that a statement of the generated queries    *)
(* touches no row that one of its filters excludes; and that these queries *)
(* are what their generator makes of the structs.                          *)
(***************************************************************************)
EXTENDS Membership, QuerySets, TLAPS

(* What a handler has read stays good enough until it commits: the network *)
(* it read still has the same creator or is gone, and the roles it is      *)
(* about to write are not that of an owner.                                *)
Pending(h) ==
  /\ pc[h] # "idle" /\ pc[h] # "addOwner" => req[h].net \in Networks
  /\ pc[h] \in {"role", "remove", "invite", "join", "decline"} => req[h].user \in Users
  /\ pc[h] \in {"join", "decline"} => req[h].inv \in Invitations
  /\ pc[h] \in {"role", "invite", "join"} => req[h].role \in {"admin", "member"}
  /\ pc[h] = "addOwner" => /\ req[h].user = req[h].by
                           /\ req[h].role = "owner"
                           /\ req[h].net # None => creator[req[h].net] \in {req[h].by, Gone}
  /\ pc[h] = "invite" /\ req[h].role = "admin" => creator[req[h].net] \in {req[h].by, Gone}
  /\ pc[h] = "delete" => creator[req[h].net] \in {req[h].by, Gone}

Owners ==
  \A n \in Networks, u \in Users : \A k \in 1 .. Len(members[n][u]) :
    members[n][u][k] = "owner" => creator[n] = u

MembersBacked ==
  \A n \in Networks, u \in Users : members[n][u] # <<>> => creator[n] \in Users

InvitationsBacked ==
  \A i \in Invitations : invitations[i] # None =>
    /\ creator[invitations[i].net] \in Users
    /\ invitations[i].role = "admin" => creator[invitations[i].net] = invitations[i].by

IInv ==
  TypeOK /\ (\A h \in Handlers : Pending(h)) /\ Owners /\ MembersBacked /\ InvitationsBacked

-----------------------------------------------------------------------------
(* Appending a role to the rows of a user.                                 *)
LEMMA AppendRole == ASSUME NEW s \in Seq(Roles), NEW r \in Roles
  PROVE /\ Append(s, r) \in Seq(Roles)
        /\ Append(s, r) # <<>>
        /\ Len(Append(s, r)) = Len(s) + 1
        /\ \A k \in 1 .. Len(s) : Append(s, r)[k] = s[k]
        /\ Append(s, r)[Len(s) + 1] = r
  OBVIOUS

(* A handler past its reads has a request.                                 *)
LEMMA HasRequest == ASSUME TypeOK, NEW h \in Handlers, pc[h] # "idle"
  PROVE req[h] \in Request
  BY DEF TypeOK

(* The tables are empty at first.                                          *)
LEMMA InitIInv == Init => IInv
<1> SUFFICES ASSUME Init PROVE IInv  OBVIOUS
<1>1. TypeOK  BY DEF Init, TypeOK
<1>2. \A h \in Handlers : Pending(h)  BY DEF Init, Pending
<1>3. Owners  BY DEF Init, Owners
<1>4. MembersBacked /\ InvitationsBacked
  BY DEF Init, MembersBacked, InvitationsBacked
<1>5. QED  BY <1>1, <1>2, <1>3, <1>4 DEF IInv

(* A handler that changes no table keeps the invariant when what it has    *)
(* read is recorded truthfully.                                            *)
LEMMA ReadKeeps ==
  ASSUME IInv, UNCHANGED tables, TypeOK', \A h \in Handlers : Pending(h)'
  PROVE IInv'
  BY DEF IInv, tables, Owners, MembersBacked, InvitationsBacked

(* A step that leaves handler g and creators of its network alone keeps    *)
(* what g has read.                                                        *)
LEMMA PendingKept ==
  ASSUME NEW g, Pending(g), UNCHANGED creator, pc'[g] = pc[g], req'[g] = req[g]
  PROVE Pending(g)'
  BY DEF Pending

(* The type of the state after a request has begun.                        *)
LEMMA BeginType ==
  ASSUME TypeOK, NEW h \in Handlers, NEW r \in Request,
         NEW p \in {"delete", "role", "remove", "invite", "join", "decline"}, Begin(h, p, r)
  PROVE /\ TypeOK'
        /\ pc'[h] = p /\ req'[h] = r
        /\ \A g \in Handlers \ {h} : pc'[g] = pc[g] /\ req'[g] = req[g]
<1>1. UNCHANGED tables /\ pc' = [pc EXCEPT ![h] = p] /\ req' = [req EXCEPT ![h] = r]
  BY DEF Begin
<1>2. r # None  BY MembershipAssumption
<1>3. QED  BY <1>1, <1>2 DEF TypeOK, tables

(* A request that is over keeps the invariant's part on handlers.          *)
LEMMA EndKeeps ==
  ASSUME TypeOK, \A g \in Handlers : Pending(g), NEW h \in Handlers, End(h), UNCHANGED creator
  PROVE /\ \A g \in Handlers : Pending(g)'
        /\ pc' \in [Handlers -> {"idle", "addOwner", "delete", "role", "remove", "invite",
                                 "join", "decline"}]
        /\ req' \in [Handlers -> Request \cup {None}]
        /\ \A g \in Handlers : pc'[g] # "idle" => req'[g] # None
<1>1. pc' = [pc EXCEPT ![h] = "idle"] /\ req' = [req EXCEPT ![h] = None]  BY DEF End
<1>2. Pending(h)'  BY <1>1 DEF TypeOK, Pending
<1>3. \A g \in Handlers \ {h} : pc'[g] = pc[g] /\ req'[g] = req[g]  BY <1>1 DEF TypeOK
<1>4. \A g \in Handlers \ {h} : Pending(g)'  BY <1>3, PendingKept
<1>5. QED  BY <1>1, <1>2, <1>4 DEF TypeOK

-----------------------------------------------------------------------------
(* The steps that read.                                                    *)

(* Only the creator gets to delete.                                        *)
LEMMA DeleteNetworkIInv == ASSUME IInv, NEW h \in Handlers, NEW u \in Users, NEW n \in Networks, DeleteNetwork(h, u, n)
  PROVE IInv'
<1> DEFINE r == [by |-> u, net |-> n, user |-> None, role |-> None, inv |-> None]
<1>1. r \in Request /\ Begin(h, "delete", r)
  BY DEF DeleteNetwork, Request, Roles, IInv, TypeOK, Invitation
<1>2. TypeOK' /\ pc'[h] = "delete" /\ req'[h] = r
      /\ \A g \in Handlers \ {h} : pc'[g] = pc[g] /\ req'[g] = req[g]
  BY <1>1, BeginType DEF IInv
<1>3. UNCHANGED tables  BY <1>1 DEF Begin
<1>4. \A g \in Handlers \ {h} : Pending(g)'  BY <1>2, <1>3, PendingKept DEF IInv, tables
<1>5. Pending(h)'
  BY <1>2, <1>3 DEF DeleteNetwork, Pending, tables
<1>6. QED  BY <1>2, <1>3, <1>4, <1>5, ReadKeeps

(* The role to write is not that of an owner.                              *)
LEMMA ChangeNetworkMemberRoleIInv == ASSUME IInv, NEW h \in Handlers, NEW u \in Users, NEW n \in Networks, NEW target \in Users, NEW role \in Roles, ChangeNetworkMemberRole(h, u, n, target, role)
  PROVE IInv'
<1> DEFINE r == [by |-> u, net |-> n, user |-> target, role |-> role, inv |-> None]
<1>1. r \in Request /\ Begin(h, "role", r)
  BY DEF ChangeNetworkMemberRole, Request, Roles, IInv, TypeOK, Invitation
<1>2. TypeOK' /\ pc'[h] = "role" /\ req'[h] = r
      /\ \A g \in Handlers \ {h} : pc'[g] = pc[g] /\ req'[g] = req[g]
  BY <1>1, BeginType DEF IInv
<1>3. UNCHANGED tables  BY <1>1 DEF Begin
<1>4. \A g \in Handlers \ {h} : Pending(g)'  BY <1>2, <1>3, PendingKept DEF IInv, tables
<1>5. Pending(h)'
  BY <1>2, <1>3 DEF ChangeNetworkMemberRole, Pending, tables
<1>6. QED  BY <1>2, <1>3, <1>4, <1>5, ReadKeeps

(* A removal writes no role.                                               *)
LEMMA DeleteNetworkUserIInv == ASSUME IInv, NEW h \in Handlers, NEW u \in Users, NEW n \in Networks, NEW target \in Users, DeleteNetworkUser(h, u, n, target)
  PROVE IInv'
<1> DEFINE r == [by |-> u, net |-> n, user |-> target, role |-> None, inv |-> None]
<1>1. r \in Request /\ Begin(h, "remove", r)
  BY DEF DeleteNetworkUser, Request, Roles, IInv, TypeOK, Invitation
<1>2. TypeOK' /\ pc'[h] = "remove" /\ req'[h] = r
      /\ \A g \in Handlers \ {h} : pc'[g] = pc[g] /\ req'[g] = req[g]
  BY <1>1, BeginType DEF IInv
<1>3. UNCHANGED tables  BY <1>1 DEF Begin
<1>4. \A g \in Handlers \ {h} : Pending(g)'  BY <1>2, <1>3, PendingKept DEF IInv, tables
<1>5. Pending(h)'
  BY <1>2, <1>3 DEF DeleteNetworkUser, Pending, tables
<1>6. QED  BY <1>2, <1>3, <1>4, <1>5, ReadKeeps

(* Who invites an admin has read an owner's row, which is the creator's.   *)
LEMMA InviteMemberIInv == ASSUME IInv, NEW h \in Handlers, NEW u \in Users, NEW n \in Networks, NEW target \in Users, NEW role \in Roles, InviteMember(h, u, n, target, role)
  PROVE IInv'
<1> DEFINE r == [by |-> u, net |-> n, user |-> target,
              role |-> IF role = "admin" THEN role ELSE "member", inv |-> None]
<1>1. r \in Request /\ Begin(h, "invite", r)
  BY DEF InviteMember, Request, Roles, IInv, TypeOK, Invitation
<1>2. TypeOK' /\ pc'[h] = "invite" /\ req'[h] = r
      /\ \A g \in Handlers \ {h} : pc'[g] = pc[g] /\ req'[g] = req[g]
  BY <1>1, BeginType DEF IInv
<1>3. UNCHANGED tables  BY <1>1 DEF Begin
<1>4. \A g \in Handlers \ {h} : Pending(g)'  BY <1>2, <1>3, PendingKept DEF IInv, tables
<1>a. role = "admin" => creator[n] = u
  <2>1. members[n][u] \in Seq(Roles)  BY DEF IInv, TypeOK
  <2>2. IsMember(n, u) => Len(members[n][u]) > 0 /\ Head(members[n][u]) = members[n][u][1]
    BY <2>1 DEF IsMember
  <2>3. QED  BY <2>1, <2>2 DEF InviteMember, Role, IInv, Owners
<1>5. Pending(h)'
  BY <1>2, <1>3, <1>a DEF Pending, tables
<1>6. QED  BY <1>2, <1>3, <1>4, <1>5, ReadKeeps

(* The role in an invitation is not that of an owner.                      *)
LEMMA HandleInvitationIInv == ASSUME IInv, NEW h \in Handlers, NEW u \in Users, NEW i \in Invitations, NEW action \in {"join", "decline"}, HandleInvitation(h, u, i, action)
  PROVE IInv'
<1> DEFINE r == [by |-> u, net |-> invitations[i].net, user |-> u,
              role |-> invitations[i].role, inv |-> i]
<1>1. r \in Request /\ Begin(h, action, r)
  BY DEF HandleInvitation, Request, Roles, IInv, TypeOK, Invitation
<1>2. TypeOK' /\ pc'[h] = action /\ req'[h] = r
      /\ \A g \in Handlers \ {h} : pc'[g] = pc[g] /\ req'[g] = req[g]
  BY <1>1, BeginType DEF IInv
<1>3. UNCHANGED tables  BY <1>1 DEF Begin
<1>4. \A g \in Handlers \ {h} : Pending(g)'  BY <1>2, <1>3, PendingKept DEF IInv, tables
<1>5. Pending(h)'
  BY <1>2, <1>3 DEF HandleInvitation, IInv, TypeOK, Invitation, Pending, tables
<1>6. QED  BY <1>2, <1>3, <1>4, <1>5, ReadKeeps

-----------------------------------------------------------------------------
(* The steps that write.                                                   *)

(* A row that is inserted belongs to a network that exists, and an owner's *)
(* row to its creator.                                                     *)
LEMMA InsertKeeps ==
  ASSUME TypeOK, Owners, MembersBacked, NEW n \in Networks, NEW u \in Users, NEW role \in Roles,
         role = "owner" => creator[n] \in {u, Gone},
         Insert(n, u, role), UNCHANGED creator
  PROVE members' \in [Networks -> [Users -> Seq(Roles)]] /\ Owners' /\ MembersBacked'
<1>1. CASE UNCHANGED members  BY <1>1 DEF TypeOK, Owners, MembersBacked
<1>2. CASE Exists(n) /\ members' = [members EXCEPT ![n][u] = Append(@, role)]
  <2>1. members[n][u] \in Seq(Roles)  BY DEF TypeOK
  <2> DEFINE s == Append(members[n][u], role)
  <2>2. /\ s \in Seq(Roles) /\ s # <<>> /\ Len(s) = Len(members[n][u]) + 1
        /\ \A k \in 1 .. Len(members[n][u]) : s[k] = members[n][u][k]
        /\ s[Len(members[n][u]) + 1] = role
    BY <2>1, AppendRole
  <2>3. members'[n][u] = s  BY <1>2 DEF TypeOK
  <2>4. \A m \in Networks, v \in Users : <<m, v>> # <<n, u>> => members'[m][v] = members[m][v]
    BY <1>2 DEF TypeOK
  <2>5. creator[n] \in Users /\ creator[n] # Gone
    BY <1>2, MembershipAssumption DEF Exists
  <2> HIDE DEF s
  <2>6. members' \in [Networks -> [Users -> Seq(Roles)]]
    BY <1>2, <2>2 DEF TypeOK, s
  <2>7. Owners'
    <3>1. SUFFICES ASSUME NEW m \in Networks, NEW v \in Users,
                          NEW k \in 1 .. Len(members'[m][v]), members'[m][v][k] = "owner"
                   PROVE creator'[m] = v
      BY DEF Owners
    <3>2. CASE <<m, v>> # <<n, u>>  BY <3>1, <3>2, <2>4 DEF Owners
    <3>3. CASE m = n /\ v = u
      <4>1. Len(members[n][u]) \in Nat  BY <2>1
      <4>2. k \in 1 .. Len(members[n][u]) \/ k = Len(members[n][u]) + 1
        BY <3>1, <3>3, <2>2, <2>3, <4>1
      <4>3. QED  BY <4>2, <3>1, <3>3, <2>2, <2>3, <2>5 DEF Owners
    <3>4. QED  BY <3>2, <3>3
  <2>8. MembersBacked'  BY <2>3, <2>4, <2>5 DEF MembersBacked
  <2>9. QED  BY <2>6, <2>7, <2>8
<1>3. QED  BY <1>1, <1>2 DEF Insert

(* A network's creator is set once, before anything refers to it.          *)
LEMMA CreateNetworkIInv == ASSUME IInv, NEW h \in Handlers, NEW u \in Users, CreateNetwork(h, u)
  PROVE IInv'
<1>1. PICK n \in Networks \cup {None} :
        /\ req' = [req EXCEPT ![h] = [by |-> u, net |-> n, user |-> u, role |-> "owner", inv |-> None]]
        /\ IF n = None THEN UNCHANGED creator
           ELSE creator[n] = None /\ creator' = [creator EXCEPT ![n] = u]
  BY Zenon DEF CreateNetwork
<1> DEFINE r == [by |-> u, net |-> n, user |-> u, role |-> "owner", inv |-> None]
<1>2. r \in Request /\ r # None  BY MembershipAssumption DEF Request, Roles
<1>3. pc' = [pc EXCEPT ![h] = "addOwner"] /\ UNCHANGED <<members, invitations>>
  BY DEF CreateNetwork
<1>4. \A m \in Networks : creator[m] # None => creator'[m] = creator[m]
  BY <1>1 DEF IInv, TypeOK
<1>5. TypeOK'  BY Zenon, <1>1, <1>2, <1>3 DEF IInv, TypeOK
<1>6. \A g \in Handlers : Pending(g)'
  <2>1. Pending(h)'  BY <1>1, <1>2, <1>3 DEF IInv, TypeOK, Pending
  <2>2. ASSUME NEW g \in Handlers \ {h}  PROVE Pending(g)'
    <3>1. pc'[g] = pc[g] /\ req'[g] = req[g]  BY <1>1, <1>3 DEF IInv, TypeOK
    <3>2. pc[g] # "idle" => req[g] \in Request  BY HasRequest DEF IInv
    <3>3. pc[g] # "idle" => req[g].by \in Users /\ req[g].net \in Networks \cup {None}
      BY <3>2 DEF Request
    <3>4. QED  BY <3>1, <3>3, <1>4, MembershipAssumption DEF IInv, Pending
  <2>3. QED  BY <2>1, <2>2
<1>7. Owners'  BY <1>3, <1>4, MembershipAssumption DEF IInv, Owners
<1>8. MembersBacked'  BY <1>3, <1>4, MembershipAssumption DEF IInv, MembersBacked
<1>9. InvitationsBacked'
  <2>1. \A i \in Invitations : invitations[i] # None => invitations[i].net \in Networks
    BY DEF IInv, TypeOK, Invitation
  <2>2. QED  BY <2>1, <1>3, <1>4, MembershipAssumption DEF IInv, InvitationsBacked
<1>10. QED  BY <1>5, <1>6, <1>7, <1>8, <1>9 DEF IInv

(* The owner's row is that of the creator.                                 *)
LEMMA CreateNetworkOwnerIInv == ASSUME IInv, NEW h \in Handlers, CreateNetworkOwner(h)
  PROVE IInv'
<1>1. req[h] \in Request  BY HasRequest DEF IInv, CreateNetworkOwner
<1>2. req[h].user \in Users /\ req[h].role = "owner"
      /\ (req[h].net # None => creator[req[h].net] \in {req[h].user, Gone})
  BY <1>1 DEF Request, IInv, Pending, CreateNetworkOwner
<1>3. members' \in [Networks -> [Users -> Seq(Roles)]] /\ Owners' /\ MembersBacked'
  <2>1. CASE req[h].net = None
    BY <2>1 DEF CreateNetworkOwner, IInv, TypeOK, Owners, MembersBacked
  <2>2. CASE req[h].net # None
    <3>1. req[h].net \in Networks  BY <1>1, <2>2 DEF Request
    <3>2. QED  BY <3>1, <1>2, <2>2, InsertKeeps DEF CreateNetworkOwner, IInv, Roles
  <2>3. QED  BY <2>1, <2>2
<1>4. End(h) /\ UNCHANGED <<creator, invitations>>  BY DEF CreateNetworkOwner
<1>5. TypeOK' /\ \A g \in Handlers : Pending(g)'
  BY <1>3, <1>4, EndKeeps DEF IInv, TypeOK
<1>6. InvitationsBacked'  BY <1>4 DEF IInv, InvitationsBacked
<1>7. QED  BY <1>3, <1>5, <1>6 DEF IInv

(* Members and invitations of the network go before the network does.      *)
LEMMA DeleteNetworkCommitIInv == ASSUME IInv, NEW h \in Handlers, DeleteNetworkCommit(h)
  PROVE IInv'
<1> DEFINE n == req[h].net
<1>1. n \in Networks  BY DEF DeleteNetworkCommit, IInv, Pending
<1>2. /\ members' = [members EXCEPT ![n] = [u \in Users |-> <<>>]]
      /\ invitations' = [i \in Invitations |->
             IF invitations[i] # None /\ invitations[i].net = n THEN None ELSE invitations[i]]
      /\ creator' = [creator EXCEPT ![n] = Gone]
      /\ pc' = [pc EXCEPT ![h] = "idle"] /\ req' = [req EXCEPT ![h] = None]
  BY DEF DeleteNetworkCommit, End
<1> HIDE DEF n
<1>3. \A m \in Networks : creator'[m] = IF m = n THEN Gone ELSE creator[m]
  BY <1>1, <1>2 DEF IInv, TypeOK
<1>4. TypeOK'
  <2>1. members' \in [Networks -> [Users -> Seq(Roles)]]  BY <1>1, <1>2 DEF IInv, TypeOK
  <2>2. invitations' \in [Invitations -> Invitation \cup {None}]  BY <1>2 DEF IInv, TypeOK
  <2>3. QED  BY <2>1, <2>2, <1>1, <1>2 DEF IInv, TypeOK
<1>5. \A g \in Handlers : Pending(g)'
  <2>1. Pending(h)'  BY <1>2 DEF IInv, TypeOK, Pending
  <2>2. ASSUME NEW g \in Handlers \ {h}  PROVE Pending(g)'
    <3>1. pc'[g] = pc[g] /\ req'[g] = req[g]  BY <1>2 DEF IInv, TypeOK
    <3>2. pc[g] # "idle" => req[g].net \in Networks \cup {None}
      BY HasRequest DEF IInv, Request
    <3>3. QED  BY <3>1, <3>2, <1>3 DEF IInv, Pending
  <2>3. QED  BY <2>1, <2>2
<1>6. \A m \in Networks, u \in Users : members'[m][u] = IF m = n THEN <<>> ELSE members[m][u]
  BY <1>1, <1>2 DEF IInv, TypeOK
<1>7. Owners'
  <2>1. \A m \in Networks, u \in Users : \A k \in 1 .. Len(members'[m][u]) : m # n
    BY <1>6
  <2>2. QED  BY <2>1, <1>3, <1>6 DEF IInv, Owners
<1>8. MembersBacked'  BY <1>3, <1>6 DEF IInv, MembersBacked
<1>9. InvitationsBacked'
  <2>1. \A i \in Invitations : invitations'[i] # None =>
          invitations'[i] = invitations[i] /\ invitations[i].net # n
    BY <1>2
  <2>2. \A i \in Invitations : invitations[i] # None => invitations[i].net \in Networks
    BY DEF IInv, TypeOK, Invitation
  <2>3. QED  BY <2>1, <2>2, <1>3 DEF IInv, InvitationsBacked
<1>10. QED  BY <1>4, <1>5, <1>7, <1>8, <1>9 DEF IInv

(* A changed role is not that of an owner, and no row appears.             *)
LEMMA ChangeNetworkMemberRoleCommitIInv ==
  ASSUME IInv, NEW h \in Handlers, ChangeNetworkMemberRoleCommit(h)
  PROVE IInv'
<1> DEFINE n == req[h].net  u == req[h].user  role == req[h].role
<1>1. n \in Networks /\ u \in Users /\ role \in {"admin", "member"}
  BY DEF ChangeNetworkMemberRoleCommit, IInv, Pending
<1>2. members' = [members EXCEPT ![n][u] = [k \in DOMAIN @ |-> role]]
      /\ End(h) /\ UNCHANGED <<creator, invitations>>
  BY DEF ChangeNetworkMemberRoleCommit
<1> HIDE DEF n, u, role
<1>3. members[n][u] \in Seq(Roles)  BY <1>1 DEF IInv, TypeOK
<1> DEFINE s == [k \in DOMAIN members[n][u] |-> role]
<1>4. s \in Seq(Roles) /\ Len(s) = Len(members[n][u]) /\ (s # <<>> => members[n][u] # <<>>)
      /\ \A k \in 1 .. Len(s) : s[k] = role
  <2>1. PICK l \in Nat : members[n][u] \in [1 .. l -> Roles]  BY <1>3
  <2>2. DOMAIN members[n][u] = 1 .. l /\ Len(members[n][u]) = l  BY <2>1
  <2>3. s = [k \in 1 .. l |-> role]  BY <2>2
  <2>4. s \in [1 .. l -> Roles]  BY <2>3, <1>1 DEF Roles
  <2>5. s \in Seq(Roles) /\ Len(s) = l  BY <2>3, <2>4
  <2>6. s # <<>> => members[n][u] # <<>>  BY <2>2, <2>5
  <2>7. QED  BY <2>2, <2>3, <2>5, <2>6
<1>5. members'[n][u] = s  BY <1>1, <1>2 DEF IInv, TypeOK
<1> HIDE DEF s
<1>6. \A m \in Networks, v \in Users : <<m, v>> # <<n, u>> => members'[m][v] = members[m][v]
  BY <1>1, <1>2 DEF IInv, TypeOK
<1>7. members' \in [Networks -> [Users -> Seq(Roles)]]
  BY <1>1, <1>2, <1>4 DEF IInv, TypeOK, s
<1>8. TypeOK' /\ \A g \in Handlers : Pending(g)'
  BY <1>2, <1>7, EndKeeps DEF IInv, TypeOK
<1>9. Owners'
  BY <1>1, <1>2, <1>4, <1>5, <1>6 DEF IInv, Owners
<1>10. MembersBacked'
  BY <1>2, <1>4, <1>5, <1>6 DEF IInv, MembersBacked
<1>11. InvitationsBacked'  BY <1>2 DEF IInv, InvitationsBacked
<1>12. QED  BY <1>8, <1>9, <1>10, <1>11 DEF IInv

(* A removal takes rows away.                                              *)
LEMMA DeleteNetworkUserCommitIInv == ASSUME IInv, NEW h \in Handlers, DeleteNetworkUserCommit(h)
  PROVE IInv'
<1> DEFINE n == req[h].net  u == req[h].user
<1>1. n \in Networks /\ u \in Users  BY DEF DeleteNetworkUserCommit, IInv, Pending
<1>2. members' = [members EXCEPT ![n][u] = <<>>] /\ End(h) /\ UNCHANGED <<creator, invitations>>
  BY DEF DeleteNetworkUserCommit
<1> HIDE DEF n, u
<1>3. \A m \in Networks, v \in Users :
        members'[m][v] = IF m = n /\ v = u THEN <<>> ELSE members[m][v]
  BY <1>1, <1>2 DEF IInv, TypeOK
<1>4. members' \in [Networks -> [Users -> Seq(Roles)]]  BY <1>1, <1>2 DEF IInv, TypeOK
<1>5. TypeOK' /\ \A g \in Handlers : Pending(g)'
  BY <1>2, <1>4, EndKeeps DEF IInv, TypeOK
<1>6. Owners'  BY <1>2, <1>3 DEF IInv, Owners
<1>7. MembersBacked'  BY <1>2, <1>3 DEF IInv, MembersBacked
<1>8. InvitationsBacked'  BY <1>2 DEF IInv, InvitationsBacked
<1>9. QED  BY <1>5, <1>6, <1>7, <1>8 DEF IInv

(* A new invitation is for a network that exists, and that of an admin     *)
(* comes from its creator.                                                 *)
LEMMA InviteMemberCommitIInv == ASSUME IInv, NEW h \in Handlers, InviteMemberCommit(h)
  PROVE IInv'
<1> DEFINE r == req[h]
           row == [net |-> r.net, by |-> r.by, user |-> r.user, role |-> r.role]
<1>1. r \in Request  BY HasRequest DEF IInv, InviteMemberCommit
<1>2. /\ r.net \in Networks /\ r.by \in Users /\ r.user \in Users /\ r.role \in {"admin", "member"}
      /\ r.role = "admin" => creator[r.net] \in {r.by, Gone}
  BY <1>1 DEF InviteMemberCommit, IInv, Pending, Request
<1>3. row \in Invitation  BY <1>2 DEF Invitation
<1>4. End(h) /\ UNCHANGED <<creator, members>>  BY DEF InviteMemberCommit
<1>5. invitations' \in [Invitations -> Invitation \cup {None}] /\ InvitationsBacked'
  <2>1. CASE UNCHANGED invitations
    BY <2>1, <1>4 DEF IInv, TypeOK, InvitationsBacked
  <2>2. CASE \E i \in Invitations : Exists(r.net) /\ invitations' = [invitations EXCEPT ![i] = row]
    <3>1. PICK i \in Invitations : Exists(r.net) /\ invitations' = [invitations EXCEPT ![i] = row]
      BY Zenon, <2>2
    <3>2. creator[r.net] \in Users /\ creator[r.net] # Gone
      BY <3>1, MembershipAssumption DEF Exists
    <3>3. \A j \in Invitations : invitations'[j] = IF j = i THEN row ELSE invitations[j]
      BY <3>1 DEF IInv, TypeOK
    <3>4. row.net = r.net /\ row.by = r.by /\ row.role = r.role  OBVIOUS
    <3>5. invitations' \in [Invitations -> Invitation \cup {None}]
      BY <3>1, <1>3 DEF IInv, TypeOK
    <3> HIDE DEF row
    <3>6. InvitationsBacked'
      BY <3>2, <3>3, <3>4, <1>2, <1>4 DEF IInv, InvitationsBacked
    <3>7. QED  BY <3>5, <3>6
  <2>3. QED  BY <2>1, <2>2 DEF InviteMemberCommit
<1>6. TypeOK' /\ \A g \in Handlers : Pending(g)'
  BY <1>4, <1>5, EndKeeps DEF IInv, TypeOK
<1>7. Owners' /\ MembersBacked'  BY <1>4 DEF IInv, Owners, MembersBacked
<1>8. QED  BY <1>5, <1>6, <1>7 DEF IInv

(* Who joins gets the role of the invitation, never that of an owner.      *)
LEMMA HandleInvitationCommitIInv == ASSUME IInv, NEW h \in Handlers, HandleInvitationCommit(h)
  PROVE IInv'
<1>1. End(h) /\ UNCHANGED creator /\ req[h].inv \in Invitations
      /\ invitations' = [invitations EXCEPT ![req[h].inv] = None]
  BY DEF HandleInvitationCommit, IInv, Pending
<1>2. members' \in [Networks -> [Users -> Seq(Roles)]] /\ Owners' /\ MembersBacked'
  <2>1. CASE UNCHANGED members  BY <2>1, <1>1 DEF IInv, TypeOK, Owners, MembersBacked
  <2>2. CASE pc[h] = "join" /\ Insert(req[h].net, req[h].user, req[h].role)
    <3>1. req[h].net \in Networks /\ req[h].user \in Users /\ req[h].role \in {"admin", "member"}
      BY <2>2 DEF IInv, Pending
    <3>2. req[h].role \in Roles /\ req[h].role # "owner"  BY <3>1 DEF Roles
    <3>3. QED  BY <3>1, <3>2, <2>2, <1>1, InsertKeeps DEF IInv
  <2>3. QED  BY <2>1, <2>2 DEF HandleInvitationCommit
<1>3. invitations' \in [Invitations -> Invitation \cup {None}]  BY <1>1 DEF IInv, TypeOK
<1>4. InvitationsBacked'  BY <1>1 DEF IInv, TypeOK, InvitationsBacked
<1>5. TypeOK' /\ \A g \in Handlers : Pending(g)'
  BY <1>1, <1>2, <1>3, EndKeeps DEF IInv, TypeOK
<1>6. QED  BY <1>2, <1>4, <1>5 DEF IInv

(* A transaction that fails, and a portal that stops, leave the tables.    *)
LEMMA AbortIInv == ASSUME IInv, NEW h \in Handlers, Abort(h)
  PROVE IInv'
<1>1. End(h) /\ UNCHANGED tables  BY DEF Abort
<1>2. TypeOK' /\ \A g \in Handlers : Pending(g)'
  BY <1>1, EndKeeps DEF IInv, TypeOK, tables
<1>3. QED  BY <1>1, <1>2, ReadKeeps

\* The end of the portal process loses the requests under way and no row.
LEMMA CrashIInv == ASSUME IInv, Crash
  PROVE IInv'
<1>1. TypeOK' /\ UNCHANGED tables  BY DEF Crash, IInv, TypeOK, tables
<1>2. \A g \in Handlers : Pending(g)'  BY DEF Crash, Pending
<1>3. QED  BY <1>1, <1>2, ReadKeeps

-----------------------------------------------------------------------------
(* Every step keeps the invariant.                                         *)
LEMMA NextIInv == IInv /\ [Next]_vars => IInv'
<1> SUFFICES ASSUME IInv, [Next]_vars PROVE IInv'  OBVIOUS
<1>1. CASE UNCHANGED vars
  BY <1>1 DEF vars, IInv, TypeOK, Pending, Owners, MembersBacked, InvitationsBacked
<1>2. CASE Crash  BY <1>2, CrashIInv
<1>3. ASSUME NEW h \in Handlers, Handle(h)  PROVE IInv'
  BY <1>3, CreateNetworkIInv, DeleteNetworkIInv, DeleteNetworkUserIInv,
     ChangeNetworkMemberRoleIInv, InviteMemberIInv, HandleInvitationIInv DEF Handle
<1>4. ASSUME NEW h \in Handlers, Commit(h)  PROVE IInv'
  BY <1>4, CreateNetworkOwnerIInv, DeleteNetworkCommitIInv, DeleteNetworkUserCommitIInv,
     ChangeNetworkMemberRoleCommitIInv, InviteMemberCommitIInv, HandleInvitationCommitIInv,
     AbortIInv DEF Commit
<1>5. QED  BY <1>1, <1>2, <1>3, <1>4 DEF Next

(* The invariant says what was to be shown.                                *)
LEMMA IInvImplies == IInv => OwnerIsCreator /\ AdminInvitedByCreator /\ GoneLeavesNothing
<1> SUFFICES ASSUME IInv PROVE OwnerIsCreator /\ AdminInvitedByCreator /\ GoneLeavesNothing
  OBVIOUS
<1>1. OwnerIsCreator
  <2>1. \A n \in Networks, u \in Users : members[n][u] \in Seq(Roles)  BY DEF IInv, TypeOK
  <2>2. \A n \in Networks, u \in Users : DOMAIN members[n][u] = 1 .. Len(members[n][u])  BY <2>1
  <2>3. QED  BY <2>2 DEF IInv, Owners, OwnerIsCreator, Range
<1>2. AdminInvitedByCreator  BY DEF IInv, InvitationsBacked, AdminInvitedByCreator
<1>3. GoneLeavesNothing
  BY MembershipAssumption DEF IInv, MembersBacked, InvitationsBacked, GoneLeavesNothing, IsMember
<1>4. QED  BY <1>1, <1>2, <1>3

(* The inductive invariant holds in every reachable state.                 *)
THEOREM Invariance == Spec => []IInv
<1>1. QED  BY InitIInv, NextIInv, PTL DEF Spec

(* The tables and the locals of the handlers keep their types.             *)
THEOREM TypeCorrect == Spec => []TypeOK
<1>1. IInv => TypeOK  BY DEF IInv
<1>2. QED  BY <1>1, Invariance, PTL

(* No network has an owner but its creator, whatever requests of           *)
(* portal/api/api_network.go and api_invitation.go overlap, fail or are    *)
(* cut off.                                                                *)
THEOREM OwnerSafe == Spec => []OwnerIsCreator
<1>1. QED  BY Invariance, IInvImplies, PTL

(* Only the creator of a network has invited admins to it: the role that   *)
(* InviteMember checked is still right when the invitation is stored.      *)
THEOREM AdminsSafe == Spec => []AdminInvitedByCreator
<1>1. QED  BY Invariance, IInvImplies, PTL

(* A deleted network leaves no member and no invitation, and no request    *)
(* that was under way brings one back.                                     *)
THEOREM GoneSafe == Spec => []GoneLeavesNothing
<1>1. QED  BY Invariance, IInvImplies, PTL

-----------------------------------------------------------------------------
(* The query sets.                                                         *)

\* A statement that can still run has a condition for every filter that was called for it.
Collected ==
  qs # NULL => /\ qs = [conds |-> qs.conds, err |-> qs.err]
               /\ qs.err \in BOOLEAN
               /\ ~qs.err => calls \subseteq qs.conds

\* A filter adds its condition or fails the statement.
LEMMA FilterCollects ==
  ASSUME NEW q, q = [conds |-> q.conds, err |-> q.err], q.err \in BOOLEAN,
         NEW col, NEW op, NEW arg, NEW f, f = Filter(q, col, op, arg)
  PROVE  /\ f = [conds |-> f.conds, err |-> f.err] /\ f.err \in BOOLEAN
         /\ q.err => f.err
         /\ ~f.err => f.conds = q.conds \cup {[column |-> col, op |-> op, arg |-> arg]}
<1> DEFINE c == [column |-> col, op |-> op, arg |-> arg]
<1>1. ASSUME NEW X, NEW g, g = [q EXCEPT !.conds = X]
      PROVE  g = [conds |-> g.conds, err |-> g.err] /\ g.err = q.err /\ g.conds = X
  BY <1>1
<1>2. ASSUME NEW g, g = [q EXCEPT !.err = TRUE]
      PROVE  g = [conds |-> g.conds, err |-> g.err] /\ g.err = TRUE
  BY Zenon, <1>2
<1>3. \/ f = [q EXCEPT !.conds = q.conds \cup {c}]
      \/ f = [q EXCEPT !.err = TRUE]
  BY DEF Filter, InFilter, Where
<1> HIDE DEF c
<1>4. CASE f = [q EXCEPT !.conds = q.conds \cup {c}]
  BY <1>1, <1>4 DEF c
<1>5. CASE f = [q EXCEPT !.err = TRUE]
  BY Zenon, <1>2, <1>5
<1> QED  BY <1>3, <1>4, <1>5

\* Every step of a handler that builds and ends a chain keeps it.
LEMMA NextCollected == Collected /\ [QueryNext]_queryVars => Collected'
<1> SUFFICES ASSUME Collected, [QueryNext]_queryVars PROVE Collected'
  OBVIOUS
<1>1. CASE CallFilter
  <2>1. PICK m \in Methods[table] : \E arg \in Arguments(m[2]) :
          /\ qs' = Filter(qs, m[1], m[2], arg)
          /\ calls' = calls \cup {[column |-> m[1], op |-> m[2], arg |-> arg]}
    BY <1>1 DEF CallFilter
  <2>2. PICK arg \in Arguments(m[2]) :
          /\ qs' = Filter(qs, m[1], m[2], arg)
          /\ calls' = calls \cup {[column |-> m[1], op |-> m[2], arg |-> arg]}
    BY <2>1
  <2>3. qs # NULL
    BY <1>1 DEF CallFilter
  <2>4. /\ qs' = [conds |-> qs'.conds, err |-> qs'.err] /\ qs'.err \in BOOLEAN
        /\ qs.err => qs'.err
        /\ ~qs'.err => qs'.conds = qs.conds \cup {[column |-> m[1], op |-> m[2], arg |-> arg]}
    BY <2>2, <2>3, FilterCollects DEF Collected
  <2> QED  BY <2>2, <2>3, <2>4 DEF Collected
<1>2. CASE CallDelete \/ CallUpdate
  BY <1>2 DEF CallDelete, CallUpdate, Collected
<1>3. CASE UNCHANGED queryVars
  BY <1>3 DEF queryVars, Collected
<1> QED  BY <1>1, <1>2, <1>3 DEF QueryNext

\* For a chain of any length, a filter with no values or with a condition that the server
\* rejects stops the statement: Delete and Update touch no row that a filter excludes.
THEOREM FiltersNarrow == QuerySpec => FiltersOnlyNarrow
<1>1. QueryInit => Collected
  BY DEF QueryInit, Collected, NewQuerySet
<1>2. ASSUME Collected, [QueryNext]_queryVars
      PROVE  \A r \in rows \ rows' : \A c \in calls : Holds(r, c)
  <2>1. ASSUME qs # NULL, NEW r \in All(Columns(table), rows, qs), NEW c \in calls PROVE Holds(r, c)
    BY <1>2, <2>1 DEF Collected, All, Runs, Matching
  <2>2. CASE CallDelete
    <3>1. qs # NULL /\ rows' = Delete(Columns(table), rows, qs)
      BY <2>2 DEF CallDelete
    <3>2. rows \ rows' \subseteq All(Columns(table), rows, qs)
      BY <3>1 DEF Delete
    <3> QED  BY <2>1, <3>1, <3>2
  <2>3. CASE CallUpdate
    <3>1. qs # NULL
      BY <2>3 DEF CallUpdate
    <3>2. PICK v \in Values : rows' = Update(Columns(table), rows, qs, [x \in {column} |-> v])
      BY Zenon, <2>3 DEF CallUpdate
    <3>3. rows \ rows' \subseteq All(Columns(table), rows, qs)
      BY <3>2 DEF Update
    <3> QED  BY <2>1, <3>1, <3>3
  <2>4. CASE CallFilter \/ UNCHANGED queryVars
    BY <2>4 DEF CallFilter, queryVars
  <2> QED  BY <1>2, <2>2, <2>3, <2>4 DEF QueryNext
<1>3. QuerySpec => []Collected
  BY <1>1, NextCollected, PTL DEF QuerySpec
<1>4. Collected /\ [QueryNext]_queryVars => [\A r \in rows \ rows' : \A c \in calls : Holds(r, c)]_queryVars
  BY <1>2
<1> QED  BY <1>3, <1>4, PTL DEF QuerySpec, FiltersOnlyNarrow

-----------------------------------------------------------------------------
(* The checked-in queries against their generator.                           *)

\* The methods that the generator writes for a field of this kind.
FieldMethods(kind) == getQuerySetMethodsForField(kind) \cup buildUpdaterFieldMethods(kind)

\* The columns of a struct.
FieldNames(S) == {f[1] : f \in S}

(* What getQuerySetMethodsForField and buildUpdaterFieldMethods list for    *)
(* each kind of field that the structs of models.go have.                   *)
LEMMA KindMethods ==
  /\ FieldMethods("number") = NumberOps \cup {"OrderAscBy", "OrderDescBy", "Set"}
  /\ FieldMethods("string") = TextOps \cup {"OrderAscBy", "OrderDescBy", "Set"}
  /\ FieldMethods("bool") = BoolOps \cup {"OrderAscBy", "OrderDescBy", "Set"}
  /\ FieldMethods("time") = TimeOps \cup {"OrderAscBy", "OrderDescBy", "Set"}
  /\ FieldMethods("*time") = TimeOps \cup NullOps \cup {"OrderAscBy", "OrderDescBy", "Set"}
  /\ FieldMethods("*struct") = NullOps \cup {"Preload"}
<1> USE DEF FieldMethods, getQuerySetMethodsForField, buildUpdaterFieldMethods, GenFieldInfo,
            PlainMethods, Pointed
<1>1. FieldMethods("number") = NumberOps \cup {"OrderAscBy", "OrderDescBy", "Set"}
  BY Zenon DEF NumberOps
<1>2. FieldMethods("string") = TextOps \cup {"OrderAscBy", "OrderDescBy", "Set"}
  BY Zenon DEF NumberOps, TextOps
<1>3. FieldMethods("bool") = BoolOps \cup {"OrderAscBy", "OrderDescBy", "Set"}
  BY Zenon DEF BoolOps
<1>4. FieldMethods("time") = TimeOps \cup {"OrderAscBy", "OrderDescBy", "Set"}
  BY Zenon DEF NumberOps, TimeOps
<1>5. FieldMethods("*time") = TimeOps \cup NullOps \cup {"OrderAscBy", "OrderDescBy", "Set"}
  BY Zenon DEF NumberOps, TimeOps, NullOps
<1>6. FieldMethods("*struct") = NullOps \cup {"Preload"}
  BY Zenon DEF NullOps
<1>7. QED
  BY ONLY Zenon, <1>1, <1>2, <1>3, <1>4, <1>5, <1>6

(* Build lists the methods of a struct field by field.                      *)
LEMMA BuildMember ==
  ASSUME NEW S, NEW x
  PROVE  x \in Build(S) <=> \E f \in S : x \in {f[1]} \X FieldMethods(f[2])
BY DEF Build, FieldMethods

(* The methods of a group of fields of one kind.                            *)
LEMMA BuildFields ==
  ASSUME NEW C, NEW kind
  PROVE  Build(Fields(C, kind)) = C \X FieldMethods(kind)
<1>1. ASSUME NEW x \in Build(Fields(C, kind)) PROVE x \in C \X FieldMethods(kind)
  <2>1. PICK f \in Fields(C, kind) : x \in {f[1]} \X FieldMethods(f[2])
    BY BuildMember
  <2>2. f[1] \in C /\ f[2] = kind
    BY DEF Fields
  <2>3. QED
    BY <2>1, <2>2
<1>2. ASSUME NEW x \in C \X FieldMethods(kind) PROVE x \in Build(Fields(C, kind))
  <2>1. x[1] \in C /\ x = <<x[1], x[2]>> /\ x[2] \in FieldMethods(kind)
    OBVIOUS
  <2>2. <<x[1], kind>> \in Fields(C, kind)
    BY <2>1 DEF Fields
  <2>3. x \in {<<x[1], kind>>[1]} \X FieldMethods(<<x[1], kind>>[2])
    BY <2>1
  <2>4. QED
    BY Zenon, <2>2, <2>3, BuildMember
<1>3. QED
  BY Zenon, <1>1, <1>2

(* Such a group adds its methods and its columns to those of a struct.      *)
LEMMA BuildGroup ==
  ASSUME NEW S, NEW C, NEW kind
  PROVE  /\ Build(S \cup Fields(C, kind)) = Build(S) \cup (C \X FieldMethods(kind))
         /\ FieldNames(S \cup Fields(C, kind)) = FieldNames(S) \cup C
<1>1. Build(S \cup Fields(C, kind)) = Build(S) \cup Build(Fields(C, kind))
  BY DEF Build
<1>2. FieldNames(S \cup Fields(C, kind)) = FieldNames(S) \cup C
  <2>1. FieldNames(Fields(C, kind)) = C
    <3>1. \A f \in Fields(C, kind) : f[1] \in C
      BY DEF Fields
    <3>2. \A x \in C : <<x, kind>> \in Fields(C, kind) /\ <<x, kind>>[1] = x
      BY DEF Fields
    <3>3. QED
      BY Zenon, <3>1, <3>2 DEF FieldNames
  <2>2. QED
    BY <2>1 DEF FieldNames
<1>3. QED
  BY Zenon, <1>1, <1>2, BuildFields

\* The fields that every struct embeds, by their kinds.
Embedded(numbers, times, pointers) ==
  Fields(numbers, "number") \cup Fields(times, "time") \cup Fields(pointers, "*time")

(* What the generator makes of such fields.                                 *)
LEMMA EmbeddedMethods ==
  ASSUME NEW numbers, NEW times, NEW pointers
  PROVE  Build(Embedded(numbers, times, pointers))
           = (numbers \X FieldMethods("number")) \cup (times \X FieldMethods("time"))
               \cup (pointers \X FieldMethods("*time"))
<1> DEFINE A == Fields(numbers, "number")
           B == A \cup Fields(times, "time")
<1>1. Build(A) = numbers \X FieldMethods("number")
  BY Zenon, BuildFields
<1>2. /\ Build(B) = Build(A) \cup (times \X FieldMethods("time"))
      /\ FieldNames(B) = FieldNames(A) \cup times
  BY Zenon, BuildGroup
<1>3. /\ Build(B \cup Fields(pointers, "*time")) = Build(B) \cup (pointers \X FieldMethods("*time"))
      /\ FieldNames(B \cup Fields(pointers, "*time")) = FieldNames(B) \cup pointers
  BY Zenon, BuildGroup
<1>4. Embedded(numbers, times, pointers) = B \cup Fields(pointers, "*time")
  BY Zenon DEF Embedded
<1> HIDE DEF A, B
<1>5. QED
  BY Zenon, <1>1, <1>2, <1>3, <1>4

(* What it makes of the fields of Deletable.                                *)
LEMMA DeletableMethods ==
  /\ Build(Deletable) = ({"id"} \X FieldMethods("number")) \cup ({"created_at"} \X FieldMethods("time"))
                        \cup ({"updated_at", "deleted_at"} \X FieldMethods("*time"))
  /\ FieldNames(Deletable) = {"id", "created_at", "updated_at", "deleted_at"}
<1>1. Deletable = Embedded({"id"}, {"created_at"}, {"updated_at", "deleted_at"})
  BY DEF Deletable, Updatable, Base, Fields, Embedded
<1>2. FieldNames(Deletable) = {"id", "created_at", "updated_at", "deleted_at"}
  BY DEF FieldNames, Deletable, Updatable, Base
<1>3. QED
  BY <1>1, <1>2, EmbeddedMethods

\* A struct of models.go: Deletable and its own fields, by their kinds.
TableStruct(numbers, pointers, strings, times, bools) ==
  Deletable \cup Fields(numbers, "number") \cup Fields(pointers, "*struct")
    \cup Fields(strings, "string") \cup Fields(times, "time") \cup Fields(bools, "bool")

(* What the generator makes of such a struct.                               *)
LEMMA TableMethods ==
  ASSUME NEW numbers, NEW pointers, NEW strings, NEW times, NEW bools
  PROVE  /\ Build(TableStruct(numbers, pointers, strings, times, bools))
              = Build(Deletable) \cup (numbers \X FieldMethods("number"))
                  \cup (pointers \X FieldMethods("*struct")) \cup (strings \X FieldMethods("string"))
                  \cup (times \X FieldMethods("time")) \cup (bools \X FieldMethods("bool"))
         /\ FieldNames(TableStruct(numbers, pointers, strings, times, bools))
              = FieldNames(Deletable) \cup numbers \cup pointers \cup strings \cup times \cup bools
<1> DEFINE A == Deletable \cup Fields(numbers, "number")
<1>1. /\ Build(A) = Build(Deletable) \cup (numbers \X FieldMethods("number"))
      /\ FieldNames(A) = FieldNames(Deletable) \cup numbers
  BY Zenon, BuildGroup
<1> HIDE DEF A
<1> DEFINE B == A \cup Fields(pointers, "*struct")
<1>2. /\ Build(B) = Build(A) \cup (pointers \X FieldMethods("*struct"))
      /\ FieldNames(B) = FieldNames(A) \cup pointers
  BY Zenon, BuildGroup
<1> HIDE DEF B
<1> DEFINE C == B \cup Fields(strings, "string")
<1>3. /\ Build(C) = Build(B) \cup (strings \X FieldMethods("string"))
      /\ FieldNames(C) = FieldNames(B) \cup strings
  BY Zenon, BuildGroup
<1> HIDE DEF C
<1> DEFINE D == C \cup Fields(times, "time")
<1>4. /\ Build(D) = Build(C) \cup (times \X FieldMethods("time"))
      /\ FieldNames(D) = FieldNames(C) \cup times
  BY Zenon, BuildGroup
<1> HIDE DEF D
<1>5. /\ Build(D \cup Fields(bools, "bool")) = Build(D) \cup (bools \X FieldMethods("bool"))
      /\ FieldNames(D \cup Fields(bools, "bool")) = FieldNames(D) \cup bools
  BY Zenon, BuildGroup
<1>6. TableStruct(numbers, pointers, strings, times, bools) = D \cup Fields(bools, "bool")
  BY Zenon DEF TableStruct, A, B, C, D
<1>7. QED
  BY Zenon, <1>1, <1>2, <1>3, <1>4, <1>5, <1>6

\* The checked-in queries on a table are those that the generator would write now.
Current(t) == Methods[t] = Build(Struct[t]) /\ DBSchema[t] = FieldNames(Struct[t])

(* The generated methods and schema of AuthKey.                              *)
LEMMA AuthKeyCurrent == Current("AuthKey")
<1>1. AuthKeyStruct = TableStruct({"user_id"}, {"user"}, {"type", "role", "key", "machine_id"},
          {"expired_at"}, {"enabled"})
  BY DEF AuthKeyStruct, TableStruct, Fields
<1>2. AuthKeyMethods = Build(AuthKeyStruct)
  BY <1>1, TableMethods, DeletableMethods, KindMethods
     DEF AuthKeyCreatedAt, AuthKeyDeletedAt, AuthKeyEnabled, AuthKeyExpiredAt,
         AuthKeyID, AuthKeyKey, AuthKeyMachineID, AuthKeyRole, AuthKeyType,
         AuthKeyUpdatedAt, AuthKeyUserID, AuthKeyUser, AuthKeyOrder,
         AuthKeyPreload, AuthKeySet,
         AuthKeyMethods, Filters, Order, Preload, Set, NumberOps, TextOps, TimeOps, BoolOps, NullOps
<1>3. AuthKeyDBSchema = FieldNames(AuthKeyStruct)
  BY <1>1, TableMethods, DeletableMethods DEF AuthKeyDBSchema
<1>4. /\ Methods["AuthKey"] = AuthKeyMethods /\ DBSchema["AuthKey"] = AuthKeyDBSchema
      /\ Struct["AuthKey"] = AuthKeyStruct
  BY Zenon DEF Methods, DBSchema, Struct
<1>5. QED
  BY Zenon, <1>2, <1>3, <1>4 DEF Current

(* The generated methods and schema of Device.                               *)
LEMMA DeviceCurrent == Current("Device")
<1>1. DeviceStruct = TableStruct({"user_id", "relay_server_id"}, {"user"},
          {"name", "os", "version", "machine_id", "address"}, {"last_seen"}, {})
  BY DEF DeviceStruct, TableStruct, Fields
<1>2. DeviceMethods = Build(DeviceStruct)
  BY <1>1, TableMethods, DeletableMethods, KindMethods
     DEF DeviceAddress, DeviceCreatedAt, DeviceDeletedAt, DeviceID,
         DeviceLastSeen, DeviceMachineID, DeviceName, DeviceOS,
         DeviceRelayServerID, DeviceUpdatedAt, DeviceUserID, DeviceUser,
         DeviceVersion, DeviceOrder, DevicePreload, DeviceSet,
         DeviceMethods, Filters, Order, Preload, Set, NumberOps, TextOps, TimeOps, BoolOps, NullOps
<1>3. DeviceDBSchema = FieldNames(DeviceStruct)
  BY <1>1, TableMethods, DeletableMethods DEF DeviceDBSchema
<1>4. /\ Methods["Device"] = DeviceMethods /\ DBSchema["Device"] = DeviceDBSchema
      /\ Struct["Device"] = DeviceStruct
  BY Zenon DEF Methods, DBSchema, Struct
<1>5. QED
  BY Zenon, <1>2, <1>3, <1>4 DEF Current

(* The generated methods and schema of GithubUser.                           *)
LEMMA GithubUserCurrent == Current("GithubUser")
<1>1. GithubUserStruct = TableStruct({"user_id", "github_id"}, {"user"}, {"login", "avatar_url", "location"},
          {}, {})
  BY DEF GithubUserStruct, TableStruct, Fields
<1>2. GithubUserMethods = Build(GithubUserStruct)
  BY <1>1, TableMethods, DeletableMethods, KindMethods
     DEF GithubUserAvatarURL, GithubUserCreatedAt, GithubUserDeletedAt,
         GithubUserGithubID, GithubUserID, GithubUserLocation, GithubUserLogin,
         GithubUserUpdatedAt, GithubUserUserID, GithubUserUser, GithubUserOrder,
         GithubUserPreload, GithubUserSet,
         GithubUserMethods, Filters, Order, Preload, Set, NumberOps, TextOps, TimeOps, BoolOps, NullOps
<1>3. GithubUserDBSchema = FieldNames(GithubUserStruct)
  BY <1>1, TableMethods, DeletableMethods DEF GithubUserDBSchema
<1>4. /\ Methods["GithubUser"] = GithubUserMethods /\ DBSchema["GithubUser"] = GithubUserDBSchema
      /\ Struct["GithubUser"] = GithubUserStruct
  BY Zenon DEF Methods, DBSchema, Struct
<1>5. QED
  BY Zenon, <1>2, <1>3, <1>4 DEF Current

(* The generated methods and schema of Invitation.                           *)
LEMMA InvitationCurrent == Current("Invitation")
<1>1. InvitationStruct = TableStruct({"network_id", "invited_by_id", "user_id"},
          {"network", "invited_by", "user"}, {"role"}, {}, {})
  BY DEF InvitationStruct, TableStruct, Fields
<1>2. InvitationMethods = Build(InvitationStruct)
  BY <1>1, TableMethods, DeletableMethods, KindMethods
     DEF InvitationCreatedAt, InvitationDeletedAt, InvitationID,
         InvitationInvitedByID, InvitationInvitedBy, InvitationNetworkID,
         InvitationNetwork, InvitationRole, InvitationUpdatedAt, InvitationUserID,
         InvitationUser, InvitationOrder, InvitationPreload, InvitationSet,
         InvitationMethods, Filters, Order, Preload, Set, NumberOps, TextOps, TimeOps, BoolOps, NullOps
<1>3. InvitationDBSchema = FieldNames(InvitationStruct)
  BY <1>1, TableMethods, DeletableMethods DEF InvitationDBSchema
<1>4. /\ Methods["Invitation"] = InvitationMethods /\ DBSchema["Invitation"] = InvitationDBSchema
      /\ Struct["Invitation"] = InvitationStruct
  BY Zenon DEF Methods, DBSchema, Struct
<1>5. QED
  BY Zenon, <1>2, <1>3, <1>4 DEF Current

(* The generated methods and schema of Network.                              *)
LEMMA NetworkCurrent == Current("Network")
<1>1. NetworkStruct = TableStruct({"created_by_id"}, {"created_by"}, {"name", "description"}, {}, {})
  BY DEF NetworkStruct, TableStruct, Fields
<1>2. NetworkMethods = Build(NetworkStruct)
  BY <1>1, TableMethods, DeletableMethods, KindMethods
     DEF NetworkCreatedAt, NetworkCreatedByID, NetworkCreatedBy, NetworkDeletedAt,
         NetworkDescription, NetworkID, NetworkName, NetworkUpdatedAt,
         NetworkOrder, NetworkPreload, NetworkSet,
         NetworkMethods, Filters, Order, Preload, Set, NumberOps, TextOps, TimeOps, BoolOps, NullOps
<1>3. NetworkDBSchema = FieldNames(NetworkStruct)
  BY <1>1, TableMethods, DeletableMethods DEF NetworkDBSchema
<1>4. /\ Methods["Network"] = NetworkMethods /\ DBSchema["Network"] = NetworkDBSchema
      /\ Struct["Network"] = NetworkStruct
  BY Zenon DEF Methods, DBSchema, Struct
<1>5. QED
  BY Zenon, <1>2, <1>3, <1>4 DEF Current

(* The generated methods and schema of NetworkUser.                          *)
LEMMA NetworkUserCurrent == Current("NetworkUser")
<1>1. NetworkUserStruct = TableStruct({"user_id", "network_id"}, {"user", "network"}, {"role"}, {}, {})
  BY DEF NetworkUserStruct, TableStruct, Fields
<1>2. NetworkUserMethods = Build(NetworkUserStruct)
  BY <1>1, TableMethods, DeletableMethods, KindMethods
     DEF NetworkUserCreatedAt, NetworkUserDeletedAt, NetworkUserID,
         NetworkUserNetworkID, NetworkUserNetwork, NetworkUserRole,
         NetworkUserUpdatedAt, NetworkUserUserID, NetworkUserUser,
         NetworkUserOrder, NetworkUserPreload, NetworkUserSet,
         NetworkUserMethods, Filters, Order, Preload, Set, NumberOps, TextOps, TimeOps, BoolOps, NullOps
<1>3. NetworkUserDBSchema = FieldNames(NetworkUserStruct)
  BY <1>1, TableMethods, DeletableMethods DEF NetworkUserDBSchema
<1>4. /\ Methods["NetworkUser"] = NetworkUserMethods /\ DBSchema["NetworkUser"] = NetworkUserDBSchema
      /\ Struct["NetworkUser"] = NetworkUserStruct
  BY Zenon DEF Methods, DBSchema, Struct
<1>5. QED
  BY Zenon, <1>2, <1>3, <1>4 DEF Current

(* The generated methods and schema of RelayServer.                          *)
LEMMA RelayServerCurrent == Current("RelayServer")
<1>1. RelayServerStruct = TableStruct({"port", "stun_port"}, {}, {"name", "region", "host", "public_key"},
          {"started_at", "keepalive_at"}, {})
  BY DEF RelayServerStruct, TableStruct, Fields
<1>2. RelayServerMethods = Build(RelayServerStruct)
  BY <1>1, TableMethods, DeletableMethods, KindMethods
     DEF RelayServerCreatedAt, RelayServerDeletedAt, RelayServerHost,
         RelayServerID, RelayServerKeepaliveAt, RelayServerName, RelayServerPort,
         RelayServerPublicKey, RelayServerRegion, RelayServerSTUNPort,
         RelayServerStartedAt, RelayServerUpdatedAt, RelayServerOrder,
         RelayServerSet,
         RelayServerMethods, Filters, Order, Preload, Set, NumberOps, TextOps, TimeOps, BoolOps, NullOps
<1>3. RelayServerDBSchema = FieldNames(RelayServerStruct)
  BY <1>1, TableMethods, DeletableMethods DEF RelayServerDBSchema
<1>4. /\ Methods["RelayServer"] = RelayServerMethods /\ DBSchema["RelayServer"] = RelayServerDBSchema
      /\ Struct["RelayServer"] = RelayServerStruct
  BY Zenon DEF Methods, DBSchema, Struct
<1>5. QED
  BY Zenon, <1>2, <1>3, <1>4 DEF Current

(* The generated methods and schema of User.                                 *)
LEMMA UserCurrent == Current("User")
<1>1. UserStruct = TableStruct({}, {},
          {"email", "avatar", "name", "salt", "hash", "secret_key", "origin"}, {},
          {})
  BY DEF UserStruct, TableStruct, Fields
<1>2. UserMethods = Build(UserStruct)
  BY <1>1, TableMethods, DeletableMethods, KindMethods
     DEF UserAvatar, UserCreatedAt, UserDeletedAt, UserEmail, UserHash, UserID,
         UserName, UserOrigin, UserSalt, UserSecretKey, UserUpdatedAt, UserOrder,
         UserSet,
         UserMethods, Filters, Order, Preload, Set, NumberOps, TextOps, TimeOps, BoolOps, NullOps
<1>3. UserDBSchema = FieldNames(UserStruct)
  BY <1>1, TableMethods, DeletableMethods DEF UserDBSchema
<1>4. /\ Methods["User"] = UserMethods /\ DBSchema["User"] = UserDBSchema
      /\ Struct["User"] = UserStruct
  BY Zenon DEF Methods, DBSchema, Struct
<1>5. QED
  BY Zenon, <1>2, <1>3, <1>4 DEF Current

(* The generated methods and schema of WechatUser.                           *)
LEMMA WechatUserCurrent == Current("WechatUser")
<1>1. WechatUserStruct = TableStruct({"user_id"}, {"user"}, {"union_id", "nickname", "head_img_url", "city"},
          {}, {})
  BY DEF WechatUserStruct, TableStruct, Fields
<1>2. WechatUserMethods = Build(WechatUserStruct)
  BY <1>1, TableMethods, DeletableMethods, KindMethods
     DEF WechatUserCity, WechatUserCreatedAt, WechatUserDeletedAt,
         WechatUserHeadImgURL, WechatUserID, WechatUserNickname,
         WechatUserUnionID, WechatUserUpdatedAt, WechatUserUserID, WechatUserUser,
         WechatUserOrder, WechatUserPreload, WechatUserSet,
         WechatUserMethods, Filters, Order, Preload, Set, NumberOps, TextOps, TimeOps, BoolOps, NullOps
<1>3. WechatUserDBSchema = FieldNames(WechatUserStruct)
  BY <1>1, TableMethods, DeletableMethods DEF WechatUserDBSchema
<1>4. /\ Methods["WechatUser"] = WechatUserMethods /\ DBSchema["WechatUser"] = WechatUserDBSchema
      /\ Struct["WechatUser"] = WechatUserStruct
  BY Zenon DEF Methods, DBSchema, Struct
<1>5. QED
  BY Zenon, <1>2, <1>3, <1>4 DEF Current

\* The calls of the portal's handlers on a table work.
CallsWork(t) == \A m \in PortalCalls[t] : m \in Methods[t] /\ Accepted(Columns(t), m[2], m[1])

(* A field that is no association is a column of the table.                 *)
LEMMA FieldIsColumn ==
  ASSUME NEW t, NEW col, NEW kind, <<col, kind>> \in Struct[t], kind # "*struct"
  PROVE  col \in Columns(t)
<1>1. <<col, kind>> \in {g \in Struct[t] : g[2] # "*struct"} /\ <<col, kind>>[1] = col
  OBVIOUS
<1>2. QED
  BY Zenon, <1>1 DEF Columns

(* The calls on AuthKey.                                                     *)
LEMMA AuthKeyCalls == CallsWork("AuthKey")
<1>1. /\ Struct["AuthKey"] = AuthKeyStruct /\ Methods["AuthKey"] = AuthKeyMethods
      /\ PortalCalls["AuthKey"] = {<<"user_id", "Eq">>, <<"id", "Eq">>, <<"key", "Eq">>,
          <<"created_at", "OrderDescBy">>}
  BY Zenon DEF Struct, Methods, PortalCalls
<1>2. \A m \in PortalCalls["AuthKey"] : m \in Methods["AuthKey"]
  BY <1>1 DEF AuthKeyMethods, AuthKeyID, AuthKeyKey, AuthKeyOrder, AuthKeyUserID,
         Filters, Order, NumberOps, TextOps
<1>3. /\ <<"created_at", "time">> \in AuthKeyStruct
      /\ <<"id", "number">> \in AuthKeyStruct
      /\ <<"key", "string">> \in AuthKeyStruct
      /\ <<"user_id", "number">> \in AuthKeyStruct
  BY DEF AuthKeyStruct, Fields, Deletable, Updatable, Base
<1>4. /\ "created_at" \in Columns("AuthKey")
      /\ "id" \in Columns("AuthKey")
      /\ "key" \in Columns("AuthKey")
      /\ "user_id" \in Columns("AuthKey")
  BY Zenon, <1>1, <1>3, FieldIsColumn
<1>5. \A m \in PortalCalls["AuthKey"] : Accepted(Columns("AuthKey"), m[2], m[1])
  BY <1>1, <1>4 DEF Accepted, Quoted, ReservedWords
<1>6. QED
  BY Zenon, <1>2, <1>5 DEF CallsWork

(* The calls on Device.                                                      *)
LEMMA DeviceCalls == CallsWork("Device")
<1>1. /\ Struct["Device"] = DeviceStruct /\ Methods["Device"] = DeviceMethods
      /\ PortalCalls["Device"] = {<<"user_id", "Eq">>, <<"id", "Eq">>, <<"id", "In">>,
          <<"machine_id", "Eq">>, <<"address", "Eq">>,
          <<"created_at", "OrderDescBy">>}
  BY Zenon DEF Struct, Methods, PortalCalls
<1>2. \A m \in PortalCalls["Device"] : m \in Methods["Device"]
  BY <1>1 DEF DeviceMethods, DeviceAddress, DeviceID, DeviceMachineID, DeviceOrder, DeviceUserID,
         Filters, Order, NumberOps, TextOps
<1>3. /\ <<"address", "string">> \in DeviceStruct
      /\ <<"created_at", "time">> \in DeviceStruct
      /\ <<"id", "number">> \in DeviceStruct
      /\ <<"machine_id", "string">> \in DeviceStruct
      /\ <<"user_id", "number">> \in DeviceStruct
  BY DEF DeviceStruct, Fields, Deletable, Updatable, Base
<1>4. /\ "address" \in Columns("Device")
      /\ "created_at" \in Columns("Device")
      /\ "id" \in Columns("Device")
      /\ "machine_id" \in Columns("Device")
      /\ "user_id" \in Columns("Device")
  BY Zenon, <1>1, <1>3, FieldIsColumn
<1>5. \A m \in PortalCalls["Device"] : Accepted(Columns("Device"), m[2], m[1])
  BY <1>1, <1>4 DEF Accepted, Quoted, ReservedWords
<1>6. QED
  BY Zenon, <1>2, <1>5 DEF CallsWork

(* The calls on GithubUser.                                                  *)
LEMMA GithubUserCalls == CallsWork("GithubUser")
<1>1. /\ Struct["GithubUser"] = GithubUserStruct /\ Methods["GithubUser"] = GithubUserMethods
      /\ PortalCalls["GithubUser"] = {<<"github_id", "Eq">>}
  BY Zenon DEF Struct, Methods, PortalCalls
<1>2. \A m \in PortalCalls["GithubUser"] : m \in Methods["GithubUser"]
  BY <1>1 DEF GithubUserMethods, GithubUserGithubID,
         Filters, NumberOps, TextOps
<1>3. <<"github_id", "number">> \in GithubUserStruct
  BY DEF GithubUserStruct, Fields
<1>4. "github_id" \in Columns("GithubUser")
  BY Zenon, <1>1, <1>3, FieldIsColumn
<1>5. \A m \in PortalCalls["GithubUser"] : Accepted(Columns("GithubUser"), m[2], m[1])
  BY <1>1, <1>4 DEF Accepted, Quoted, ReservedWords
<1>6. QED
  BY Zenon, <1>2, <1>5 DEF CallsWork

(* The calls on Invitation.                                                  *)
LEMMA InvitationCalls == CallsWork("Invitation")
<1>1. /\ Struct["Invitation"] = InvitationStruct /\ Methods["Invitation"] = InvitationMethods
      /\ PortalCalls["Invitation"] = {<<"user_id", "Eq">>, <<"id", "Eq">>, <<"network_id", "Eq">>}
  BY Zenon DEF Struct, Methods, PortalCalls
<1>2. \A m \in PortalCalls["Invitation"] : m \in Methods["Invitation"]
  BY <1>1 DEF InvitationMethods, InvitationID, InvitationNetworkID, InvitationUserID,
         Filters, NumberOps, TextOps
<1>3. /\ <<"id", "number">> \in InvitationStruct
      /\ <<"network_id", "number">> \in InvitationStruct
      /\ <<"user_id", "number">> \in InvitationStruct
  BY DEF InvitationStruct, Fields, Deletable, Updatable, Base
<1>4. /\ "id" \in Columns("Invitation")
      /\ "network_id" \in Columns("Invitation")
      /\ "user_id" \in Columns("Invitation")
  BY Zenon, <1>1, <1>3, FieldIsColumn
<1>5. \A m \in PortalCalls["Invitation"] : Accepted(Columns("Invitation"), m[2], m[1])
  BY <1>1, <1>4 DEF Accepted, Quoted, ReservedWords
<1>6. QED
  BY Zenon, <1>2, <1>5 DEF CallsWork

(* The calls on Network.                                                     *)
LEMMA NetworkCalls == CallsWork("Network")
<1>1. /\ Struct["Network"] = NetworkStruct /\ Methods["Network"] = NetworkMethods
      /\ PortalCalls["Network"] = {<<"id", "Eq">>, <<"created_by_id", "Eq">>}
  BY Zenon DEF Struct, Methods, PortalCalls
<1>2. \A m \in PortalCalls["Network"] : m \in Methods["Network"]
  BY <1>1 DEF NetworkMethods, NetworkCreatedByID, NetworkID,
         Filters, NumberOps, TextOps
<1>3. /\ <<"created_by_id", "number">> \in NetworkStruct
      /\ <<"id", "number">> \in NetworkStruct
  BY DEF NetworkStruct, Fields, Deletable, Updatable, Base
<1>4. /\ "created_by_id" \in Columns("Network")
      /\ "id" \in Columns("Network")
  BY Zenon, <1>1, <1>3, FieldIsColumn
<1>5. \A m \in PortalCalls["Network"] : Accepted(Columns("Network"), m[2], m[1])
  BY <1>1, <1>4 DEF Accepted, Quoted, ReservedWords
<1>6. QED
  BY Zenon, <1>2, <1>5 DEF CallsWork

(* The calls on NetworkUser.                                                 *)
LEMMA NetworkUserCalls == CallsWork("NetworkUser")
<1>1. /\ Struct["NetworkUser"] = NetworkUserStruct /\ Methods["NetworkUser"] = NetworkUserMethods
      /\ PortalCalls["NetworkUser"] = {<<"user_id", "Eq">>, <<"network_id", "Eq">>, <<"network_id", "In">>}
  BY Zenon DEF Struct, Methods, PortalCalls
<1>2. \A m \in PortalCalls["NetworkUser"] : m \in Methods["NetworkUser"]
  BY <1>1 DEF NetworkUserMethods, NetworkUserNetworkID, NetworkUserUserID,
         Filters, NumberOps, TextOps
<1>3. /\ <<"network_id", "number">> \in NetworkUserStruct
      /\ <<"user_id", "number">> \in NetworkUserStruct
  BY DEF NetworkUserStruct, Fields
<1>4. /\ "network_id" \in Columns("NetworkUser")
      /\ "user_id" \in Columns("NetworkUser")
  BY Zenon, <1>1, <1>3, FieldIsColumn
<1>5. \A m \in PortalCalls["NetworkUser"] : Accepted(Columns("NetworkUser"), m[2], m[1])
  BY <1>1, <1>4 DEF Accepted, Quoted, ReservedWords
<1>6. QED
  BY Zenon, <1>2, <1>5 DEF CallsWork

(* The calls on RelayServer.                                                 *)
LEMMA RelayServerCalls == CallsWork("RelayServer")
<1>1. /\ Struct["RelayServer"] = RelayServerStruct /\ Methods["RelayServer"] = RelayServerMethods
      /\ PortalCalls["RelayServer"] = {<<"id", "Eq">>}
  BY Zenon DEF Struct, Methods, PortalCalls
<1>2. \A m \in PortalCalls["RelayServer"] : m \in Methods["RelayServer"]
  BY <1>1 DEF RelayServerMethods, RelayServerID,
         Filters, NumberOps, TextOps
<1>3. <<"id", "number">> \in RelayServerStruct
  BY DEF RelayServerStruct, Fields, Deletable, Updatable, Base
<1>4. "id" \in Columns("RelayServer")
  BY Zenon, <1>1, <1>3, FieldIsColumn
<1>5. \A m \in PortalCalls["RelayServer"] : Accepted(Columns("RelayServer"), m[2], m[1])
  BY <1>1, <1>4 DEF Accepted, Quoted, ReservedWords
<1>6. QED
  BY Zenon, <1>2, <1>5 DEF CallsWork

(* The calls on User.                                                        *)
LEMMA UserCalls == CallsWork("User")
<1>1. /\ Struct["User"] = UserStruct /\ Methods["User"] = UserMethods
      /\ PortalCalls["User"] = {<<"id", "Eq">>, <<"email", "Eq">>}
  BY Zenon DEF Struct, Methods, PortalCalls
<1>2. \A m \in PortalCalls["User"] : m \in Methods["User"]
  BY <1>1 DEF UserMethods, UserEmail, UserID,
         Filters, NumberOps, TextOps
<1>3. /\ <<"email", "string">> \in UserStruct
      /\ <<"id", "number">> \in UserStruct
  BY DEF UserStruct, Fields, Deletable, Updatable, Base
<1>4. /\ "email" \in Columns("User")
      /\ "id" \in Columns("User")
  BY Zenon, <1>1, <1>3, FieldIsColumn
<1>5. \A m \in PortalCalls["User"] : Accepted(Columns("User"), m[2], m[1])
  BY <1>1, <1>4 DEF Accepted, Quoted, ReservedWords
<1>6. QED
  BY Zenon, <1>2, <1>5 DEF CallsWork

(* No handler queries WechatUser.                                            *)
LEMMA WechatUserCalls == CallsWork("WechatUser")
BY DEF CallsWork, PortalCalls

\* The tables of the portal.
Tables == {"AuthKey", "Device", "GithubUser", "Invitation", "Network",
           "NetworkUser", "RelayServer", "User", "WechatUser"}

(* A query set belongs to one of the tables, and to the same one throughout.  *)
LEMMA TableStays == QuerySpec => [](table \in Tables)
<1>1. DOMAIN Struct = Tables
  BY DEF Struct, Tables
<1>2. QueryInit => table \in Tables
  BY Zenon, <1>1 DEF QueryInit
<1>3. table \in Tables /\ [QueryNext]_queryVars => (table \in Tables)'
  BY Zenon DEF QueryNext, CallFilter, CallDelete, CallUpdate, queryVars
<1>4. QED
  BY <1>2, <1>3, PTL DEF QuerySpec

(* autogen_query.go is what the generator makes of models.go, for every table  *)
(* and along every chain of filters.                                           *)
THEOREM QueriesCurrent == QuerySpec => []GeneratedIsCurrent
<1>1. ASSUME table \in Tables PROVE GeneratedIsCurrent
  <2>1. Current(table)
    BY Zenon, <1>1, AuthKeyCurrent, DeviceCurrent, GithubUserCurrent, InvitationCurrent,
       NetworkCurrent, NetworkUserCurrent, RelayServerCurrent, UserCurrent,
       WechatUserCurrent DEF Tables
  <2>2. QED
    BY Zenon, <2>1 DEF Current, GeneratedIsCurrent, FieldNames
<1>2. QED
  BY <1>1, TableStays, PTL

(* Every query that a handler of the portal makes exists, on a column of its     *)
(* table, with a reserved word for a column only where the generator quotes it.  *)
THEOREM PortalQueriesWork == QuerySpec => []PortalCallsWork
<1>1. ASSUME table \in Tables PROVE PortalCallsWork
  <2>1. CallsWork(table)
    BY Zenon, <1>1, AuthKeyCalls, DeviceCalls, GithubUserCalls, InvitationCalls, NetworkCalls,
       NetworkUserCalls, RelayServerCalls, UserCalls, WechatUserCalls DEF Tables
  <2>2. QED
    BY Zenon, <2>1 DEF CallsWork, PortalCallsWork
<1>2. QED
  BY <1>1, TableStays, PTL

=============================================================================
