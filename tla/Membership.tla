----------------------------- MODULE Membership -----------------------------
(***************************************************************************)
(* Networks, members and invitations in the portal:                        *)
(* portal/api/api_network.go and portal/api/api_invitation.go over the     *)
(* tables networks, network_users and invitations.                         *)
(*                                                                         *)
(* A handler of a request reads first and writes then.  The reads of a     *)
(* transaction see a snapshot and lock nothing, so other requests may      *)
(* commit between the reads and the writes: a handler is two steps, one    *)
(* for its reads with the checks on them and one for its writes.  Every    *)
(* transaction may fail (Abort), and the portal may stop (Crash).          *)
(*                                                                         *)
(* The database enforces the foreign keys of portal/db/models/models.go:   *)
(* a row of a network that is gone cannot be inserted.  An insert whose    *)
(* error the handler does not see (tx.Create returns it in a value that    *)
(* the code drops) has no effect, while the transaction commits.           *)
(***************************************************************************)
EXTENDS Naturals, Sequences, Functions, FiniteSets

CONSTANTS
  Users,
  Networks,     \* IDs of networks, never used twice
  Invitations,  \* IDs of invitations; one is reused when nobody refers to it
  Handlers,     \* requests that are handled at the same time
  MaxRows,      \* bound on the rows of one user in one network
  None,
  Gone          \* the network was deleted

Roles == {"owner", "admin", "member"}

VARIABLES
  creator,      \* networks.created_by_id, None before the row and Gone after it
  members,      \* roles in network_users by network and user, oldest row first
  invitations,  \* rows of invitations
  pc,           \* program point of a handler: "idle" or the write it is about to do
  req           \* what a handler has been asked for and has read

vars == <<creator, members, invitations, pc, req>>
tables == <<creator, members, invitations>>

Invitation == [net : Networks, by : Users, user : Users, role : {"admin", "member"}]

Request == [by : Users, net : Networks \cup {None}, user : Users \cup {None},
            role : Roles \cup {None}, inv : Invitations \cup {None}]

ASSUME MembershipAssumption ==
  /\ {None, Gone} \cap (Users \cup Networks \cup Invitations) = {}
  /\ None # Gone
  /\ None \notin Invitation \cup Request
  /\ MaxRows \in Nat

TypeOK ==
  /\ creator \in [Networks -> Users \cup {None, Gone}]
  /\ members \in [Networks -> [Users -> Seq(Roles)]]
  /\ invitations \in [Invitations -> Invitation \cup {None}]
  /\ pc \in [Handlers -> {"idle", "addOwner", "delete", "role", "remove", "invite",
                          "join", "decline"}]
  /\ req \in [Handlers -> Request \cup {None}]
  /\ \A h \in Handlers : pc[h] # "idle" => req[h] # None

Init ==
  /\ creator = [n \in Networks |-> None]
  /\ members = [n \in Networks |-> [u \in Users |-> <<>>]]
  /\ invitations = [i \in Invitations |-> None]
  /\ pc = [h \in Handlers |-> "idle"]
  /\ req = [h \in Handlers |-> None]

-----------------------------------------------------------------------------
Exists(n) == creator[n] \in Users

\* NetworkIDEq(n).UserIDEq(u).One: the row with the smallest ID, if there is one.
IsMember(n, u) == members[n][u] # <<>>
Role(n, u) == Head(members[n][u])

(* tx.Create of a row of network_users: it fails without its network, and  *)
(* may fail otherwise; the handler goes on either way.                     *)
Insert(n, u, role) ==
  \/ UNCHANGED members
  \/ /\ Exists(n)
     /\ Len(members[n][u]) < MaxRows
     /\ members' = [members EXCEPT ![n][u] = Append(@, role)]

\* A request whose checks on what it read succeed goes on to its writes.
Begin(h, point, r) ==
  /\ pc[h] = "idle"
  /\ pc' = [pc EXCEPT ![h] = point]
  /\ req' = [req EXCEPT ![h] = r]
  /\ UNCHANGED tables

End(h) ==
  /\ pc' = [pc EXCEPT ![h] = "idle"]
  /\ req' = [req EXCEPT ![h] = None]

Abort(h) == pc[h] # "idle" /\ End(h) /\ UNCHANGED tables

Crash ==
  /\ \E h \in Handlers : pc[h] # "idle"
  /\ pc' = [h \in Handlers |-> "idle"]
  /\ req' = [h \in Handlers |-> None]
  /\ UNCHANGED tables

-----------------------------------------------------------------------------
(* CreateNetwork: network and owner are inserted by two transactions of    *)
(* their own.  An insert that fails is not noticed; without a network the  *)
(* ID in the second insert is 0, which no network has.                     *)
CreateNetwork(h, u) ==
  /\ pc[h] = "idle"
  /\ pc' = [pc EXCEPT ![h] = "addOwner"]
  /\ \E n \in Networks \cup {None} :
       /\ req' = [req EXCEPT ![h] = [by |-> u, net |-> n, user |-> u, role |-> "owner", inv |-> None]]
       /\ IF n = None THEN UNCHANGED creator
          ELSE creator[n] = None /\ creator' = [creator EXCEPT ![n] = u]
  /\ UNCHANGED <<members, invitations>>

CreateNetworkOwner(h) ==
  /\ pc[h] = "addOwner"
  /\ IF req[h].net = None THEN UNCHANGED members ELSE Insert(req[h].net, req[h].user, req[h].role)
  /\ End(h)
  /\ UNCHANGED <<creator, invitations>>

(* networkUserOperationCheck, a transaction of its own.                    *)
OperationCheck(n, u, allowed) == IsMember(n, u) /\ Role(n, u) \in allowed

(* DeleteNetwork: the creator deletes the network, whatever their role.    *)
DeleteNetwork(h, u, n) ==
  /\ creator[n] = u
  /\ Begin(h, "delete", [by |-> u, net |-> n, user |-> None, role |-> None, inv |-> None])

\* Fault: the invitations of the network stay.
DeleteNetworkCommitFaulty(h) ==
  /\ pc[h] = "delete"
  /\ members' = [members EXCEPT ![req[h].net] = [u \in Users |-> <<>>]]
  /\ creator' = [creator EXCEPT ![req[h].net] = Gone]
  /\ End(h)
  /\ UNCHANGED invitations

DeleteNetworkCommit(h) ==
  /\ pc[h] = "delete"
  /\ LET n == req[h].net
     IN /\ members' = [members EXCEPT ![n] = [u \in Users |-> <<>>]]
        /\ invitations' = [i \in Invitations |->
             IF invitations[i] # None /\ invitations[i].net = n THEN None ELSE invitations[i]]
        /\ creator' = [creator EXCEPT ![n] = Gone]
  /\ End(h)

(* ChangeNetworkMemberRole: only the owner may; the update covers all rows *)
(* of the user and does not mind when there is none.                       *)
\* Fault: the role in the request is not validated.
ChangeNetworkMemberRoleFaulty(h, u, n, target, role) ==
  /\ OperationCheck(n, u, {"owner"})
  /\ Begin(h, "role", [by |-> u, net |-> n, user |-> target, role |-> role, inv |-> None])

ChangeNetworkMemberRole(h, u, n, target, role) ==
  /\ role \in {"admin", "member"}
  /\ OperationCheck(n, u, {"owner"})
  /\ Begin(h, "role", [by |-> u, net |-> n, user |-> target, role |-> role, inv |-> None])

ChangeNetworkMemberRoleCommit(h) ==
  /\ pc[h] = "role"
  /\ LET r == req[h]
     IN members' = [members EXCEPT ![r.net][r.user] = [i \in DOMAIN @ |-> r.role]]
  /\ End(h)
  /\ UNCHANGED <<creator, invitations>>

(* DeleteNetworkUser: both reads of the role ask for the target's rows,    *)
(* and Scan keeps the last one; the role is empty when there is none.      *)
DeleteNetworkUser(h, u, n, target) ==
  /\ IF target = u THEN IsMember(n, u) => members[n][u][Len(members[n][u])] # "owner"
                   ELSE ~IsMember(n, target)
  /\ Begin(h, "remove", [by |-> u, net |-> n, user |-> target, role |-> None, inv |-> None])

DeleteNetworkUserCommit(h) ==
  /\ pc[h] = "remove"
  /\ members' = [members EXCEPT ![req[h].net][req[h].user] = <<>>]
  /\ End(h)
  /\ UNCHANGED <<creator, invitations>>

(* InviteMember: a repeated invitation is left as it is, since the updater *)
(* is built and never run.  Only the role admin is taken from the request; *)
(* the column's default is member.                                         *)
\* Fault: admins invite admins.
InviteMemberByAdmin(h, u, n, target, role) ==
  /\ IsMember(n, u)
  /\ Role(n, u) # "member"
  /\ Begin(h, "invite", [by |-> u, net |-> n, user |-> target,
                         role |-> IF role = "admin" THEN role ELSE "member", inv |-> None])

InviteMember(h, u, n, target, role) ==
  /\ IsMember(n, u)
  /\ Role(n, u) # "member"
  /\ role = "admin" => Role(n, u) = "owner"
  /\ \A i \in Invitations : invitations[i] # None =>
        ~(invitations[i].net = n /\ invitations[i].user = target)
  /\ Begin(h, "invite", [by |-> u, net |-> n, user |-> target,
                         role |-> IF role = "admin" THEN role ELSE "member", inv |-> None])

InviteMemberCommit(h) ==
  /\ pc[h] = "invite"
  /\ \/ UNCHANGED invitations
     \/ \E i \in Invitations :
          /\ Exists(req[h].net)
          /\ invitations[i] = None
          /\ \A g \in Handlers : req[g] # None => req[g].inv # i
          /\ invitations' = [invitations EXCEPT ![i] =
               [net |-> req[h].net, by |-> req[h].by, user |-> req[h].user, role |-> req[h].role]]
  /\ End(h)
  /\ UNCHANGED <<creator, members>>

(* HandleInvitation: the invitation is deleted by its ID, and nothing says *)
(* whether there was a row left to delete.                                 *)
HandleInvitation(h, u, i, action) ==
  /\ invitations[i] # None
  /\ invitations[i].user = u
  /\ Begin(h, action, [by |-> u, net |-> invitations[i].net, user |-> u,
                       role |-> invitations[i].role, inv |-> i])

HandleInvitationCommit(h) ==
  /\ pc[h] \in {"join", "decline"}
  /\ invitations' = [invitations EXCEPT ![req[h].inv] = None]
  /\ IF pc[h] = "join" THEN Insert(req[h].net, req[h].user, req[h].role) ELSE UNCHANGED members
  /\ End(h)
  /\ UNCHANGED creator

-----------------------------------------------------------------------------
Handle(h) ==
  \/ \E u \in Users : CreateNetwork(h, u)
  \/ \E u \in Users, n \in Networks :
       \/ DeleteNetwork(h, u, n)
       \/ \E target \in Users :
            \/ DeleteNetworkUser(h, u, n, target)
            \/ \E role \in Roles :
                 \/ ChangeNetworkMemberRole(h, u, n, target, role)
                 \/ InviteMember(h, u, n, target, role)
  \/ \E u \in Users, i \in Invitations, action \in {"join", "decline"} :
       HandleInvitation(h, u, i, action)

Commit(h) ==
  \/ CreateNetworkOwner(h)
  \/ DeleteNetworkCommit(h)
  \/ DeleteNetworkUserCommit(h)
  \/ ChangeNetworkMemberRoleCommit(h)
  \/ InviteMemberCommit(h)
  \/ HandleInvitationCommit(h)
  \/ Abort(h)

Next == Crash \/ \E h \in Handlers : Handle(h) \/ Commit(h)

Spec == Init /\ [][Next]_vars

-----------------------------------------------------------------------------
(* A network has no owner but the user who created it: no sequence of      *)
(* invitations, joins and changes of role by requests that overlap makes   *)
(* anybody else one.  DeleteNetwork asks for the creator and               *)
(* ChangeNetworkMemberRole for the owner, so the two must be one person.   *)
OwnerIsCreator ==
  \A n \in Networks, u \in Users : "owner" \in Range(members[n][u]) => creator[n] = u

(* An invitation to be admin has been sent by the network's creator: the   *)
(* check of InviteMember read an owner's row, and the requests that have   *)
(* committed since did not put the invitation in a network of somebody     *)
(* else.                                                                   *)
AdminInvitedByCreator ==
  \A i \in Invitations : invitations[i] # None /\ invitations[i].role = "admin" =>
    creator[invitations[i].net] = invitations[i].by

(* Nothing is left of a network that was deleted, no member and no         *)
(* invitation, and nothing comes back: not from a join, an invitation or   *)
(* the second insert of CreateNetwork that was under way at the time.      *)
GoneLeavesNothing ==
  \A n \in Networks : creator[n] = Gone =>
    /\ \A u \in Users : ~IsMember(n, u)
    /\ \A i \in Invitations : invitations[i] # None => invitations[i].net # n
=============================================================================
