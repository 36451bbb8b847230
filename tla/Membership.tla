----------------------------- MODULE Membership -----------------------------
(***************************************************************************)
(* The members of an organisation and its invitations: the server actions  *)
(* of settings/actions.ts and the functions of the migration invite_links. *)
(*                                                                         *)
(* An action reads its caller's role once, then the row it is about, and   *)
(* writes; each is a call to the database of its own, and the writes carry *)
(* no condition on what was read.  Row-level security looks at the         *)
(* caller's role again at every write.  The functions that redeem and      *)
(* decline an invitation lock its row and are one step.                    *)
(***************************************************************************)
EXTENDS Integers, FiniteSets

CONSTANTS
  Users,    \* accounts, each with the one e-mail address it is invited by
  Founder,  \* whose first login created the organisation
  Invites,  \* ids of invitations; one no row and no action has is used again
  Actions,  \* server actions that may be in flight together
  Roles     \* the roles of the forms: "admin" and those below it

ASSUME OrgAssumption ==
  Founder \in Users /\ "admin" \in Roles /\ Roles \subseteq {"viewer", "developer", "admin"}

VARIABLES
  member,   \* org_memberships: the role of each user, "none" without a row
  invite,   \* org_invites
  action,   \* the server actions in flight
  knighted  \* history: who has its role by the owner's grant of "admin"

orgVars == <<member, invite, action, knighted>>

ROLE_HIERARCHY == [none |-> -1, viewer |-> 0, developer |-> 1, admin |-> 2, owner |-> 3]

hasMinRole(role, min) == ROLE_HIERARCHY[role] >= ROLE_HIERARCHY[min]

\* The row-level policies of both tables, at the write.
MayWrite(u) == hasMinRole(member[u], "admin")

NoInvite == [status |-> "none", email |-> Founder, role |-> "admin", by |-> Founder]

\* A server action: who calls it, the role it read, and what it is about.
NoAction == [pc |-> "idle", by |-> Founder, role |-> "none", target |-> Founder,
             grant |-> "admin", id |-> 0]

OrgTypeOK ==
  /\ member \in [Users -> DOMAIN ROLE_HIERARCHY]
  /\ invite \in [Invites -> [status : {"none", "pending", "accepted"}, email : Users,
                             role : Roles, by : Users]]
  /\ action \in [Actions -> [pc : {"idle", "check", "insert", "replace", "target", "update", "remove"},
                             by : Users, role : DOMAIN ROLE_HIERARCHY, target : Users,
                             grant : Roles \cup {"none"}, id : Invites \cup {0}]]
  /\ knighted \subseteq Users

\* bootstrap_user_org: an organisation begins with its owner.
OrgInit ==
  /\ member = [u \in Users |-> IF u = Founder THEN "owner" ELSE "none"]
  /\ invite = [i \in Invites |-> NoInvite]
  /\ action = [a \in Actions |-> NoAction]
  /\ knighted = {}

-----------------------------------------------------------------------------
\* requireUserWithOrg: the caller's role is read, and only an admin goes on.
Call(a, u, fields) ==
  /\ action[a] = NoAction
  /\ hasMinRole(member[u], "admin")
  /\ action' = [action EXCEPT ![a] = [fields EXCEPT !.by = u, !.role = member[u]]]

Goes(a, pc) == action' = [action EXCEPT ![a].pc = pc]
Returns(a) == action' = [action EXCEPT ![a] = NoAction]

\* An admin may not do to an admin, nor make one, what the owner may.
OnlyOwners(role, about) == role = "admin" /\ about = "admin"

\* inviteMember ...
InviteMember(a, u, email, role) ==
  /\ ~OnlyOwners(member[u], role)
  /\ Call(a, u, [NoAction EXCEPT !.pc = "check", !.target = email, !.grant = role])
  /\ UNCHANGED <<member, invite, knighted>>

\* ... looks whether the address is a member's ...
CheckMember(a) ==
  /\ action[a].pc = "check"
  /\ IF member[action[a].target] # "none" THEN Returns(a) ELSE Goes(a, "insert")
  /\ UNCHANGED <<member, invite, knighted>>

Pending(i) == invite[i].status = "pending"
Stored(i) == invite[i] # NoInvite

\* ... and inserts the invitation, one per address, accepted or not.
InsertInvite(a) ==
  LET c == action[a] IN
  /\ c.pc = "insert"
  /\ Returns(a)
  /\ \/ /\ MayWrite(c.by) /\ \A i \in Invites : Stored(i) => invite[i].email # c.target
        /\ \E i \in Invites :
             /\ invite[i] = NoInvite /\ \A b \in Actions : action[b].id # i
             /\ invite' = [invite EXCEPT ![i] = [status |-> "pending", email |-> c.target,
                                                 role |-> c.grant, by |-> c.by]]
     \/ UNCHANGED invite
  /\ UNCHANGED <<member, knighted>>

\* Mutant of ResendInvite: whoever may invite may resend any invitation.
ResendInvite_Any(a, u, i) ==
  /\ Pending(i)
  /\ Call(a, u, [NoAction EXCEPT !.pc = "replace", !.id = i, !.target = invite[i].email,
                                 !.grant = invite[i].role])
  /\ UNCHANGED <<member, invite, knighted>>

\* resendInvite reads the invitation ...
ResendInvite(a, u, i) ==
  /\ Pending(i)
  /\ ~OnlyOwners(member[u], invite[i].role)
  /\ Call(a, u, [NoAction EXCEPT !.pc = "replace", !.id = i, !.target = invite[i].email,
                                 !.grant = invite[i].role])
  /\ UNCHANGED <<member, invite, knighted>>

\* ... and deletes it, if it is still pending, before it inserts another.
DeleteReplaced(a) ==
  LET c == action[a] IN
  /\ c.pc = "replace"
  /\ IF MayWrite(c.by) /\ Pending(c.id)
     THEN /\ invite' = [invite EXCEPT ![c.id] = NoInvite]
          /\ action' = [action EXCEPT ![a] = [c EXCEPT !.pc = "insert", !.id = 0]]
     ELSE UNCHANGED invite /\ Returns(a)
  /\ UNCHANGED <<member, knighted>>

\* updateMemberRole and removeMember ("none") refuse the caller itself ...
ManageMember(a, u, target, grant) ==
  /\ u # target
  /\ Call(a, u, [NoAction EXCEPT !.pc = "target", !.target = target, !.grant = grant])
  /\ UNCHANGED <<member, invite, knighted>>

\* ... read the target's role: never the owner's, an admin's only for the owner ...
ReadTarget(a) ==
  LET c == action[a]  role == member[c.target] IN
  /\ c.pc = "target"
  /\ IF role \in {"none", "owner"} \/ OnlyOwners(c.role, role) \/ OnlyOwners(c.role, c.grant)
     THEN Returns(a)
     ELSE Goes(a, IF c.grant = "none" THEN "remove" ELSE "update")
  /\ UNCHANGED <<member, invite, knighted>>

\* ... and write, whatever the role has become; an update of no row is no error.
WriteMember(a) ==
  LET c == action[a] IN
  /\ c.pc \in {"update", "remove"}
  /\ Returns(a)
  /\ IF MayWrite(c.by) /\ member[c.target] # "none"
     THEN /\ member' = [member EXCEPT ![c.target] = c.grant]
          /\ knighted' = IF c.role = "owner" /\ c.grant = "admin"
                         THEN knighted \cup {c.target} ELSE knighted \ {c.target}
     ELSE UNCHANGED <<member, knighted>>
  /\ UNCHANGED invite

\* cancelInvite deletes by id, accepted or not, in its only call.
CancelInvite(u, i) ==
  /\ MayWrite(u) /\ Stored(i)
  /\ invite' = [invite EXCEPT ![i] = NoInvite]
  /\ UNCHANGED <<member, action, knighted>>

\* redeem_org_invite_internal, for whoever holds the link (accept_org_invite)
\* or has the address (accept_org_invite_by_id): a member keeps the role it has.
\* An invitation that expired is one that nobody redeems any more.
RedeemInvite(u, i) ==
  /\ Pending(i)
  /\ invite' = [invite EXCEPT ![i].status = "accepted"]
  /\ IF member[u] # "none"
     THEN UNCHANGED <<member, knighted>>
     ELSE /\ member' = [member EXCEPT ![u] = invite[i].role]
          /\ knighted' = IF member[invite[i].by] = "owner" /\ invite[i].role = "admin"
                         THEN knighted \cup {u} ELSE knighted
  /\ UNCHANGED action

\* decline_org_invite_internal, by either way too.
DeclineInvite(i) ==
  /\ Pending(i)
  /\ invite' = [invite EXCEPT ![i] = NoInvite]
  /\ UNCHANGED <<member, action, knighted>>

\* deleteOrganization, by its owner; the database deletes the rows with it.
DeleteOrganization(u) ==
  /\ member[u] = "owner"
  /\ member' = [v \in Users |-> "none"]
  /\ invite' = [i \in Invites |-> NoInvite]
  /\ knighted' = {}
  /\ UNCHANGED action

Invitation ==
  \/ \E a \in Actions, u \in Users :
       \/ \E email \in Users, role \in Roles : InviteMember(a, u, email, role)
       \/ \E i \in Invites : ResendInvite(a, u, i)
  \/ \E a \in Actions : CheckMember(a) \/ InsertInvite(a) \/ DeleteReplaced(a)
  \/ \E u \in Users, i \in Invites : CancelInvite(u, i) \/ RedeemInvite(u, i)
  \/ \E i \in Invites : DeclineInvite(i)

Management ==
  \/ \E a \in Actions, u, target \in Users, grant \in Roles \cup {"none"} :
       ManageMember(a, u, target, grant)
  \/ \E a \in Actions : ReadTarget(a) \/ WriteMember(a)
  \/ \E u \in Users : DeleteOrganization(u)

Org == Invitation \/ Management

OrgSpec == OrgInit /\ [][Org]_orgVars

-----------------------------------------------------------------------------
(* Properties. *)

\* While the organisation has members, its founder is its one owner, and
\* whoever is an admin was made one by the owner, however the writes of calls
\* that read their roles earlier overlap ("Only owners can promote members to
\* admin", "ownership is never granted through an invite").
RanksComeFromOwner ==
  \A u \in Users : /\ member[u] # "none" => member[Founder] = "owner"
                   /\ member[u] = "owner" => u = Founder
                   /\ member[u] = "admin" => u \in knighted
=============================================================================
