------------------------ MODULE WorkspaceMembership ------------------------
(***************************************************************************)
(* Who belongs to a workspace of services/core: the rows of                *)
(* workspace_members and workspace_invitations of one workspace, and the   *)
(* HTTP requests that read and write them.  Workspaces share no rows, so   *)
(* one is enough.                                                          *)
(*                                                                         *)
(* PostgreSQL runs at READ COMMITTED, and views run in threads: an action  *)
(* is one statement, so that other requests may commit between any two     *)
(* statements of a request.  The writes of a transaction are in its last   *)
(* action, with the locks it holds until then as guards of the others.     *)
(***************************************************************************)
EXTENDS Naturals, FiniteSets

CONSTANTS
    Users,       \* users, each with one e-mail address
    Owner,       \* the user who created the workspace
    Roles,       \* the roles that can be given: admin and lesser ones
    Invites,     \* identities of invitation rows: bounds how many are sent
    Requests,    \* identities of requests: bounds how many are in progress
    MaxMembers   \* max_members of the workspace's plan

ASSUME WorkspaceAssumption ==
    /\ IsFiniteSet(Users) /\ IsFiniteSet(Invites)
    /\ Owner \in Users
    /\ "admin" \in Roles /\ {"owner", "none"} \cap Roles = {}
    /\ MaxMembers \in Nat \ {0}

VARIABLES
    deleted,     \* workspaces.deleted_at is set
    members,     \* users whose member row is not soft-deleted
    role,        \* the role in a user's member row, soft-deleted or not
    issued,      \* invitation rows that exist
    to,          \* per issued invitation, the user it is addressed to
    offered,     \* per issued invitation, its role
    accepted,    \* invitations with accepted_at set
    revoked,     \* invitations with deleted_at set
    expired,     \* invitations whose expires_at has passed
    req          \* per request, where it is and what it has read

memberVars == <<members, role>>
inviteVars == <<issued, to, offered, accepted, revoked, expired>>
vars       == <<deleted, memberVars, inviteVars, req>>

-----------------------------------------------------------------------------
Idle   == [pc |-> "idle"]
NoRole == "none"           \* no row, or nothing read yet

(* Variants of the definitions below, each with a mistake the code avoids.   *)
MayTouchOwner(actorRole, targetRole) ==
    targetRole = "admin" => actorRole = "owner"
NoRowLock(i)          == FALSE
NoWorkspaceLock       == FALSE
ToDoomEveryRow        == {u \in Users : role[u] # NoRole}
EndKeepingReads(q)    == req' = [req EXCEPT ![q].pc = "idle"]

Pending == issued \ (accepted \cup revoked \cup expired)

(* can_admin, for an active member.                                          *)
CanAdmin(u) == u \in members /\ role[u] \in {"owner", "admin"}

(* Nobody changes or removes the owner, and only the owner an admin.         *)
MayTouch(actorRole, targetRole) ==
    /\ targetRole # "owner"
    /\ targetRole = "admin" => actorRole = "owner"

(* The plan's limit counts the members and the pending invitations.          *)
HasRoom(count) == count + Cardinality(Pending) < MaxMembers

IsInvited(v) == \E i \in Pending : to[i] = v

(* accept_invitation locks its invitation and, through select_related, the   *)
(* workspace row, until it commits.                                          *)
Accepting == {q \in Requests : req[q].pc \in {"acceptRead", "acceptWrite"}}
WorkspaceLocked == Accepting # {}
InviteLocked(i) == \E q \in Accepting : req[q].inv = i

(* delete_workspace updates the member rows that are active, and so locks    *)
(* them until it commits.                                                    *)
ToDoom == members
RowLocked(u) == \E q \in Requests : req[q].pc = "deleteCommit" /\ u \in req[q].doomed

(* Bound: a request to invite starts only if an identity is left for it.     *)
Inviting == {q \in Requests :
    req[q].pc \in {"inviteAdmit", "inviteUnique", "inviteLimit", "inviteInsert"}}
InvitesLeft == Cardinality(issued) + Cardinality(Inviting) < Cardinality(Invites)

Continue(q, label) == req' = [req EXCEPT ![q].pc = label]
End(q)             == req' = [req EXCEPT ![q] = Idle]

(* The request goes on if what it has read allows it, or is refused.         *)
Check(q, test, label) ==
    /\ IF test THEN Continue(q, label) ELSE End(q)
    /\ UNCHANGED <<deleted, memberVars, inviteVars>>

(* Every request but an acceptance first fetches the workspace, which must   *)
(* be there and have the user as an active member.                           *)
Start(q, u, state) ==
    /\ req[q] = Idle
    /\ ~deleted
    /\ u \in members
    /\ req' = [req EXCEPT ![q] = state]
    /\ UNCHANGED <<deleted, memberVars, inviteVars>>

-----------------------------------------------------------------------------
(* The workspace and the owner's membership are created in one transaction.  *)
Init ==
    /\ deleted = FALSE
    /\ members = {Owner}
    /\ role = [u \in Users |-> IF u = Owner THEN "owner" ELSE NoRole]
    /\ issued = {}
    /\ to = [i \in Invites |-> Owner]
    /\ offered = [i \in Invites |-> NoRole]
    /\ accepted = {}
    /\ revoked = {}
    /\ expired = {}
    /\ req = [q \in Requests |-> Idle]

(* POST /members: create_invitation.  The member count is the length of the  *)
(* list prefetched with the workspace, the count of invitations a query.     *)
InviteFetch(q, u, v, r) ==
    /\ InvitesLeft
    /\ Start(q, u, [pc |-> "inviteAdmit", by |-> u, whom |-> v, as |-> r,
                    count |-> Cardinality(members)])

InviteAdmit(q) ==
    req[q].pc = "inviteAdmit" /\ Check(q, CanAdmin(req[q].by), "inviteUnique")

InviteUnique(q) ==
    /\ req[q].pc = "inviteUnique"
    /\ Check(q, ~IsInvited(req[q].whom), "inviteLimit")

InviteLimit(q) ==
    req[q].pc = "inviteLimit" /\ Check(q, HasRoom(req[q].count), "inviteInsert")

(* The insert needs a share of the workspace row, for its foreign key.       *)
InviteInsert(q) ==
    /\ req[q].pc = "inviteInsert"
    /\ ~WorkspaceLocked
    /\ \E i \in Invites \ issued :
         /\ issued' = issued \cup {i}
         /\ to' = [to EXCEPT ![i] = req[q].whom]
         /\ offered' = [offered EXCEPT ![i] = req[q].as]
    /\ End(q)
    /\ UNCHANGED <<deleted, memberVars, accepted, revoked, expired>>

(* PATCH /members/{id}: update_member_role reads the actor's row, then the   *)
(* target's, then saves the new role into the target's row.                  *)
RoleFetch(q, u, v, r) ==
    Start(q, u, [pc |-> "roleActor", by |-> u, whom |-> v, as |-> r, saw |-> NoRole])

RoleActor(q) ==
    /\ req[q].pc = "roleActor"
    /\ IF CanAdmin(req[q].by)
         THEN req' = [req EXCEPT ![q].pc = "roleTarget", ![q].saw = role[req[q].by]]
         ELSE End(q)
    /\ UNCHANGED <<deleted, memberVars, inviteVars>>

RoleTarget(q) ==
    /\ req[q].pc = "roleTarget"
    /\ Check(q, /\ req[q].whom \in members
                /\ MayTouch(req[q].saw, role[req[q].whom]), "roleSave")

RoleSave(q) ==
    /\ req[q].pc = "roleSave"
    /\ ~RowLocked(req[q].whom)
    /\ role' = [role EXCEPT ![req[q].whom] = req[q].as]
    /\ End(q)
    /\ UNCHANGED <<deleted, members, inviteVars>>

(* DELETE /members/{id}: remove_member reads the target's row, then, unless  *)
(* the user leaves, the actor's, then soft-deletes the target's.             *)
RemoveFetch(q, u, v) ==
    Start(q, u, [pc |-> "removeTarget", by |-> u, whom |-> v, saw |-> NoRole])

RemoveTarget(q) ==
    LET r == req[q] IN
    /\ r.pc = "removeTarget"
    /\ IF r.whom \in members /\ MayTouch("owner", role[r.whom])
         THEN req' = [req EXCEPT ![q].pc = IF r.by = r.whom THEN "removeSave"
                                                            ELSE "removeActor",
                                 ![q].saw = role[r.whom]]
         ELSE End(q)
    /\ UNCHANGED <<deleted, memberVars, inviteVars>>

RemoveActor(q) ==
    /\ req[q].pc = "removeActor"
    /\ Check(q, CanAdmin(req[q].by) /\ MayTouch(role[req[q].by], req[q].saw), "removeSave")

RemoveSave(q) ==
    /\ req[q].pc = "removeSave"
    /\ ~RowLocked(req[q].whom)
    /\ members' = members \ {req[q].whom}
    /\ End(q)
    /\ UNCHANGED <<deleted, role, inviteVars>>

(* DELETE /invitations/{id}: the view reads the invitation, without a lock;  *)
(* revoke_invitation reads the actor's row and soft-deletes the invitation.  *)
RevokeFetch(q, u, i) ==
    Start(q, u, [pc |-> "revokeRead", by |-> u, inv |-> i, used |-> FALSE])

RevokeRead(q) ==
    LET i == req[q].inv IN
    /\ req[q].pc = "revokeRead"
    /\ IF i \in issued \ revoked
         THEN req' = [req EXCEPT ![q].pc = "revokeActor", ![q].used = i \in accepted]
         ELSE End(q)
    /\ UNCHANGED <<deleted, memberVars, inviteVars>>

RevokeActor(q) ==
    req[q].pc = "revokeActor" /\ Check(q, CanAdmin(req[q].by) /\ ~req[q].used, "revokeSave")

RevokeSave(q) ==
    /\ req[q].pc = "revokeSave"
    /\ ~InviteLocked(req[q].inv)
    /\ revoked' = revoked \cup {req[q].inv}
    /\ End(q)
    /\ UNCHANGED <<deleted, memberVars, issued, to, offered, accepted, expired>>

(* POST /invitations/{token}/accept: accept_invitation locks and checks the  *)
(* invitation and the workspace; a refusal changes nothing.                  *)
AcceptLock(q, u, i) ==
    /\ req[q] = Idle
    /\ ~InviteLocked(i)
    /\ ~WorkspaceLocked
    /\ i \in Pending
    /\ to[i] = u
    /\ ~deleted
    /\ req' = [req EXCEPT ![q] = [pc |-> "acceptRead", by |-> u, inv |-> i, joined |-> FALSE]]
    /\ UNCHANGED <<deleted, memberVars, inviteVars>>

AcceptRead(q) ==
    /\ req[q].pc = "acceptRead"
    /\ req' = [req EXCEPT ![q].pc = "acceptWrite", ![q].joined = req[q].by \in members]
    /\ UNCHANGED <<deleted, memberVars, inviteVars>>

(* The member row is created, or the soft-deleted one revived, unless the    *)
(* user was seen to be a member; the invitation is used up either way.  The  *)
(* row it revives may be locked: the two locks are taken in opposite orders  *)
(* by delete_workspace.                                                      *)
AcceptCommit(q) ==
    LET u == req[q].by
        i == req[q].inv IN
    /\ req[q].pc = "acceptWrite"
    /\ req[q].joined \/ ~RowLocked(u)
    /\ accepted' = accepted \cup {i}
    /\ IF req[q].joined
         THEN UNCHANGED memberVars
         ELSE members' = members \cup {u} /\ role' = [role EXCEPT ![u] = offered[i]]
    /\ End(q)
    /\ UNCHANGED <<deleted, issued, to, offered, revoked, expired>>

(* DELETE /workspaces/{id}: only the owner_id of the fetched row may; the    *)
(* active members are updated in bulk, then the workspace row.               *)
DeleteFetch(q, u) ==
    u = Owner /\ Start(q, u, [pc |-> "deleteMembers", doomed |-> {}])

DeleteMembers(q) ==
    /\ req[q].pc = "deleteMembers"
    /\ \A u \in members : ~RowLocked(u)
    /\ req' = [req EXCEPT ![q].pc = "deleteCommit", ![q].doomed = ToDoom]
    /\ UNCHANGED <<deleted, memberVars, inviteVars>>

DeleteCommit(q) ==
    /\ req[q].pc = "deleteCommit"
    /\ ~WorkspaceLocked
    /\ deleted' = TRUE
    /\ members' = members \ req[q].doomed
    /\ End(q)
    /\ UNCHANGED <<role, inviteVars>>

(* A request fails, or its process dies: its transaction rolls back.         *)
Abort(q) ==
    /\ req[q] # Idle
    /\ End(q)
    /\ UNCHANGED <<deleted, memberVars, inviteVars>>

(* The 48 hours of a pending invitation pass.                                *)
Expire(i) ==
    /\ i \in Pending
    /\ expired' = expired \cup {i}
    /\ UNCHANGED <<deleted, memberVars, issued, to, offered, accepted, revoked, req>>

-----------------------------------------------------------------------------
Begin(q) ==
    \E u \in Users :
        \/ \E v \in Users, r \in Roles : InviteFetch(q, u, v, r) \/ RoleFetch(q, u, v, r)
        \/ \E v \in Users : RemoveFetch(q, u, v)
        \/ \E i \in Invites : RevokeFetch(q, u, i) \/ AcceptLock(q, u, i)
        \/ DeleteFetch(q, u)

Proceed(q) ==
    \/ InviteAdmit(q)  \/ InviteUnique(q) \/ InviteLimit(q) \/ InviteInsert(q)
    \/ RoleActor(q)    \/ RoleTarget(q)   \/ RoleSave(q)
    \/ RemoveTarget(q) \/ RemoveActor(q)  \/ RemoveSave(q)
    \/ RevokeRead(q)   \/ RevokeActor(q)  \/ RevokeSave(q)
    \/ AcceptRead(q)   \/ AcceptCommit(q)
    \/ DeleteMembers(q) \/ DeleteCommit(q)

Next ==
    \/ \E q \in Requests : Begin(q) \/ Proceed(q) \/ Abort(q)
    \/ \E i \in Invites : Expire(i)

Spec == Init /\ [][Next]_vars

-----------------------------------------------------------------------------
(* What a request can be at: one kind of record per endpoint.                *)
AnyRole   == Roles \cup {"owner", NoRole}
InviteReq == [pc : {"inviteAdmit", "inviteUnique", "inviteLimit", "inviteInsert"},
              by : Users, whom : Users, as : Roles, count : Nat]
RoleReq   == [pc : {"roleActor", "roleTarget", "roleSave"},
              by : Users, whom : Users, as : Roles, saw : AnyRole]
RemoveReq == [pc : {"removeTarget", "removeActor", "removeSave"},
              by : Users, whom : Users, saw : AnyRole]
RevokeReq == [pc : {"revokeRead", "revokeActor", "revokeSave"},
              by : Users, inv : Invites, used : BOOLEAN]
AcceptReq == [pc : {"acceptRead", "acceptWrite"},
              by : Users, inv : Invites, joined : BOOLEAN]
DeleteReq == [pc : {"deleteMembers", "deleteCommit"}, doomed : SUBSET Users]
ReqState  == {Idle} \cup InviteReq \cup RoleReq \cup RemoveReq
                    \cup RevokeReq \cup AcceptReq \cup DeleteReq

(* Every variable has its type.                                              *)
TypeOK ==
    /\ deleted \in BOOLEAN
    /\ members \subseteq Users
    /\ role \in [Users -> AnyRole]
    /\ issued \subseteq Invites
    /\ to \in [Invites -> Users]
    /\ offered \in [Invites -> Roles \cup {NoRole}]
    /\ accepted \cup revoked \cup expired \subseteq issued
    /\ req \in [Requests -> ReqState]

(* A workspace that is not deleted always has its owner among its members,   *)
(* and nobody else is one: no role change, removal or re-joining, whatever   *)
(* the roles it read before, takes the role away or gives it out.            *)
OneOwner ==
    ~deleted => Owner \in members /\ \A u \in members : role[u] = "owner" <=> u = Owner

(* Whoever becomes a member, for the first time or again, does so in a step  *)
(* that uses up an invitation addressed to them that is not revoked, and has *)
(* the role it offers.  Rests on the lock accept_invitation takes on it.     *)
JoinsConsumeInvitation ==
    [][\A u \in members' \ members :
          \E i \in accepted' \ accepted :
              to[i] = u /\ i \notin revoked' /\ role'[u] = offered[i]]_vars

(* The rows and the requests together keep the promise of MemberRegister.    *)
Register == INSTANCE MemberRegister WITH
    closed <- deleted,
    rank   <- [u \in Users |-> IF u \in members THEN role[u] ELSE NoRole],
    sent   <- issued,
    offers <- {[id |-> i, to |-> to[i], as |-> offered[i]] :
                   i \in issued \ (accepted \cup revoked)}

(* Every statement is a step, or no step, of the register: no invitation is  *)
(* taken up twice or after its withdrawal; nobody joins a deleted workspace, *)
(* although an acceptance looks at deleted_at long before it writes; nothing *)
(* a stale read decides gives a role to somebody who has left, or takes the  *)
(* owner out.  Rests on the locks accept_invitation takes.                   *)
KeepsRegister == Register!Spec

(* A deletion and an acceptance never wait for each other: although one      *)
(* locks the member rows and then the workspace, and the other the           *)
(* workspace and then a member row, no deletion that has locked its members  *)
(* meets an acceptance about to revive one of those rows.                    *)
NoCrossedLocks ==
    \A p, q \in Requests :
        /\ req[p].pc = "deleteCommit"
        /\ req[q].pc = "acceptWrite" /\ ~req[q].joined
        => req[q].by \notin req[p].doomed

(* There are never more members than the plan allows.                        *)
MembersWithinPlan == Cardinality(members) <= MaxMembers
=============================================================================
