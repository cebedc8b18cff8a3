----------------------------- MODULE ChatRooms -----------------------------
(***************************************************************************)
(* The chat rooms that the members of a workspace of services/core get     *)
(* without asking twice: the team room, created with the workspace and     *)
(* filled by signals of its member rows, and the direct conversations of   *)
(* two members, found or created on request.                               *)
(*                                                                         *)
(* As in WorkspaceMembership, an action is one statement, the writes of a  *)
(* transaction are in its last action, and the locks it holds until then   *)
(* are guards of the others.  What an acceptance, a removal and a deletion *)
(* check before they write is modelled there; here any of them may come.   *)
(***************************************************************************)
EXTENDS Naturals, FiniteSets

CONSTANTS
    Users,       \* user ids, ordered as ORDER BY user_id orders them
    Owner,       \* the user who created the workspace
    Rooms,       \* identities of direct rooms: bounds how many are created
    Requests     \* identities of requests: bounds how many are in progress

ASSUME RoomsAssumption ==
    /\ Users \subseteq Nat \ {0} /\ IsFiniteSet(Users)
    /\ Owner \in Users

VARIABLES
    row,         \* per user, the workspace_members row: none, active or left
    deleted,     \* workspaces.deleted_at is set
    teamOpen,    \* the team room is not soft-deleted
    seat,        \* per user, the row in chat_v2_room_members of the team room
    count,       \* member_count of the team room
    pair,        \* per direct room, its two participants; {} when not created
    closed,      \* direct rooms with is_active = False
    hasLeft,     \* users whose member row was ever soft-deleted (history)
    req          \* per request, where it is and what it has read

teamVars == <<deleted, teamOpen, seat, count>>
roomVars == <<pair, closed>>
vars     == <<row, teamVars, roomVars, hasLeft, req>>

-----------------------------------------------------------------------------
NoUser == 0

Idle == [pc |-> "idle", who |-> NoUser, todo |-> {}, rows |-> {}, with |-> {}, seen |-> 0]

Seated  == {u \in Users : seat[u] = "held"}
Members == {u \in Users : row[u] = "active"}

(* Variants of the definitions below, each with a mistake the code avoids.   *)
NoWorkspaceLock  == FALSE
CallerFirst(q)   == IF req[q].who \in req[q].todo THEN req[q].who
                    ELSE CHOOSE u \in req[q].todo : TRUE
ReleaseEarly(q)  == req' = [req EXCEPT ![q].pc = "dmCreate", ![q].rows = {}]
FreeTheDoomed(q) == [u \in Users |-> IF u \in req[q].rows THEN "freed" ELSE seat[u]]
AnyTwo(u, v)     == TRUE
SeatLost(v)      == [seat EXCEPT ![v] = "freed"]

(* select_for_update joins the invitation and its workspace: an acceptance   *)
(* holds the workspace row to the end of its transaction.                    *)
WorkspaceLocked == \E q \in Requests : req[q].pc \in {"acceptRow", "acceptCount"}

(* Rows that a transaction other than q's has locked.                        *)
LockedFor(q) == UNION {req[r].rows : r \in Requests \ {q}}

(* The row q's ordered SELECT ... FOR UPDATE locks next.                     *)
NextRow(q) == CHOOSE u \in req[q].todo : \A v \in req[q].todo : u <= v

(* The rooms a look-up of q's two participants finds.                        *)
Found(q) == {d \in Rooms \ closed : pair[d] = req[q].with}

(* Nobody talks to themselves.                                               *)
Distinct(u, v) == u # v

(* add_to_team_group is reached by a created row only, not by a revived one. *)
GetsSeat(v) == row[v] = "none"

(* A soft delete fires post_save; remove_from_team_group hangs on post_delete. *)
SeatOfRemoved(v) == seat

(* archive_team_group frees every seat of the room it archives.              *)
FreeAll(q) == [u \in Users |-> IF seat[u] = "held" THEN "freed" ELSE seat[u]]

Finish(q) == req' = [req EXCEPT ![q] = Idle]

-----------------------------------------------------------------------------
(* The workspace, its owner's row and the team room with the owner's seat    *)
(* are committed by one transaction.                                         *)
Init ==
    /\ row = [u \in Users |-> IF u = Owner THEN "active" ELSE "none"]
    /\ deleted = FALSE
    /\ teamOpen = TRUE
    /\ seat = [u \in Users |-> IF u = Owner THEN "held" ELSE "none"]
    /\ count = 1
    /\ pair = [d \in Rooms |-> {}]
    /\ closed = {}
    /\ hasLeft = {}
    /\ req = [q \in Requests |-> Idle]

-----------------------------------------------------------------------------
(* accept_invitation of an invitation to v: the lock, then the row.          *)
AcceptLock(q, v) ==
    /\ req[q] = Idle /\ ~WorkspaceLocked /\ ~deleted
    /\ req' = [req EXCEPT ![q] = [Idle EXCEPT !.pc = "acceptRow", !.who = v]]
    /\ UNCHANGED <<row, teamVars, roomVars, hasLeft>>

(* A member already: only the invitation changes.                            *)
AcceptAgain(q) ==
    /\ req[q].pc = "acceptRow" /\ row[req[q].who] = "active"
    /\ Finish(q)
    /\ UNCHANGED <<row, teamVars, roomVars, hasLeft>>

(* A row that was soft-deleted is saved, and post_save says it was not       *)
(* created: the team room is left as it is.                                  *)
AcceptRevive(q) ==
    LET v == req[q].who IN
    /\ req[q].pc = "acceptRow" /\ row[v] # "none" /\ row[v] # "active"
    /\ row' = [row EXCEPT ![v] = "active"]
    /\ Finish(q)
    /\ UNCHANGED <<teamVars, roomVars, hasLeft>>

(* A new row fires add_to_team_group, which reads the room and its count ... *)
AcceptCreate(q) ==
    /\ req[q].pc = "acceptRow" /\ GetsSeat(req[q].who)
    /\ req' = [req EXCEPT ![q].pc = "acceptCount", ![q].seen = count]
    /\ UNCHANGED <<row, teamVars, roomVars, hasLeft>>

(* ... and saves the seat and the count it read plus one.                    *)
AcceptCommit(q) ==
    LET v == req[q].who IN
    /\ req[q].pc = "acceptCount"
    /\ row' = [row EXCEPT ![v] = "active"]
    /\ IF teamOpen /\ seat[v] = "none"
       THEN /\ seat' = [seat EXCEPT ![v] = "held"]
            /\ count' = req[q].seen + 1
       ELSE UNCHANGED <<seat, count>>
    /\ Finish(q)
    /\ UNCHANGED <<deleted, teamOpen, roomVars, hasLeft>>

-----------------------------------------------------------------------------
(* remove_member: delete() of the model saves deleted_at.                    *)
Remove(v) ==
    /\ v # Owner /\ row[v] = "active" /\ ~deleted
    /\ \A q \in Requests : v \notin req[q].rows
    /\ row' = [row EXCEPT ![v] = "left"]
    /\ hasLeft' = hasLeft \cup {v}
    /\ seat' = SeatOfRemoved(v)
    /\ UNCHANGED <<deleted, teamOpen, count, roomVars, req>>

-----------------------------------------------------------------------------
(* delete_workspace updates the member rows, locking them one after the      *)
(* other in the order the scan meets them, then the workspace, then the room.*)
DeleteFetch(q) ==
    /\ req[q] = Idle /\ ~deleted
    /\ req' = [req EXCEPT ![q] = [Idle EXCEPT !.pc = "delete"]]
    /\ UNCHANGED <<row, teamVars, roomVars, hasLeft>>

DeleteRow(q, v) ==
    /\ req[q].pc = "delete"
    /\ v \in Members \ (req[q].rows \cup LockedFor(q))
    /\ req' = [req EXCEPT ![q].rows = @ \cup {v}]
    /\ UNCHANGED <<row, teamVars, roomVars, hasLeft>>

DeleteRowsDone(q) ==
    /\ req[q].pc = "delete" /\ Members \subseteq req[q].rows
    /\ req' = [req EXCEPT ![q].pc = "deleteCommit"]
    /\ UNCHANGED <<row, teamVars, roomVars, hasLeft>>

DeleteCommit(q) ==
    /\ req[q].pc = "deleteCommit" /\ ~WorkspaceLocked
    /\ row' = [u \in Users |-> IF u \in req[q].rows THEN "left" ELSE row[u]]
    /\ hasLeft' = hasLeft \cup req[q].rows
    /\ deleted' = TRUE
    /\ teamOpen' = FALSE
    /\ seat' = IF teamOpen THEN FreeAll(q) ELSE seat
    /\ Finish(q)
    /\ UNCHANGED <<count, roomVars>>

-----------------------------------------------------------------------------
(* DMCreateView checks both users, and get_or_create_dm_room then locks      *)
(* those of their rows that are still alive, in order of user_id.            *)
DmCheck(q, u, v) ==
    /\ req[q] = Idle /\ Distinct(u, v) /\ ~deleted
    /\ {u, v} \subseteq Members
    /\ req' = [req EXCEPT ![q] = [Idle EXCEPT !.pc = "dmLock", !.who = u,
                                              !.todo = {u, v}, !.with = {u, v}]]
    /\ UNCHANGED <<row, teamVars, roomVars, hasLeft>>

DmLock(q) ==
    /\ req[q].pc = "dmLock" /\ req[q].todo # {}
    /\ LET u == NextRow(q)
       IN /\ u \notin LockedFor(q)
          /\ req' = [req EXCEPT ![q].todo = @ \ {u}, ![q].rows = @ \cup ({u} \cap Members)]
    /\ UNCHANGED <<row, teamVars, roomVars, hasLeft>>

DmExists(q) ==
    /\ req[q].pc = "dmLock" /\ req[q].todo = {} /\ Found(q) # {}
    /\ Finish(q)
    /\ UNCHANGED <<row, teamVars, roomVars, hasLeft>>

(* The look-up found nothing; the locks are kept to the end.                 *)
GoOnToCreate(q) == req' = [req EXCEPT ![q].pc = "dmCreate"]

DmMissing(q) ==
    /\ req[q].pc = "dmLock" /\ req[q].todo = {} /\ Found(q) = {}
    /\ GoOnToCreate(q)
    /\ UNCHANGED <<row, teamVars, roomVars, hasLeft>>

DmCreate(q, d) ==
    /\ req[q].pc = "dmCreate" /\ pair[d] = {}
    /\ pair' = [pair EXCEPT ![d] = req[q].with]
    /\ Finish(q)
    /\ UNCHANGED <<row, teamVars, closed, hasLeft>>

(* archive_room of a direct room.                                            *)
Archive(d) ==
    /\ pair[d] # {} /\ d \notin closed
    /\ closed' = closed \cup {d}
    /\ UNCHANGED <<row, teamVars, pair, hasLeft, req>>

-----------------------------------------------------------------------------
(* q wants a row that r has locked.                                          *)
WaitsFor(q, r) ==
    /\ q # r
    /\ \/ req[q].pc = "dmLock" /\ req[q].todo # {} /\ NextRow(q) \in req[r].rows
       \/ req[q].pc = "delete" /\ (Members \ req[q].rows) \cap req[r].rows # {}

(* PostgreSQL ends one of two transactions that wait for each other.         *)
Abort(q) ==
    /\ \E r \in Requests : WaitsFor(q, r) /\ WaitsFor(r, q)
    /\ Finish(q)
    /\ UNCHANGED <<row, teamVars, roomVars, hasLeft>>

(* Direct rooms that will need an identity: rooms and requests that may make *)
(* one together stay within Rooms.                                           *)
RoomsLeft ==
    Cardinality({d \in Rooms : pair[d] # {}})
        + Cardinality({q \in Requests : req[q].pc \in {"dmLock", "dmCreate"}})
    < Cardinality(Rooms)

Begin(q) ==
    \/ \E v \in Users : AcceptLock(q, v)
    \/ DeleteFetch(q)
    \/ RoomsLeft /\ \E u, v \in Users : DmCheck(q, u, v)

Proceed(q) ==
    \/ AcceptAgain(q) \/ AcceptRevive(q) \/ AcceptCreate(q) \/ AcceptCommit(q)
    \/ \E v \in Users : DeleteRow(q, v)
    \/ DeleteRowsDone(q) \/ DeleteCommit(q)
    \/ DmLock(q) \/ DmExists(q) \/ DmMissing(q)
    \/ \E d \in Rooms : DmCreate(q, d)
    \/ Abort(q)

Next ==
    \/ \E q \in Requests : Begin(q) \/ Proceed(q)
    \/ \E v \in Users : Remove(v)
    \/ \E d \in Rooms : Archive(d)

Spec == Init /\ [][Next]_vars

-----------------------------------------------------------------------------
Pcs == {"idle", "acceptRow", "acceptCount", "delete", "deleteCommit", "dmLock", "dmCreate"}

(* The values each variable may have.                                        *)
TypeOK ==
    /\ row \in [Users -> {"none", "active", "left"}]
    /\ deleted \in BOOLEAN /\ teamOpen \in BOOLEAN
    /\ seat \in [Users -> {"none", "held", "freed"}]
    /\ count \in 0 .. Cardinality(Users)
    /\ pair \in [Rooms -> SUBSET Users]
    /\ \A d \in Rooms : Cardinality(pair[d]) \in {0, 2}
    /\ closed \subseteq Rooms
    /\ hasLeft \subseteq Users
    /\ req \in [Requests -> [pc : Pcs, who : Users \cup {NoUser}, todo : SUBSET Users,
                             rows : SUBSET Users, with : SUBSET Users,
                             seen : 0 .. Cardinality(Users)]]

(* add_to_team_group reads the count of an unlocked room and writes it plus  *)
(* one; yet the count of an open team room is the number of its seats,       *)
(* because acceptances hold the workspace row from before the read to the    *)
(* commit.                                                                   *)
MemberCountIsRight == teamOpen => count = Cardinality(Seated)

(* Whoever is a member of a workspace that is not deleted has a seat in its  *)
(* team room, also after leaving and coming back: add_to_team_group is not   *)
(* called for a revived row, which is right only as long as a removal leaves *)
(* the seat alone.  archive_team_group, when the workspace is deleted, frees *)
(* every seat, whoever left or joined while the deletion collected its rows. *)
SeatsFollowMembers == IF teamOpen THEN Members \subseteq Seated ELSE Seated = {}

(* get_or_create_dm_room: one open direct room for two users, unless both    *)
(* have been removed once: then no row is left to lock, and two requests     *)
(* that had passed the view's check may both create.                         *)
OneDmUnlessBothLeft ==
    \A d, e \in Rooms \ closed :
        d # e /\ pair[d] = pair[e] /\ pair[d] # {} => pair[d] \subseteq hasLeft

(* Two requests for direct rooms never wait for each other: both lock the    *)
(* rows in order of user_id, whoever asks.                                   *)
NoDmDeadlock ==
    \A q, r \in Requests :
        req[q].pc = "dmLock" /\ req[r].pc = "dmLock" => ~(WaitsFor(q, r) /\ WaitsFor(r, q))
=============================================================================
