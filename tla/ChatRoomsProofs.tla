-------------------------- MODULE ChatRoomsProofs --------------------------
(***************************************************************************)
(* ChatRooms for every set of users, rooms and requests: the team room     *)
(* follows the members, its counter its seats, and the requests for direct *)
(* rooms neither wait for each other nor create a room twice.              *)
(***************************************************************************)
EXTENDS ChatRooms, FiniteSetTheorems, TLAPS

Accepting(q) == req[q].pc \in {"acceptRow", "acceptCount"}
Asking(q)    == req[q].pc \in {"dmLock", "dmCreate"}

(* An acceptance is the only one, of a workspace that is not deleted; the    *)
(* count it has read is that of the room, and its user still has no row.     *)
AcceptInv ==
    /\ \A p, q \in Requests : Accepting(p) /\ Accepting(q) => p = q
    /\ \A q \in Requests : Accepting(q) => ~deleted /\ req[q].who \in Users
    /\ \A q \in Requests :
          req[q].pc = "acceptCount" => req[q].seen = count /\ row[req[q].who] = "none"

(* Whoever has a row has a seat, removed or not, and nobody else; all seats  *)
(* are freed with the workspace.                                             *)
TeamInv ==
    /\ teamOpen = ~deleted
    /\ teamOpen => \A u \in Users : seat[u] = IF row[u] = "none" THEN "none" ELSE "held"
    /\ ~teamOpen => \A u \in Users : seat[u] # "held"
    /\ teamOpen => count = Cardinality(Seated)

(* No row is locked twice.  A request for a direct room locks upwards, and   *)
(* has locked, or is going to lock, the row of whoever was never removed.    *)
LockInv ==
    /\ \A p, q \in Requests : p # q => req[p].rows \cap req[q].rows = {}
    /\ \A q \in Requests : Asking(q) =>
          /\ \E u, v \in Users : u # v /\ req[q].with = {u, v}
          /\ req[q].todo \subseteq req[q].with
          /\ \A w \in req[q].with \ hasLeft : row[w] = "active" /\ w \in req[q].todo \cup req[q].rows
    /\ \A q \in Requests : req[q].pc = "dmLock" =>
          \A u \in req[q].rows, v \in req[q].todo : u < v
    /\ \A q \in Requests : req[q].pc = "dmCreate" => req[q].todo = {}

(* A request that is about to create a direct room found none, and none has  *)
(* come since, unless both users have been removed.                          *)
RoomInv ==
    /\ \A q \in Requests : req[q].pc = "dmCreate" =>
          \A d \in Rooms \ closed : pair[d] = req[q].with => pair[d] \subseteq hasLeft
    /\ OneDmUnlessBothLeft

ChatInv == TypeOK /\ AcceptInv /\ TeamInv /\ LockInv /\ RoomInv

-----------------------------------------------------------------------------
(* An ordered SELECT of two rows locks the smaller one first.                *)
LEMMA NextRowIsLeast ==
    ASSUME NEW q \in Requests, NEW u \in Nat, NEW v \in Nat,
           req[q].todo \subseteq {u, v}, req[q].todo # {}
    PROVE  NextRow(q) \in req[q].todo /\ \A w \in req[q].todo : NextRow(q) <= w
<1>1. \E m \in req[q].todo : \A w \in req[q].todo : m <= w
  <2>1. CASE u \in req[q].todo /\ v \in req[q].todo
    <3>1. CASE u <= v  BY <2>1, <3>1
    <3>2. CASE v <= u  BY <2>1, <3>2
    <3> QED  BY <3>1, <3>2
  <2>2. CASE u \notin req[q].todo  BY <2>2
  <2>3. CASE v \notin req[q].todo  BY <2>3
  <2> QED  BY <2>1, <2>2, <2>3
<1> QED  BY <1>1 DEF NextRow

(* The users are numbered.                                                   *)
LEMMA UsersAreNumbers == Users \subseteq Nat /\ 0 \notin Users /\ IsFiniteSet(Users)
BY RoomsAssumption

(* Taking a seat raises the number of seats by one, within the users.        *)
LEMMA SeatTaken ==
    ASSUME NEW v \in Users, seat \in [Users -> {"none", "held", "freed"}], seat[v] # "held",
           seat' = [seat EXCEPT ![v] = "held"]
    PROVE  /\ Cardinality(Seated) \in Nat
           /\ Cardinality(Seated') = Cardinality(Seated) + 1
           /\ Cardinality(Seated') <= Cardinality(Users)
           /\ Cardinality(Users) \in Nat
<1>1. Seated' = Seated \cup {v} /\ v \notin Seated
  BY DEF Seated
<1>2. IsFiniteSet(Seated)
  <2>1. Seated \in SUBSET Users  BY DEF Seated
  <2> QED  BY <2>1, FS_Subset, UsersAreNumbers
<1>3. Seated' \in SUBSET Users  BY DEF Seated
<1> QED  BY <1>1, <1>2, <1>3, FS_AddElement, FS_Subset, FS_CardinalityType, UsersAreNumbers

-----------------------------------------------------------------------------
(* The initial state: the owner alone, with the one seat.                    *)
LEMMA ChatInit == Init => ChatInv
<1> SUFFICES ASSUME Init PROVE ChatInv
  OBVIOUS
<1>1. Owner \in Users /\ Seated = {Owner}
  BY RoomsAssumption DEF Init, Seated
<1>2. Cardinality(Seated) = 1
  BY <1>1, FS_Singleton
<1>3. Cardinality(Users) \in Nat /\ 1 <= Cardinality(Users)
  <2>1. {Owner} \in SUBSET Users  BY <1>1
  <2> QED  BY <2>1, <1>1, <1>2, FS_Subset, FS_CardinalityType, UsersAreNumbers
<1>4. TypeOK
  <2>1. \A d \in Rooms : Cardinality(pair[d]) = 0
    BY FS_EmptySet DEF Init
  <2>2. req \in [Requests -> [pc : Pcs, who : Users \cup {NoUser}, todo : SUBSET Users,
                             rows : SUBSET Users, with : SUBSET Users,
                             seen : 0 .. Cardinality(Users)]]
    BY <1>3 DEF Init, Idle, Pcs
  <2>3. count \in 0 .. Cardinality(Users) /\ pair \in [Rooms -> SUBSET Users]
    BY <1>3 DEF Init
  <2> QED  BY <2>1, <2>2, <2>3 DEF Init, TypeOK
<1>5. AcceptInv
  BY DEF Init, AcceptInv, Accepting, Idle
<1>6. TeamInv
  BY <1>1, <1>2 DEF Init, TeamInv
<1>7. LockInv
  BY DEF Init, LockInv, Asking, Idle
<1>8. RoomInv
  BY DEF Init, RoomInv, OneDmUnlessBothLeft, Idle
<1> QED  BY <1>4, <1>5, <1>6, <1>7, <1>8 DEF ChatInv

-----------------------------------------------------------------------------
Reqs == [pc : Pcs, who : Users \cup {NoUser}, todo : SUBSET Users, rows : SUBSET Users,
         with : SUBSET Users, seen : 0 .. Cardinality(Users)]

Data == <<row, teamVars, roomVars, hasLeft>>

(* A step that changes one request only, to one that neither accepts nor     *)
(* asks for a room and locks no new row.                                     *)
LEMMA RequestEnds ==
    ASSUME ChatInv, NEW q \in Requests, NEW r \in Reqs,
           r.pc \notin {"acceptRow", "acceptCount", "dmLock", "dmCreate"},
           r.rows \cap LockedFor(q) = {},
           req' = [req EXCEPT ![q] = r], UNCHANGED Data
    PROVE  ChatInv'
<1>1. TypeOK'
  BY DEF ChatInv, TypeOK, Reqs, Data, teamVars, roomVars
<1>2. AcceptInv'
  BY DEF ChatInv, TypeOK, Reqs, Data, teamVars, roomVars, AcceptInv, Accepting
<1>3. TeamInv'
  BY DEF ChatInv, Data, teamVars, TeamInv, Seated
<1>4. LockInv'
  BY DEF ChatInv, TypeOK, Reqs, Data, LockInv, Asking, LockedFor
<1>5. RoomInv'
  BY DEF ChatInv, TypeOK, Reqs, Data, roomVars, RoomInv, OneDmUnlessBothLeft
<1> QED  BY <1>1, <1>2, <1>3, <1>4, <1>5 DEF ChatInv

(* A request that is not in progress has a type as well.                     *)
LEMMA IdleIsReq == ChatInv => Idle \in Reqs
BY FS_CardinalityType, UsersAreNumbers DEF Idle, Reqs, Pcs, NoUser

(* A step that makes nobody inactive keeps the order of the locks, if the    *)
(* request that moves is not asking for a room and locks no new row.         *)
LEMMA LocksKeep ==
    ASSUME LockInv, NEW q \in Requests, hasLeft \subseteq hasLeft',
           \A w \in Users : row[w] = "active" => row'[w] = "active",
           \A p \in Requests : p # q => req'[p] = req[p],
           req'[q].rows \subseteq req[q].rows,
           req'[q].pc \notin {"dmLock", "dmCreate"}
    PROVE  LockInv'
<1>1. \A p, r \in Requests : p # r => req'[p].rows \cap req'[r].rows = {}
  <2>1. \A p \in Requests : req'[p].rows \subseteq req[p].rows
    OBVIOUS
  <2> QED  BY <2>1 DEF LockInv
<1>2. \A p \in Requests : Asking(p)' => p # q /\ Asking(p) /\ req'[p] = req[p]
  BY DEF Asking
<1>3. ASSUME NEW p \in Requests, Asking(p)'
      PROVE  /\ \E u, v \in Users : u # v /\ req'[p].with = {u, v}
             /\ req'[p].todo \subseteq req'[p].with
             /\ \A w \in req'[p].with \ hasLeft' :
                  row'[w] = "active" /\ w \in req'[p].todo \cup req'[p].rows
  <2>1. Asking(p) /\ req'[p] = req[p]
    BY <1>2, <1>3
  <2>2. \E u, v \in Users : u # v /\ req[p].with = {u, v}
    BY <2>1 DEF LockInv
  <2>3. \A w \in req[p].with \ hasLeft : row[w] = "active" /\ w \in req[p].todo \cup req[p].rows
    BY <2>1 DEF LockInv
  <2>4. req[p].with \subseteq Users /\ req[p].todo \subseteq req[p].with
    BY <2>1, <2>2 DEF LockInv
  <2> QED  BY <2>1, <2>2, <2>3, <2>4
<1>4. \A p \in Requests : req'[p].pc \in {"dmLock", "dmCreate"} => req'[p] = req[p]
  BY DEF Asking
<1>5. /\ \A p \in Requests : req'[p].pc = "dmLock" =>
             \A u \in req'[p].rows, v \in req'[p].todo : u < v
      /\ \A p \in Requests : req'[p].pc = "dmCreate" => req'[p].todo = {}
  BY <1>4 DEF LockInv
<1> QED  BY <1>1, <1>3, <1>5 DEF LockInv

(* The acceptance takes the workspace row; no other holds it.                *)
LEMMA AcceptLockKeeps ==
    ASSUME ChatInv, NEW q \in Requests, NEW v \in Users, AcceptLock(q, v)
    PROVE  ChatInv'
<1> DEFINE r == [Idle EXCEPT !.pc = "acceptRow", !.who = v]
<1>1. r \in Reqs /\ r.pc = "acceptRow" /\ r.who = v /\ r.rows = {}
  BY IdleIsReq DEF Idle, Reqs, Pcs
<1>2. req' = [req EXCEPT ![q] = r] /\ UNCHANGED Data /\ ~WorkspaceLocked /\ ~deleted
  BY DEF AcceptLock, Data
<1> HIDE DEF r
<1>3. TypeOK'
  BY <1>1, <1>2 DEF ChatInv, TypeOK, Reqs, Data, teamVars, roomVars
<1>4. AcceptInv'
  BY <1>1, <1>2 DEF ChatInv, TypeOK, Data, teamVars, AcceptInv, Accepting, WorkspaceLocked
<1>5. TeamInv'
  BY <1>2 DEF ChatInv, Data, teamVars, TeamInv, Seated
<1>6. LockInv'
  <2>1. req \in [Requests -> Reqs] /\ UNCHANGED <<row, hasLeft>>
    BY <1>2 DEF ChatInv, TypeOK, Reqs, Data
  <2>2. req'[q] = r /\ \A p \in Requests : p # q => req'[p] = req[p]
    BY <1>2, <2>1
  <2> QED  BY <1>1, <2>1, <2>2, LocksKeep DEF ChatInv
<1>7. RoomInv'
  BY <1>1, <1>2 DEF ChatInv, TypeOK, Data, roomVars, RoomInv, OneDmUnlessBothLeft
<1> QED  BY <1>3, <1>4, <1>5, <1>6, <1>7 DEF ChatInv

(* The count is read under that lock.                                        *)
LEMMA AcceptCreateKeeps ==
    ASSUME ChatInv, NEW q \in Requests, AcceptCreate(q)
    PROVE  ChatInv'
<1>1. /\ req' = [req EXCEPT ![q].pc = "acceptCount", ![q].seen = count]
      /\ UNCHANGED Data /\ req[q].pc = "acceptRow" /\ row[req[q].who] = "none"
  BY DEF AcceptCreate, Data, GetsSeat
<1>2. TypeOK'
  <2>1. req \in [Requests -> Reqs] /\ count \in 0 .. Cardinality(Users)
    BY DEF ChatInv, TypeOK, Reqs
  <2>2. req' \in [Requests -> Reqs]
    <3>1. [req[q] EXCEPT !.pc = "acceptCount", !.seen = count] \in Reqs
      <4>1. req[q] \in Reqs /\ "acceptCount" \in Pcs
        BY <2>1 DEF Pcs
      <4> QED  BY <2>1, <4>1 DEF Reqs
    <3>2. req' = [req EXCEPT ![q] = [req[q] EXCEPT !.pc = "acceptCount", !.seen = count]]
      BY <1>1
    <3> QED  BY <2>1, <3>1, <3>2
  <2> QED  BY <1>1, <2>2 DEF ChatInv, TypeOK, Reqs, Data, teamVars, roomVars
<1>3. AcceptInv'
  <2>1. /\ req'[q].pc = "acceptCount" /\ req'[q].seen = count /\ req'[q].who = req[q].who
        /\ \A p \in Requests : p # q => req'[p] = req[p]
    BY <1>1 DEF ChatInv, TypeOK, Reqs
  <2>2. UNCHANGED <<row, count, deleted>>
    BY <1>1 DEF Data, teamVars
  <2>3. \A p \in Requests : Accepting(p)' <=> Accepting(p)
    BY <1>1, <2>1 DEF Accepting
  <2>4. \A p \in Requests : req'[p].who = req[p].who
    BY <2>1
  <2>5. \A p \in Requests : req'[p].pc = "acceptCount" =>
           req'[p].seen = count /\ row[req[p].who] = "none"
    BY <1>1, <2>1 DEF ChatInv, AcceptInv
  <2> QED  BY <2>2, <2>3, <2>4, <2>5 DEF ChatInv, AcceptInv
<1>4. TeamInv'
  BY <1>1 DEF ChatInv, Data, teamVars, TeamInv, Seated
<1>5. LockInv'
  <2>1. req \in [Requests -> Reqs] /\ UNCHANGED <<row, hasLeft>>
    BY <1>1 DEF ChatInv, TypeOK, Reqs, Data
  <2>2. /\ req'[q].pc = "acceptCount" /\ req'[q].rows = req[q].rows
        /\ \A p \in Requests : p # q => req'[p] = req[p]
    BY <1>1, <2>1 DEF Reqs
  <2> QED  BY <2>1, <2>2, LocksKeep DEF ChatInv
<1>6. RoomInv'
  BY <1>1 DEF ChatInv, TypeOK, Data, roomVars, RoomInv, OneDmUnlessBothLeft
<1> QED  BY <1>2, <1>3, <1>4, <1>5, <1>6 DEF ChatInv

(* A member comes back, to the seat that the removal left alone.             *)
LEMMA AcceptReviveKeeps ==
    ASSUME ChatInv, NEW q \in Requests, AcceptRevive(q)
    PROVE  ChatInv'
<1> DEFINE v == req[q].who
<1>1. /\ req' = [req EXCEPT ![q] = Idle] /\ row' = [row EXCEPT ![v] = "active"]
      /\ UNCHANGED <<deleted, teamOpen, seat, count, pair, closed, hasLeft>>
      /\ req[q].pc = "acceptRow" /\ row[v] # "none"
  BY DEF AcceptRevive, Finish, teamVars, roomVars
<1>2. Idle \in Reqs /\ Idle.pc = "idle" /\ Idle.rows = {}
  BY IdleIsReq DEF Idle
<1>3. v \in Users /\ req \in [Requests -> Reqs]
  BY <1>1 DEF ChatInv, AcceptInv, Accepting, TypeOK, Reqs
<1> HIDE DEF v
<1>4. TypeOK'
  BY <1>1, <1>2, <1>3 DEF ChatInv, TypeOK, Reqs
<1>5. AcceptInv'
  BY <1>1, <1>2, <1>3 DEF ChatInv, TypeOK, AcceptInv, Accepting
<1>6. TeamInv'
  BY <1>1, <1>3 DEF ChatInv, TypeOK, TeamInv, Seated
<1>7. LockInv'
  <2>1. /\ req'[q] = Idle /\ \A p \in Requests : p # q => req'[p] = req[p]
        /\ \A w \in Users : row[w] = "active" => row'[w] = "active"
    BY <1>1, <1>3 DEF ChatInv, TypeOK
  <2> QED  BY <1>1, <1>2, <2>1, LocksKeep DEF ChatInv
<1>8. RoomInv'
  BY <1>1, <1>2, <1>3 DEF ChatInv, RoomInv, OneDmUnlessBothLeft
<1> QED  BY <1>4, <1>5, <1>6, <1>7, <1>8 DEF ChatInv

(* A new member takes a seat, and the count read is still the right one.     *)
LEMMA AcceptCommitKeeps ==
    ASSUME ChatInv, NEW q \in Requests, AcceptCommit(q)
    PROVE  ChatInv'
<1> DEFINE v == req[q].who
<1>1. /\ req' = [req EXCEPT ![q] = Idle] /\ row' = [row EXCEPT ![v] = "active"]
      /\ UNCHANGED <<deleted, teamOpen, pair, closed, hasLeft>>
      /\ req[q].pc = "acceptCount"
  BY DEF AcceptCommit, Finish, roomVars
<1>2. Idle \in Reqs /\ Idle.pc = "idle" /\ Idle.rows = {}
  BY IdleIsReq DEF Idle
<1>3. /\ v \in Users /\ req \in [Requests -> Reqs] /\ req[q].seen = count
      /\ row[v] = "none" /\ teamOpen
  BY <1>1 DEF ChatInv, AcceptInv, Accepting, TypeOK, Reqs, TeamInv
<1>4. /\ seat[v] = "none" /\ seat' = [seat EXCEPT ![v] = "held"] /\ count' = count + 1
      /\ seat \in [Users -> {"none", "held", "freed"}]
  BY <1>3 DEF ChatInv, TypeOK, TeamInv, AcceptCommit
<1>5. /\ Cardinality(Seated) \in Nat /\ Cardinality(Users) \in Nat
      /\ Cardinality(Seated') = Cardinality(Seated) + 1
      /\ Cardinality(Seated') <= Cardinality(Users)
  BY <1>3, <1>4, SeatTaken
<1>6. count = Cardinality(Seated)
  BY <1>3 DEF ChatInv, TeamInv
<1> HIDE DEF v
<1>7. TypeOK'
  <2>1. count' \in 0 .. Cardinality(Users)  BY <1>4, <1>5, <1>6
  <2>2. seat' \in [Users -> {"none", "held", "freed"}]  BY <1>4
  <2> QED  BY <1>1, <1>2, <1>3, <2>1, <2>2 DEF ChatInv, TypeOK, Reqs
<1>8. AcceptInv'
  BY <1>1, <1>2, <1>3 DEF ChatInv, TypeOK, AcceptInv, Accepting
<1>9. TeamInv'
  BY <1>1, <1>3, <1>4, <1>5, <1>6 DEF ChatInv, TypeOK, TeamInv
<1>10. LockInv'
  <2>1. /\ req'[q] = Idle /\ \A p \in Requests : p # q => req'[p] = req[p]
        /\ \A w \in Users : row[w] = "active" => row'[w] = "active"
    BY <1>1, <1>3 DEF ChatInv, TypeOK
  <2> QED  BY <1>1, <1>2, <2>1, LocksKeep DEF ChatInv
<1>11. RoomInv'
  BY <1>1, <1>2, <1>3 DEF ChatInv, RoomInv, OneDmUnlessBothLeft
<1> QED  BY <1>7, <1>8, <1>9, <1>10, <1>11 DEF ChatInv

(* A removal takes the row of a member that no transaction has locked.       *)
LEMMA RemoveKeeps ==
    ASSUME ChatInv, NEW v \in Users, Remove(v)
    PROVE  ChatInv'
<1>1. /\ row' = [row EXCEPT ![v] = "left"] /\ row[v] = "active"
      /\ hasLeft' = hasLeft \cup {v}
      /\ UNCHANGED <<deleted, teamOpen, seat, count, pair, closed, req>>
      /\ \A q \in Requests : v \notin req[q].rows
  BY DEF Remove, SeatOfRemoved, roomVars
<1>2. TypeOK'
  BY <1>1 DEF ChatInv, TypeOK
<1>3. AcceptInv'
  BY <1>1 DEF ChatInv, TypeOK, AcceptInv, Accepting
<1>4. TeamInv'
  BY <1>1 DEF ChatInv, TypeOK, TeamInv, Seated
<1>5. LockInv'
  BY <1>1 DEF ChatInv, TypeOK, LockInv, Asking
<1>6. RoomInv'
  BY <1>1 DEF ChatInv, RoomInv, OneDmUnlessBothLeft
<1> QED  BY <1>2, <1>3, <1>4, <1>5, <1>6 DEF ChatInv

(* The deletion closes the team room; no acceptance is in progress.          *)
LEMMA DeleteCommitKeeps ==
    ASSUME ChatInv, NEW q \in Requests, DeleteCommit(q)
    PROVE  ChatInv'
<1>1. /\ row' = [u \in Users |-> IF u \in req[q].rows THEN "left" ELSE row[u]]
      /\ hasLeft' = hasLeft \cup req[q].rows
      /\ deleted' = TRUE /\ teamOpen' = FALSE
      /\ seat' = IF teamOpen THEN FreeAll(q) ELSE seat
      /\ req' = [req EXCEPT ![q] = Idle]
      /\ UNCHANGED <<count, pair, closed>>
      /\ ~WorkspaceLocked
  BY DEF DeleteCommit, Finish, roomVars
<1>2. Idle \in Reqs /\ Idle.pc = "idle" /\ Idle.rows = {}
  BY IdleIsReq DEF Idle
<1>3. req \in [Requests -> Reqs] /\ req[q].rows \subseteq Users
  BY DEF ChatInv, TypeOK, Reqs
<1>4. TypeOK'
  BY <1>1, <1>2, <1>3 DEF ChatInv, TypeOK, Reqs, FreeAll
<1>5. AcceptInv'
  BY <1>1, <1>2, <1>3 DEF AcceptInv, Accepting, WorkspaceLocked
<1>6. TeamInv'
  BY <1>1 DEF ChatInv, TypeOK, TeamInv, Seated, FreeAll
<1>7. LockInv'
  <2>1. req'[q] = Idle /\ \A p \in Requests : p # q => req'[p] = req[p]
    BY <1>1, <1>3
  <2>2. \A p, r \in Requests : p # r => req'[p].rows \cap req'[r].rows = {}
    BY <1>2, <2>1 DEF ChatInv, LockInv
  <2>3. \A p \in Requests : Asking(p)' => p # q /\ Asking(p) /\ req'[p] = req[p]
    BY <1>2, <2>1 DEF Asking
  <2>4. ASSUME NEW p \in Requests, Asking(p)'
        PROVE  /\ \E u, v \in Users : u # v /\ req'[p].with = {u, v}
               /\ req'[p].todo \subseteq req'[p].with
               /\ \A w \in req'[p].with \ hasLeft' :
                    row'[w] = "active" /\ w \in req'[p].todo \cup req'[p].rows
    <3>1. Asking(p) /\ req'[p] = req[p]
      BY <2>3, <2>4
    <3>2. /\ \E u, v \in Users : u # v /\ req[p].with = {u, v}
          /\ req[p].todo \subseteq req[p].with
          /\ \A w \in req[p].with \ hasLeft : row[w] = "active" /\ w \in req[p].todo \cup req[p].rows
      BY <3>1 DEF ChatInv, LockInv
    <3>3. \A w \in Users \ hasLeft' : row'[w] = row[w] /\ w \notin hasLeft
      BY <1>1
    <3>4. req[p].with \subseteq Users
      BY <3>2
    <3> QED  BY <3>1, <3>2, <3>3, <3>4
  <2>5. \A p \in Requests : req'[p].pc \in {"dmLock", "dmCreate"} => req'[p] = req[p]
    BY <2>3 DEF Asking
  <2>6. /\ \A p \in Requests : req'[p].pc = "dmLock" =>
               \A u \in req'[p].rows, v \in req'[p].todo : u < v
        /\ \A p \in Requests : req'[p].pc = "dmCreate" => req'[p].todo = {}
    BY <2>5 DEF ChatInv, LockInv
  <2> QED  BY <2>2, <2>4, <2>6 DEF LockInv
<1>8. RoomInv'
  BY <1>1, <1>2, <1>3 DEF ChatInv, RoomInv, OneDmUnlessBothLeft
<1> QED  BY <1>4, <1>5, <1>6, <1>7, <1>8 DEF ChatInv

(* A direct room that is archived is no longer found.                        *)
LEMMA ArchiveKeeps ==
    ASSUME ChatInv, NEW d \in Rooms, Archive(d)
    PROVE  ChatInv'
<1>1. closed' = closed \cup {d} /\ UNCHANGED <<row, deleted, teamOpen, seat, count, pair, hasLeft, req>>
  BY DEF Archive, teamVars
<1>2. TypeOK' /\ AcceptInv' /\ TeamInv' /\ LockInv'
  BY <1>1 DEF ChatInv, TypeOK, AcceptInv, Accepting, TeamInv, Seated, LockInv, Asking
<1>3. RoomInv'
  BY <1>1 DEF ChatInv, RoomInv, OneDmUnlessBothLeft
<1> QED  BY <1>2, <1>3 DEF ChatInv

(* A request that is over.                                                   *)
LEMMA FinishKeeps ==
    ASSUME ChatInv, NEW q \in Requests, Finish(q), UNCHANGED Data
    PROVE  ChatInv'
<1>1. Idle \in Reqs /\ Idle.pc = "idle" /\ Idle.rows = {}
  BY IdleIsReq DEF Idle
<1> QED  BY <1>1, RequestEnds DEF Finish

(* A deletion begins.                                                        *)
LEMMA DeleteFetchKeeps ==
    ASSUME ChatInv, NEW q \in Requests, DeleteFetch(q)
    PROVE  ChatInv'
<1> DEFINE r == [Idle EXCEPT !.pc = "delete"]
<1>1. r \in Reqs /\ r.pc = "delete" /\ r.rows = {}
  BY IdleIsReq DEF Idle, Reqs, Pcs
<1>2. req' = [req EXCEPT ![q] = r] /\ UNCHANGED Data
  BY DEF DeleteFetch, Data
<1> HIDE DEF r
<1> QED  BY <1>1, <1>2, RequestEnds

(* A deletion locks a row that nobody has locked.                            *)
LEMMA DeleteRowKeeps ==
    ASSUME ChatInv, NEW q \in Requests, NEW v \in Users, DeleteRow(q, v)
    PROVE  ChatInv'
<1> DEFINE r == [req[q] EXCEPT !.rows = @ \cup {v}]
<1>1. req \in [Requests -> Reqs]
  BY DEF ChatInv, TypeOK, Reqs
<1>2. r \in Reqs /\ r.pc = "delete" /\ r.rows = req[q].rows \cup {v}
  BY <1>1 DEF DeleteRow, Reqs
<1>3. req[q].rows \cap LockedFor(q) = {} /\ v \notin LockedFor(q)
  BY DEF ChatInv, LockInv, LockedFor, DeleteRow
<1>4. req' = [req EXCEPT ![q] = r] /\ UNCHANGED Data
  BY DEF DeleteRow, Data
<1> HIDE DEF r
<1> QED  BY <1>2, <1>3, <1>4, RequestEnds

(* A deletion has met every row.                                             *)
LEMMA DeleteRowsDoneKeeps ==
    ASSUME ChatInv, NEW q \in Requests, DeleteRowsDone(q)
    PROVE  ChatInv'
<1> DEFINE r == [req[q] EXCEPT !.pc = "deleteCommit"]
<1>1. req \in [Requests -> Reqs]
  BY DEF ChatInv, TypeOK, Reqs
<1>2. r \in Reqs /\ r.pc = "deleteCommit" /\ r.rows = req[q].rows
  BY <1>1 DEF Reqs, Pcs
<1>3. req[q].rows \cap LockedFor(q) = {}
  BY DEF ChatInv, LockInv, LockedFor
<1>4. req' = [req EXCEPT ![q] = r] /\ UNCHANGED Data
  BY DEF DeleteRowsDone, Data
<1> HIDE DEF r
<1> QED  BY <1>2, <1>3, <1>4, RequestEnds

-----------------------------------------------------------------------------
(* What a step that changes one request, and nothing else, leaves true       *)
(* whatever the request becomes.                                             *)
LEMMA RequestMoves ==
    ASSUME ChatInv, NEW q \in Requests, NEW r \in Reqs,
           r.pc \notin {"acceptRow", "acceptCount"},
           req' = [req EXCEPT ![q] = r], UNCHANGED Data
    PROVE  TypeOK' /\ AcceptInv' /\ TeamInv'
<1>1. TypeOK'
  BY DEF ChatInv, TypeOK, Reqs, Data, teamVars, roomVars
<1>2. AcceptInv'
  BY DEF ChatInv, TypeOK, Reqs, Data, teamVars, roomVars, AcceptInv, Accepting
<1>3. TeamInv'
  BY DEF ChatInv, Data, teamVars, TeamInv, Seated
<1> QED  BY <1>1, <1>2, <1>3

(* Two members, who have not been removed as long as neither is in hasLeft.  *)
LEMMA DmCheckKeeps ==
    ASSUME ChatInv, NEW q \in Requests, NEW u \in Users, NEW v \in Users, DmCheck(q, u, v)
    PROVE  ChatInv'
<1> DEFINE r == [Idle EXCEPT !.pc = "dmLock", !.who = u, !.todo = {u, v}, !.with = {u, v}]
<1>1. /\ r \in Reqs /\ r.pc = "dmLock" /\ r.rows = {}
      /\ r.todo = {u, v} /\ r.with = {u, v}
  BY IdleIsReq DEF Idle, Reqs, Pcs
<1>2. /\ req' = [req EXCEPT ![q] = r] /\ UNCHANGED Data
      /\ u # v /\ row[u] = "active" /\ row[v] = "active"
  BY DEF DmCheck, Data, Distinct, Members
<1> HIDE DEF r
<1>3. TypeOK' /\ AcceptInv' /\ TeamInv'
  BY <1>1, <1>2, RequestMoves
<1>4. LockInv'
  BY <1>1, <1>2 DEF ChatInv, TypeOK, Data, LockInv, Asking
<1>5. RoomInv'
  BY <1>1, <1>2 DEF ChatInv, TypeOK, Data, roomVars, RoomInv, OneDmUnlessBothLeft
<1> QED  BY <1>3, <1>4, <1>5 DEF ChatInv

(* The next row of a request that asks is its least one.                     *)
LEMMA NextRowOfPair ==
    ASSUME ChatInv, NEW q \in Requests, req[q].pc = "dmLock", req[q].todo # {}
    PROVE  NextRow(q) \in req[q].todo /\ \A w \in req[q].todo : NextRow(q) <= w
<1>1. PICK u \in Users, v \in Users : req[q].with = {u, v} /\ req[q].todo \subseteq {u, v}
  BY DEF ChatInv, LockInv, Asking
<1>2. u \in Nat /\ v \in Nat
  BY UsersAreNumbers
<1> QED  BY <1>1, <1>2, NextRowIsLeast

(* The least row is locked, if it is still alive.                            *)
LEMMA DmLockKeeps ==
    ASSUME ChatInv, NEW q \in Requests, DmLock(q)
    PROVE  ChatInv'
<1> DEFINE n == NextRow(q)
           r == [req[q] EXCEPT !.todo = @ \ {n}, !.rows = @ \cup ({n} \cap Members)]
<1>1. req \in [Requests -> Reqs]
  BY DEF ChatInv, TypeOK, Reqs
<1>2. req[q].pc = "dmLock" /\ req[q].todo # {} /\ n \notin LockedFor(q)
  BY DEF DmLock
<1>3. n \in req[q].todo /\ \A w \in req[q].todo : n <= w
  BY <1>2, NextRowOfPair
<1>4. req[q].todo \subseteq Users /\ req[q].rows \subseteq Users
  BY <1>1 DEF Reqs
<1> HIDE DEF n
<1>5. /\ r \in Reqs /\ r.pc = "dmLock" /\ r.with = req[q].with
      /\ r.todo = req[q].todo \ {n} /\ r.rows = req[q].rows \cup ({n} \cap Members)
  BY <1>1, <1>2, <1>3, <1>4 DEF Reqs
<1>6. req' = [req EXCEPT ![q] = r] /\ UNCHANGED Data
  BY DEF DmLock, Data, n
<1> HIDE DEF r
<1>7. TypeOK' /\ AcceptInv' /\ TeamInv'
  BY <1>5, <1>6, RequestMoves
<1>8. LockInv'
  <2>1. \A p \in Requests : p # q => req[p].rows \cap r.rows = {}
    BY <1>2, <1>5 DEF ChatInv, LockInv, LockedFor
  <2>2. \A w \in r.with \ hasLeft : row[w] = "active" /\ w \in r.todo \cup r.rows
    <3>1. \A w \in r.with \ hasLeft :
             row[w] = "active" /\ w \in req[q].todo \cup req[q].rows
      BY <1>2, <1>5 DEF ChatInv, LockInv, Asking
    <3>2. row[n] = "active" => n \in Members
      BY <1>3, <1>4 DEF Members
    <3> QED  BY <1>5, <3>1, <3>2
  <2>3. \A w \in r.rows, x \in r.todo : w < x
    <3>1. \A w \in req[q].rows, x \in req[q].todo : w < x
      BY <1>2 DEF ChatInv, LockInv
    <3>2. \A x \in r.todo : n < x
      <4>1. req[q].todo \subseteq Nat /\ n \in Nat
        BY <1>3, <1>4, UsersAreNumbers
      <4> QED  BY <1>3, <1>5, <4>1
    <3> QED  BY <1>5, <3>1, <3>2
  <2>4. /\ \E u, v \in Users : u # v /\ r.with = {u, v}
        /\ r.todo \subseteq r.with
    BY <1>2, <1>5 DEF ChatInv, LockInv, Asking
  <2> QED  BY <1>1, <1>5, <1>6, <2>1, <2>2, <2>3, <2>4 DEF ChatInv, Data, LockInv, Asking
<1>9. RoomInv'
  BY <1>1, <1>5, <1>6 DEF ChatInv, Data, roomVars, RoomInv, OneDmUnlessBothLeft
<1> QED  BY <1>7, <1>8, <1>9 DEF ChatInv

(* The look-up found no open room of the two.                                *)
LEMMA DmMissingKeeps ==
    ASSUME ChatInv, NEW q \in Requests, DmMissing(q)
    PROVE  ChatInv'
<1> DEFINE r == [req[q] EXCEPT !.pc = "dmCreate"]
<1>1. req \in [Requests -> Reqs]
  BY DEF ChatInv, TypeOK, Reqs
<1>2. /\ r \in Reqs /\ r.pc = "dmCreate" /\ r.with = req[q].with
      /\ r.todo = req[q].todo /\ r.rows = req[q].rows
  BY <1>1 DEF Reqs, Pcs
<1>3. /\ req' = [req EXCEPT ![q] = r] /\ UNCHANGED Data
      /\ req[q].pc = "dmLock" /\ req[q].todo = {} /\ Found(q) = {}
  BY DEF DmMissing, GoOnToCreate, Data
<1> HIDE DEF r
<1>4. TypeOK' /\ AcceptInv' /\ TeamInv'
  BY <1>2, <1>3, RequestMoves
<1>5. LockInv'
  BY <1>1, <1>2, <1>3 DEF ChatInv, Data, LockInv, Asking
<1>6. RoomInv'
  BY <1>1, <1>2, <1>3 DEF ChatInv, Data, roomVars, RoomInv, OneDmUnlessBothLeft, Found
<1> QED  BY <1>4, <1>5, <1>6 DEF ChatInv

(* Another request that is about to create the same room has locked the rows *)
(* of the two users, if there were rows to lock.                             *)
LEMMA DmCreateKeeps ==
    ASSUME ChatInv, NEW q \in Requests, NEW d \in Rooms, DmCreate(q, d)
    PROVE  ChatInv'
<1>1. /\ req[q].pc = "dmCreate" /\ pair[d] = {}
      /\ pair' = [pair EXCEPT ![d] = req[q].with]
      /\ req' = [req EXCEPT ![q] = Idle]
      /\ UNCHANGED <<row, deleted, teamOpen, seat, count, closed, hasLeft>>
  BY DEF DmCreate, Finish, teamVars
<1>2. Idle \in Reqs /\ Idle.pc = "idle" /\ Idle.rows = {}
  BY IdleIsReq DEF Idle
<1>3. req \in [Requests -> Reqs] /\ pair \in [Rooms -> SUBSET Users]
  BY DEF ChatInv, TypeOK, Reqs
<1>4. PICK u \in Users, v \in Users : u # v /\ req[q].with = {u, v}
  BY <1>1 DEF ChatInv, LockInv, Asking
<1>5. Cardinality(req[q].with) = 2
  <2>1. Cardinality({u}) = 1 /\ IsFiniteSet({u})
    BY FS_Singleton
  <2>2. Cardinality({u} \cup {v}) = Cardinality({u}) + 1
    BY <1>4, <2>1, FS_AddElement
  <2>3. req[q].with = {u} \cup {v}
    BY <1>4
  <2> QED  BY <2>1, <2>2, <2>3
<1>6. \A p \in Requests : p # q /\ req[p].pc = "dmCreate" /\ req[p].with = req[q].with
                             => req[q].with \subseteq hasLeft
  BY <1>1 DEF ChatInv, LockInv, Asking
<1>7. TypeOK'
  <2>1. pair' \in [Rooms -> SUBSET Users]
    BY <1>1, <1>3, <1>4
  <2>2. \A e \in Rooms : Cardinality(pair'[e]) \in {0, 2}
    BY <1>1, <1>3, <1>5 DEF ChatInv, TypeOK
  <2> QED  BY <1>1, <1>2, <1>3, <2>1, <2>2 DEF ChatInv, TypeOK, Reqs
<1>8. AcceptInv'
  BY <1>1, <1>2, <1>3 DEF ChatInv, AcceptInv, Accepting
<1>9. TeamInv'
  BY <1>1 DEF ChatInv, TeamInv, Seated
<1>10. LockInv'
  BY <1>1, <1>2, <1>3 DEF ChatInv, LockInv, Asking
<1>11. RoomInv'
  <2>1. \A p \in Requests : req'[p].pc = "dmCreate" =>
           \A e \in Rooms \ closed : pair'[e] = req'[p].with => pair'[e] \subseteq hasLeft
    BY <1>1, <1>2, <1>3, <1>6 DEF ChatInv, RoomInv
  <2>2. \A e \in Rooms \ closed : e # d /\ pair[e] = req[q].with => pair[e] \subseteq hasLeft
    BY <1>1 DEF ChatInv, RoomInv
  <2>3. OneDmUnlessBothLeft'
    BY <1>1, <1>3, <2>2 DEF ChatInv, RoomInv, OneDmUnlessBothLeft
  <2> QED  BY <1>1, <2>1, <2>3 DEF RoomInv
<1> QED  BY <1>7, <1>8, <1>9, <1>10, <1>11 DEF ChatInv

-----------------------------------------------------------------------------
(* Every step keeps the invariant.                                           *)
LEMMA ChatNext == ChatInv /\ [Next]_vars => ChatInv'
<1> SUFFICES ASSUME ChatInv, [Next]_vars PROVE ChatInv'
  OBVIOUS
<1>1. ASSUME NEW q \in Requests, Begin(q) PROVE ChatInv'
  BY <1>1, AcceptLockKeeps, DeleteFetchKeeps, DmCheckKeeps DEF Begin
<1>2. ASSUME NEW q \in Requests, Proceed(q) PROVE ChatInv'
  <2>1. CASE AcceptAgain(q)
    BY <2>1, FinishKeeps DEF AcceptAgain, Data
  <2>2. CASE AcceptRevive(q) \/ AcceptCreate(q) \/ AcceptCommit(q)
    BY <2>2, AcceptReviveKeeps, AcceptCreateKeeps, AcceptCommitKeeps
  <2>3. CASE \E v \in Users : DeleteRow(q, v)
    BY <2>3, DeleteRowKeeps
  <2>4. CASE DeleteRowsDone(q) \/ DeleteCommit(q)
    BY <2>4, DeleteRowsDoneKeeps, DeleteCommitKeeps
  <2>5. CASE DmLock(q) \/ DmMissing(q) \/ \E d \in Rooms : DmCreate(q, d)
    BY <2>5, DmLockKeeps, DmMissingKeeps, DmCreateKeeps
  <2>6. CASE DmExists(q)
    BY <2>6, FinishKeeps DEF DmExists, Data
  <2>7. CASE Abort(q)
    BY <2>7, FinishKeeps DEF Abort, Data
  <2> QED  BY <1>2, <2>1, <2>2, <2>3, <2>4, <2>5, <2>6, <2>7 DEF Proceed
<1>3. CASE UNCHANGED vars
  <2>1. TypeOK' /\ AcceptInv'
    BY <1>3 DEF vars, teamVars, roomVars, ChatInv, TypeOK, AcceptInv, Accepting
  <2>2. TeamInv'
    BY <1>3 DEF vars, teamVars, ChatInv, TeamInv, Seated
  <2>3. LockInv'
    BY <1>3 DEF vars, ChatInv, LockInv, Asking
  <2>4. RoomInv'
    BY <1>3 DEF vars, roomVars, ChatInv, RoomInv, OneDmUnlessBothLeft
  <2> QED  BY <2>1, <2>2, <2>3, <2>4 DEF ChatInv
<1> QED  BY <1>1, <1>2, <1>3, RemoveKeeps, ArchiveKeeps DEF Next

(* The invariant holds of the specification.                                 *)
LEMMA ChatInvariant == Spec => []ChatInv
BY ChatInit, ChatNext, PTL DEF Spec

(* Every variable of the chat rooms keeps its type; in particular the count  *)
(* never exceeds the number of users, and a direct room has two users.       *)
THEOREM ChatTypeCorrect == Spec => []TypeOK
<1>1. ChatInv => TypeOK  BY DEF ChatInv
<1> QED  BY <1>1, ChatInvariant, PTL

(* However many acceptances, removals and deletions are in progress, the     *)
(* member_count that add_to_team_group writes is the number of seats.        *)
THEOREM CountIsRight == Spec => []MemberCountIsRight
<1>1. ChatInv => MemberCountIsRight  BY DEF ChatInv, TeamInv, MemberCountIsRight
<1> QED  BY <1>1, ChatInvariant, PTL

(* A member of a live workspace has a seat in the team room, and nobody has  *)
(* one once delete_workspace has archived it.                                *)
THEOREM SeatsFollow == Spec => []SeatsFollowMembers
<1>1. ChatInv => SeatsFollowMembers
  BY DEF ChatInv, TeamInv, SeatsFollowMembers, Members, Seated
<1> QED  BY <1>1, ChatInvariant, PTL

(* get_or_create_dm_room opens one room for two users, whoever asks and how  *)
(* often at once, unless both have been removed from the workspace.          *)
THEOREM OneConversation == Spec => []OneDmUnlessBothLeft
<1>1. ChatInv => OneDmUnlessBothLeft  BY DEF ChatInv, RoomInv
<1> QED  BY <1>1, ChatInvariant, PTL

(* The row a request wants comes after all it holds; two requests for direct *)
(* rooms that waited for each other would hold each other's next row.        *)
LEMMA LocksGoUp == ChatInv => NoDmDeadlock
<1> SUFFICES ASSUME ChatInv, NEW q \in Requests, NEW r \in Requests,
                    req[q].pc = "dmLock", req[r].pc = "dmLock",
                    WaitsFor(q, r), WaitsFor(r, q)
             PROVE  FALSE
  BY DEF NoDmDeadlock
<1>1. /\ req[q].todo # {} /\ NextRow(q) \in req[r].rows
      /\ req[r].todo # {} /\ NextRow(r) \in req[q].rows
  BY DEF WaitsFor
<1>2. NextRow(q) \in req[q].todo /\ NextRow(r) \in req[r].todo
  BY <1>1, NextRowOfPair
<1>3. NextRow(r) < NextRow(q) /\ NextRow(q) < NextRow(r)
  BY <1>1, <1>2 DEF ChatInv, LockInv
<1>4. NextRow(q) \in Nat /\ NextRow(r) \in Nat
  BY <1>2, UsersAreNumbers DEF ChatInv, TypeOK
<1> QED  BY <1>3, <1>4

(* Two requests for direct rooms never wait for each other.                  *)
THEOREM NoDeadlock == Spec => []NoDmDeadlock
BY LocksGoUp, ChatInvariant, PTL

-----------------------------------------------------------------------------
(* However many requests for direct rooms wait, they do not wait in a circle *)
(* of their own: one of them waits for none of the others.                   *)
SomeDmGoesOn ==
    \A W \in SUBSET Requests :
        W # {} /\ (\A q \in W : req[q].pc = "dmLock") => \E q \in W : \A r \in W : ~WaitsFor(q, r)

(* A request that waits wants a smaller row than the one it waits for.       *)
LEMMA WaitsForHigher ==
    ASSUME ChatInv, NEW q \in Requests, NEW r \in Requests,
           req[q].pc = "dmLock", req[r].pc = "dmLock", req[r].todo # {}, WaitsFor(q, r)
    PROVE  /\ NextRow(q) \in Users /\ NextRow(r) \in Users
           /\ NextRow(q) < NextRow(r)
<1>1. req[q].todo # {} /\ NextRow(q) \in req[r].rows
  BY DEF WaitsFor
<1>2. NextRow(q) \in req[q].todo /\ NextRow(r) \in req[r].todo
  BY <1>1, NextRowOfPair
<1>3. NextRow(q) < NextRow(r)
  BY <1>1, <1>2 DEF ChatInv, LockInv
<1>4. req[q].todo \subseteq Users /\ req[r].todo \subseteq Users
  BY DEF ChatInv, TypeOK
<1> QED  BY <1>2, <1>3, <1>4

(* Along a circle the rows wanted would go up for ever, and the users are    *)
(* finitely many: the request with the fewest rows above the one it wants    *)
(* waits for nobody.                                                         *)
LEMMA NoCircle == ChatInv => SomeDmGoesOn
<1> SUFFICES ASSUME ChatInv, NEW W \in SUBSET Requests, W # {},
                    \A q \in W : req[q].pc = "dmLock",
                    \A q \in W : \E r \in W : WaitsFor(q, r)
             PROVE  FALSE
  BY DEF SomeDmGoesOn
<1> DEFINE Above(q) == {u \in Users : u > NextRow(q)}
           Aboves   == {Above(q) : q \in W}
<1>1. \A q \in W : q \in Requests /\ req[q].todo # {}
  BY DEF WaitsFor
<1>2. \A q \in W : \E r \in W : /\ NextRow(q) \in Users /\ NextRow(r) \in Users
                                /\ NextRow(q) < NextRow(r)
  BY <1>1, WaitsForHigher
<1>3. ASSUME NEW q \in W, NEW r \in W, NextRow(q) \in Users, NextRow(r) \in Users,
             NextRow(q) < NextRow(r)
      PROVE  Above(r) \subseteq Above(q) /\ Above(r) # Above(q)
  <2>1. \A a, b, u \in Users : (a < b /\ u > b => u > a) /\ (a < b => b > a /\ ~(b > b))
    <3>1. \A a, b, u \in Nat : (a < b /\ u > b => u > a) /\ (a < b => b > a /\ ~(b > b))
      OBVIOUS
    <3> QED  BY <3>1, UsersAreNumbers
  <2>2. \A u \in Users : u > NextRow(r) => u > NextRow(q)
    BY <1>3, <2>1
  <2>3. NextRow(r) \in Above(q) /\ NextRow(r) \notin Above(r)
    BY <1>3, <2>1
  <2> QED  BY <2>2, <2>3
<1>4. Aboves \subseteq SUBSET Users /\ Aboves # {}
  OBVIOUS
<1>5. IsWellFoundedOn(StrictSubsetOrdering(Users), SUBSET Users)
  BY UsersAreNumbers, FS_StrictSubsetOrderingWellFounded, FS_FiniteSubsetsOfFinite
<1>6. PICK X \in Aboves : \A Y \in Aboves : <<Y, X>> \notin StrictSubsetOrdering(Users)
  BY <1>4, <1>5, WFMin
<1>7. PICK q \in W : X = Above(q)
  BY <1>6
<1>8. PICK r \in W : NextRow(q) \in Users /\ NextRow(r) \in Users /\ NextRow(q) < NextRow(r)
  BY <1>2
<1>9. Above(r) \in Aboves /\ Above(r) \subseteq X /\ Above(r) # X
  BY <1>3, <1>7, <1>8
<1> HIDE DEF Above, Aboves
<1>10. <<Above(r), X>> \in StrictSubsetOrdering(Users)
  BY <1>4, <1>6, <1>9 DEF StrictSubsetOrdering
<1> QED  BY <1>6, <1>9, <1>10

(* Requests for direct rooms, any number of them, never wait in a circle.    *)
THEOREM NoCircleOfWaits == Spec => []SomeDmGoesOn
BY NoCircle, ChatInvariant, PTL
=============================================================================
