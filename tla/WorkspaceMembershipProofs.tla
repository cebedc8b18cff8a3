--------------------- MODULE WorkspaceMembershipProofs ---------------------
(***************************************************************************)
(* Proofs about WorkspaceMembership, for every set of users, roles,        *)
(* invitations and requests.                                               *)
(***************************************************************************)
EXTENDS WorkspaceMembership, FiniteSetTheorems, TLAPS

(***************************************************************************)
(* The inductive invariant.  What a request has read may be stale when it  *)
(* writes; these are the facts that cannot be.                             *)
(***************************************************************************)

(* Roles are given and taken, but never the owner's.                         *)
Ownership ==
    /\ \A u \in Users : role[u] = "owner" <=> u = Owner
    /\ ~deleted => Owner \in members

(* A request that passed its look at the target does not aim at the owner,   *)
(* and one that saw an invitation saw one that exists.                       *)
Informed(q) ==
    /\ req[q].pc \in {"roleSave", "removeActor", "removeSave"} => req[q].whom # Owner
    /\ req[q].pc \in {"revokeActor", "revokeSave"} => req[q].inv \in issued

(* What the locks of an acceptance keep true: nobody else accepts, the       *)
(* workspace is there, the invitation is unused; and as the owner stays a    *)
(* member, an owner who accepts is seen to be one.                           *)
Admitted(q) ==
    req[q].pc \in {"acceptRead", "acceptWrite"} =>
        /\ \A p \in Requests \ {q} : req[p].pc \notin {"acceptRead", "acceptWrite"}
        /\ ~deleted
        /\ req[q].inv \in issued \ (accepted \cup revoked)
        /\ to[req[q].inv] = req[q].by
        /\ req[q].pc = "acceptWrite" /\ req[q].by = Owner => req[q].joined

MembershipInv ==
    /\ TypeOK
    /\ Ownership
    /\ \A q \in Requests : Informed(q) /\ Admitted(q)

-----------------------------------------------------------------------------
(* What a request is at tells which fields it has.                           *)
LEMMA Kinds ==
    ASSUME NEW r \in ReqState
    PROVE  /\ r.pc \in {"inviteAdmit", "inviteUnique", "inviteLimit", "inviteInsert"}
                => r \in InviteReq
           /\ r.pc \in {"roleActor", "roleTarget", "roleSave"} => r \in RoleReq
           /\ r.pc \in {"removeTarget", "removeActor", "removeSave"} => r \in RemoveReq
           /\ r.pc \in {"revokeRead", "revokeActor", "revokeSave"} => r \in RevokeReq
           /\ r.pc \in {"acceptRead", "acceptWrite"} => r \in AcceptReq
           /\ r.pc \in {"deleteMembers", "deleteCommit"} => r \in DeleteReq
BY DEF ReqState, Idle, InviteReq, RoleReq, RemoveReq, RevokeReq, AcceptReq, DeleteReq

(* A step of request q alone keeps the type of req.                          *)
LEMMA ReqStep ==
    ASSUME req \in [Requests -> ReqState], NEW q \in Requests, NEW s \in ReqState,
           req' = [req EXCEPT ![q] = s]
    PROVE  /\ req' \in [Requests -> ReqState]
           /\ req'[q] = s
           /\ \A p \in Requests \ {q} : req'[p] = req[p]
OBVIOUS

(* A request that goes on keeps what it has read.                            *)
LEMMA ContinueStep ==
    ASSUME TypeOK, NEW q \in Requests, NEW label,
           [req[q] EXCEPT !.pc = label] \in ReqState, Continue(q, label)
    PROVE  /\ req' \in [Requests -> ReqState]
           /\ req'[q] = [req[q] EXCEPT !.pc = label]
           /\ \A p \in Requests \ {q} : req'[p] = req[p]
BY DEF Continue, TypeOK

(* A request that starts is in the state it starts with.                     *)
LEMMA StartStep ==
    ASSUME TypeOK, NEW q \in Requests, NEW u \in Users, NEW STATE s,
           s \in ReqState, Start(q, u, s)
    PROVE  /\ req' \in [Requests -> ReqState]
           /\ req'[q] = s
           /\ \A p \in Requests \ {q} : req'[p] = req[p]
           /\ UNCHANGED <<deleted, memberVars, inviteVars>>
BY ReqStep DEF Start, TypeOK

(* The end of a request.                                                     *)
LEMMA EndStep ==
    ASSUME TypeOK, NEW q \in Requests, End(q)
    PROVE  /\ req' \in [Requests -> ReqState]
           /\ req'[q] = Idle
           /\ \A p \in Requests \ {q} : req'[p] = req[p]
<1>1. Idle \in ReqState
  BY DEF ReqState
<1> QED  BY <1>1, ReqStep DEF End, TypeOK

(* The steps that only read: they change no row.                             *)
Reads(q) ==
    \/ \E u \in Users :
          \/ \E v \in Users, r \in Roles : InviteFetch(q, u, v, r) \/ RoleFetch(q, u, v, r)
          \/ \E v \in Users : RemoveFetch(q, u, v)
          \/ \E i \in Invites : RevokeFetch(q, u, i)
          \/ DeleteFetch(q, u)
    \/ InviteAdmit(q)  \/ InviteUnique(q) \/ InviteLimit(q)
    \/ RoleActor(q)    \/ RoleTarget(q)
    \/ RemoveTarget(q) \/ RemoveActor(q)
    \/ RevokeRead(q)   \/ RevokeActor(q)
    \/ DeleteMembers(q) \/ Abort(q)

(* A read leaves the request well informed, and starts no acceptance.        *)
LEMMA ReadsWell ==
    ASSUME MembershipInv, NEW q \in Requests, Reads(q)
    PROVE  /\ req' \in [Requests -> ReqState]
           /\ \A p \in Requests \ {q} : req'[p] = req[p]
           /\ UNCHANGED <<deleted, memberVars, inviteVars>>
           /\ Informed(q)'
           /\ req'[q].pc \notin {"acceptRead", "acceptWrite"}
           /\ req'[q].pc = "deleteCommit" => DeleteMembers(q)
<1> DEFINE Goal ==
      /\ req' \in [Requests -> ReqState]
      /\ \A p \in Requests \ {q} : req'[p] = req[p]
      /\ UNCHANGED <<deleted, memberVars, inviteVars>>
      /\ Informed(q)'
      /\ req'[q].pc \notin {"acceptRead", "acceptWrite"}
      /\ req'[q].pc = "deleteCommit" => DeleteMembers(q)
<1> USE DEF MembershipInv
<1>t. TypeOK /\ req[q] \in ReqState
  BY DEF TypeOK
<1>1. ASSUME NEW u \in Users, NEW v \in Users, NEW r \in Roles, InviteFetch(q, u, v, r)
      PROVE  Goal
  <2>1. Cardinality(members) \in Nat
    BY <1>t, WorkspaceAssumption, FS_Subset, FS_CardinalityType DEF TypeOK
  <2> DEFINE s == [pc |-> "inviteAdmit", by |-> u, whom |-> v, as |-> r,
                   count |-> Cardinality(members)]
  <2>2. s \in ReqState
    BY <2>1 DEF ReqState, InviteReq
  <2>3. Start(q, u, s)
    BY <1>1 DEF InviteFetch
  <2>4. req'[q] = s /\ Goal!1 /\ Goal!2 /\ Goal!3
    BY <1>t, <2>2, <2>3, StartStep
  <2> QED  BY <2>4 DEF Informed
<1>2. ASSUME NEW u \in Users, NEW v \in Users, NEW r \in Roles, RoleFetch(q, u, v, r)
      PROVE  Goal
  <2> DEFINE s == [pc |-> "roleActor", by |-> u, whom |-> v, as |-> r, saw |-> NoRole]
  <2>2. s \in ReqState
    BY DEF ReqState, RoleReq, AnyRole
  <2>3. Start(q, u, s)
    BY <1>2 DEF RoleFetch
  <2>4. req'[q] = s /\ Goal!1 /\ Goal!2 /\ Goal!3
    BY <1>t, <2>2, <2>3, StartStep
  <2> QED  BY <2>4 DEF Informed
<1>3. ASSUME NEW u \in Users, NEW v \in Users, RemoveFetch(q, u, v)
      PROVE  Goal
  <2> DEFINE s == [pc |-> "removeTarget", by |-> u, whom |-> v, saw |-> NoRole]
  <2>2. s \in ReqState
    BY DEF ReqState, RemoveReq, AnyRole
  <2>3. Start(q, u, s)
    BY <1>3 DEF RemoveFetch
  <2>4. req'[q] = s /\ Goal!1 /\ Goal!2 /\ Goal!3
    BY <1>t, <2>2, <2>3, StartStep
  <2> QED  BY <2>4 DEF Informed
<1>4. ASSUME NEW u \in Users, NEW i \in Invites, RevokeFetch(q, u, i)
      PROVE  Goal
  <2> DEFINE s == [pc |-> "revokeRead", by |-> u, inv |-> i, used |-> FALSE]
  <2>2. s \in ReqState
    BY DEF ReqState, RevokeReq
  <2>3. Start(q, u, s)
    BY <1>4 DEF RevokeFetch
  <2>4. req'[q] = s /\ Goal!1 /\ Goal!2 /\ Goal!3
    BY <1>t, <2>2, <2>3, StartStep
  <2> QED  BY <2>4 DEF Informed
<1>5. ASSUME NEW u \in Users, DeleteFetch(q, u)
      PROVE  Goal
  <2> DEFINE s == [pc |-> "deleteMembers", doomed |-> {}]
  <2>2. s \in ReqState
    BY DEF ReqState, DeleteReq
  <2>3. Start(q, u, s)
    BY <1>5 DEF DeleteFetch
  <2>4. req'[q] = s /\ Goal!1 /\ Goal!2 /\ Goal!3
    BY <1>t, <2>2, <2>3, StartStep
  <2> QED  BY <2>4 DEF Informed
<1>6. CASE InviteAdmit(q)
  <2> DEFINE s == [req[q] EXCEPT !.pc = "inviteUnique"]
  <2>1. s \in ReqState /\ s.pc = "inviteUnique"
    BY <1>6, <1>t, Kinds DEF InviteAdmit, ReqState, InviteReq
  <2>2. Goal!3 /\ (Continue(q, "inviteUnique") \/ End(q))
    BY <1>6 DEF InviteAdmit, Check
  <2>3. CASE Continue(q, "inviteUnique")
    <3>1. req'[q] = s /\ Goal!1 /\ Goal!2
      BY <1>t, <2>1, <2>3, ContinueStep
    <3> QED  BY <2>1, <2>2, <3>1 DEF Informed
  <2>4. CASE End(q)
    BY <1>t, <2>2, <2>4, EndStep DEF Informed, Idle
  <2> QED  BY <2>2, <2>3, <2>4
<1>7. CASE InviteUnique(q)
  <2> DEFINE s == [req[q] EXCEPT !.pc = "inviteLimit"]
  <2>1. s \in ReqState /\ s.pc = "inviteLimit"
    BY <1>7, <1>t, Kinds DEF InviteUnique, ReqState, InviteReq
  <2>2. Goal!3 /\ (Continue(q, "inviteLimit") \/ End(q))
    BY <1>7 DEF InviteUnique, Check
  <2>3. CASE Continue(q, "inviteLimit")
    <3>1. req'[q] = s /\ Goal!1 /\ Goal!2
      BY <1>t, <2>1, <2>3, ContinueStep
    <3> QED  BY <2>1, <2>2, <3>1 DEF Informed
  <2>4. CASE End(q)
    BY <1>t, <2>2, <2>4, EndStep DEF Informed, Idle
  <2> QED  BY <2>2, <2>3, <2>4
<1>8. CASE InviteLimit(q)
  <2> DEFINE s == [req[q] EXCEPT !.pc = "inviteInsert"]
  <2>1. s \in ReqState /\ s.pc = "inviteInsert"
    BY <1>8, <1>t, Kinds DEF InviteLimit, ReqState, InviteReq
  <2>2. Goal!3 /\ (Continue(q, "inviteInsert") \/ End(q))
    BY <1>8 DEF InviteLimit, Check
  <2>3. CASE Continue(q, "inviteInsert")
    <3>1. req'[q] = s /\ Goal!1 /\ Goal!2
      BY <1>t, <2>1, <2>3, ContinueStep
    <3> QED  BY <2>1, <2>2, <3>1 DEF Informed
  <2>4. CASE End(q)
    BY <1>t, <2>2, <2>4, EndStep DEF Informed, Idle
  <2> QED  BY <2>2, <2>3, <2>4
<1>9. CASE RoleTarget(q)
  <2> DEFINE s == [req[q] EXCEPT !.pc = "roleSave"]
             seen == req[q].whom \in members /\ MayTouch(req[q].saw, role[req[q].whom])
  <2>1. req[q] \in RoleReq /\ s \in ReqState /\ s.pc = "roleSave" /\ s.whom = req[q].whom
    BY <1>9, <1>t, Kinds DEF RoleTarget, ReqState, RoleReq
  <2>2. Goal!3 /\ ((Continue(q, "roleSave") /\ seen) \/ End(q))
    BY <1>9 DEF RoleTarget, Check
  <2>3. CASE Continue(q, "roleSave") /\ seen
    <3>1. req'[q] = s /\ Goal!1 /\ Goal!2
      BY <1>t, <2>1, <2>3, ContinueStep
    <3>2. req[q].whom # Owner
      BY <2>1, <2>3 DEF Ownership, MayTouch, RoleReq
    <3> QED  BY <2>1, <2>2, <3>1, <3>2 DEF Informed
  <2>4. CASE End(q)
    BY <1>t, <2>2, <2>4, EndStep DEF Informed, Idle
  <2> QED  BY <2>2, <2>3, <2>4
<1>10. CASE RemoveActor(q)
  <2> DEFINE s == [req[q] EXCEPT !.pc = "removeSave"]
  <2>1. s \in ReqState /\ s.pc = "removeSave" /\ s.whom = req[q].whom
    BY <1>10, <1>t, Kinds DEF RemoveActor, ReqState, RemoveReq
  <2>2. Goal!3 /\ (Continue(q, "removeSave") \/ End(q))
    BY <1>10 DEF RemoveActor, Check
  <2>3. CASE Continue(q, "removeSave")
    <3>1. req'[q] = s /\ Goal!1 /\ Goal!2
      BY <1>t, <2>1, <2>3, ContinueStep
    <3>2. req[q].whom # Owner
      BY <1>10 DEF Informed, RemoveActor
    <3> QED  BY <2>1, <2>2, <3>1, <3>2 DEF Informed
  <2>4. CASE End(q)
    BY <1>t, <2>2, <2>4, EndStep DEF Informed, Idle
  <2> QED  BY <2>2, <2>3, <2>4
<1>11. CASE RevokeActor(q)
  <2> DEFINE s == [req[q] EXCEPT !.pc = "revokeSave"]
  <2>1. s \in ReqState /\ s.pc = "revokeSave" /\ s.inv = req[q].inv
    BY <1>11, <1>t, Kinds DEF RevokeActor, ReqState, RevokeReq
  <2>2. Goal!3 /\ (Continue(q, "revokeSave") \/ End(q))
    BY <1>11 DEF RevokeActor, Check
  <2>3. CASE Continue(q, "revokeSave")
    <3>1. req'[q] = s /\ Goal!1 /\ Goal!2
      BY <1>t, <2>1, <2>3, ContinueStep
    <3>2. req[q].inv \in issued
      BY <1>11 DEF Informed, RevokeActor
    <3>3. issued' = issued
      BY <2>2 DEF inviteVars
    <3> QED  BY <2>1, <2>2, <3>1, <3>2, <3>3 DEF Informed
  <2>4. CASE End(q)
    BY <1>t, <2>2, <2>4, EndStep DEF Informed, Idle
  <2> QED  BY <2>2, <2>3, <2>4
<1>12. CASE RoleActor(q)
  <2> DEFINE s == [req[q] EXCEPT !.pc = "roleTarget", !.saw = role[req[q].by]]
  <2>1. req[q] \in RoleReq /\ role[req[q].by] \in AnyRole
    BY <1>12, <1>t, Kinds DEF RoleActor, RoleReq, TypeOK
  <2>2. s \in ReqState /\ s.pc = "roleTarget"
    BY <2>1 DEF ReqState, RoleReq
  <2>3. Goal!3 /\ (req' = [req EXCEPT ![q] = s] \/ End(q))
    BY <1>12 DEF RoleActor
  <2>4. CASE req' = [req EXCEPT ![q] = s]
    BY <1>t, <2>2, <2>3, <2>4 DEF Informed, TypeOK
  <2>5. CASE End(q)
    BY <1>t, <2>3, <2>5, EndStep DEF Informed, Idle
  <2> QED  BY <2>3, <2>4, <2>5
<1>13. CASE RemoveTarget(q)
  <2> DEFINE next == IF req[q].by = req[q].whom THEN "removeSave" ELSE "removeActor"
             s    == [req[q] EXCEPT !.pc = next, !.saw = role[req[q].whom]]
             seen == req[q].whom \in members /\ MayTouch("owner", role[req[q].whom])
  <2>1. req[q] \in RemoveReq /\ role[req[q].whom] \in AnyRole
    BY <1>13, <1>t, Kinds DEF RemoveTarget, RemoveReq, TypeOK
  <2>2. s \in ReqState /\ s.pc \in {"removeSave", "removeActor"} /\ s.whom = req[q].whom
    BY <2>1 DEF ReqState, RemoveReq
  <2>3. Goal!3 /\ ((req' = [req EXCEPT ![q] = s] /\ seen) \/ End(q))
    BY <1>13 DEF RemoveTarget
  <2>4. CASE req' = [req EXCEPT ![q] = s] /\ seen
    <3>1. req[q].whom # Owner
      BY <2>1, <2>4 DEF Ownership, MayTouch, RemoveReq
    <3> QED  BY <1>t, <2>2, <2>3, <2>4, <3>1 DEF Informed, TypeOK
  <2>5. CASE End(q)
    BY <1>t, <2>3, <2>5, EndStep DEF Informed, Idle
  <2> QED  BY <2>3, <2>4, <2>5
<1>14. CASE RevokeRead(q)
  <2>1. req[q] \in RevokeReq
    BY <1>14, <1>t, Kinds DEF RevokeRead
  <2>2. (req[q].inv \in accepted) \in BOOLEAN
    BY SMT
  <2>3. PICK b \in BOOLEAN : b = (req[q].inv \in accepted)
    BY <2>2, Zenon
  <2> DEFINE s == [req[q] EXCEPT !.pc = "revokeActor", !.used = b]
  <2>4. s \in RevokeReq /\ s.pc = "revokeActor" /\ s.inv = req[q].inv
    BY <2>1 DEF RevokeReq
  <2>5. Goal!3 /\ ((req' = [req EXCEPT ![q] = s] /\ req[q].inv \in issued) \/ End(q))
    BY <1>14, <2>3 DEF RevokeRead
  <2>6. CASE req' = [req EXCEPT ![q] = s] /\ req[q].inv \in issued
    <3>1. issued' = issued /\ s \in ReqState
      BY <2>4, <2>5 DEF inviteVars, ReqState
    <3> QED  BY <1>t, <2>4, <2>5, <2>6, <3>1 DEF Informed, TypeOK
  <2>7. CASE End(q)
    BY <1>t, <2>5, <2>7, EndStep DEF Informed, Idle
  <2> QED  BY <2>5, <2>6, <2>7
<1>15. CASE DeleteMembers(q)
  <2> DEFINE s == [req[q] EXCEPT !.pc = "deleteCommit", !.doomed = ToDoom]
  <2>1. req[q] \in DeleteReq /\ ToDoom \in SUBSET Users
    BY <1>15, <1>t, Kinds DEF DeleteMembers, ToDoom, TypeOK
  <2>2. s \in ReqState /\ s.pc = "deleteCommit"
    BY <2>1 DEF ReqState, DeleteReq
  <2>3. Goal!3 /\ req' = [req EXCEPT ![q] = s]
    BY <1>15 DEF DeleteMembers
  <2> QED  BY <1>15, <1>t, <2>2, <2>3 DEF Informed, TypeOK
<1>16. CASE Abort(q)
  <2>1. Goal!3 /\ End(q)
    BY <1>16 DEF Abort
  <2> QED  BY <1>t, <2>1, EndStep DEF Informed, Idle
<1> QED
  BY <1>1, <1>2, <1>3, <1>4, <1>5, <1>6, <1>7, <1>8, <1>9, <1>10, <1>11, <1>12,
     <1>13, <1>14, <1>15, <1>16 DEF Reads

(* Every step is a read, the end of a request that writes, a step of an      *)
(* acceptance, or the passing of time.                                       *)
LEMMA NextCases ==
    ASSUME Next
    PROVE  \/ \E q \in Requests :
                \/ Reads(q)
                \/ \E u \in Users, i \in Invites : AcceptLock(q, u, i)
                \/ AcceptRead(q) \/ AcceptCommit(q)
                \/ InviteInsert(q) \/ RoleSave(q) \/ RemoveSave(q)
                \/ RevokeSave(q) \/ DeleteCommit(q)
           \/ \E i \in Invites : Expire(i)
<1>1. ASSUME NEW q \in Requests, Begin(q)
      PROVE  Reads(q) \/ \E u \in Users, i \in Invites : AcceptLock(q, u, i)
  BY <1>1 DEF Begin, Reads
<1>2. ASSUME NEW q \in Requests, Proceed(q)
      PROVE  \/ Reads(q)
             \/ AcceptRead(q) \/ AcceptCommit(q)
             \/ InviteInsert(q) \/ RoleSave(q) \/ RemoveSave(q)
             \/ RevokeSave(q) \/ DeleteCommit(q)
  BY <1>2 DEF Proceed, Reads
<1> QED  BY <1>1, <1>2 DEF Next, Reads

(* The invariant holds at the start.                                         *)
LEMMA MembershipInit ==
    ASSUME Init
    PROVE  MembershipInv
<1>1. TypeOK
  <2>1. role \in [Users -> AnyRole] /\ members \subseteq Users
    BY WorkspaceAssumption DEF Init, AnyRole
  <2>2. to \in [Invites -> Users] /\ offered \in [Invites -> Roles \cup {NoRole}]
    BY WorkspaceAssumption DEF Init
  <2>3. req \in [Requests -> ReqState]
    BY DEF Init, ReqState
  <2>4. deleted \in BOOLEAN
    BY DEF Init
  <2> QED  BY <2>1, <2>2, <2>3, <2>4 DEF Init, TypeOK
<1>2. Ownership
  BY DEF Init, Ownership, NoRole
<1>3. \A q \in Requests : Informed(q) /\ Admitted(q)
  BY DEF Init, Idle, Informed, Admitted
<1> QED  BY <1>1, <1>2, <1>3 DEF MembershipInv

(* A read keeps it: no row changes, and the request knows what it should.    *)
LEMMA ReadKeeps ==
    ASSUME MembershipInv, NEW q \in Requests, Reads(q)
    PROVE  MembershipInv'
<1>1. /\ req' \in [Requests -> ReqState]
      /\ \A p \in Requests \ {q} : req'[p] = req[p]
      /\ UNCHANGED <<deleted, memberVars, inviteVars>>
      /\ Informed(q)'
      /\ req'[q].pc \notin {"acceptRead", "acceptWrite"}
  BY ReadsWell
<1> USE DEF MembershipInv
<1>2. TypeOK'
  BY <1>1 DEF TypeOK, memberVars, inviteVars
<1>3. Ownership'
  BY <1>1 DEF Ownership, memberVars
<1>4. ASSUME NEW p \in Requests
      PROVE  Informed(p)'
  BY <1>1 DEF Informed, inviteVars
<1>5. ASSUME NEW p \in Requests
      PROVE  Admitted(p)'
  BY <1>1 DEF Admitted, inviteVars
<1> QED  BY <1>2, <1>3, <1>4, <1>5

(* The end of a request keeps what the others know, if no invitation         *)
(* disappears, and what the locks of an acceptance protect is left alone.    *)
LEMMA OthersStayInformed ==
    ASSUME MembershipInv, NEW q \in Requests, End(q), issued \subseteq issued',
           \A p \in Requests \ {q} : req[p].pc \in {"acceptRead", "acceptWrite"} =>
               /\ deleted' = deleted
               /\ req[p].inv \notin (accepted' \cup revoked') \ (accepted \cup revoked)
               /\ req[p].inv \in issued => to'[req[p].inv] = to[req[p].inv]
    PROVE  /\ req' \in [Requests -> ReqState]
           /\ \A p \in Requests : Informed(p)' /\ Admitted(p)'
<1>1. /\ req' \in [Requests -> ReqState]
      /\ req'[q] = Idle
      /\ \A p \in Requests \ {q} : req'[p] = req[p]
  BY EndStep DEF MembershipInv
<1>2. ASSUME NEW p \in Requests
      PROVE  Informed(p)'
  BY <1>1 DEF MembershipInv, Informed, Idle
<1>3. ASSUME NEW p \in Requests
      PROVE  Admitted(p)'
  BY <1>1 DEF MembershipInv, Admitted, Idle
<1> QED  BY <1>1, <1>2, <1>3

(* The requests that write, at their end.                                    *)
LEMMA WriteKeeps ==
    ASSUME MembershipInv, NEW q \in Requests,
           InviteInsert(q) \/ RoleSave(q) \/ RemoveSave(q) \/ RevokeSave(q) \/ DeleteCommit(q)
    PROVE  MembershipInv'
<1> USE DEF MembershipInv
<1>t. TypeOK /\ req[q] \in ReqState /\ Informed(q)
  BY DEF TypeOK
<1>1. CASE InviteInsert(q)
  <2>1. PICK i \in Invites \ issued :
          /\ issued' = issued \cup {i}
          /\ to' = [to EXCEPT ![i] = req[q].whom]
          /\ offered' = [offered EXCEPT ![i] = req[q].as]
    BY <1>1 DEF InviteInsert
  <2>2. End(q) /\ UNCHANGED <<deleted, members, role, accepted, revoked, expired>>
    BY <1>1 DEF InviteInsert, memberVars
  <2>3. req[q].whom \in Users /\ req[q].as \in Roles
    BY <1>1, <1>t, Kinds DEF InviteInsert, InviteReq
  <2>4. /\ req' \in [Requests -> ReqState]
        /\ \A p \in Requests : Informed(p)' /\ Admitted(p)'
    BY <1>t, <2>1, <2>2, OthersStayInformed DEF TypeOK
  <2>5. TypeOK'
    BY <1>t, <2>1, <2>2, <2>3, <2>4 DEF TypeOK
  <2> QED  BY <2>2, <2>4, <2>5 DEF Ownership
<1>2. CASE RoleSave(q)
  <2>1. /\ role' = [role EXCEPT ![req[q].whom] = req[q].as]
        /\ End(q) /\ UNCHANGED <<deleted, members>> /\ UNCHANGED inviteVars
    BY <1>2 DEF RoleSave
  <2>2. req[q].whom \in Users /\ req[q].as \in Roles /\ req[q].whom # Owner
    BY <1>2, <1>t, Kinds DEF RoleSave, RoleReq, Informed
  <2>3. /\ req' \in [Requests -> ReqState]
        /\ \A p \in Requests : Informed(p)' /\ Admitted(p)'
    BY <2>1, OthersStayInformed DEF inviteVars
  <2>4. TypeOK'
    BY <1>t, <2>1, <2>2, <2>3 DEF TypeOK, AnyRole, inviteVars
  <2>5. Ownership'
    BY <1>t, <2>1, <2>2, WorkspaceAssumption DEF Ownership, TypeOK
  <2> QED  BY <2>3, <2>4, <2>5
<1>3. CASE RemoveSave(q)
  <2>1. /\ members' = members \ {req[q].whom}
        /\ End(q) /\ UNCHANGED <<deleted, role>> /\ UNCHANGED inviteVars
    BY <1>3 DEF RemoveSave
  <2>2. req[q].whom # Owner
    BY <1>3, <1>t DEF RemoveSave, Informed
  <2>3. /\ req' \in [Requests -> ReqState]
        /\ \A p \in Requests : Informed(p)' /\ Admitted(p)'
    BY <2>1, OthersStayInformed DEF inviteVars
  <2>4. TypeOK'
    BY <1>t, <2>1, <2>3 DEF TypeOK, inviteVars
  <2>5. Ownership'
    BY <2>1, <2>2 DEF Ownership
  <2> QED  BY <2>3, <2>4, <2>5
<1>4. CASE RevokeSave(q)
  <2>1. /\ revoked' = revoked \cup {req[q].inv} /\ ~InviteLocked(req[q].inv)
        /\ End(q)
        /\ UNCHANGED <<deleted, members, role, issued, to, offered, accepted, expired>>
    BY <1>4 DEF RevokeSave, memberVars
  <2>2. req[q].inv \in issued
    BY <1>4, <1>t DEF RevokeSave, Informed
  <2>3. /\ req' \in [Requests -> ReqState]
        /\ \A p \in Requests : Informed(p)' /\ Admitted(p)'
    BY <2>1, OthersStayInformed DEF InviteLocked, Accepting
  <2>4. TypeOK'
    BY <1>t, <2>1, <2>2, <2>3 DEF TypeOK
  <2> QED  BY <2>1, <2>3, <2>4 DEF Ownership
<1>5. CASE DeleteCommit(q)
  <2>1. /\ ~WorkspaceLocked /\ deleted' = TRUE /\ members' = members \ req[q].doomed
        /\ End(q) /\ UNCHANGED role /\ UNCHANGED inviteVars
    BY <1>5 DEF DeleteCommit
  <2>2. /\ req' \in [Requests -> ReqState]
        /\ \A p \in Requests : Informed(p)' /\ Admitted(p)'
    BY <2>1, OthersStayInformed DEF inviteVars, WorkspaceLocked, Accepting
  <2>3. TypeOK'
    BY <1>t, <2>1, <2>2 DEF TypeOK, inviteVars
  <2> QED  BY <2>1, <2>2, <2>3 DEF Ownership
<1> QED  BY <1>1, <1>2, <1>3, <1>4, <1>5

(* The three steps of an acceptance.                                         *)
LEMMA AcceptanceKeeps ==
    ASSUME MembershipInv, NEW q \in Requests,
           \/ \E u \in Users, i \in Invites : AcceptLock(q, u, i)
           \/ AcceptRead(q) \/ AcceptCommit(q)
    PROVE  MembershipInv'
<1> USE DEF MembershipInv
<1>t. TypeOK /\ req[q] \in ReqState /\ Admitted(q) /\ Ownership
  BY DEF TypeOK
<1>1. ASSUME NEW u \in Users, NEW i \in Invites, AcceptLock(q, u, i)
      PROVE  MembershipInv'
  <2> DEFINE s == [pc |-> "acceptRead", by |-> u, inv |-> i, joined |-> FALSE]
  <2>1. /\ ~WorkspaceLocked /\ i \in Pending /\ to[i] = u /\ ~deleted
        /\ req' = [req EXCEPT ![q] = s]
        /\ UNCHANGED <<deleted, memberVars, inviteVars>>
    BY <1>1 DEF AcceptLock
  <2>2. s \in ReqState
    BY DEF ReqState, AcceptReq
  <2>3. /\ req' \in [Requests -> ReqState]
        /\ req'[q] = s
        /\ \A p \in Requests \ {q} : req'[p] = req[p]
    BY <1>t, <2>1, <2>2, ReqStep DEF TypeOK
  <2>4. TypeOK'
    BY <1>t, <2>1, <2>3 DEF TypeOK, memberVars, inviteVars
  <2>5. Ownership'
    BY <1>t, <2>1 DEF Ownership, memberVars
  <2>6. ASSUME NEW p \in Requests PROVE Informed(p)'
    BY <2>1, <2>3 DEF Informed, inviteVars
  <2>7. \A p \in Requests \ {q} : req'[p].pc \notin {"acceptRead", "acceptWrite"}
    BY <2>1, <2>3 DEF WorkspaceLocked, Accepting
  <2>8. Admitted(q)'
    BY <2>1, <2>3, <2>7 DEF Admitted, Pending, inviteVars
  <2>9. ASSUME NEW p \in Requests PROVE Admitted(p)'
    BY <2>7, <2>8 DEF Admitted
  <2> QED  BY <2>4, <2>5, <2>6, <2>9
<1>2. CASE AcceptRead(q)
  <2>1. req[q] \in AcceptReq /\ req[q].pc = "acceptRead"
    BY <1>2, <1>t, Kinds DEF AcceptRead
  <2>2. (req[q].by \in members) \in BOOLEAN
    BY SMT
  <2>3. PICK b \in BOOLEAN : b = (req[q].by \in members)
    BY <2>2, Zenon
  <2> DEFINE s == [req[q] EXCEPT !.pc = "acceptWrite", !.joined = b]
  <2>4. /\ s \in AcceptReq /\ s.pc = "acceptWrite" /\ s.joined = b
        /\ s.inv = req[q].inv /\ s.by = req[q].by
    BY <2>1 DEF AcceptReq
  <2>5. req' = [req EXCEPT ![q] = s] /\ UNCHANGED <<deleted, memberVars, inviteVars>>
    BY <1>2, <2>3 DEF AcceptRead
  <2>6. /\ req' \in [Requests -> ReqState]
        /\ req'[q] = s
        /\ \A p \in Requests \ {q} : req'[p] = req[p]
    BY <1>t, <2>4, <2>5, ReqStep DEF TypeOK, ReqState
  <2>7. TypeOK'
    BY <1>t, <2>5, <2>6 DEF TypeOK, memberVars, inviteVars
  <2>8. Ownership'
    BY <1>t, <2>5 DEF Ownership, memberVars
  <2>9. ASSUME NEW p \in Requests PROVE Informed(p)'
    BY <2>4, <2>5, <2>6 DEF Informed, inviteVars
  <2>10. \A p \in Requests \ {q} : req'[p].pc \notin {"acceptRead", "acceptWrite"}
    BY <1>t, <2>1, <2>6 DEF Admitted
  <2>11. req[q].by = Owner => b
    BY <1>t, <2>1, <2>3 DEF Admitted, Ownership
  <2>12. Admitted(q)'
    BY <1>t, <2>1, <2>4, <2>5, <2>6, <2>10, <2>11 DEF Admitted, inviteVars
  <2>13. ASSUME NEW p \in Requests PROVE Admitted(p)'
    BY <2>10, <2>12 DEF Admitted
  <2> QED  BY <2>7, <2>8, <2>9, <2>13
<1>3. CASE AcceptCommit(q)
  <2> DEFINE u == req[q].by
             i == req[q].inv
  <2>1. /\ req[q].pc = "acceptWrite" /\ accepted' = accepted \cup {i} /\ End(q)
        /\ UNCHANGED <<deleted, issued, to, offered, revoked, expired>>
    BY <1>3 DEF AcceptCommit
  <2>2. \/ req[q].joined /\ UNCHANGED <<members, role>>
        \/ ~req[q].joined /\ members' = members \cup {u}
                          /\ role' = [role EXCEPT ![u] = offered[i]]
    BY <1>3 DEF AcceptCommit, memberVars
  <2>3. u \in Users /\ i \in Invites /\ i \in issued
    BY <1>t, <2>1, Kinds DEF AcceptReq, Admitted
  <2>4. /\ req' \in [Requests -> ReqState]
        /\ \A p \in Requests : Informed(p)' /\ Admitted(p)'
    BY <1>t, <2>1, OthersStayInformed DEF Admitted
  <2>5. offered[i] \in Roles \cup {NoRole} /\ offered[i] # "owner"
    BY <1>t, <2>3, WorkspaceAssumption DEF TypeOK, NoRole
  <2>6. TypeOK'
    BY <1>t, <2>1, <2>2, <2>3, <2>4, <2>5 DEF TypeOK, AnyRole
  <2>7. u = Owner => req[q].joined
    BY <1>t, <2>1 DEF Admitted
  <2>8. Ownership'
    BY <1>t, <2>1, <2>2, <2>3, <2>5, <2>7 DEF Ownership, TypeOK
  <2> QED  BY <2>4, <2>6, <2>8
<1> QED  BY <1>1, <1>2, <1>3

(* Every step keeps the invariant.                                           *)
LEMMA MembershipStep ==
    ASSUME MembershipInv, [Next]_vars
    PROVE  MembershipInv'
<1>1. CASE Next
  <2>1. ASSUME NEW i \in Invites, Expire(i)
        PROVE  MembershipInv'
    <3>1. /\ i \in issued /\ expired' = expired \cup {i}
          /\ UNCHANGED <<deleted, members, role, issued, to, offered, accepted, revoked, req>>
      BY <2>1 DEF Expire, Pending, memberVars
    <3>2. TypeOK'
      BY <3>1 DEF MembershipInv, TypeOK
    <3> QED  BY <3>1, <3>2 DEF MembershipInv, Ownership, Informed, Admitted
  <2> QED  BY <1>1, <2>1, NextCases, ReadKeeps, WriteKeeps, AcceptanceKeeps
<1>2. CASE UNCHANGED vars
  BY <1>2 DEF vars, memberVars, inviteVars, MembershipInv, TypeOK, Ownership, Informed, Admitted
<1> QED  BY <1>1, <1>2

(* What holds in every state, on which the theorems rest.                    *)
LEMMA MembershipInvariant == Spec => []MembershipInv
<1>1. Init => MembershipInv
  BY MembershipInit
<1>2. MembershipInv /\ [Next]_vars => MembershipInv'
  BY MembershipStep
<1> QED  BY <1>1, <1>2, PTL DEF Spec

(* Only the end of an acceptance adds a member.                              *)
LEMMA OnlyAcceptancesAdd ==
    ASSUME MembershipInv, [Next]_vars, ~\E q \in Requests : AcceptCommit(q)
    PROVE  members' \subseteq members
<1>1. ASSUME NEW q \in Requests, Reads(q)
      PROVE  members' = members
  BY <1>1, ReadsWell DEF memberVars
<1>2. ASSUME NEW q \in Requests,
             \/ \E u \in Users, i \in Invites : AcceptLock(q, u, i)
             \/ AcceptRead(q)
             \/ InviteInsert(q) \/ RoleSave(q) \/ RevokeSave(q)
      PROVE  members' = members
  BY <1>2 DEF AcceptLock, AcceptRead, InviteInsert, RoleSave, RevokeSave, memberVars
<1>3. ASSUME NEW q \in Requests, RemoveSave(q) \/ DeleteCommit(q)
      PROVE  members' \subseteq members
  BY <1>3 DEF RemoveSave, DeleteCommit
<1>4. ASSUME NEW i \in Invites, Expire(i)
      PROVE  members' = members
  BY <1>4 DEF Expire, memberVars
<1>5. CASE UNCHANGED vars
  BY <1>5 DEF vars, memberVars
<1> QED  BY <1>1, <1>2, <1>3, <1>4, <1>5, NextCases

-----------------------------------------------------------------------------
(* Every variable always has its type.                                       *)
THEOREM MembershipTypeCorrect == Spec => []TypeOK
<1>1. MembershipInv => TypeOK
  BY DEF MembershipInv
<1> QED  BY <1>1, MembershipInvariant, PTL

(* A workspace that is not deleted has its owner among its members, and no   *)
(* other owner, however role changes, removals, acceptances and the deletion *)
(* interleave.                                                               *)
THEOREM OwnerStays == Spec => []OneOwner
<1>1. MembershipInv => OneOwner
  BY DEF MembershipInv, Ownership, OneOwner, TypeOK
<1> QED  BY <1>1, MembershipInvariant, PTL

(* Whoever joins uses up an invitation that is theirs, unused until then and *)
(* not revoked, and gets the role it offers.                                 *)
THEOREM JoinersWereInvited == Spec => JoinsConsumeInvitation
<1> DEFINE Joins ==
      \A u \in members' \ members :
          \E i \in accepted' \ accepted :
              to[i] = u /\ i \notin revoked' /\ role'[u] = offered[i]
<1>1. ASSUME MembershipInv, [Next]_vars
      PROVE  [Joins]_vars
  <2>1. ASSUME NEW q \in Requests, AcceptCommit(q)
        PROVE  Joins
    <3>1. /\ req[q].pc = "acceptWrite" /\ accepted' = accepted \cup {req[q].inv}
          /\ revoked' = revoked
          /\ \/ members' = members
             \/ /\ members' = members \cup {req[q].by}
                /\ role' = [role EXCEPT ![req[q].by] = offered[req[q].inv]]
      BY <2>1 DEF AcceptCommit, memberVars
    <3>2. req[q].inv \notin accepted \cup revoked /\ to[req[q].inv] = req[q].by
      BY <1>1, <3>1 DEF MembershipInv, Admitted
    <3>3. req[q].by \in Users
      BY <1>1, <3>1, Kinds DEF MembershipInv, TypeOK, AcceptReq
    <3> QED  BY <1>1, <3>1, <3>2, <3>3 DEF MembershipInv, TypeOK
  <2>2. CASE \E q \in Requests : AcceptCommit(q)
    BY <2>1, <2>2
  <2>3. CASE ~\E q \in Requests : AcceptCommit(q)
    <3>1. members' \subseteq members
      BY <1>1, <2>3, OnlyAcceptancesAdd
    <3> QED  BY <3>1
  <2> QED  BY <2>2, <2>3
<1> QED  BY <1>1, MembershipInvariant, PTL DEF Spec, JoinsConsumeInvitation

(* Nobody becomes a member of a deleted workspace, although an acceptance    *)
(* looks at deleted_at several statements before it writes the member row.   *)
NobodyJoinsDeleted == [][deleted => members' \subseteq members]_vars

(* A deleted workspace gets no new member: an acceptance holds the workspace *)
(* row from its look at deleted_at to its commit.                            *)
THEOREM DeletedStaysClosed == Spec => NobodyJoinsDeleted
<1>1. ASSUME MembershipInv, [Next]_vars
      PROVE  [deleted => members' \subseteq members]_vars
  <2>1. CASE \E q \in Requests : AcceptCommit(q)
    BY <1>1, <2>1 DEF MembershipInv, Admitted, AcceptCommit
  <2>2. CASE ~\E q \in Requests : AcceptCommit(q)
    BY <1>1, <2>2, OnlyAcceptancesAdd
  <2> QED  BY <2>1, <2>2
<1> QED  BY <1>1, MembershipInvariant, PTL DEF Spec, NobodyJoinsDeleted

-----------------------------------------------------------------------------
(***************************************************************************)
(* Deletions and acceptances of WorkspaceMembership take the same row      *)
(* locks in opposite orders.  Proof that they never wait for each other.   *)
(***************************************************************************)

Deletes(q) == req[q].pc = "deleteCommit"
Revives(q) == req[q].pc = "acceptWrite" /\ ~req[q].joined

(* The rows a deletion has locked are those of members, and locked by no     *)
(* other deletion; an acceptance that will revive a row revives that of a    *)
(* user who still is no member, since only acceptances make members, and     *)
(* there is one at a time.                                                   *)
LockInv ==
    /\ \A p \in Requests : Deletes(p) => req[p].doomed \subseteq members
    /\ \A p, q \in Requests :
          p # q /\ Deletes(p) /\ Deletes(q) => req[p].doomed \cap req[q].doomed = {}
    /\ \A q \in Requests : Revives(q) => req[q].by \notin members

-----------------------------------------------------------------------------
(* A step of one request that neither starts a deletion's wait nor an        *)
(* acceptance's, and removes at most members whose rows are not locked by    *)
(* the other requests, keeps the locks in order.                             *)
LEMMA OthersKeepLocks ==
    ASSUME LockInv, NEW q \in Requests,
           \A p \in Requests \ {q} : req'[p] = req[p],
           ~Deletes(q)', ~Revives(q)',
           members' \subseteq members,
           \A p \in Requests \ {q} : Deletes(p) => req[p].doomed \subseteq members'
    PROVE  LockInv'
BY DEF LockInv, Deletes, Revives

(* A request that ends is at neither wait.                                   *)
LEMMA EndWaitsNot ==
    ASSUME MembershipInv, NEW q \in Requests, End(q)
    PROVE  /\ \A p \in Requests \ {q} : req'[p] = req[p]
           /\ ~Deletes(q)' /\ ~Revives(q)'
BY EndStep DEF MembershipInv, Deletes, Revives, Idle

(* At the start nothing is locked.                                           *)
LEMMA LocksInit == Init => LockInv
BY DEF Init, LockInv, Deletes, Revives, Idle

(* Every step keeps the locks in order.                                      *)
LEMMA LocksStep ==
    ASSUME MembershipInv, LockInv, [Next]_vars
    PROVE  LockInv'
<1>1. ASSUME NEW q \in Requests, Reads(q), ~DeleteMembers(q)
      PROVE  LockInv'
  <2>1. /\ \A p \in Requests \ {q} : req'[p] = req[p]
        /\ members' = members
        /\ ~Deletes(q)' /\ ~Revives(q)'
    BY <1>1, ReadsWell DEF memberVars, Deletes, Revives
  <2> QED  BY <2>1, OthersKeepLocks DEF LockInv
<1>2. ASSUME NEW q \in Requests, DeleteMembers(q)
      PROVE  LockInv'
  <2>1. /\ \A p \in Requests \ {q} : req'[p] = req[p]
        /\ members' = members
    BY <1>2, ReadsWell DEF Reads, memberVars
  <2>2. req[q] \in DeleteReq
    BY <1>2, Kinds DEF MembershipInv, TypeOK, DeleteMembers
  <2>3. req'[q].doomed = members /\ ~Revives(q)'
    BY <1>2, <2>2 DEF DeleteMembers, MembershipInv, TypeOK, DeleteReq, ToDoom, Revives
  <2>4. \A p \in Requests : Deletes(p) => req[p].doomed = {}
    BY <1>2 DEF DeleteMembers, RowLocked, LockInv, Deletes
  <2>5. \A p \in Requests : Deletes(p)' => req'[p].doomed \subseteq members'
    BY <2>1, <2>3 DEF LockInv, Deletes
  <2>6. \A p, r \in Requests : p # r /\ Deletes(p)' /\ Deletes(r)' =>
           req'[p].doomed \cap req'[r].doomed = {}
    BY <2>1, <2>4 DEF LockInv, Deletes
  <2>7. \A p \in Requests : Revives(p)' => req'[p].by \notin members'
    BY <2>1, <2>3 DEF LockInv, Revives
  <2> QED  BY <2>5, <2>6, <2>7 DEF LockInv
<1>3. ASSUME NEW q \in Requests, NEW u \in Users, NEW i \in Invites, AcceptLock(q, u, i)
      PROVE  LockInv'
  <2>1. /\ \A p \in Requests \ {q} : req'[p] = req[p]
        /\ members' = members
        /\ ~Deletes(q)' /\ ~Revives(q)'
    BY <1>3 DEF AcceptLock, memberVars, MembershipInv, TypeOK, Deletes, Revives
  <2> QED  BY <2>1, OthersKeepLocks DEF LockInv
<1>4. ASSUME NEW q \in Requests, AcceptRead(q)
      PROVE  LockInv'
  <2>1. req[q] \in AcceptReq
    BY <1>4, Kinds DEF MembershipInv, TypeOK, AcceptRead
  <2>2. /\ \A p \in Requests \ {q} : req'[p] = req[p]
        /\ members' = members
        /\ req'[q].pc = "acceptWrite" /\ req'[q].by = req[q].by
        /\ req'[q].joined = (req[q].by \in members)
    BY <1>4, <2>1 DEF AcceptRead, memberVars, MembershipInv, TypeOK, AcceptReq
  <2>3. ~Deletes(q)'
    BY <2>2 DEF Deletes
  <2>4. \A p \in Requests : Deletes(p)' => p # q /\ Deletes(p) /\ req'[p] = req[p]
    BY <2>2, <2>3 DEF Deletes
  <2>5. \A p \in Requests : Revives(p)' => req'[p].by \notin members'
    BY <2>2 DEF LockInv, Revives
  <2> QED  BY <2>2, <2>4, <2>5 DEF LockInv
<1>5. ASSUME NEW q \in Requests, AcceptCommit(q)
      PROVE  LockInv'
  <2>1. /\ End(q) /\ req[q].pc = "acceptWrite"
        /\ members \subseteq members'
    BY <1>5 DEF AcceptCommit, memberVars
  <2>2. \A p \in Requests \ {q} : ~Revives(p)
    BY <2>1 DEF MembershipInv, Admitted, Revives
  <2> QED  BY <2>1, <2>2, EndWaitsNot DEF LockInv, Deletes, Revives
<1>6. ASSUME NEW q \in Requests, InviteInsert(q) \/ RoleSave(q) \/ RevokeSave(q)
      PROVE  LockInv'
  <2>1. End(q) /\ members' = members
    BY <1>6 DEF InviteInsert, RoleSave, RevokeSave, memberVars
  <2> QED  BY <2>1, EndWaitsNot, OthersKeepLocks DEF LockInv
<1>7. ASSUME NEW q \in Requests, RemoveSave(q)
      PROVE  LockInv'
  <2>1. End(q) /\ ~RowLocked(req[q].whom) /\ members' = members \ {req[q].whom}
    BY <1>7 DEF RemoveSave
  <2>2. \A p \in Requests \ {q} : Deletes(p) => req[p].doomed \subseteq members'
    BY <2>1 DEF RowLocked, LockInv, Deletes
  <2> QED  BY <2>1, <2>2, EndWaitsNot, OthersKeepLocks
<1>8. ASSUME NEW q \in Requests, DeleteCommit(q)
      PROVE  LockInv'
  <2>1. End(q) /\ Deletes(q) /\ members' = members \ req[q].doomed
    BY <1>8 DEF DeleteCommit, Deletes
  <2>2. \A p \in Requests \ {q} : Deletes(p) => req[p].doomed \subseteq members'
    BY <2>1 DEF LockInv
  <2> QED  BY <2>1, <2>2, EndWaitsNot, OthersKeepLocks
<1>9. ASSUME NEW i \in Invites, Expire(i)
      PROVE  LockInv'
  BY <1>9 DEF Expire, memberVars, LockInv, Deletes, Revives
<1>10. CASE UNCHANGED vars
  BY <1>10 DEF vars, memberVars, LockInv, Deletes, Revives
<1> QED
  BY <1>1, <1>2, <1>3, <1>4, <1>5, <1>6, <1>7, <1>8, <1>9, <1>10, NextCases

(* No deletion waits for the workspace row of an acceptance that waits for   *)
(* a member row of that deletion: delete_workspace and accept_invitation     *)
(* take these locks in opposite orders, but never the same member row.       *)
THEOREM LocksNeverCross == Spec => []NoCrossedLocks
<1>1. Init => LockInv
  BY LocksInit
<1>2. MembershipInv /\ LockInv /\ [Next]_vars => LockInv'
  BY LocksStep
<1>3. LockInv => NoCrossedLocks
  BY DEF LockInv, NoCrossedLocks, Deletes, Revives
<1> QED  BY <1>1, <1>2, <1>3, MembershipInvariant, PTL DEF Spec

-----------------------------------------------------------------------------
(***************************************************************************)
(* WorkspaceMembership implements MemberRegister.  Reads change nothing    *)
(* that the register sees, and each statement that writes is a step of it. *)
(***************************************************************************)
Ranks  == [u \in Users |-> IF u \in members THEN role[u] ELSE NoRole]
Unused == issued \ (accepted \cup revoked)
Offer(i) == [id |-> i, to |-> to[i], as |-> offered[i]]
Offers == {Offer(i) : i \in Unused}

(* The first deletion to commit has the owner among those it removes, for    *)
(* the owner was a member when it locked the members' rows.                  *)
OwnerGoes ==
    ~deleted => \A q \in Requests : Deletes(q) => Owner \in req[q].doomed

(* Who is a member has a role, and what is offered is one.                   *)
Given ==
    /\ \A u \in members : role[u] # NoRole
    /\ \A i \in issued : offered[i] # NoRole

(* An offer is known by its invitation.                                      *)
LEMMA OffersApart ==
    ASSUME NEW i \in Invites, NEW j \in Invites, Offer(i) = Offer(j)
    PROVE  i = j
<1>1. Offer(i).id = i /\ Offer(j).id = j
  BY DEF Offer
<1> QED  BY <1>1

(* Nothing that the register sees has changed.                               *)
LEMMA RegisterStutters ==
    ASSUME UNCHANGED <<deleted, members, role, inviteVars>>
    PROVE  UNCHANGED Register!registerVars
BY DEF Register!registerVars, inviteVars

(* The register starts with its owner.                                       *)
LEMMA RegisterInit == Init => Register!Init
<1> SUFFICES ASSUME Init PROVE Register!Init
  OBVIOUS
<1>1. Ranks = [u \in Users |-> IF u = Owner THEN "owner" ELSE "none"]
  BY DEF Init, Ranks, NoRole
<1>2. Offers = {}
  BY DEF Init, Offers, Unused
<1> QED  BY <1>1, <1>2 DEF Init, Register!Init, Register!None, Ranks, Offers, Offer, Unused

(* InviteInsert makes an offer.                                              *)
LEMMA InsertInvites ==
    ASSUME MembershipInv, NEW q \in Requests, InviteInsert(q)
    PROVE  Register!Next
<1>1. PICK i \in Invites \ issued :
         /\ issued' = issued \cup {i}
         /\ to' = [to EXCEPT ![i] = req[q].whom]
         /\ offered' = [offered EXCEPT ![i] = req[q].as]
  BY DEF InviteInsert
<1>2. /\ UNCHANGED <<deleted, members, role, accepted, revoked>>
      /\ req[q] \in InviteReq
  BY Kinds DEF InviteInsert, memberVars, MembershipInv, TypeOK
<1>3. PICK u \in Users, r \in Roles : u = req[q].whom /\ r = req[q].as
  BY <1>2 DEF InviteReq
<1>4. /\ accepted \cup revoked \subseteq issued /\ issued \subseteq Invites
      /\ to \in [Invites -> Users] /\ offered \in [Invites -> Roles \cup {NoRole}]
  BY DEF MembershipInv, TypeOK
<1>5. Unused' = Unused \cup {i}
  BY <1>1, <1>2, <1>4 DEF Unused
<1>6. /\ Offer(i)' = [id |-> i, to |-> u, as |-> r]
      /\ \A j \in Unused : Offer(j)' = Offer(j)
  BY <1>1, <1>3, <1>4 DEF Offer, Unused
<1>7. Offers' = Offers \cup {[id |-> i, to |-> u, as |-> r]}
  BY <1>5, <1>6 DEF Offers
<1>8. Register!Invite(i, u, r)
  BY <1>1, <1>2, <1>7 DEF Register!Invite, Offers, Offer, Unused
<1> QED  BY <1>1, <1>8 DEF Register!Next

(* An offer that goes leaves the others as they are.                         *)
LEMMA OfferGoes ==
    ASSUME MembershipInv, NEW i \in Unused, Unused' = Unused \ {i}, UNCHANGED <<to, offered>>
    PROVE  Offer(i) \in Offers /\ Offers' = Offers \ {Offer(i)}
<1>1. Unused \subseteq Invites
  BY DEF MembershipInv, TypeOK, Unused
<1>2. \A j : Offer(j)' = Offer(j)
  BY DEF Offer
<1>3. Offers' = {Offer(j) : j \in Unused \ {i}}
  BY <1>2 DEF Offers
<1>4. \A j \in Unused \ {i} : Offer(j) # Offer(i)
  BY <1>1, OffersApart
<1> QED  BY <1>3, <1>4 DEF Offers

(* Saves and revocations: a member is appointed, or leaves, or an offer is   *)
(* dropped; each may come too late to change anything.                       *)
LEMMA SavesAppoint ==
    ASSUME MembershipInv, Given, NEW q \in Requests,
           RoleSave(q) \/ RemoveSave(q) \/ RevokeSave(q)
    PROVE  Register!Next \/ UNCHANGED Register!registerVars
<1>1. CASE RoleSave(q)
  <2>1. req[q] \in RoleReq
    BY <1>1, Kinds DEF RoleSave, MembershipInv, TypeOK
  <2>2. PICK u \in Users, r \in Roles : u = req[q].whom /\ r = req[q].as
    BY <2>1 DEF RoleReq
  <2>3. /\ u # Owner /\ role' = [role EXCEPT ![u] = r]
        /\ UNCHANGED <<deleted, members, inviteVars>>
        /\ role \in [Users -> AnyRole]
    BY <1>1, <2>2 DEF RoleSave, MembershipInv, TypeOK, Informed
  <2>4. CASE u \in members
    <3>1. Ranks' = [Ranks EXCEPT ![u] = r] /\ Ranks[u] # NoRole
      BY <2>3, <2>4 DEF Ranks, Given
    <3>2. Register!Appoint(u, r)
      BY <2>3, <3>1 DEF Register!Appoint, Register!None, Ranks, NoRole, inviteVars
    <3> QED  BY <3>2 DEF Register!Next
  <2>5. CASE u \notin members
    <3>1. Ranks' = Ranks
      BY <2>3, <2>5 DEF Ranks
    <3> QED  BY <2>3, <3>1 DEF Register!registerVars, Ranks, inviteVars
  <2> QED  BY <2>4, <2>5
<1>2. CASE RemoveSave(q)
  <2>1. req[q] \in RemoveReq
    BY <1>2, Kinds DEF RemoveSave, MembershipInv, TypeOK
  <2>2. PICK u \in Users : u = req[q].whom
    BY <2>1 DEF RemoveReq
  <2>3. u # Owner /\ members' = members \ {u} /\ UNCHANGED <<deleted, role, inviteVars>>
    BY <1>2, <2>2 DEF RemoveSave, MembershipInv, Informed
  <2>4. Ranks' = [Ranks EXCEPT ![u] = NoRole]
    BY <2>3 DEF Ranks
  <2>5. Register!Leave(u)
    BY <2>3, <2>4 DEF Register!Leave, Register!None, Ranks, NoRole, inviteVars
  <2> QED  BY <2>5 DEF Register!Next
<1>3. CASE RevokeSave(q)
  <2>1. PICK i \in issued : i = req[q].inv
    BY <1>3 DEF RevokeSave, MembershipInv, Informed
  <2>2. /\ revoked' = revoked \cup {i}
        /\ UNCHANGED <<deleted, members, role, issued, to, offered, accepted>>
    BY <1>3, <2>1 DEF RevokeSave, memberVars
  <2>3. CASE i \in Unused
    <3>1. Unused' = Unused \ {i}
      BY <2>2 DEF Unused
    <3>2. PICK o : o = Offer(i)
      OBVIOUS
    <3>3. o \in Offers /\ Offers' = Offers \ {o}
      BY <2>2, <2>3, <3>1, <3>2, OfferGoes
    <3>4. Register!Drop(o)
      BY <2>2, <3>3 DEF Register!Drop, Offers, Offer, Unused
    <3> QED  BY <3>3, <3>4 DEF Register!Next, Offers, Offer, Unused
  <2>4. CASE i \notin Unused
    <3>1. Unused' = Unused
      BY <2>1, <2>2, <2>4 DEF Unused
    <3> QED  BY <2>2, <3>1 DEF Register!registerVars, Unused
  <2> QED  BY <2>3, <2>4
<1> QED  BY <1>1, <1>2, <1>3

(* The end of an acceptance: the offer is taken up, or dropped by a member.  *)
LEMMA CommitJoins ==
    ASSUME MembershipInv, LockInv, NEW q \in Requests, AcceptCommit(q)
    PROVE  Register!Next
<1>1. req[q] \in AcceptReq
  BY Kinds DEF AcceptCommit, MembershipInv, TypeOK
<1>2. PICK u \in Users, i \in Invites : u = req[q].by /\ i = req[q].inv
  BY <1>1 DEF AcceptReq
<1>3. /\ ~deleted /\ i \in Unused /\ to[i] = u
      /\ accepted' = accepted \cup {i}
      /\ UNCHANGED <<deleted, issued, to, offered, revoked>>
  BY <1>2 DEF AcceptCommit, MembershipInv, Admitted, Unused
<1>4. Unused' = Unused \ {i}
  BY <1>3 DEF Unused
<1>5. PICK o : o = Offer(i)
  OBVIOUS
<1>6. o \in Offers /\ Offers' = Offers \ {o}
  BY <1>3, <1>4, <1>5, OfferGoes
<1>7. CASE req[q].joined
  <2>1. Register!Drop(o)
    BY <1>3, <1>6, <1>7 DEF AcceptCommit, memberVars, Register!Drop, Offers, Offer, Unused
  <2> QED  BY <1>6, <2>1 DEF Register!Next, Offers, Offer, Unused
<1>8. CASE ~req[q].joined
  <2>1. /\ members' = members \cup {u} /\ role' = [role EXCEPT ![u] = offered[i]]
        /\ u \notin members /\ role \in [Users -> AnyRole]
    BY <1>2, <1>8 DEF AcceptCommit, LockInv, Revives, MembershipInv, TypeOK
  <2>2. Ranks[u] = NoRole /\ Ranks' = [Ranks EXCEPT ![u] = offered[i]]
    BY <2>1 DEF Ranks
  <2>3. o.to = u /\ o.as = offered[i]
    BY <1>3, <1>5 DEF Offer
  <2>4. Register!Join(o)
    BY <1>3, <1>6, <2>2, <2>3
       DEF Register!Join, Register!None, Ranks, NoRole, Offers, Offer, Unused
  <2> QED  BY <1>6, <2>4 DEF Register!Next, Offers, Offer, Unused
<1> QED  BY <1>7, <1>8

(* The end of a deletion closes the workspace.                               *)
LEMMA DeletionCloses ==
    ASSUME MembershipInv, LockInv, OwnerGoes, NEW q \in Requests, DeleteCommit(q)
    PROVE  Register!Next
<1>1. req[q] \in DeleteReq
  BY Kinds DEF DeleteCommit, MembershipInv, TypeOK
<1>2. PICK S \in SUBSET Users : S = req[q].doomed
  BY <1>1 DEF DeleteReq
<1>3. /\ deleted' = TRUE /\ members' = members \ S /\ UNCHANGED <<role, inviteVars>>
      /\ deleted \/ Owner \in S
  BY <1>2 DEF DeleteCommit, OwnerGoes, Deletes
<1>4. Ranks' = [u \in Users |-> IF u \in S THEN NoRole ELSE Ranks[u]]
  BY <1>3 DEF Ranks
<1>5. Register!Close(S)
  BY <1>3, <1>4 DEF Register!Close, Register!None, Ranks, NoRole, inviteVars
<1> QED  BY <1>5 DEF Register!Next

(* Members and invitations have roles.                                       *)
LEMMA GivenStep ==
    ASSUME MembershipInv, Given, [Next]_vars
    PROVE  Given'
<1> USE DEF Given, NoRole
<1>1. ASSUME NEW q \in Requests,
             \/ Reads(q) \/ AcceptRead(q)
             \/ \E u \in Users, i \in Invites : AcceptLock(q, u, i)
      PROVE  Given'
  <2>1. UNCHANGED <<deleted, memberVars, inviteVars>>
    BY <1>1, ReadsWell DEF AcceptRead, AcceptLock
  <2> QED  BY <2>1 DEF memberVars, inviteVars
<1>2. ASSUME NEW q \in Requests, InviteInsert(q)
      PROVE  Given'
  <2>1. req[q] \in InviteReq
    BY <1>2, Kinds DEF InviteInsert, MembershipInv, TypeOK
  <2>2. req[q].as # NoRole
    BY <2>1, WorkspaceAssumption DEF InviteReq
  <2> QED  BY <1>2, <2>2 DEF InviteInsert, memberVars, MembershipInv, TypeOK
<1>3. ASSUME NEW q \in Requests, RoleSave(q)
      PROVE  Given'
  <2>1. req[q] \in RoleReq
    BY <1>3, Kinds DEF RoleSave, MembershipInv, TypeOK
  <2>2. req[q].as # NoRole
    BY <2>1, WorkspaceAssumption DEF RoleReq
  <2> QED  BY <1>3, <2>2 DEF RoleSave, inviteVars, MembershipInv, TypeOK
<1>4. ASSUME NEW q \in Requests, RemoveSave(q) \/ RevokeSave(q) \/ DeleteCommit(q)
      PROVE  Given'
  BY <1>4 DEF RemoveSave, RevokeSave, DeleteCommit, memberVars, inviteVars
<1>5. ASSUME NEW q \in Requests, AcceptCommit(q)
      PROVE  Given'
  <2>1. req[q].inv \in issued
    BY <1>5 DEF AcceptCommit, MembershipInv, Admitted
  <2>2. /\ UNCHANGED <<issued, offered>>
        /\ \/ UNCHANGED memberVars
           \/ /\ members' = members \cup {req[q].by}
              /\ role' = [role EXCEPT ![req[q].by] = offered[req[q].inv]]
    BY <1>5 DEF AcceptCommit, memberVars
  <2>3. role \in [Users -> AnyRole] /\ members \subseteq Users
    BY DEF MembershipInv, TypeOK
  <2>4. offered[req[q].inv] # NoRole
    BY <2>1
  <2>5. req[q].by \in Users
    BY <1>5, Kinds DEF AcceptCommit, MembershipInv, TypeOK, AcceptReq
  <2> QED  BY <2>2, <2>3, <2>4, <2>5 DEF memberVars
<1>6. ASSUME NEW i \in Invites, Expire(i)
      PROVE  Given'
  BY <1>6 DEF Expire, memberVars
<1>7. CASE UNCHANGED vars
  BY <1>7 DEF vars, memberVars, inviteVars
<1> QED  BY <1>1, <1>2, <1>3, <1>4, <1>5, <1>6, <1>7, NextCases

(* A deletion locks the rows of the members, the owner's among them.         *)
LEMMA OwnerGoesStep ==
    ASSUME MembershipInv, OwnerGoes, [Next]_vars
    PROVE  OwnerGoes'
<1>1. ASSUME NEW q \in Requests, Reads(q)
      PROVE  OwnerGoes'
  <2>1. /\ \A p \in Requests \ {q} : req'[p] = req[p]
        /\ deleted' = deleted
        /\ req'[q].pc = "deleteCommit" => DeleteMembers(q)
    BY <1>1, ReadsWell
  <2>2. ASSUME DeleteMembers(q), ~deleted
        PROVE  Owner \in req'[q].doomed
    <3>1. req[q] \in DeleteReq
      BY <2>2, Kinds DEF MembershipInv, TypeOK, DeleteMembers
    <3>2. req'[q].doomed = members
      BY <2>2, <3>1 DEF DeleteMembers, MembershipInv, TypeOK, DeleteReq, ToDoom
    <3> QED  BY <2>2, <3>2 DEF MembershipInv, Ownership
  <2> QED  BY <2>1, <2>2 DEF OwnerGoes, Deletes
<1>2. ASSUME NEW q \in Requests, End(q), deleted' = deleted
      PROVE  OwnerGoes'
  <2>1. (\A p \in Requests \ {q} : req'[p] = req[p]) /\ ~Deletes(q)'
    BY <1>2, EndWaitsNot
  <2> QED  BY <1>2, <2>1 DEF OwnerGoes, Deletes
<1>3. ASSUME NEW q \in Requests, NEW u \in Users, NEW i \in Invites, AcceptLock(q, u, i)
      PROVE  OwnerGoes'
  BY <1>3 DEF AcceptLock, OwnerGoes, Deletes, MembershipInv, TypeOK
<1>4. ASSUME NEW q \in Requests, AcceptRead(q)
      PROVE  OwnerGoes'
  <2>1. req[q] \in AcceptReq
    BY <1>4, Kinds DEF MembershipInv, TypeOK, AcceptRead
  <2>2. /\ \A p \in Requests \ {q} : req'[p] = req[p]
        /\ req'[q].pc = "acceptWrite" /\ deleted' = deleted
    BY <1>4, <2>1 DEF AcceptRead, MembershipInv, TypeOK, AcceptReq
  <2> QED  BY <2>2 DEF OwnerGoes, Deletes
<1>5. ASSUME NEW q \in Requests,
             InviteInsert(q) \/ RoleSave(q) \/ RemoveSave(q) \/ RevokeSave(q) \/ AcceptCommit(q)
      PROVE  OwnerGoes'
  BY <1>2, <1>5 DEF InviteInsert, RoleSave, RemoveSave, RevokeSave, AcceptCommit
<1>6. ASSUME NEW q \in Requests, DeleteCommit(q)
      PROVE  OwnerGoes'
  BY <1>6 DEF DeleteCommit, OwnerGoes
<1>7. ASSUME NEW i \in Invites, Expire(i)
      PROVE  OwnerGoes'
  BY <1>7 DEF Expire, OwnerGoes, Deletes
<1>8. CASE UNCHANGED vars
  BY <1>8 DEF vars, OwnerGoes, Deletes
<1> QED  BY <1>1, <1>3, <1>4, <1>5, <1>6, <1>7, <1>8, NextCases

(* Every step is one of the register, or none.                               *)
LEMMA RegisterStep ==
    ASSUME MembershipInv, LockInv, OwnerGoes, Given, [Next]_vars
    PROVE  Register!Next \/ UNCHANGED Register!registerVars
<1>1. ASSUME NEW q \in Requests,
             \/ Reads(q) \/ AcceptRead(q)
             \/ \E u \in Users, i \in Invites : AcceptLock(q, u, i)
      PROVE  UNCHANGED Register!registerVars
  <2>1. UNCHANGED <<deleted, memberVars, inviteVars>>
    BY <1>1, ReadsWell DEF AcceptRead, AcceptLock
  <2> QED  BY <2>1, RegisterStutters DEF memberVars
<1>2. ASSUME NEW i \in Invites, Expire(i)
      PROVE  UNCHANGED Register!registerVars
  BY <1>2 DEF Expire, memberVars, Register!registerVars
<1>3. CASE UNCHANGED vars
  BY <1>3, RegisterStutters DEF vars, memberVars
<1> QED
  BY <1>1, <1>2, <1>3, InsertInvites, SavesAppoint, CommitJoins, DeletionCloses, NextCases

(* However requests interleave and fail, the rows of a workspace keep the    *)
(* promise of MemberRegister.                                                *)
THEOREM RegisterKept == Spec => KeepsRegister
<1>1. Init => LockInv /\ OwnerGoes /\ Given
  BY LocksInit, WorkspaceAssumption DEF Init, OwnerGoes, Given, Deletes, Idle, NoRole
<1>2. MembershipInv /\ LockInv /\ OwnerGoes /\ Given /\ [Next]_vars
      => (LockInv /\ OwnerGoes /\ Given)'
  BY LocksStep, OwnerGoesStep, GivenStep
<1>3. MembershipInv /\ LockInv /\ OwnerGoes /\ Given /\ [Next]_vars
      => [Register!Next]_(Register!registerVars)
  BY RegisterStep
<1> QED
  BY <1>1, <1>2, <1>3, RegisterInit, MembershipInvariant, PTL
     DEF Spec, KeepsRegister, Register!Spec
=============================================================================
