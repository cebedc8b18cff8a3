--------------------------- MODULE MemberRegister ---------------------------
(***************************************************************************)
(* What a workspace promises about its members, with no request, no row    *)
(* and no lock in sight: who comes in answers an offer made to them, which *)
(* is gone after that; who is in may be given another role or go; the      *)
(* owner is the one who stays until the workspace is closed; and nobody    *)
(* comes in after that.                                                    *)
(***************************************************************************)
CONSTANTS Users, Owner, Roles, Invites

VARIABLES
    closed,      \* the workspace was deleted
    rank,        \* per user, the role of a member, or none
    sent,        \* the invitations made so far
    offers       \* those that can be taken up: for whom, and as what

registerVars == <<closed, rank, sent, offers>>

None == "none"

Init ==
    /\ closed = FALSE
    /\ rank = [u \in Users |-> IF u = Owner THEN "owner" ELSE None]
    /\ sent = {}
    /\ offers = {}

(* An offer is made once.                                                    *)
Invite(i, u, r) ==
    /\ i \notin sent
    /\ sent' = sent \cup {i}
    /\ offers' = offers \cup {[id |-> i, to |-> u, as |-> r]}
    /\ UNCHANGED <<closed, rank>>

(* It is withdrawn, or taken up by somebody who needs none.                  *)
Drop(o) ==
    /\ o \in offers
    /\ offers' = offers \ {o}
    /\ UNCHANGED <<closed, rank, sent>>

Join(o) ==
    /\ ~closed
    /\ o \in offers
    /\ rank[o.to] = None
    /\ rank' = [rank EXCEPT ![o.to] = o.as]
    /\ offers' = offers \ {o}
    /\ UNCHANGED <<closed, sent>>

Appoint(u, r) ==
    /\ u # Owner
    /\ rank[u] # None
    /\ rank' = [rank EXCEPT ![u] = r]
    /\ UNCHANGED <<closed, sent, offers>>

Leave(u) ==
    /\ u # Owner
    /\ rank' = [rank EXCEPT ![u] = None]
    /\ UNCHANGED <<closed, sent, offers>>

(* The owner goes with the workspace, and with them who else was seen.       *)
Close(S) ==
    /\ closed \/ Owner \in S
    /\ closed' = TRUE
    /\ rank' = [u \in Users |-> IF u \in S THEN None ELSE rank[u]]
    /\ UNCHANGED <<sent, offers>>

Next ==
    \/ \E i \in Invites, u \in Users, r \in Roles : Invite(i, u, r)
    \/ \E o \in offers : Drop(o) \/ Join(o)
    \/ \E u \in Users : Leave(u) \/ \E r \in Roles : Appoint(u, r)
    \/ \E S \in SUBSET Users : Close(S)

Spec == Init /\ [][Next]_registerVars
=============================================================================
