----------------------------- MODULE Presence -----------------------------
(***************************************************************************)
(* Who is online: the PresenceConsumer of services/core keeps, per user, a *)
(* counter of open sockets in Redis that expires unless heartbeats refresh *)
(* it, tells whoever connects who is there, and broadcasts the first       *)
(* connection and the last disconnection.                                  *)
(*                                                                         *)
(* The module follows one user, with several tabs, and one viewer, a       *)
(* socket of somebody else.  A step is one Redis command or one call of    *)
(* the channel layer.  The Redis client is synchronous, so that within one *)
(* worker process nothing comes between two commands without an await in   *)
(* between; the sockets of another worker may come anywhere.  Time is      *)
(* counted in heartbeat intervals of 30 seconds.                           *)
(***************************************************************************)
EXTENDS Naturals, Integers, Sequences, FiniteSets

CONSTANTS
    Sockets,     \* the user's tabs
    Workers,     \* uvicorn worker processes
    MaxCrashes,  \* bounds the crashes of workers
    MaxWire      \* bounds the broadcasts the viewer is behind

ASSUME PresenceAssumption ==
    /\ IsFiniteSet(Sockets) /\ IsFiniteSet(Workers) /\ Workers # {}
    /\ MaxCrashes \in Nat /\ MaxWire \in Nat \ {0}

VARIABLES
    key,         \* presence:conn:{user_id}: is it there, its value, intervals left
    sock,        \* per tab, where its consumer is and on which worker
    beaten,      \* tabs that have sent this interval's heartbeat
    viewer,      \* where the viewer's consumer is and on which worker
    view,        \* the viewer's page shows the user online
    wire,        \* broadcasts in the viewer's channel
    silent,      \* the user went unannounced since the viewer was up to date (history)
    overtaken,   \* a DELETE took the count of a tab that is still here (history)
    cut,         \* a worker died between two commands (history)
    crashes

userVars   == <<key, sock, beaten>>
viewerVars == <<viewer, view, wire>>
history    == <<silent, overtaken, cut, crashes>>
vars       == <<userVars, viewerVars, history>>

-----------------------------------------------------------------------------
NoKey    == [there |-> FALSE, count |-> 0, left |-> 0]
NoWorker == "none"
Out      == [pc |-> "out", at |-> NoWorker]

(* Variants of the definitions below, each with a mistake the code avoids.   *)
OneBeat == 1
NoRoster         == view
StillCounted     == [key EXCEPT !.there = TRUE]
RefreshedByFirst == IF key.count = 1 THEN [key EXCEPT !.left = 2] ELSE [key EXCEPT !.left = 0]

(* PRESENCE_TTL in heartbeat intervals.                                      *)
PresenceTtl == 2

(* INCR and DECR create a missing key, without an expiry; EXPIRE does        *)
(* nothing to one.  A key whose left is 0 never expires.                     *)
Incremented == [key EXCEPT !.there = TRUE, !.count = @ + 1]
Decremented == [key EXCEPT !.there = TRUE, !.count = @ - 1]
Refreshed   == IF key.there THEN [key EXCEPT !.left = PresenceTtl] ELSE key

(* group_send reaches a channel from its group_add on; what it holds is      *)
(* handled when the viewer's connect has returned.                           *)
Tell(e) == IF viewer.pc # "out" THEN Append(wire, e) ELSE wire

(* The roster is the scan of the keys, made after group_add.                 *)
RosterSent == key.there

(* Tabs that have been counted and not discounted.                           *)
CountedPcs == {"incredFirst", "incred", "first", "opening", "open"}
Counted    == {s \in Sockets : sock[s].pc \in CountedPcs}

(* A consumer on w is between two commands with no await between them.       *)
Midway == {"incredFirst", "incred", "decred", "drained"}
Busy(w) == \E s \in Sockets : sock[s].pc \in Midway /\ sock[s].at = w

(* The viewer keeps up: every handler in progress may still broadcast once.  *)
KeepsUp ==
    Len(wire) + Cardinality({s \in Sockets : sock[s].pc \notin {"out", "open"}}) < MaxWire

Moved(s, pc) == [sock EXCEPT ![s].pc = pc]

-----------------------------------------------------------------------------
Init ==
    /\ key = NoKey
    /\ sock = [s \in Sockets |-> Out]
    /\ beaten = {}
    /\ viewer = Out
    /\ view = FALSE
    /\ wire = <<>>
    /\ silent = FALSE /\ overtaken = FALSE /\ cut = FALSE /\ crashes = 0

-----------------------------------------------------------------------------
(* connect: count the socket and see whether it is the first ...             *)
Count(s, w) ==
    /\ sock[s] = Out /\ ~Busy(w) /\ KeepsUp
    /\ key' = Incremented
    /\ sock' = [sock EXCEPT ![s] = [pc |-> IF Incremented.count = 1 THEN "incredFirst"
                                           ELSE "incred", at |-> w]]
    /\ UNCHANGED <<beaten, viewerVars, history>>

(* ... give the key its time ...                                             *)
Last(s) ==
    /\ sock[s].pc \in {"incredFirst", "incred"}
    /\ key' = Refreshed
    /\ sock' = Moved(s, IF sock[s].pc = "incredFirst" THEN "first" ELSE "opening")
    /\ beaten' = beaten \cup {s}
    /\ UNCHANGED <<viewerVars, history>>

(* ... accept, send the roster (which does not matter to this user) and      *)
(* announce a first connection.                                              *)
Open(s) ==
    /\ sock[s].pc = "opening" /\ ~Busy(sock[s].at)
    /\ sock' = Moved(s, "open")
    /\ UNCHANGED <<key, beaten, viewerVars, history>>

Announce(s) ==
    /\ sock[s].pc = "first" /\ ~Busy(sock[s].at)
    /\ wire' = Tell("online")
    /\ sock' = Moved(s, "open")
    /\ UNCHANGED <<key, beaten, viewer, view, history>>

(* receive of a heartbeat.                                                   *)
Heartbeat(s) ==
    /\ sock[s].pc = "open" /\ s \notin beaten /\ ~Busy(sock[s].at)
    /\ key' = Refreshed
    /\ beaten' = beaten \cup {s}
    /\ UNCHANGED <<sock, viewerVars, history>>

(* disconnect: discount the socket, delete a key that was down to zero (at   *)
(* another worker a tab may have been counted since), and say that the user  *)
(* went offline.                                                             *)
Discount(s) ==
    /\ sock[s].pc = "open" /\ ~Busy(sock[s].at) /\ KeepsUp
    /\ key' = Decremented
    /\ sock' = IF Decremented.count <= 0 THEN Moved(s, "decred")
               ELSE [sock EXCEPT ![s] = Out]
    /\ beaten' = beaten \ {s}
    /\ UNCHANGED <<viewerVars, history>>

Delete(s) ==
    /\ sock[s].pc = "decred"
    /\ key' = NoKey
    /\ sock' = Moved(s, "drained")
    /\ overtaken' = (Counted # {} /\ (overtaken \/ key.count > 0))
    /\ UNCHANGED <<beaten, viewerVars, silent, cut, crashes>>

Leave(s) ==
    /\ sock[s].pc = "drained"
    /\ wire' = Tell("offline")
    /\ sock' = [sock EXCEPT ![s] = Out]
    /\ UNCHANGED <<key, beaten, viewer, view, history>>

-----------------------------------------------------------------------------
(* The viewer joins the group, is sent the roster, and follows broadcasts.   *)
Join(w) ==
    /\ viewer = Out /\ ~Busy(w)
    /\ viewer' = [pc |-> "joined", at |-> w]
    /\ silent' = FALSE
    /\ UNCHANGED <<userVars, view, wire, overtaken, cut, crashes>>

Roster ==
    /\ viewer.pc = "joined" /\ ~Busy(viewer.at)
    /\ viewer' = [viewer EXCEPT !.pc = "watching"]
    /\ view' = RosterSent
    /\ silent' = (silent /\ wire # <<>>)
    /\ UNCHANGED <<userVars, wire, overtaken, cut, crashes>>

Receive ==
    /\ viewer.pc = "watching" /\ wire # <<>> /\ ~Busy(viewer.at)
    /\ view' = (Head(wire) = "online")
    /\ wire' = Tail(wire)
    /\ UNCHANGED <<userVars, viewer, history>>

Quit ==
    /\ viewer.pc = "watching" /\ ~Busy(viewer.at)
    /\ viewer' = Out /\ wire' = <<>>
    /\ UNCHANGED <<userVars, view, history>>

-----------------------------------------------------------------------------
(* Half a minute passes.  Handlers are short, and an open tab beats once.    *)
Tick ==
    /\ \A s \in Sockets : sock[s].pc \in {"out", "open"}
    /\ {s \in Sockets : sock[s].pc = "open"} \subseteq beaten
    /\ key.left > 0 \/ beaten # {}
    /\ key' = IF key.left = 1 THEN NoKey ELSE [key EXCEPT !.left = IF @ = 0 THEN 0 ELSE @ - 1]
    /\ silent' = (silent \/ key.left = 1)
    /\ beaten' = {}
    /\ UNCHANGED <<sock, viewerVars, overtaken, cut, crashes>>

(* A worker dies with its sockets, and no disconnect runs.                   *)
Crash(w) ==
    /\ crashes < MaxCrashes /\ (viewer.at = w \/ \E s \in Sockets : sock[s].at = w)
    /\ crashes' = crashes + 1
    /\ cut' = (cut \/ Busy(w))
    /\ silent' = (silent \/ (~key.there /\ \E s \in Sockets : sock[s].at = w))
    /\ sock' = [s \in Sockets |-> IF sock[s].at = w THEN Out ELSE sock[s]]
    /\ beaten' = {s \in beaten : sock[s].at # w}
    /\ IF viewer.at = w THEN viewer' = Out /\ wire' = <<>> ELSE UNCHANGED <<viewer, wire>>
    /\ UNCHANGED <<key, view, overtaken>>

-----------------------------------------------------------------------------
Finish(s) == Last(s) \/ Open(s) \/ Announce(s) \/ Delete(s) \/ Leave(s)

Next ==
    \/ \E s \in Sockets :
           \/ \E w \in Workers : Count(s, w)
           \/ Finish(s) \/ Heartbeat(s) \/ Discount(s)
    \/ \E w \in Workers : Join(w) \/ Crash(w)
    \/ Roster \/ Receive \/ Quit
    \/ Tick

Spec == Init /\ [][Next]_vars

(* Handlers run to their end, the viewer reads what it is sent, open tabs    *)
(* beat and time passes.                                                     *)
FairSpec ==
    /\ Spec
    /\ \A s \in Sockets : WF_vars(Finish(s)) /\ WF_vars(Heartbeat(s))
    /\ WF_vars(Roster) /\ WF_vars(Receive)
    /\ WF_vars(Tick)

-----------------------------------------------------------------------------
Pcs == {"out", "incredFirst", "incred", "first", "opening", "open", "decred", "drained"}

Gone == \A s \in Sockets : sock[s].pc = "out"

(* The values each variable may have.  A DELETE at one worker may take the   *)
(* count of a tab at another, so that the counter falls below zero, but it   *)
(* never strays further from zero than dead workers can have driven it.      *)
TypeOK ==
    /\ LET most == (MaxCrashes + 1) * Cardinality(Sockets)
       IN  key \in [there : BOOLEAN, count : -most .. most, left : 0 .. PresenceTtl]
    /\ key.there \/ key = NoKey
    /\ sock \in [Sockets -> [pc : Pcs, at : Workers \cup {NoWorker}]]
    /\ beaten \subseteq Sockets
    /\ viewer \in [pc : {"out", "joined", "watching"}, at : Workers \cup {NoWorker}]
    /\ view \in BOOLEAN
    /\ silent \in BOOLEAN /\ overtaken \in BOOLEAN /\ cut \in BOOLEAN
    /\ wire \in Seq({"online", "offline"}) /\ Len(wire) <= MaxWire
    /\ crashes \in 0 .. MaxCrashes

(* "Sticky across tabs" of PresenceConsumer, as far as it goes: while a tab  *)
(* is open the user's key is there, whichever tabs opened, closed or died    *)
(* before and at whichever worker, unless the tab connected between the DECR *)
(* and the DELETE of another one's disconnect.                               *)
StickyUnlessOvertaken == ~overtaken /\ (\E s \in Sockets : sock[s].pc = "open") => key.there

(* Nobody is "haunting the rail": a viewer that has read its broadcasts does *)
(* not show a user who has no tab and no key, however its joining and the    *)
(* handlers of several workers interleaved; only a key that expires and a    *)
(* worker that dies with tabs that have no key go untold.                    *)
NoGhost ==
    Gone /\ viewer.pc = "watching" /\ wire = <<>> /\ ~silent /\ view => key.there

(* "A crashed session expires on its own": a user with no tab left is        *)
(* offline in the end, whatever counts dead workers left behind, unless a    *)
(* worker died between INCR and EXPIRE.                                      *)
GoneIsForgotten == Gone /\ ~cut ~> ~Gone \/ cut \/ ~key.there
=============================================================================
