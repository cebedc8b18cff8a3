--------------------------- MODULE PresenceProofs ---------------------------
(***************************************************************************)
(* Presence for every number of tabs, workers, crashes and broadcasts: how *)
(* far the counter may stray, when a user with a tab has a key, that no    *)
(* viewer is left with a ghost, and that what is left behind expires.      *)
(***************************************************************************)
EXTENDS Presence, FiniteSetTheorems, SequenceTheorems, TLAPS

(* The tabs between DECR and DELETE, and the handlers that may still         *)
(* broadcast.                                                                *)
Draining == {s \in Sockets : sock[s].pc = "decred"}
InFlight == {s \in Sockets : sock[s].pc \notin {"out", "open"}}

Keys  == [there : BOOLEAN, count : Int, left : 0 .. PresenceTtl]
Tabs  == [pc : Pcs, at : Workers \cup {NoWorker}]
Seats == [pc : {"out", "joined", "watching"}, at : Workers \cup {NoWorker}]
Kinds ==
    /\ key \in Keys
    /\ key.there \/ key = NoKey
    /\ sock \in [Sockets -> Tabs]
    /\ beaten \subseteq Sockets
    /\ viewer \in Seats
    /\ viewer.pc = "out" => viewer = Out /\ wire = <<>>
    /\ view \in BOOLEAN /\ silent \in BOOLEAN /\ overtaken \in BOOLEAN /\ cut \in BOOLEAN
    /\ wire \in Seq({"online", "offline"})
    /\ crashes \in 0 .. MaxCrashes

(* The counter strays from zero by the tabs that are counted or draining,    *)
(* and by those that died.                                                   *)
Lost  == crashes * Cardinality(Sockets)
Tally ==
    /\ key.count <= Cardinality(Counted) + Lost
    /\ -key.count <= Cardinality(Draining) + Lost

(* Where no DELETE has taken a count, every tab is counted.                  *)
Kept ==
    ~overtaken => /\ Cardinality(Counted) <= key.count
                  /\ Counted # {} => key.there

(* A tab that has beaten has renewed the key in this interval.               *)
Beats ==
    /\ beaten \subseteq {s \in Sockets : sock[s].pc \in {"first", "opening", "open"}}
    /\ ~overtaken /\ beaten # {} => key.left = PresenceTtl

Room == Len(wire) + Cardinality(InFlight) <= MaxWire

(* The last that is heard of a user who is gone is that he is.               *)
Told ==
    Gone /\ ~silent /\ ~key.there =>
        /\ wire # <<>> => wire[Len(wire)] = "offline"
        /\ viewer.pc = "watching" /\ wire = <<>> => ~view

PresenceInv == Kinds /\ Tally /\ Kept /\ Beats /\ Room /\ Told

-----------------------------------------------------------------------------
(* The sets that are counted are finite, in this state and in the next.      *)
LEMMA Sizes ==
    /\ IsFiniteSet(Sockets) /\ Cardinality(Sockets) \in Nat
    /\ IsFiniteSet(Counted) /\ Cardinality(Counted) \in Nat
    /\ IsFiniteSet(Draining) /\ Cardinality(Draining) \in Nat
    /\ IsFiniteSet(InFlight) /\ Cardinality(InFlight) \in Nat
    /\ Cardinality(Counted) <= Cardinality(Sockets)
    /\ Cardinality(Draining) <= Cardinality(Sockets)
    /\ Cardinality(Counted) = 0 <=> Counted = {}
<1>1. /\ Counted \subseteq Sockets /\ InFlight \subseteq Sockets /\ Draining \subseteq Sockets
      /\ IsFiniteSet(Sockets)
  BY PresenceAssumption DEF Counted, InFlight, Draining
<1>2. IsFiniteSet(Counted) /\ IsFiniteSet(InFlight) /\ IsFiniteSet(Draining)
  BY <1>1, FS_Subset
<1> QED  BY <1>1, <1>2, FS_Subset, FS_CardinalityType, FS_EmptySet

(* The same of the next state.                                               *)
LEMMA NextSizes ==
    /\ IsFiniteSet(Counted') /\ Cardinality(Counted') \in Nat
    /\ IsFiniteSet(Draining') /\ Cardinality(Draining') \in Nat
    /\ IsFiniteSet(InFlight') /\ Cardinality(InFlight') \in Nat
    /\ Cardinality(Counted') = 0 <=> Counted' = {}
<1>1. /\ Counted' \subseteq Sockets /\ InFlight' \subseteq Sockets /\ Draining' \subseteq Sockets
      /\ IsFiniteSet(Sockets)
  BY PresenceAssumption DEF Counted, InFlight, Draining
<1>2. IsFiniteSet(Counted') /\ IsFiniteSet(InFlight') /\ IsFiniteSet(Draining')
  BY <1>1, FS_Subset
<1> QED  BY <1>1, <1>2, FS_CardinalityType, FS_EmptySet

(* A set that gains or loses at most one member, and its size.               *)
LEMMA OneMore ==
    ASSUME NEW S, IsFiniteSet(S), NEW x
    PROVE  /\ Cardinality(S) \in Nat /\ Cardinality(S \cup {x}) \in Nat
           /\ Cardinality(S \ {x}) \in Nat
           /\ Cardinality(S \cup {x}) = IF x \in S THEN Cardinality(S) ELSE Cardinality(S) + 1
           /\ Cardinality(S \ {x}) = IF x \in S THEN Cardinality(S) - 1 ELSE Cardinality(S)
<1>1. IsFiniteSet(S \cup {x}) /\ IsFiniteSet(S \ {x})
  BY FS_AddElement, FS_RemoveElement
<1> QED  BY <1>1, FS_AddElement, FS_RemoveElement, FS_CardinalityType

(* One tab moves: it joins or leaves each of the sets.                       *)
LEMMA TabMoves ==
    ASSUME Kinds, NEW s \in Sockets, NEW r \in Tabs, sock' = [sock EXCEPT ![s] = r]
    PROVE  /\ sock' \in [Sockets -> Tabs] /\ sock'[s] = r
           /\ \A t \in Sockets : t # s => sock'[t] = sock[t]
           /\ Counted' = IF r.pc \in CountedPcs THEN Counted \cup {s} ELSE Counted \ {s}
           /\ Draining' = IF r.pc = "decred" THEN Draining \cup {s} ELSE Draining \ {s}
           /\ InFlight' = IF r.pc \notin {"out", "open"} THEN InFlight \cup {s}
                                                         ELSE InFlight \ {s}
<1>1. /\ sock' \in [Sockets -> Tabs] /\ sock'[s] = r
      /\ \A t \in Sockets : t # s => sock'[t] = sock[t]
  BY DEF Kinds
<1>2. Counted' = IF r.pc \in CountedPcs THEN Counted \cup {s} ELSE Counted \ {s}
  BY <1>1 DEF Counted
<1>3. Draining' = IF r.pc = "decred" THEN Draining \cup {s} ELSE Draining \ {s}
  BY <1>1 DEF Draining
<1>4. InFlight' = IF r.pc \notin {"out", "open"} THEN InFlight \cup {s} ELSE InFlight \ {s}
  BY <1>1 DEF InFlight
<1> QED  BY <1>1, <1>2, <1>3, <1>4

(* The sizes of the sets as one tab moves.                                   *)
LEMMA SizesMove ==
    ASSUME Kinds, NEW s \in Sockets, NEW r \in Tabs, sock' = [sock EXCEPT ![s] = r]
    PROVE  /\ Cardinality(Counted') = IF r.pc \in CountedPcs
                  THEN IF s \in Counted THEN Cardinality(Counted) ELSE Cardinality(Counted) + 1
                  ELSE IF s \in Counted THEN Cardinality(Counted) - 1 ELSE Cardinality(Counted)
           /\ Cardinality(Draining') = IF r.pc = "decred"
                  THEN IF s \in Draining THEN Cardinality(Draining) ELSE Cardinality(Draining) + 1
                  ELSE IF s \in Draining THEN Cardinality(Draining) - 1 ELSE Cardinality(Draining)
           /\ Cardinality(InFlight') = IF r.pc \notin {"out", "open"}
                  THEN IF s \in InFlight THEN Cardinality(InFlight) ELSE Cardinality(InFlight) + 1
                  ELSE IF s \in InFlight THEN Cardinality(InFlight) - 1 ELSE Cardinality(InFlight)
<1>1. /\ Counted' = IF r.pc \in CountedPcs THEN Counted \cup {s} ELSE Counted \ {s}
      /\ Draining' = IF r.pc = "decred" THEN Draining \cup {s} ELSE Draining \ {s}
      /\ InFlight' = IF r.pc \notin {"out", "open"} THEN InFlight \cup {s} ELSE InFlight \ {s}
  BY TabMoves
<1>2. IsFiniteSet(Counted) /\ IsFiniteSet(Draining) /\ IsFiniteSet(InFlight)
  BY Sizes
<1>3. Cardinality(Counted') = IF r.pc \in CountedPcs
          THEN IF s \in Counted THEN Cardinality(Counted) ELSE Cardinality(Counted) + 1
          ELSE IF s \in Counted THEN Cardinality(Counted) - 1 ELSE Cardinality(Counted)
  BY <1>1, <1>2, OneMore
<1>4. Cardinality(Draining') = IF r.pc = "decred"
          THEN IF s \in Draining THEN Cardinality(Draining) ELSE Cardinality(Draining) + 1
          ELSE IF s \in Draining THEN Cardinality(Draining) - 1 ELSE Cardinality(Draining)
  BY <1>1, <1>2, OneMore
<1>5. Cardinality(InFlight') = IF r.pc \notin {"out", "open"}
          THEN IF s \in InFlight THEN Cardinality(InFlight) ELSE Cardinality(InFlight) + 1
          ELSE IF s \in InFlight THEN Cardinality(InFlight) - 1 ELSE Cardinality(InFlight)
  BY <1>1, <1>2, OneMore
<1> QED  BY <1>3, <1>4, <1>5

(* A place that a tab may take: outside, or at a worker.                     *)
LEMMA Places ==
    /\ Out \in Tabs /\ Out \in Seats /\ Out.pc = "out"
    /\ \A w \in Workers : /\ [pc |-> "incredFirst", at |-> w] \in Tabs
                          /\ [pc |-> "incred", at |-> w] \in Tabs
BY DEF Out, Tabs, Seats, Pcs

(* The record of a tab with another program counter.                         *)
LEMMA MovedTab ==
    ASSUME sock \in [Sockets -> Tabs], NEW s \in Sockets, NEW pc \in Pcs
    PROVE  /\ [sock[s] EXCEPT !.pc = pc] \in Tabs /\ [sock[s] EXCEPT !.pc = pc].pc = pc
           /\ Moved(s, pc) = [sock EXCEPT ![s] = [sock[s] EXCEPT !.pc = pc]]
<1>1. sock[s] \in Tabs
  OBVIOUS
<1> QED  BY <1>1 DEF Tabs, Moved

(* What INCR, DECR and EXPIRE make of the key.                               *)
LEMMA KeyMoves ==
    ASSUME key \in Keys
    PROVE  /\ Incremented \in Keys /\ Incremented.there /\ Incremented.left = key.left
           /\ Incremented.count = key.count + 1
           /\ Decremented \in Keys /\ Decremented.there /\ Decremented.left = key.left
           /\ Decremented.count = key.count - 1
           /\ Refreshed \in Keys /\ (Refreshed.there <=> key.there)
           /\ Refreshed.count = key.count
           /\ key.there => Refreshed.left = PresenceTtl
           /\ ~key.there => Refreshed = key
           /\ NoKey \in Keys /\ ~NoKey.there /\ NoKey.count = 0
<1> USE DEF Keys, PresenceTtl
<1>1. ASSUME NEW n \in Int PROVE [key EXCEPT !.there = TRUE, !.count = n] \in Keys
  BY Zenon
<1>2. /\ Incremented \in Keys /\ Incremented.there /\ Incremented.left = key.left
      /\ Incremented.count = key.count + 1
  <2>1. key.count + 1 \in Int
    OBVIOUS
  <2>2. Incremented \in Keys
    BY <1>1, <2>1 DEF Incremented
  <2>3. /\ Incremented.there /\ Incremented.left = key.left
        /\ Incremented.count = key.count + 1
    BY DEF Incremented
  <2> QED  BY <2>2, <2>3
<1>3. /\ Decremented \in Keys /\ Decremented.there /\ Decremented.left = key.left
      /\ Decremented.count = key.count - 1
  <2>1. key.count - 1 \in Int
    OBVIOUS
  <2>2. Decremented \in Keys
    BY <1>1, <2>1 DEF Decremented
  <2>3. /\ Decremented.there /\ Decremented.left = key.left
        /\ Decremented.count = key.count - 1
    BY DEF Decremented
  <2> QED  BY <2>2, <2>3
<1>4. NoKey \in Keys /\ ~NoKey.there /\ NoKey.count = 0
  BY DEF NoKey
<1>5. CASE key.there
  <2>1. /\ Refreshed \in Keys /\ Refreshed.there /\ Refreshed.count = key.count
        /\ Refreshed.left = PresenceTtl
    BY <1>5 DEF Refreshed
  <2> QED  BY <1>2, <1>3, <1>4, <1>5, <2>1
<1>6. CASE ~key.there
  <2>1. Refreshed = key
    BY <1>6 DEF Refreshed
  <2> QED  BY <1>2, <1>3, <1>4, <1>6, <2>1
<1> QED  BY <1>5, <1>6

(* What half a minute makes of a key that does not expire in it.             *)
LEMMA KeyAges ==
    ASSUME key \in Keys, key.left # 1,
           key' = [key EXCEPT !.left = IF @ = 0 THEN 0 ELSE @ - 1]
    PROVE  /\ key' \in Keys /\ (key'.there <=> key.there) /\ key'.count = key.count
           /\ key.left = 0 => key'.left = 0 /\ key' = key
           /\ key.left # 0 => key'.left = key.left - 1 /\ key'.left # 0
<1> USE DEF Keys, PresenceTtl
<1>1. CASE key.left = 0
  <2>1. key' = [key EXCEPT !.left = 0]
    BY <1>1
  <2>2. key' = key
    BY <1>1, <2>1, Zenon
  <2> QED  BY <1>1, <2>2
<1>2. CASE key.left # 0
  <2>1. key.left = 2
    BY <1>2
  <2>2. key' = [key EXCEPT !.left = 1]
    BY <2>1
  <2>3. key' \in Keys
    BY <2>2
  <2>4. key'.there = key.there /\ key'.count = key.count /\ key'.left = 1
    BY <2>2
  <2> QED  BY <2>1, <2>3, <2>4
<1> QED  BY <1>1, <1>2

(* What a broadcast adds to the viewer's channel.                            *)
LEMMA Tells ==
    ASSUME Kinds, NEW e \in {"online", "offline"}, wire' = Tell(e)
    PROVE  /\ wire' \in Seq({"online", "offline"}) /\ Len(wire') \in Nat /\ Len(wire) \in Nat
           /\ Len(wire') <= Len(wire) + 1
           /\ wire' # <<>> => wire'[Len(wire')] = e
           /\ wire' = <<>> => viewer.pc = "out"
           /\ viewer.pc = "out" => wire' = <<>>
<1>1. wire \in Seq({"online", "offline"}) /\ Len(wire) \in Nat
  BY DEF Kinds
<1>2. CASE viewer.pc = "out"
  BY <1>1, <1>2 DEF Kinds, Tell
<1>3. CASE viewer.pc # "out"
  BY <1>1, <1>3 DEF Kinds, Tell
<1> QED  BY <1>2, <1>3

(* The counts that dead workers may have left are a number.                  *)
LEMMA LostIsNatural == ASSUME Kinds PROVE Lost \in Nat
<1>1. crashes \in Nat /\ Cardinality(Sockets) \in Nat
  BY Sizes, PresenceAssumption DEF Kinds
<1> QED  BY <1>1 DEF Lost

-----------------------------------------------------------------------------
(* Nobody is there at first.                                                 *)
LEMMA PresenceInit == Init => PresenceInv
<1> SUFFICES ASSUME Init PROVE PresenceInv
  OBVIOUS
<1>1. \A s \in Sockets : sock[s] = Out
  BY DEF Init
<1>2. Counted = {} /\ InFlight = {} /\ Draining = {}
  BY <1>1 DEF Counted, InFlight, Draining, CountedPcs, Out
<1>3. Cardinality(Counted) = 0 /\ Cardinality(InFlight) = 0 /\ Cardinality(Draining) = 0
  BY <1>2, FS_EmptySet
<1>4. Kinds
  <2>1. key \in Keys /\ key = NoKey
    BY DEF Init, Keys, NoKey, PresenceTtl
  <2>2. sock \in [Sockets -> Tabs] /\ viewer \in Seats
    BY Places DEF Init
  <2>3. crashes \in 0 .. MaxCrashes /\ wire \in Seq({"online", "offline"})
    BY PresenceAssumption DEF Init
  <2> QED  BY <2>1, <2>2, <2>3 DEF Init, Kinds
<1>5. Tally /\ Kept /\ Beats
  BY <1>2, <1>3, LostIsNatural, <1>4 DEF Init, Tally, Kept, Beats, NoKey
<1>6. Told
  BY DEF Init, Told, Out
<1>7. Room
  BY <1>3, PresenceAssumption DEF Init, Room
<1> QED  BY <1>4, <1>5, <1>6, <1>7 DEF PresenceInv

(* connect counts a tab.                                                     *)
LEMMA CountKeeps ==
    ASSUME PresenceInv, NEW s \in Sockets, NEW w \in Workers, Count(s, w)
    PROVE  PresenceInv'
<1>1. Kinds /\ Tally /\ Kept /\ Beats /\ Room /\ key \in Keys /\ Lost \in Nat
  BY LostIsNatural DEF PresenceInv, Kinds
<1>2. PICK r \in Tabs : /\ sock' = [sock EXCEPT ![s] = r]
                        /\ r.pc \in {"incredFirst", "incred"}
  <2>1. PICK pc \in {"incredFirst", "incred"} : sock' = [sock EXCEPT ![s] = [pc |-> pc, at |-> w]]
    BY DEF Count
  <2> QED  BY <2>1, Places
<1>3. /\ key' \in Keys /\ key'.there /\ key'.count = key.count + 1 /\ key'.left = key.left
      /\ UNCHANGED <<beaten, viewer, view, wire, silent, overtaken, cut, crashes>>
  BY <1>1, KeyMoves DEF Count, viewerVars, history
<1>4. sock[s].pc = "out"
  BY DEF Count, Out
<1>5. s \notin Counted /\ s \notin InFlight /\ s \notin Draining
  BY <1>4 DEF Counted, InFlight, Draining, CountedPcs
<1>6. r.pc \in CountedPcs /\ r.pc \notin {"out", "open"} /\ r.pc # "decred"
  BY <1>2 DEF CountedPcs
<1>7. /\ Cardinality(Counted') = Cardinality(Counted) + 1
      /\ Cardinality(InFlight') = Cardinality(InFlight) + 1
      /\ Cardinality(Draining') = Cardinality(Draining)
  BY <1>1, <1>2, <1>5, <1>6, SizesMove
<1>8. /\ sock' \in [Sockets -> Tabs] /\ sock'[s] = r
      /\ \A t \in Sockets : t # s => sock'[t] = sock[t]
  BY <1>1, <1>2, TabMoves
<1>9. Kinds'
  BY <1>1, <1>3, <1>8 DEF Kinds
<1>10. Tally' /\ Kept'
  <2>1. Lost' = Lost /\ key.count \in Int
    BY <1>1, <1>3 DEF Lost, Keys
  <2> QED  BY <1>1, <1>3, <1>7, <2>1, Sizes DEF Tally, Kept
<1>11. Beats'
  BY <1>1, <1>3, <1>4, <1>8 DEF Beats
<1>12. Room'
  <2>1. Len(wire) + Cardinality(InFlight) < MaxWire
    BY DEF Count, KeepsUp, InFlight
  <2>2. Len(wire) \in Nat
    BY <1>1 DEF Kinds
  <2> QED  BY <1>3, <1>7, <2>1, <2>2, Sizes, PresenceAssumption DEF Room
<1>13. Told'
  BY <1>6, <1>8 DEF Told, Gone
<1> QED  BY <1>9, <1>10, <1>11, <1>12, <1>13 DEF PresenceInv

(* EXPIRE gives the key its time, and the handler goes on.                   *)
LEMMA LastKeeps ==
    ASSUME PresenceInv, NEW s \in Sockets, Last(s)
    PROVE  PresenceInv'
<1>1. Kinds /\ Tally /\ Kept /\ Beats /\ Room /\ key \in Keys /\ Lost \in Nat
  BY LostIsNatural DEF PresenceInv, Kinds
<1>2. sock[s].pc \in {"incredFirst", "incred"}
  BY DEF Last
<1>3. PICK r \in Tabs : sock' = [sock EXCEPT ![s] = r] /\ r.pc \in {"first", "opening"}
  <2>1. PICK pc \in {"first", "opening"} : sock' = Moved(s, pc)
    BY DEF Last
  <2>2. pc \in Pcs /\ sock \in [Sockets -> Tabs]
    BY <1>1 DEF Pcs, Kinds
  <2>3. /\ [sock[s] EXCEPT !.pc = pc] \in Tabs /\ [sock[s] EXCEPT !.pc = pc].pc = pc
        /\ sock' = [sock EXCEPT ![s] = [sock[s] EXCEPT !.pc = pc]]
    BY <2>1, <2>2, MovedTab
  <2> QED  BY <2>3
<1>4. /\ key' \in Keys /\ (key'.there <=> key.there) /\ key'.count = key.count
      /\ key.there => key'.left = PresenceTtl
      /\ key.there \/ key' = key
      /\ beaten' = beaten \cup {s}
      /\ UNCHANGED <<viewer, view, wire, silent, overtaken, cut, crashes>>
  BY <1>1, KeyMoves DEF Last, viewerVars, history
<1>5. s \in Counted /\ s \in InFlight /\ s \notin Draining
  BY <1>2 DEF Counted, InFlight, Draining, CountedPcs
<1>6. r.pc \in CountedPcs /\ r.pc \notin {"out", "open"} /\ r.pc # "decred"
  BY <1>3 DEF CountedPcs
<1>7. /\ Cardinality(Counted') = Cardinality(Counted)
      /\ Cardinality(InFlight') = Cardinality(InFlight)
      /\ Cardinality(Draining') = Cardinality(Draining)
  BY <1>1, <1>3, <1>5, <1>6, SizesMove
<1>8. /\ sock' \in [Sockets -> Tabs] /\ sock'[s] = r
      /\ \A t \in Sockets : t # s => sock'[t] = sock[t]
  BY <1>1, <1>3, TabMoves
<1>9. Kinds'
  BY <1>1, <1>4, <1>8 DEF Kinds
<1>10. Tally' /\ Room'
  <2>1. Lost' = Lost
    BY <1>4 DEF Lost
  <2> QED  BY <1>1, <1>4, <1>7, <2>1 DEF Tally, Room
<1>11. Kept' /\ Beats'
  <2>1. ~overtaken => key.there
    BY <1>1, <1>5 DEF Kept
  <2> QED  BY <1>1, <1>3, <1>4, <1>7, <1>8, <2>1 DEF Kept, Beats
<1>12. Told'
  BY <1>6, <1>8 DEF Told, Gone
<1> QED  BY <1>9, <1>10, <1>11, <1>12 DEF PresenceInv

(* A connect is over; it has announced a first tab.                          *)
LEMMA OpenKeeps ==
    ASSUME PresenceInv, NEW s \in Sockets, Open(s) \/ Announce(s)
    PROVE  PresenceInv'
<1>1. Kinds /\ Tally /\ Kept /\ Beats /\ Room /\ key \in Keys /\ Lost \in Nat
  BY LostIsNatural DEF PresenceInv, Kinds
<1>2. /\ sock[s].pc \in {"opening", "first"}
      /\ UNCHANGED <<key, beaten, viewer, view, silent, overtaken, cut, crashes>>
  BY DEF Open, Announce, viewerVars, history
<1>3. PICK r \in Tabs : sock' = [sock EXCEPT ![s] = r] /\ r.pc = "open"
  <2>1. sock' = Moved(s, "open")
    BY DEF Open, Announce
  <2>2. sock \in [Sockets -> Tabs] /\ "open" \in Pcs
    BY <1>1 DEF Kinds, Pcs
  <2> QED  BY <2>1, <2>2, MovedTab
<1>4. s \in Counted /\ s \in InFlight /\ s \notin Draining
  BY <1>2 DEF Counted, InFlight, Draining, CountedPcs
<1>5. r.pc \in CountedPcs /\ r.pc \in {"out", "open"} /\ r.pc # "decred"
  BY <1>3 DEF CountedPcs
<1>6. /\ Cardinality(Counted') = Cardinality(Counted)
      /\ Cardinality(InFlight') = Cardinality(InFlight) - 1
      /\ Cardinality(Draining') = Cardinality(Draining)
  BY <1>1, <1>3, <1>4, <1>5, SizesMove
<1>7. /\ sock' \in [Sockets -> Tabs] /\ sock'[s] = r
      /\ \A t \in Sockets : t # s => sock'[t] = sock[t]
      /\ Counted' # {} => Counted # {}
  BY <1>1, <1>3, <1>4, TabMoves
<1>8. /\ wire' \in Seq({"online", "offline"}) /\ Len(wire') \in Nat /\ Len(wire) \in Nat
      /\ Len(wire') <= Len(wire) + 1
      /\ viewer.pc = "out" => wire' = <<>>
  <2>1. CASE Open(s)
    BY <1>1, <2>1 DEF Open, viewerVars, Kinds
  <2>2. CASE Announce(s)
    BY <1>1, <2>2, Tells DEF Announce
  <2> QED  BY <2>1, <2>2
<1>9. Kinds'
  BY <1>1, <1>2, <1>7, <1>8 DEF Kinds
<1>10. Tally' /\ Kept'
  <2>1. Lost' = Lost
    BY <1>2 DEF Lost
  <2> QED  BY <1>1, <1>2, <1>6, <1>7, <2>1 DEF Tally, Kept
<1>11. Beats'
  BY <1>1, <1>2, <1>3, <1>7 DEF Beats
<1>12. Room'
  BY <1>1, <1>6, <1>8, Sizes, NextSizes, PresenceAssumption DEF Room
<1>13. Told'
  BY <1>3, <1>7 DEF Told, Gone
<1> QED  BY <1>9, <1>10, <1>11, <1>12, <1>13 DEF PresenceInv

(* A heartbeat of an open tab.                                               *)
LEMMA HeartbeatKeeps ==
    ASSUME PresenceInv, NEW s \in Sockets, Heartbeat(s)
    PROVE  PresenceInv'
<1>1. Kinds /\ Tally /\ Kept /\ Beats /\ Room /\ key \in Keys
  BY DEF PresenceInv, Kinds
<1>2. s \in Counted /\ ~Gone
  BY DEF Heartbeat, Counted, CountedPcs, Gone
<1>3. /\ key' \in Keys /\ (key'.there <=> key.there) /\ key'.count = key.count
      /\ key.there => key'.left = PresenceTtl
      /\ key.there \/ key' = key
      /\ beaten' = beaten \cup {s}
      /\ UNCHANGED <<sock, viewer, view, wire, silent, overtaken, cut, crashes>>
  BY <1>1, KeyMoves DEF Heartbeat, viewerVars, history
<1>4. Counted' = Counted /\ InFlight' = InFlight /\ Draining' = Draining /\ ~Gone'
  BY <1>2, <1>3 DEF Counted, InFlight, Draining, Gone
<1>5. Kinds' /\ Room'
  BY <1>1, <1>3, <1>4 DEF Kinds, Room
<1>6. Tally'
  BY <1>1, <1>3, <1>4 DEF Tally, Lost
<1>7. Kept' /\ Beats'
  <2>1. ~overtaken => key.there
    BY <1>1, <1>2 DEF Kept
  <2> QED  BY <1>1, <1>3, <1>4, <2>1 DEF Kept, Beats, Heartbeat
<1>8. Told'
  BY <1>4 DEF Told
<1> QED  BY <1>5, <1>6, <1>7, <1>8 DEF PresenceInv

-----------------------------------------------------------------------------
(* disconnect discounts a tab, the last one or not; DECR makes a key that    *)
(* was missing.                                                              *)
LEMMA DiscountKeeps ==
    ASSUME PresenceInv, NEW s \in Sockets, Discount(s)
    PROVE  PresenceInv'
<1>1. Kinds /\ Tally /\ Kept /\ Beats /\ Room /\ key \in Keys /\ Lost \in Nat
      /\ key.count \in Int
  BY LostIsNatural DEF PresenceInv, Kinds, Keys
<1>2. sock[s].pc = "open"
  BY DEF Discount
<1>3. /\ key' \in Keys /\ key'.there /\ key'.count = key.count - 1 /\ key'.left = key.left
      /\ beaten' = beaten \ {s}
      /\ UNCHANGED <<viewer, view, wire, silent, overtaken, cut, crashes>>
  BY <1>1, KeyMoves DEF Discount, viewerVars, history
<1>4. PICK r \in Tabs : /\ sock' = [sock EXCEPT ![s] = r]
                        /\ r.pc = IF key.count - 1 <= 0 THEN "decred" ELSE "out"
  <2>1. Decremented.count = key.count - 1
    BY <1>1, KeyMoves
  <2>2. CASE key.count - 1 <= 0
    <3>1. sock' = Moved(s, "decred")
      BY <2>1, <2>2 DEF Discount
    <3>2. "decred" \in Pcs /\ sock \in [Sockets -> Tabs]
      BY <1>1 DEF Pcs, Kinds
    <3>3. /\ [sock[s] EXCEPT !.pc = "decred"] \in Tabs
          /\ [sock[s] EXCEPT !.pc = "decred"].pc = "decred"
          /\ sock' = [sock EXCEPT ![s] = [sock[s] EXCEPT !.pc = "decred"]]
      BY <3>1, <3>2, MovedTab
    <3> QED  BY <2>2, <3>3
  <2>3. CASE ~(key.count - 1 <= 0)
    <3>1. sock' = [sock EXCEPT ![s] = Out]
      BY <2>1, <2>3 DEF Discount
    <3> QED  BY <2>3, <3>1, Places
  <2> QED  BY <2>2, <2>3
<1>5. s \in Counted /\ s \notin InFlight /\ s \notin Draining
  BY <1>2 DEF Counted, InFlight, Draining, CountedPcs
<1>6. r.pc \notin CountedPcs /\ (r.pc = "decred" <=> key.count - 1 <= 0)
  BY <1>4 DEF CountedPcs
<1>7. /\ Cardinality(Counted') = Cardinality(Counted) - 1
      /\ Cardinality(InFlight') <= Cardinality(InFlight) + 1
      /\ Cardinality(Draining') = IF key.count - 1 <= 0 THEN Cardinality(Draining) + 1
                                  ELSE Cardinality(Draining)
  <2>1. /\ Cardinality(Counted') = Cardinality(Counted) - 1
        /\ Cardinality(InFlight') \in {Cardinality(InFlight), Cardinality(InFlight) + 1}
        /\ Cardinality(Draining') = IF r.pc = "decred" THEN Cardinality(Draining) + 1
                                    ELSE Cardinality(Draining)
    BY <1>1, <1>4, <1>5, <1>6, SizesMove
  <2> QED  BY <1>6, <2>1, Sizes
<1>8. /\ sock' \in [Sockets -> Tabs] /\ sock'[s] = r
      /\ \A t \in Sockets : t # s => sock'[t] = sock[t]
  BY <1>1, <1>4, TabMoves
<1>9. Kinds'
  BY <1>1, <1>3, <1>8 DEF Kinds
<1>10. Tally'
  <2>1. Lost' = Lost
    BY <1>3 DEF Lost
  <2>2. key'.count <= Cardinality(Counted') + Lost
    BY <1>1, <1>3, <1>7, Sizes DEF Tally
  <2>3. -key'.count <= Cardinality(Draining') + Lost
    <3>1. -key.count <= Cardinality(Draining) + Lost /\ Cardinality(Draining) \in Nat
      BY <1>1, Sizes DEF Tally
    <3>2. CASE key.count - 1 <= 0
      <4>1. Cardinality(Draining') = Cardinality(Draining) + 1
        BY <1>7, <3>2
      <4> QED  BY <1>1, <1>3, <3>1, <4>1
    <3>3. CASE ~(key.count - 1 <= 0)
      BY <1>1, <1>3, <3>1, <3>3, NextSizes
    <3> QED  BY <3>2, <3>3
  <2> QED  BY <2>1, <2>2, <2>3 DEF Tally
<1>11. Kept'
  BY <1>1, <1>3, <1>7, Sizes DEF Kept
<1>12. Beats'
  BY <1>1, <1>3, <1>8 DEF Beats
<1>13. Room'
  <2>1. Len(wire) + Cardinality(InFlight) < MaxWire
    BY DEF Discount, KeepsUp, InFlight
  <2>2. Len(wire) \in Nat
    BY <1>1 DEF Kinds
  <2> QED  BY <1>3, <1>7, <2>1, <2>2, Sizes, NextSizes, PresenceAssumption DEF Room
<1>14. Told'
  BY <1>3 DEF Told
<1> QED  BY <1>9, <1>10, <1>11, <1>12, <1>13, <1>14 DEF PresenceInv

(* The key is deleted, with the count of whoever came since: that is what    *)
(* overtaken records.                                                        *)
LEMMA DeleteKeeps ==
    ASSUME PresenceInv, NEW s \in Sockets, Delete(s)
    PROVE  PresenceInv'
<1>1. Kinds /\ Tally /\ Kept /\ Beats /\ Room /\ key \in Keys /\ Lost \in Nat
  BY LostIsNatural DEF PresenceInv, Kinds
<1>2. /\ sock[s].pc = "decred"
      /\ overtaken' = (Counted # {} /\ (overtaken \/ key.count > 0))
      /\ UNCHANGED <<beaten, viewer, view, wire, silent, cut, crashes>>
  BY DEF Delete, viewerVars
<1>3. PICK r \in Tabs : sock' = [sock EXCEPT ![s] = r] /\ r.pc = "drained"
  <2>1. sock' = Moved(s, "drained")
    BY DEF Delete
  <2>2. sock \in [Sockets -> Tabs] /\ "drained" \in Pcs
    BY <1>1 DEF Kinds, Pcs
  <2> QED  BY <2>1, <2>2, MovedTab
<1>4. key' = NoKey /\ key' \in Keys /\ ~key'.there /\ key'.count = 0
  BY <1>1, KeyMoves DEF Delete
<1>5. s \notin Counted /\ s \in InFlight /\ s \in Draining
  BY <1>2 DEF Counted, InFlight, Draining, CountedPcs
<1>6. r.pc \notin CountedPcs /\ r.pc \notin {"out", "open"} /\ r.pc # "decred"
  BY <1>3 DEF CountedPcs
<1>7. Cardinality(InFlight') = Cardinality(InFlight)
  BY <1>1, <1>3, <1>5, <1>6, SizesMove
<1>8. /\ sock' \in [Sockets -> Tabs] /\ sock'[s] = r
      /\ \A t \in Sockets : t # s => sock'[t] = sock[t]
      /\ Counted' = Counted
  <2>1. /\ sock' \in [Sockets -> Tabs] /\ sock'[s] = r
        /\ \A t \in Sockets : t # s => sock'[t] = sock[t]
        /\ Counted' = Counted \ {s}
    BY <1>1, <1>3, <1>6, TabMoves
  <2> QED  BY <1>5, <2>1
<1>9. ~overtaken' => Counted = {}
  <2> SUFFICES ASSUME Counted # {}, ~overtaken, ~(key.count > 0) PROVE FALSE
    BY <1>2
  <2>1. Cardinality(Counted) <= key.count /\ key.count \in Int
    BY <1>1 DEF Kept, Keys
  <2> QED  BY <2>1, Sizes
<1>10. Kinds'
  <2>1. overtaken' \in BOOLEAN
    BY <1>2
  <2> QED  BY <1>1, <1>2, <1>4, <1>8, <2>1 DEF Kinds
<1>11. Tally'
  <2>1. Lost' = Lost
    BY <1>2 DEF Lost
  <2> QED  BY <1>1, <1>4, <2>1, NextSizes DEF Tally
<1>12. Kept'
  BY <1>4, <1>8, <1>9, NextSizes DEF Kept
<1>13. Beats'
  <2>1. Counted = {} => beaten = {}
    BY <1>1 DEF Beats, Counted, CountedPcs
  <2> QED  BY <1>1, <1>2, <1>8, <1>9, <2>1 DEF Beats
<1>14. Room'
  BY <1>1, <1>2, <1>7 DEF Room
<1>15. Told'
  BY <1>3, <1>8 DEF Told, Gone
<1> QED  BY <1>10, <1>11, <1>12, <1>13, <1>14, <1>15 DEF PresenceInv

(* The user is said to have gone offline.                                    *)
LEMMA LeaveKeeps ==
    ASSUME PresenceInv, NEW s \in Sockets, Leave(s)
    PROVE  PresenceInv'
<1>1. Kinds /\ Tally /\ Kept /\ Beats /\ Room
  BY DEF PresenceInv
<1>2. /\ sock[s].pc = "drained" /\ sock' = [sock EXCEPT ![s] = Out]
      /\ UNCHANGED <<key, beaten, viewer, view, silent, overtaken, cut, crashes>>
  BY DEF Leave, history
<1>3. s \notin Counted /\ s \in InFlight /\ s \notin Draining
  BY <1>2 DEF Counted, InFlight, Draining, CountedPcs
<1>4. Out \in Tabs /\ Out.pc \notin CountedPcs /\ Out.pc = "out"
  BY Places DEF CountedPcs
<1>5. /\ sock' \in [Sockets -> Tabs] /\ sock'[s] = Out
      /\ \A t \in Sockets : t # s => sock'[t] = sock[t]
      /\ Counted' = Counted
  <2>1. /\ sock' \in [Sockets -> Tabs] /\ sock'[s] = Out
        /\ \A t \in Sockets : t # s => sock'[t] = sock[t]
        /\ Counted' = Counted \ {s}
    BY <1>1, <1>2, <1>4, TabMoves
  <2> QED  BY <1>3, <2>1
<1>6. /\ Cardinality(InFlight') = Cardinality(InFlight) - 1
      /\ Cardinality(Draining') = Cardinality(Draining)
  BY <1>1, <1>2, <1>3, <1>4, SizesMove
<1>7. /\ wire' \in Seq({"online", "offline"}) /\ Len(wire') \in Nat /\ Len(wire) \in Nat
      /\ Len(wire') <= Len(wire) + 1
      /\ wire' # <<>> => wire'[Len(wire')] = "offline"
      /\ wire' = <<>> => viewer.pc = "out"
      /\ viewer.pc = "out" => wire' = <<>>
  BY <1>1, Tells DEF Leave
<1>8. Kinds'
  BY <1>1, <1>2, <1>5, <1>7 DEF Kinds
<1>9. Tally' /\ Kept'
  <2>1. Lost' = Lost
    BY <1>2 DEF Lost
  <2> QED  BY <1>1, <1>2, <1>5, <1>6, <2>1 DEF Tally, Kept
<1>10. Beats'
  BY <1>1, <1>2, <1>5 DEF Beats
<1>11. Room'
  BY <1>1, <1>6, <1>7, Sizes, NextSizes, PresenceAssumption DEF Room
<1>12. Told'
  BY <1>2, <1>7 DEF Told
<1> QED  BY <1>8, <1>9, <1>10, <1>11, <1>12 DEF PresenceInv

-----------------------------------------------------------------------------
(* The viewer comes, sees the roster, reads what it is told, and goes.       *)
LEMMA ViewerKeeps ==
    ASSUME PresenceInv, \/ \E w \in Workers : Join(w)
                        \/ Roster \/ Receive \/ Quit
    PROVE  PresenceInv'
<1>1. Kinds /\ Tally /\ Kept /\ Beats /\ Room /\ Told
      /\ Len(wire) \in Nat /\ key.there \in BOOLEAN
  BY DEF PresenceInv, Kinds, Keys
<1>2. UNCHANGED <<key, sock, beaten, overtaken, cut, crashes>>
  BY DEF Join, Roster, Receive, Quit, userVars, history
<1>3. Counted' = Counted /\ InFlight' = InFlight /\ Draining' = Draining /\ (Gone' <=> Gone)
  BY <1>2 DEF Counted, InFlight, Draining, Gone
<1>4. Tally' /\ Kept' /\ Beats'
  BY <1>1, <1>2, <1>3 DEF Tally, Kept, Beats, Lost
<1>5. CASE \E w \in Workers : Join(w)
  <2>1. /\ wire = <<>> /\ viewer'.pc = "joined" /\ viewer' \in Seats
        /\ ~silent' /\ silent' \in BOOLEAN /\ UNCHANGED <<view, wire>>
    <3>1. PICK w \in Workers : Join(w)
      BY <1>5
    <3>2. viewer.pc = "out" /\ viewer' = [pc |-> "joined", at |-> w]
      BY <3>1 DEF Join, Out
    <3>3. wire = <<>> /\ ~silent' /\ silent' \in BOOLEAN /\ UNCHANGED <<view, wire>>
      BY <1>1, <3>1, <3>2 DEF Join, Kinds
    <3> QED  BY <3>2, <3>3 DEF Seats
  <2>2. Kinds'
    BY <1>1, <1>2, <2>1 DEF Kinds
  <2>3. Room' /\ Told'
    BY <1>1, <1>3, <2>1 DEF Room, Told
  <2> QED  BY <1>4, <2>2, <2>3 DEF PresenceInv
<1>6. CASE Roster
  <2>1. /\ viewer.pc = "joined" /\ viewer' = [viewer EXCEPT !.pc = "watching"]
        /\ (view' <=> key.there) /\ view' \in BOOLEAN
        /\ silent' = (silent /\ wire # <<>>) /\ UNCHANGED wire
    BY <1>1, <1>6 DEF Roster, RosterSent
  <2>2. viewer'.pc = "watching" /\ viewer' \in Seats /\ silent' \in BOOLEAN
    BY <1>1, <2>1 DEF Kinds, Seats
  <2>3. Kinds'
    BY <1>1, <1>2, <2>1, <2>2 DEF Kinds
  <2>4. Room' /\ Told'
    BY <1>1, <1>2, <1>3, <2>1 DEF Room, Told
  <2> QED  BY <1>4, <2>3, <2>4 DEF PresenceInv
<1>7. CASE Receive
  <2>1. /\ viewer.pc = "watching" /\ wire # <<>> /\ (view' <=> Head(wire) = "online")
        /\ view' \in BOOLEAN /\ wire' = Tail(wire) /\ UNCHANGED <<viewer, silent>>
    BY <1>7 DEF Receive, history
  <2>2. /\ wire' \in Seq({"online", "offline"}) /\ Len(wire') = Len(wire) - 1
        /\ Head(wire) = wire[1] /\ Len(wire) # 0
        /\ wire' # <<>> => Len(wire') # 0 /\ wire'[Len(wire')] = wire[Len(wire)]
        /\ wire' = <<>> => Len(wire) = 1
    <3>1. wire \in Seq({"online", "offline"}) /\ Len(wire) # 0
      BY <1>1, <2>1 DEF Kinds
    <3>2. wire' \in Seq({"online", "offline"}) /\ Len(wire') = Len(wire) - 1
      BY <2>1, <3>1
    <3>3. \A i \in 1 .. Len(wire) - 1 : wire'[i] = wire[i + 1]
      BY <2>1, <3>1
    <3>4. Head(wire) = wire[1]
      BY <3>1
    <3>5. ASSUME wire' # <<>>
          PROVE  Len(wire') # 0 /\ wire'[Len(wire')] = wire[Len(wire)]
      <4>1. Len(wire') \in Nat /\ Len(wire') # 0 /\ Len(wire) \in Nat
        BY <3>1, <3>2, <3>5
      <4>2. Len(wire') \in 1 .. Len(wire) - 1 /\ Len(wire') + 1 = Len(wire)
        BY <3>2, <4>1
      <4> QED  BY <3>3, <4>1, <4>2
    <3>6. wire' = <<>> => Len(wire) = 1
      <4>1. wire' = <<>> => Len(wire') = 0
        OBVIOUS
      <4> QED  BY <3>1, <3>2, <4>1
    <3> QED  BY <3>1, <3>2, <3>4, <3>5, <3>6
  <2>3. Kinds'
    BY <1>1, <1>2, <2>1, <2>2 DEF Kinds
  <2>4. Room'
    BY <1>1, <1>3, <2>2, Sizes, PresenceAssumption DEF Room
  <2>5. Told'
    BY <1>1, <1>2, <1>3, <2>1, <2>2 DEF Told
  <2> QED  BY <1>4, <2>3, <2>4, <2>5 DEF PresenceInv
<1>8. CASE Quit
  <2>1. viewer' = Out /\ viewer'.pc = "out" /\ wire' = <<>> /\ UNCHANGED <<view, silent>>
    BY <1>8, Places DEF Quit, history
  <2>2. Kinds'
    BY <1>1, <1>2, <2>1, Places DEF Kinds
  <2>3. Len(wire') = 0
    BY <2>1
  <2>4. Room'
    BY <1>1, <1>3, <2>3, Sizes, PresenceAssumption DEF Room
  <2>5. Told'
    BY <2>1 DEF Told
  <2> QED  BY <1>4, <2>2, <2>4, <2>5 DEF PresenceInv
<1> QED  BY <1>5, <1>6, <1>7, <1>8

(* Half a minute passes: only a key that no tab renews expires.              *)
LEMMA TickKeeps ==
    ASSUME PresenceInv, Tick
    PROVE  PresenceInv'
<1>1. Kinds /\ Tally /\ Kept /\ Beats /\ Room /\ Told /\ key \in Keys /\ Lost \in Nat
  BY LostIsNatural DEF PresenceInv, Kinds
<1>2. /\ beaten' = {} /\ UNCHANGED <<sock, viewer, view, wire, overtaken, cut, crashes>>
      /\ silent' = (silent \/ key.left = 1)
      /\ \A s \in Sockets : sock[s].pc \in {"out", "open"}
      /\ \A s \in Sockets : sock[s].pc = "open" => s \in beaten
  BY DEF Tick, viewerVars
<1>3. Counted' = Counted /\ InFlight' = InFlight /\ Draining' = Draining /\ (Gone' <=> Gone)
      /\ Lost' = Lost
  BY <1>2 DEF Counted, InFlight, Draining, Gone, Lost
<1>4. Beats' /\ Room'
  BY <1>1, <1>2, <1>3 DEF Beats, Room
<1>5. CASE key.left = 1
  <2>1. key' = NoKey /\ key' \in Keys /\ ~key'.there /\ key'.count = 0 /\ silent'
    <3>1. key' = NoKey
      BY <1>5 DEF Tick
    <3> QED  BY <1>1, <1>2, <1>5, <3>1, KeyMoves
  <2>2. ~overtaken => Counted = {}
    <3>1. ~overtaken => beaten = {}
      BY <1>1, <1>5 DEF Beats, PresenceTtl
    <3> QED  BY <1>2, <3>1 DEF Counted, CountedPcs
  <2>3. Tally' /\ Kept'
    BY <1>1, <1>2, <1>3, <2>1, <2>2, NextSizes DEF Tally, Kept
  <2>4. Kinds'
    BY <1>1, <1>2, <2>1 DEF Kinds
  <2>5. Told'
    BY <2>1 DEF Told
  <2> QED  BY <1>4, <2>3, <2>4, <2>5 DEF PresenceInv
<1>6. CASE key.left # 1
  <2>1. key' = [key EXCEPT !.left = IF @ = 0 THEN 0 ELSE @ - 1]
    BY <1>6 DEF Tick
  <2>2. /\ key' \in Keys /\ (key'.there <=> key.there) /\ key'.count = key.count
        /\ key.left = 0 => key' = key
    BY <1>1, <1>6, <2>1, KeyAges
  <2>3. key'.there \/ key' = NoKey
    BY <1>1, <2>2 DEF Kinds, NoKey
  <2>4. (silent' <=> silent) /\ silent' \in BOOLEAN
    BY <1>1, <1>2, <1>6 DEF Kinds
  <2>5. Kinds'
    BY <1>1, <1>2, <2>2, <2>3, <2>4 DEF Kinds
  <2>6. Tally' /\ Kept'
    BY <1>1, <1>2, <1>3, <2>2 DEF Tally, Kept
  <2>7. Told'
    BY <1>1, <1>2, <1>3, <2>2, <2>4 DEF Told
  <2> QED  BY <1>4, <2>5, <2>6, <2>7 DEF PresenceInv
<1> QED  BY <1>5, <1>6

(* A worker dies with its sockets: the tabs that were counted or draining    *)
(* there, at most all of them, are lost.                                     *)
LEMMA CrashKeeps ==
    ASSUME PresenceInv, NEW w \in Workers, Crash(w)
    PROVE  PresenceInv'
<1>1. /\ Kinds /\ Tally /\ Kept /\ Beats /\ Room /\ Told
      /\ key \in Keys /\ crashes \in 0 .. MaxCrashes
      /\ Len(wire) \in Nat
  BY DEF PresenceInv, Kinds
<1>2. /\ UNCHANGED <<key, view, overtaken>> /\ crashes' = crashes + 1
      /\ crashes < MaxCrashes /\ cut' \in BOOLEAN
      /\ silent' = (silent \/ (~key.there /\ \E s \in Sockets : sock[s].at = w))
      /\ silent' \in BOOLEAN
  BY <1>1 DEF Crash, Kinds, Busy
<1>3. /\ sock' = [s \in Sockets |-> IF sock[s].at = w THEN Out ELSE sock[s]]
      /\ beaten' \subseteq beaten /\ \A s \in beaten' : sock[s].at # w
  BY DEF Crash
<1>4. \/ viewer' = Out /\ wire' = <<>>
      \/ UNCHANGED <<viewer, wire>>
  BY DEF Crash
<1>5. sock' \in [Sockets -> Tabs]
      /\ \A s \in Sockets : sock'[s] = sock[s] \/ sock'[s].pc = "out"
  BY <1>1, <1>3, Places DEF Kinds
<1>6. Counted' \subseteq Counted /\ InFlight' \subseteq InFlight
  BY <1>5 DEF Counted, InFlight, CountedPcs
<1>7. /\ Cardinality(Counted') <= Cardinality(Counted)
      /\ Cardinality(InFlight') <= Cardinality(InFlight)
  BY <1>6, Sizes, FS_Subset
<1>8. Kinds'
  <2>1. crashes' \in 0 .. MaxCrashes
    BY <1>1, <1>2, PresenceAssumption
  <2>2. /\ viewer' \in Seats /\ wire' \in Seq({"online", "offline"})
        /\ viewer'.pc = "out" => viewer' = Out /\ wire' = <<>>
    <3>1. CASE viewer' = Out /\ wire' = <<>>
      BY <3>1, Places
    <3>2. CASE UNCHANGED <<viewer, wire>>
      BY <1>1, <3>2 DEF Kinds
    <3> QED  BY <1>4, <3>1, <3>2
  <2>3. beaten' \subseteq Sockets
    BY <1>1, <1>3 DEF Kinds
  <2> QED  BY <1>1, <1>2, <1>5, <2>1, <2>2, <2>3 DEF Kinds
<1>9. Tally'
  <2> DEFINE n == Cardinality(Sockets)
  <2>1. /\ n \in Nat /\ Cardinality(Counted) \in Nat /\ Cardinality(Draining) \in Nat
        /\ Cardinality(Counted) <= n /\ Cardinality(Draining) <= n
    BY Sizes
  <2>2. key.count \in Int /\ Lost \in Nat
    BY <1>1, LostIsNatural DEF Keys
  <2>3. Lost' = Lost + n
    BY <1>1, <1>2, <2>1, PresenceAssumption DEF Lost
  <2>4. key'.count = key.count
    BY <1>2
  <2>5. key.count <= Cardinality(Counted) + Lost /\ -key.count <= Cardinality(Draining) + Lost
    BY <1>1 DEF Tally
  <2>6. Cardinality(Counted') \in Nat /\ Cardinality(Draining') \in Nat
    BY NextSizes
  <2> HIDE DEF n
  <2>7. /\ key'.count <= Cardinality(Counted') + Lost'
        /\ -key'.count <= Cardinality(Draining') + Lost'
    BY <2>1, <2>2, <2>3, <2>4, <2>5, <2>6
  <2> QED  BY <2>7 DEF Tally
<1>10. Kept'
  BY <1>1, <1>2, <1>6, <1>7, Sizes, NextSizes DEF Kept, Keys
<1>11. Beats'
  <2>1. ASSUME NEW s \in beaten' PROVE s \in Sockets /\ sock'[s] = sock[s] /\ s \in beaten
    BY <1>1, <1>3 DEF Kinds
  <2> QED  BY <1>1, <1>2, <1>3, <2>1 DEF Beats
<1>12. Room'
  <2>1. Len(wire') <= Len(wire) /\ Len(wire') \in Nat
    BY <1>1, <1>4
  <2> QED  BY <1>1, <1>7, <2>1, Sizes, NextSizes, PresenceAssumption DEF Room
<1>13. Told'
  <2> SUFFICES ASSUME Gone', ~silent', ~key'.there
               PROVE  /\ wire' # <<>> => wire'[Len(wire')] = "offline"
                      /\ viewer'.pc = "watching" /\ wire' = <<>> => ~view'
    BY DEF Told
  <2>1. ~silent /\ ~key.there /\ \A s \in Sockets : sock[s].at # w
    BY <1>2
  <2>2. Gone
    BY <1>3, <2>1 DEF Gone
  <2> QED  BY <1>1, <1>2, <1>4, <2>1, <2>2 DEF Told, Out
<1> QED  BY <1>8, <1>9, <1>10, <1>11, <1>12, <1>13 DEF PresenceInv

-----------------------------------------------------------------------------
(* The invariant holds of the specification.                                 *)
LEMMA PresenceInvariant == Spec => []PresenceInv
<1>1. PresenceInv /\ [Next]_vars => PresenceInv'
  <2> SUFFICES ASSUME PresenceInv, [Next]_vars PROVE PresenceInv'
    OBVIOUS
  <2>1. CASE UNCHANGED vars
    <3>1. UNCHANGED <<key, sock, beaten, viewer, view, wire, silent, overtaken, cut, crashes>>
      BY <2>1 DEF vars, userVars, viewerVars, history
    <3>2. /\ Counted' = Counted /\ InFlight' = InFlight /\ Draining' = Draining
          /\ (Gone' <=> Gone) /\ Lost' = Lost
      BY <3>1 DEF Counted, InFlight, Draining, Gone, Lost
    <3> QED  BY <3>1, <3>2 DEF PresenceInv, Kinds, Tally, Kept, Beats, Room, Told
  <2> QED
    BY <2>1, CountKeeps, LastKeeps, OpenKeeps, HeartbeatKeeps, DiscountKeeps, DeleteKeeps,
       LeaveKeeps, ViewerKeeps, TickKeeps, CrashKeeps DEF Next, Finish
<1> QED  BY <1>1, PresenceInit, PTL DEF Spec

(* With any number of workers the counter strays from zero by no more than   *)
(* the tabs there are and those that crashes took with them.                 *)
THEOREM PresenceTypeCorrect == Spec => []TypeOK
<1>1. PresenceInv => TypeOK
  <2> SUFFICES ASSUME PresenceInv PROVE TypeOK
    OBVIOUS
  <2> DEFINE n == Cardinality(Sockets)
             most == (MaxCrashes + 1) * n
  <2>1. /\ n \in Nat /\ Cardinality(Counted) <= n /\ Cardinality(Counted) \in Nat
        /\ Cardinality(Draining) <= n /\ Cardinality(Draining) \in Nat
        /\ Cardinality(InFlight) \in Nat
    BY Sizes
  <2>2. key \in Keys /\ key.count \in Int /\ crashes \in Nat /\ crashes <= MaxCrashes
    BY PresenceAssumption DEF PresenceInv, Kinds, Keys
  <2>3. /\ key.count <= Cardinality(Counted) + crashes * n
        /\ -key.count <= Cardinality(Draining) + crashes * n
    BY DEF PresenceInv, Tally, Lost
  <2>4. most = MaxCrashes * n + n /\ crashes * n <= MaxCrashes * n
        /\ crashes * n \in Nat /\ MaxCrashes * n \in Nat
    <3> HIDE DEF n
    <3> QED  BY <2>1, <2>2, PresenceAssumption
  <2> HIDE DEF n, most
  <2>5. key.count \in -most .. most
    <3> DEFINE a == crashes * n
               b == MaxCrashes * n
    <3>1. a \in Nat /\ b \in Nat /\ a <= b /\ most = b + n
      BY <2>4
    <3>2. key.count <= Cardinality(Counted) + a /\ -key.count <= Cardinality(Draining) + a
      BY <2>3
    <3> HIDE DEF a, b
    <3> QED  BY <2>1, <2>2, <3>1, <3>2
  <2>6. key \in [there : BOOLEAN, count : -most .. most, left : 0 .. PresenceTtl]
    BY <2>2, <2>5 DEF Keys
  <2>7. Len(wire) \in Nat /\ Len(wire) <= MaxWire
    BY <2>1, PresenceAssumption DEF PresenceInv, Kinds, Room
  <2> QED  BY <2>6, <2>7 DEF PresenceInv, Kinds, Tabs, Seats, TypeOK, n, most
<1> QED  BY <1>1, PresenceInvariant, PTL

(* With any number of workers a user with an open tab has a key, but where a *)
(* DELETE fell upon a tab that had come after its DECR.                      *)
THEOREM StickyHolds == Spec => []StickyUnlessOvertaken
<1>1. PresenceInv => StickyUnlessOvertaken
  BY DEF PresenceInv, Kept, Counted, CountedPcs, StickyUnlessOvertaken
<1> QED  BY <1>1, PresenceInvariant, PTL

(* With any number of workers, what a viewer has read last of a user who is  *)
(* gone is that he is, unless he went without a broadcast.                   *)
THEOREM NobodyHaunts == Spec => []NoGhost
<1>1. PresenceInv => NoGhost
  BY DEF PresenceInv, Told, NoGhost
<1> QED  BY <1>1, PresenceInvariant, PTL

-----------------------------------------------------------------------------
(***************************************************************************)
(* A count that nobody owns any more has an expiry, and nothing renews it. *)
(***************************************************************************)

(* A user with no tab left has no key that would stay for ever, unless a     *)
(* worker died between two commands.                                         *)
LeftoverExpires == Gone /\ ~cut /\ key.there => key.left > 0

(* While the user stays away, half a minute takes time from such a key or    *)
(* ends it, and nothing else touches it.                                     *)
LeftoverAges ==
    Gone /\ Gone' /\ ~cut /\ key.there =>
        IF Tick THEN ~key'.there \/ key'.left < key.left ELSE key' = key

(* Consumers that stand between the command that made the key and the one    *)
(* that gives it its time or deletes it.                                     *)
Owing == {"incredFirst", "incred", "decred"}

Forms == key \in Keys /\ sock \in [Sockets -> Tabs]
Timed == ~cut /\ key.there /\ key.left = 0 => \E s \in Sockets : sock[s].pc \in Owing

TimedInv == Forms /\ (key.there \/ key = NoKey) /\ Timed

(* One tab moves, and the others keep their places.                          *)
LEMMA OneMoves ==
    ASSUME sock \in [Sockets -> Tabs], NEW s \in Sockets, NEW pc \in Pcs
    PROVE  /\ Moved(s, pc) \in [Sockets -> Tabs] /\ Moved(s, pc)[s].pc = pc
           /\ \A t \in Sockets : t # s => Moved(s, pc)[t] = sock[t]
<1>1. sock[s] \in Tabs
  OBVIOUS
<1>2. [sock[s] EXCEPT !.pc = pc] \in Tabs /\ [sock[s] EXCEPT !.pc = pc].pc = pc
  BY <1>1 DEF Tabs
<1>3. Moved(s, pc) = [sock EXCEPT ![s] = [sock[s] EXCEPT !.pc = pc]]
  BY DEF Moved
<1> QED  BY <1>2, <1>3

(* The commands of a user's consumer keep TimedInv.                          *)
LEMMA UserKeepsTimed ==
    ASSUME TimedInv, NEW s \in Sockets,
           \/ \E w \in Workers : Count(s, w)
           \/ Finish(s) \/ Heartbeat(s) \/ Discount(s)
    PROVE  TimedInv'
<1>1. key \in Keys /\ sock \in [Sockets -> Tabs] /\ (key.there \/ key = NoKey) /\ Timed
  BY DEF TimedInv, Forms
<1>2. ASSUME NEW w \in Workers, Count(s, w) PROVE TimedInv'
  <2>1. PICK pc \in {"incredFirst", "incred"} : sock' = [sock EXCEPT ![s] = [pc |-> pc, at |-> w]]
    BY <1>2 DEF Count
  <2>2. key' = Incremented
    BY <1>2 DEF Count
  <2>3. key' \in Keys /\ key'.there
    BY <1>1, <2>2, KeyMoves
  <2>4. sock' \in [Sockets -> Tabs] /\ sock'[s].pc \in Owing
    BY <1>1, <2>1, Places DEF Owing
  <2> QED  BY <2>3, <2>4 DEF TimedInv, Forms, Timed
<1>3. CASE Last(s)
  <2>1. PICK pc \in {"first", "opening"} : sock' = Moved(s, pc)
    BY <1>3 DEF Last
  <2>2. key' = Refreshed
    BY <1>3 DEF Last
  <2>3. sock' \in [Sockets -> Tabs]
    BY <1>1, <2>1, OneMoves DEF Pcs
  <2> QED  BY <1>1, <2>2, <2>3, KeyMoves DEF TimedInv, Forms, Timed, PresenceTtl
<1>4. CASE Open(s) \/ Announce(s)
  <2>1. sock' = Moved(s, "open") /\ key' = key /\ cut' = cut
    BY <1>4 DEF Open, Announce, history
  <2>2. sock[s].pc \notin Owing
    BY <1>4 DEF Open, Announce, Owing
  <2>3. sock' \in [Sockets -> Tabs] /\ \A t \in Sockets : t # s => sock'[t] = sock[t]
    BY <1>1, <2>1, OneMoves DEF Pcs
  <2>4. Timed'
    BY <1>1, <2>1, <2>2, <2>3 DEF Timed
  <2> QED  BY <1>1, <2>1, <2>3, <2>4 DEF TimedInv, Forms
<1>5. CASE Heartbeat(s)
  <2>1. key' = Refreshed /\ sock' = sock
    BY <1>5 DEF Heartbeat
  <2> QED  BY <1>1, <2>1, KeyMoves DEF TimedInv, Forms, Timed, PresenceTtl
<1>6. CASE Discount(s)
  <2>1. key' = Decremented /\ cut' = cut /\ sock[s].pc \notin Owing
    BY <1>6 DEF Discount, Owing, history
  <2>2. key' \in Keys /\ key'.there /\ key'.left = key.left
    BY <1>1, <2>1, KeyMoves
  <2>3. CASE Decremented.count <= 0
    <3>1. sock' = Moved(s, "decred")
      BY <1>6, <2>3 DEF Discount
    <3>2. sock' \in [Sockets -> Tabs] /\ sock'[s].pc \in Owing
      BY <1>1, <3>1, OneMoves DEF Pcs, Owing
    <3> QED  BY <2>2, <3>2 DEF TimedInv, Forms, Timed
  <2>4. CASE ~(Decremented.count <= 0)
    <3>1. sock' = [sock EXCEPT ![s] = Out]
      BY <1>6, <2>4 DEF Discount
    <3>2. sock' \in [Sockets -> Tabs] /\ \A t \in Sockets : t # s => sock'[t] = sock[t]
      BY <1>1, <3>1, Places
    <3>3. key.there
      BY <1>1, <2>4, KeyMoves
    <3>4. Timed'
      BY <1>1, <2>1, <2>2, <3>2, <3>3 DEF Timed
    <3> QED  BY <2>2, <3>2, <3>4 DEF TimedInv, Forms
  <2> QED  BY <2>3, <2>4
<1>7. CASE Delete(s)
  <2>1. key' = NoKey /\ sock' = Moved(s, "drained")
    BY <1>7 DEF Delete
  <2>2. sock' \in [Sockets -> Tabs]
    BY <1>1, <2>1, OneMoves DEF Pcs
  <2> QED  BY <1>1, <2>1, <2>2, KeyMoves DEF TimedInv, Forms, Timed
<1>8. CASE Leave(s)
  <2>1. sock' = [sock EXCEPT ![s] = Out] /\ key' = key /\ cut' = cut
    BY <1>8 DEF Leave, history
  <2>2. sock[s].pc \notin Owing
    BY <1>8 DEF Leave, Owing
  <2>3. sock' \in [Sockets -> Tabs] /\ \A t \in Sockets : t # s => sock'[t] = sock[t]
    BY <1>1, <2>1, Places
  <2>4. Timed'
    BY <1>1, <2>1, <2>2, <2>3 DEF Timed
  <2> QED  BY <1>1, <2>1, <2>3, <2>4 DEF TimedInv, Forms
<1> QED  BY <1>2, <1>3, <1>4, <1>5, <1>6, <1>7, <1>8 DEF Finish

(* Time, the viewer and crashes keep TimedInv: time passes only when every   *)
(* handler is through, and a worker that dies midway is on record.           *)
LEMMA OthersKeepTimed ==
    ASSUME TimedInv,
           \/ \E w \in Workers : Join(w) \/ Crash(w)
           \/ Roster \/ Receive \/ Quit \/ Tick
    PROVE  TimedInv'
<1>1. key \in Keys /\ sock \in [Sockets -> Tabs] /\ (key.there \/ key = NoKey) /\ Timed
  BY DEF TimedInv, Forms
<1>2. ASSUME UNCHANGED <<key, sock, cut>> PROVE TimedInv'
  BY <1>1, <1>2 DEF TimedInv, Forms, Timed
<1>3. CASE (\E w \in Workers : Join(w)) \/ Roster \/ Receive \/ Quit
  BY <1>2, <1>3 DEF Join, Roster, Receive, Quit, userVars, history
<1>4. CASE Tick
  <2>1. sock' = sock /\ cut' = cut /\ \A s \in Sockets : sock[s].pc \notin Owing
    BY <1>4 DEF Tick, Owing
  <2>2. ~cut /\ key.there => key.left # 0
    BY <1>1, <2>1 DEF Timed
  <2>3. CASE key.left = 1
    <3>1. key' = NoKey
      BY <1>4, <2>3 DEF Tick
    <3> QED  BY <1>1, <2>1, <3>1, KeyMoves DEF TimedInv, Forms, Timed
  <2>4. CASE key.left # 1
    <3>1. key' = [key EXCEPT !.left = IF @ = 0 THEN 0 ELSE @ - 1]
      BY <1>4, <2>4 DEF Tick
    <3>2. /\ key' \in Keys /\ (key'.there <=> key.there)
          /\ key.left = 0 => key' = key
          /\ key.left # 0 => key'.left # 0
      BY <1>1, <2>4, <3>1, KeyAges
    <3>3. key'.there \/ key' = NoKey
      BY <1>1, <3>2 DEF NoKey
    <3> QED  BY <2>1, <2>2, <3>2, <3>3 DEF TimedInv, Forms, Timed
  <2> QED  BY <2>3, <2>4
<1>5. ASSUME NEW w \in Workers, Crash(w) PROVE TimedInv'
  <2>1. /\ key' = key /\ cut' = (cut \/ Busy(w))
        /\ sock' = [s \in Sockets |-> IF sock[s].at = w THEN Out ELSE sock[s]]
    BY <1>5 DEF Crash
  <2>2. sock' \in [Sockets -> Tabs]
    BY <1>1, <2>1, Places
  <2>3. ASSUME ~cut', NEW s \in Sockets, sock[s].pc \in Owing PROVE sock'[s] = sock[s]
    BY <2>1, <2>3 DEF Busy, Midway, Owing
  <2>4. Timed'
    BY <1>1, <2>1, <2>3 DEF Timed
  <2> QED  BY <1>1, <2>1, <2>2, <2>4 DEF TimedInv, Forms
<1> QED  BY <1>3, <1>4, <1>5

(* TimedInv is an invariant, whatever the number of workers.                 *)
LEMMA TimedInvariant == Spec => []TimedInv
<1>1. Init => TimedInv
  <2>1. ASSUME Init PROVE TimedInv
    <3>1. key = NoKey /\ sock = [s \in Sockets |-> Out]
      BY <2>1 DEF Init
    <3>2. key \in Keys /\ ~key.there /\ key.left = 0
      BY <3>1 DEF Keys, NoKey, PresenceTtl
    <3> QED  BY <3>1, <3>2, Places DEF TimedInv, Forms, Timed
  <2> QED  BY <2>1
<1>2. TimedInv /\ [Next]_vars => TimedInv'
  <2> SUFFICES ASSUME TimedInv, [Next]_vars PROVE TimedInv'
    OBVIOUS
  <2>1. CASE UNCHANGED vars
    <3>1. UNCHANGED <<key, sock, cut>>
      BY <2>1 DEF vars, userVars, history
    <3> QED  BY <3>1 DEF TimedInv, Forms, Timed
  <2> QED  BY <2>1, UserKeepsTimed, OthersKeepTimed DEF Next
<1> QED  BY <1>1, <1>2, PTL DEF Spec

(* "A crashed session expires on its own", with any number of workers: what  *)
(* a user without tabs has left in Redis has an expiry.                      *)
THEOREM LeftoversExpire == Spec => []LeftoverExpires
<1>1. TimedInv => LeftoverExpires
  <2> SUFFICES ASSUME TimedInv, Gone, ~cut, key.there PROVE key.left > 0
    BY DEF LeftoverExpires
  <2>1. \A s \in Sockets : sock[s].pc \notin Owing
    BY DEF Gone, Owing
  <2>2. key.left # 0 /\ key.left \in 0 .. PresenceTtl
    BY <2>1 DEF TimedInv, Forms, Timed, Keys
  <2> QED  BY <2>2 DEF PresenceTtl
<1> QED  BY <1>1, TimedInvariant, PTL

(* What a user without tabs has left is renewed by nobody, and every half    *)
(* minute brings its end nearer: with LeftoversExpire, the argument why such *)
(* a user is forgotten, up to the fairness of time.                          *)
THEOREM LeftoversAge == Spec => [][LeftoverAges]_vars
<1>1. TimedInv /\ [Next]_vars => [LeftoverAges]_vars
  <2> SUFFICES ASSUME TimedInv, Next, Gone, Gone', ~cut, key.there
               PROVE  IF Tick THEN ~key'.there \/ key'.left < key.left ELSE key' = key
    BY DEF LeftoverAges
  <2>1. CASE Tick
    <3>1. \A s \in Sockets : sock[s].pc \notin Owing
      BY DEF Gone, Owing
    <3>2. key.left \in 1 .. PresenceTtl /\ key \in Keys
      BY <3>1 DEF TimedInv, Forms, Timed, Keys, PresenceTtl
    <3>3. CASE key.left = 1
      BY <2>1, <3>3 DEF Tick, NoKey
    <3>4. CASE key.left # 1
      <4>1. key' = [key EXCEPT !.left = key.left - 1]
        BY <2>1, <3>2, <3>4 DEF Tick
      <4>2. key'.left = key.left - 1
        BY <3>2, <4>1 DEF Keys
      <4> QED  BY <2>1, <3>2, <4>2 DEF PresenceTtl
    <3> QED  BY <3>3, <3>4
  <2>2. CASE ~Tick
    <3>1. ASSUME NEW s \in Sockets PROVE ~Finish(s) /\ ~Heartbeat(s) /\ ~Discount(s)
      BY <3>1 DEF Gone, Finish, Last, Open, Announce, Delete, Leave, Heartbeat, Discount
    <3>2. ASSUME NEW s \in Sockets, NEW w \in Workers PROVE ~Count(s, w)
      <4>1. ASSUME Count(s, w) PROVE sock'[s].pc # "out"
        BY <4>1 DEF Count, TimedInv, Forms
      <4> QED  BY <4>1 DEF Gone
    <3>3. CASE \E w \in Workers : Join(w) \/ Crash(w)
      BY <2>2, <3>3 DEF Join, Crash, userVars
    <3>4. CASE Roster \/ Receive \/ Quit
      BY <2>2, <3>4 DEF Roster, Receive, Quit, userVars
    <3> QED  BY <2>2, <3>1, <3>2, <3>3, <3>4 DEF Next
  <2> QED  BY <2>1, <2>2
<1> QED  BY <1>1, TimedInvariant, PTL DEF Spec
=============================================================================
