----------------------- MODULE SessionRotationProofs -----------------------
(***************************************************************************)
(* SessionRotation for every number of tokens, clients, refreshes in flight *)
(* and calls, with loads of the page at any moment: the kinds of its values, *)
(* what ends the session of another device, how many sessions a browser can *)
(* leave behind, and that no call waits without a refresh to wait for.      *)
(***************************************************************************)
EXTENDS SessionRotation, FiniteSetTheorems, TLAPS

RowStates      == {"none", "live", "revoked", "lapsed"}
RefreshStates  == {"idle", "sent", "read", "reuse", "inserted", "granted", "refused"}
RefreshRecords == [pc : RefreshStates, by : Clients \cup {Page, Nobody},
                   old : Tokens \cup {NoToken}, new : Tokens \cup {NoToken}]
CallRecords    == [pc : {"idle", "sent", "waiting"}, via : Clients \cup {Nobody}]

(* Refreshes that will still take a token.                                   *)
Reading == {x \in Refreshes : refresh[x].pc = "read"}

(* The row a refresh came with is dead once it has its answer, a refresh     *)
(* brings a token only then, and a call is sent with a client.               *)
Answered == \A x \in Refreshes : refresh[x].pc \in {"granted", "refused"} =>
                refresh[x].old = NoToken \/ row[refresh[x].old] # "live"
Brings   == \A x \in Refreshes : refresh[x].pc \notin {"inserted", "granted"} =>
                refresh[x].new = NoToken
Sent     == \A c \in Calls : call[c].pc # "idle" => call[c].via \in Clients

(* There is a token for every refresh that has read its row.                 *)
Enough == Cardinality(Unused) >= Cardinality(Reading)

KindsInv == TypeOK /\ Answered /\ Brings /\ Sent /\ Enough

-----------------------------------------------------------------------------
(* What the type invariant says of the single variables.                     *)
LEMMA Types ==
    ASSUME TypeOK
    PROVE  /\ row \in [Tokens \cup {Other} -> RowStates]
           /\ refresh \in [Refreshes -> RefreshRecords]
           /\ call \in [Calls -> CallRecords]
           /\ cookie \in Tokens \cup {NoToken} /\ signout.token \in Tokens \cup {NoToken}
           /\ faults \in Nat /\ overlaps \in Nat
BY DEF TypeOK, RowStates, RefreshRecords, RefreshStates, CallRecords

(* The sets that are counted are finite.                                     *)
LEMMA Counts ==
    /\ IsFiniteSet(Unused) /\ Cardinality(Unused) \in Nat
    /\ IsFiniteSet(Reading) /\ Cardinality(Reading) \in Nat
<1>1. Unused \subseteq Tokens /\ Reading \subseteq Refreshes
  BY DEF Unused, Reading
<1>2. IsFiniteSet(Unused) /\ IsFiniteSet(Reading)
  BY <1>1, SessionRotationAssumption, FS_Subset
<1> QED  BY <1>2, FS_CardinalityType

(* The same of the next state.                                               *)
LEMMA NextCounts ==
    /\ IsFiniteSet(Unused') /\ Cardinality(Unused') \in Nat
    /\ IsFiniteSet(Reading') /\ Cardinality(Reading') \in Nat
<1>1. Unused' \subseteq Tokens /\ Reading' \subseteq Refreshes
  BY DEF Unused, Reading
<1>2. IsFiniteSet(Unused') /\ IsFiniteSet(Reading')
  BY <1>1, SessionRotationAssumption, FS_Subset
<1> QED  BY <1>2, FS_CardinalityType

(* A set that gains at most one element, and one that loses at least one.    *)
LEMMA AtMostOneMore ==
    ASSUME NEW S, NEW T, NEW x, IsFiniteSet(S), T \subseteq S \cup {x}
    PROVE  Cardinality(T) <= Cardinality(S) + 1
<1>1. IsFiniteSet(S \cup {x}) /\ Cardinality(S \cup {x}) \in {Cardinality(S), Cardinality(S) + 1}
  BY FS_AddElement, FS_CardinalityType
<1>2. Cardinality(T) <= Cardinality(S \cup {x})
  BY <1>1, FS_Subset
<1>3. IsFiniteSet(T) /\ Cardinality(T) \in Nat /\ Cardinality(S) \in Nat
  BY <1>1, FS_Subset, FS_CardinalityType
<1> QED  BY <1>1, <1>2, <1>3

(* The second half of it.                                                    *)
LEMMA AtLeastOneLess ==
    ASSUME NEW S, NEW T, NEW x \in S, IsFiniteSet(S), T \subseteq S \ {x}
    PROVE  Cardinality(T) + 1 <= Cardinality(S)
<1>1. IsFiniteSet(S \ {x}) /\ Cardinality(S \ {x}) = Cardinality(S) - 1
  BY FS_RemoveElement
<1>2. Cardinality(T) <= Cardinality(S \ {x})
  BY <1>1, FS_Subset
<1>3. Cardinality(T) \in Nat /\ Cardinality(S) \in Nat
  BY <1>1, FS_Subset, FS_CardinalityType
<1> QED  BY <1>1, <1>2, <1>3

(* A token is held by the cookie, the sign-out or a refresh.                 *)
LEMMA HeldBy ==
    ASSUME NEW t
    PROVE  t \in Held <=> \/ t = cookie \/ t = signout.token
                          \/ \E x \in InFlight : t = refresh[x].old \/ t = refresh[x].new
BY DEF Held

(* The same of the next state.                                               *)
LEMMA NextHeldBy ==
    ASSUME NEW t
    PROVE  t \in Held' <=> \/ t = cookie' \/ t = signout'.token
                           \/ \E x \in InFlight' : t = refresh'[x].old \/ t = refresh'[x].new
BY DEF Held

(* A step that brings no other token than t to life or into somebody's hands *)
(* uses up no other.                                                         *)
LEMMA UnusedKeeps ==
    ASSUME NEW t, Held' \subseteq Held \cup {t},
           \A u \in Tokens : u # t /\ row'[u] = "live" => row[u] = "live"
    PROVE  Unused \ {t} \subseteq Unused'
BY DEF Unused

(* A step that uses no token and starts nothing keeps enough.                *)
LEMMA EnoughKeeps ==
    ASSUME Enough, Held' \subseteq Held \cup {NoToken},
           \A u \in Tokens : row'[u] = "live" => row[u] = "live",
           Reading' \subseteq Reading
    PROVE  Enough'
<1>1. Unused \ {NoToken} \subseteq Unused'
  BY UnusedKeeps
<1>2. Unused \subseteq Unused'
  BY <1>1, SessionRotationAssumption DEF Unused
<1>3. /\ Cardinality(Unused) <= Cardinality(Unused')
      /\ Cardinality(Reading') <= Cardinality(Reading)
  BY <1>2, Counts, NextCounts, FS_Subset
<1> QED  BY <1>3, Counts, NextCounts DEF Enough

(* Spare tokens are enough for one refresh more, or for one token less.      *)
LEMMA SpareIsEnough ==
    ASSUME Spare,
           \/ Unused \subseteq Unused' /\ \E x \in Refreshes : Reading' \subseteq Reading \cup {x}
           \/ (\E t : Unused \ {t} \subseteq Unused') /\ Reading' = Reading
    PROVE  Enough'
<1>1. Cardinality(Unused) > Cardinality(Reading)
  BY DEF Spare, Reading
<1>2. CASE Unused \subseteq Unused' /\ \E x \in Refreshes : Reading' \subseteq Reading \cup {x}
  <2>1. Cardinality(Reading') <= Cardinality(Reading) + 1
    BY <1>2, Counts, AtMostOneMore
  <2>2. Cardinality(Unused) <= Cardinality(Unused')
    BY <1>2, Counts, NextCounts, FS_Subset
  <2> QED  BY <1>1, <2>1, <2>2, Counts, NextCounts DEF Enough
<1>3. CASE (\E t : Unused \ {t} \subseteq Unused') /\ Reading' = Reading
  <2>1. PICK t : Unused \subseteq Unused' \cup {t}
    BY <1>3
  <2>2. Cardinality(Unused) <= Cardinality(Unused') + 1
    BY <2>1, NextCounts, AtMostOneMore
  <2> QED  BY <1>1, <1>3, <2>2, Counts, NextCounts DEF Enough
<1> QED  BY <1>2, <1>3

(* Where a refresh will take a token, or tokens are spare, there is one.     *)
LEMMA FreshIsUnused ==
    ASSUME Spare \/ (Enough /\ Reading # {})
    PROVE  Fresh \in Unused /\ Fresh \in Tokens /\ row[Fresh] # "live" /\ Fresh \notin Held
<1>1. Unused # {}
  <2>1. SUFFICES ASSUME Unused = {} PROVE FALSE
    OBVIOUS
  <2>2. Cardinality(Unused) = 0
    BY <2>1, FS_EmptySet
  <2>3. CASE Spare
    <3>1. Cardinality(Unused) > Cardinality(Reading)
      BY <2>3 DEF Spare, Reading
    <3> QED  BY <2>2, <3>1, Counts
  <2>4. CASE Enough /\ Reading # {}
    <3>1. Cardinality(Reading) # 0
      BY <2>4, Counts, FS_EmptySet
    <3> QED  BY <2>2, <2>4, <3>1, Counts DEF Enough
  <2> QED  BY <2>3, <2>4
<1> QED  BY <1>1 DEF Fresh, Unused

(* A token is given out: its row is live, or could not be stored.            *)
LEMMA StoreFacts ==
    ASSUME row \in [Tokens \cup {Other} -> RowStates], NEW t \in Tokens, Store(t)
    PROVE  /\ row' \in [Tokens \cup {Other} -> RowStates]
           /\ row'[t] \in {"live", "none"}
           /\ \A u \in Tokens \cup {Other} : u # t => row'[u] = row[u]
BY DEF Store, RowStates

(* One refresh changes.                                                      *)
LEMMA OneMoves ==
    ASSUME refresh \in [Refreshes -> RefreshRecords], NEW x \in Refreshes,
           NEW r \in RefreshRecords, refresh' = [refresh EXCEPT ![x] = r]
    PROVE  /\ refresh' \in [Refreshes -> RefreshRecords]
           /\ refresh'[x] = r
           /\ \A y \in Refreshes : y # x => refresh'[y] = refresh[y]
OBVIOUS

(* A refresh that is over, and one that is asked for.                        *)
LEMMA Records ==
    ASSUME TypeOK
    PROVE  /\ NoRefresh \in RefreshRecords /\ NoRefresh.pc = "idle" /\ NoRefresh.by = Nobody
           /\ NoRefresh.new = NoToken
           /\ \A by \in Clients \cup {Page} :
                 /\ Asking(by) \in RefreshRecords /\ Asking(by).pc = "sent"
                 /\ Asking(by).by = by /\ Asking(by).old = cookie /\ Asking(by).new = NoToken
<1>1. cookie \in Tokens \cup {NoToken}
  BY Types
<1> QED  BY <1>1 DEF NoRefresh, Asking, RefreshRecords, RefreshStates

-----------------------------------------------------------------------------
(***************************************************************************)
(* What the statements of the service do to rows and refreshes.            *)
(***************************************************************************)

(* A refresh is served further: it is still there, for the same party and    *)
(* with the same cookie, and at most its new token comes to life.            *)
Serves(x) ==
    /\ refresh' \in [Refreshes -> RefreshRecords] /\ row' \in [Tokens \cup {Other} -> RowStates]
    /\ \A y \in Refreshes : y # x => refresh'[y] = refresh[y]
    /\ refresh'[x].by = refresh[x].by /\ refresh'[x].old = refresh[x].old
    /\ refresh[x].new \in {refresh'[x].new, NoToken}
    /\ x \in Serving /\ InFlight' = InFlight
    /\ \A u \in Tokens : row'[u] = "live" =>
           row[u] = "live" \/ (u = refresh'[x].new /\ u \notin Held)
    /\ UNCHANGED <<cookie, access, call, signout, faults, overlaps>>

(* A statement that only moves the refresh on and brings no row to life.     *)
LEMMA MovesOn ==
    ASSUME TypeOK, NEW x \in Refreshes, NEW p \in RefreshStates \ {"idle"},
           x \in Serving, refresh' = [refresh EXCEPT ![x].pc = p],
           row' \in [Tokens \cup {Other} -> RowStates],
           \A u \in Tokens : row'[u] = "live" => row[u] = "live",
           UNCHANGED <<cookie, access, call, signout, faults, overlaps>>
    PROVE  Serves(x) /\ refresh'[x].pc = p /\ refresh'[x].new = refresh[x].new
<1>1. refresh \in [Refreshes -> RefreshRecords]
  BY Types
<1>2. [refresh[x] EXCEPT !.pc = p] \in RefreshRecords
  BY <1>1 DEF RefreshRecords
<1>3. refresh' = [refresh EXCEPT ![x] = [refresh[x] EXCEPT !.pc = p]]
  OBVIOUS
<1>4. /\ refresh' \in [Refreshes -> RefreshRecords]
      /\ refresh'[x] = [refresh[x] EXCEPT !.pc = p]
      /\ \A y \in Refreshes : y # x => refresh'[y] = refresh[y]
  BY <1>1, <1>2, <1>3, OneMoves
<1>5. refresh[x] \in RefreshRecords
  BY <1>1
<1>6. /\ refresh'[x].pc = p /\ refresh'[x].by = refresh[x].by
      /\ refresh'[x].old = refresh[x].old /\ refresh'[x].new = refresh[x].new
  BY <1>4, <1>5 DEF RefreshRecords
<1>7. InFlight' = InFlight
  BY <1>4, <1>6 DEF InFlight, Serving
<1> QED  BY <1>4, <1>6, <1>7 DEF Serves

(* Look finds the row live, expired, revoked or not at all.                  *)
LEMMA LookFacts ==
    ASSUME TypeOK, NEW x \in Refreshes, Look(x)
    PROVE  /\ Serves(x) /\ refresh[x].pc = "sent" /\ refresh'[x].new = refresh[x].new
           /\ \/ refresh'[x].pc = "read" /\ Spare /\ row' = row
              \/ /\ refresh'[x].pc = "reuse" /\ row' = row
                 /\ refresh[x].old # NoToken /\ row[refresh[x].old] = "revoked"
              \/ /\ refresh'[x].pc = "refused"
                 /\ refresh[x].old = NoToken \/ row'[refresh[x].old] # "live"
                 /\ \A u \in Tokens \cup {Other} : row'[u] = row[u] \/
                       (u = refresh[x].old /\ row[u] = "live" /\ row'[u] = "lapsed")
<1>1. /\ row \in [Tokens \cup {Other} -> RowStates] /\ refresh \in [Refreshes -> RefreshRecords]
  BY Types
<1>2. refresh[x].old \in Tokens \cup {NoToken}
  BY <1>1 DEF RefreshRecords
<1>3. x \in Serving /\ refresh[x].pc = "sent"
  BY DEF Look, Serving
<1>4. UNCHANGED <<cookie, access, call, signout, faults, overlaps>>
  BY DEF Look
<1>5. PICK p \in {"read", "reuse", "refused"} : refresh' = [refresh EXCEPT ![x].pc = p]
  BY DEF Look
<1>6. row' \in {row, [row EXCEPT ![refresh[x].old] = "lapsed"]}
  BY DEF Look
<1>7. /\ row' \in [Tokens \cup {Other} -> RowStates]
      /\ \A u \in Tokens : row'[u] = "live" => row[u] = "live"
  BY <1>1, <1>6 DEF RowStates
<1>8. Serves(x) /\ refresh'[x].pc = p /\ refresh'[x].new = refresh[x].new
  BY <1>3, <1>4, <1>5, <1>7, MovesOn DEF RefreshStates
<1>9. \A q : refresh' = [refresh EXCEPT ![x].pc = q] => q = p
  BY <1>1, <1>8
<1>10. \/ p = "read" /\ Spare /\ row' = row
       \/ p = "reuse" /\ row' = row /\ refresh[x].old # NoToken /\ row[refresh[x].old] = "revoked"
       \/ /\ p = "refused" /\ refresh[x].old # NoToken /\ row[refresh[x].old] = "live"
          /\ row' = [row EXCEPT ![refresh[x].old] = "lapsed"]
       \/ p = "refused" /\ row' = row /\ (refresh[x].old = NoToken \/ row[refresh[x].old] # "live")
  BY <1>9 DEF Look
<1>11. CASE /\ p = "refused" /\ refresh[x].old # NoToken /\ row[refresh[x].old] = "live"
            /\ row' = [row EXCEPT ![refresh[x].old] = "lapsed"]
  BY <1>1, <1>2, <1>3, <1>8, <1>11
<1> QED  BY <1>3, <1>8, <1>10, <1>11

(* Reuse: every live row is revoked.                                         *)
LEMMA RevokeAllFacts ==
    ASSUME TypeOK, NEW x \in Refreshes, RevokeAll(x)
    PROVE  /\ Serves(x) /\ refresh[x].pc = "reuse" /\ refresh'[x].pc = "refused"
           /\ refresh'[x].new = refresh[x].new
           /\ \A u \in Tokens \cup {Other} : row'[u] # "live"
<1>1. row \in [Tokens \cup {Other} -> RowStates]
  BY Types
<1>2. /\ row' \in [Tokens \cup {Other} -> RowStates]
      /\ \A u \in Tokens \cup {Other} : row'[u] # "live"
  BY <1>1 DEF RevokeAll, AllRevoked, RowStates
<1>3. x \in Serving /\ refresh[x].pc = "reuse"
  BY DEF RevokeAll, Serving
<1>4. Serves(x) /\ refresh'[x].pc = "refused" /\ refresh'[x].new = refresh[x].new
  BY <1>2, <1>3, MovesOn DEF RevokeAll, RefreshStates
<1> QED  BY <1>2, <1>3, <1>4

(* The new row is inserted ...                                               *)
LEMMA InsertFacts ==
    ASSUME KindsInv, NEW x \in Refreshes, Insert(x)
    PROVE  /\ Serves(x) /\ refresh[x].pc = "read" /\ refresh'[x].pc = "inserted"
           /\ refresh'[x].new \in Tokens /\ refresh'[x].new \notin Held
           /\ row'[refresh'[x].new] \in {"live", "none"}
           /\ \A u \in Tokens \cup {Other} : u # refresh'[x].new => row'[u] = row[u]
<1>1. /\ row \in [Tokens \cup {Other} -> RowStates] /\ refresh \in [Refreshes -> RefreshRecords]
  BY Types DEF KindsInv
<1>2. refresh[x].pc = "read" /\ x \in Serving /\ x \in Reading
  BY DEF Insert, Serving, Reading
<1>3. Fresh \in Tokens /\ row[Fresh] # "live" /\ Fresh \notin Held
  BY <1>2, FreshIsUnused DEF KindsInv
<1> HIDE DEF Fresh
<1>4. /\ row' \in [Tokens \cup {Other} -> RowStates]
      /\ row'[Fresh] \in {"live", "none"}
      /\ \A u \in Tokens \cup {Other} : u # Fresh => row'[u] = row[u]
  BY <1>1, <1>3, StoreFacts DEF Insert
<1> DEFINE r == [refresh[x] EXCEPT !.pc = "inserted", !.new = Fresh]
<1>5. refresh[x] \in RefreshRecords
  BY <1>1
<1>6. /\ r \in RefreshRecords /\ r.pc = "inserted" /\ r.new = Fresh
      /\ r.by = refresh[x].by /\ r.old = refresh[x].old
  BY <1>3, <1>5 DEF RefreshRecords, RefreshStates
<1>7. refresh' = [refresh EXCEPT ![x] = r]
  BY DEF Insert
<1> HIDE DEF r
<1>8. /\ refresh' \in [Refreshes -> RefreshRecords] /\ refresh'[x] = r
      /\ \A y \in Refreshes : y # x => refresh'[y] = refresh[y]
  BY <1>1, <1>6, <1>7, OneMoves
<1>9. InFlight' = InFlight
  BY <1>2, <1>6, <1>8 DEF InFlight
<1>10. refresh[x].new = NoToken
  BY <1>2 DEF KindsInv, Brings
<1>11. Serves(x)
  BY <1>2, <1>3, <1>4, <1>6, <1>8, <1>9, <1>10 DEF Serves, Insert
<1> QED  BY <1>2, <1>3, <1>4, <1>6, <1>8, <1>11

(* ... and then the old one revoked.                                         *)
LEMMA RevokeFacts ==
    ASSUME TypeOK, NEW x \in Refreshes, Revoke(x)
    PROVE  /\ Serves(x) /\ refresh[x].pc = "inserted" /\ refresh'[x].pc = "granted"
           /\ refresh'[x].new = refresh[x].new
           /\ refresh[x].old = NoToken \/ row'[refresh[x].old] = "revoked"
           /\ \A u \in Tokens \cup {Other} : u # refresh[x].old => row'[u] = row[u]
<1>1. /\ row \in [Tokens \cup {Other} -> RowStates] /\ refresh \in [Refreshes -> RefreshRecords]
  BY Types
<1>2. refresh[x].old \in Tokens \cup {NoToken}
  BY <1>1 DEF RefreshRecords
<1>3. /\ row' \in [Tokens \cup {Other} -> RowStates]
      /\ refresh[x].old = NoToken \/ row'[refresh[x].old] = "revoked"
      /\ \A u \in Tokens \cup {Other} : u # refresh[x].old => row'[u] = row[u]
      /\ \A u \in Tokens : row'[u] = "live" => row[u] = "live"
  BY <1>1, <1>2 DEF Revoke, OldRevoked, RowStates
<1>4. x \in Serving /\ refresh[x].pc = "inserted"
  BY DEF Revoke, Serving
<1>5. Serves(x) /\ refresh'[x].pc = "granted" /\ refresh'[x].new = refresh[x].new
  BY <1>3, <1>4, MovesOn DEF Revoke, RefreshStates
<1> QED  BY <1>3, <1>4, <1>5

(* A refresh is over: its record is idle and the others go on.               *)
LEMMA EndFacts ==
    ASSUME TypeOK, NEW x \in Refreshes, refresh' = [refresh EXCEPT ![x] = NoRefresh]
    PROVE  /\ refresh' \in [Refreshes -> RefreshRecords] /\ refresh'[x] = NoRefresh
           /\ \A y \in Refreshes : y # x => refresh'[y] = refresh[y]
           /\ InFlight' = InFlight \ {x}
<1>1. refresh \in [Refreshes -> RefreshRecords] /\ NoRefresh \in RefreshRecords /\ NoRefresh.pc = "idle"
  BY Types, Records
<1>2. /\ refresh' \in [Refreshes -> RefreshRecords] /\ refresh'[x] = NoRefresh
      /\ \A y \in Refreshes : y # x => refresh'[y] = refresh[y]
  BY <1>1, OneMoves
<1>3. InFlight' = InFlight \ {x}
  BY <1>1, <1>2 DEF InFlight
<1> QED  BY <1>2, <1>3

(* The page gives up: the refresh goes on for nobody.                        *)
LEMMA TimeOutFacts ==
    ASSUME TypeOK, NEW x \in Refreshes, TimesOut(x)
    PROVE  /\ refresh' \in [Refreshes -> RefreshRecords]
           /\ \A y \in Refreshes : y # x => refresh'[y] = refresh[y]
           /\ refresh'[x].by = Nobody /\ refresh'[x].pc = refresh[x].pc
           /\ refresh'[x].old = refresh[x].old /\ refresh'[x].new = refresh[x].new
           /\ x \in InFlight /\ InFlight' = InFlight
<1>1. refresh \in [Refreshes -> RefreshRecords]
  BY Types
<1>2. refresh[x] \in RefreshRecords
  BY <1>1
<1> DEFINE r == [refresh[x] EXCEPT !.by = Nobody]
<1>3. /\ r \in RefreshRecords /\ r.by = Nobody /\ r.pc = refresh[x].pc
      /\ r.old = refresh[x].old /\ r.new = refresh[x].new
  BY <1>2 DEF RefreshRecords
<1>4. refresh' = [refresh EXCEPT ![x] = r]
  BY DEF TimesOut
<1> HIDE DEF r
<1>5. /\ refresh' \in [Refreshes -> RefreshRecords] /\ refresh'[x] = r
      /\ \A y \in Refreshes : y # x => refresh'[y] = refresh[y]
  BY <1>1, <1>3, <1>4, OneMoves
<1>6. InFlight' = InFlight
  BY <1>3, <1>5 DEF InFlight
<1>7. x \in InFlight
  BY DEF TimesOut, Serving, InFlight
<1> QED  BY <1>3, <1>5, <1>6, <1>7

(* A call that is refused waits, behind a refresh of its client or one that  *)
(* it starts with the cookie of the browser.                                 *)
LEMMA StartFacts ==
    ASSUME TypeOK, Sent, NEW c \in Calls, Refused(c), ~Busy(call[c].via)
    PROVE  \E x \in Free :
           /\ call[c].via \in Clients
           /\ refresh' \in [Refreshes -> RefreshRecords] /\ refresh'[x] = Asking(call[c].via)
           /\ \A y \in Refreshes : y # x => refresh'[y] = refresh[y]
           /\ InFlight' = InFlight \cup {x}
<1>1. refresh \in [Refreshes -> RefreshRecords]
  BY Types
<1>2. call[c].via \in Clients
  BY DEF Refused, Sent
<1>3. Slot \in Free /\ Slot \in Refreshes
  BY DEF Refused, Slot, Free
<1> HIDE DEF Slot
<1>4. Asking(call[c].via) \in RefreshRecords /\ Asking(call[c].via).pc = "sent"
  BY <1>2, Records
<1>5. refresh' = [refresh EXCEPT ![Slot] = Asking(call[c].via)]
  BY DEF Refused
<1>6. /\ refresh' \in [Refreshes -> RefreshRecords] /\ refresh'[Slot] = Asking(call[c].via)
      /\ \A y \in Refreshes : y # Slot => refresh'[y] = refresh[y]
  BY <1>1, <1>3, <1>4, <1>5, OneMoves
<1>7. InFlight' = InFlight \cup {Slot}
  BY <1>3, <1>4, <1>6 DEF InFlight
<1> QED  BY <1>2, <1>3, <1>6, <1>7

(* A page that is loaded leaves what the service is at to nobody, forgets    *)
(* the answers on their way, and asks with the cookie of the browser.        *)
LEMMA ReloadFacts ==
    ASSUME TypeOK, Reload
    PROVE  \E x \in Free :
           /\ refresh' \in [Refreshes -> RefreshRecords] /\ refresh'[x] = Asking(Page)
           /\ \A y \in Refreshes : y # x => IF y \in Serving
                  THEN /\ refresh'[y].by = Nobody /\ refresh'[y].pc = refresh[y].pc
                       /\ refresh'[y].old = refresh[y].old /\ refresh'[y].new = refresh[y].new
                  ELSE refresh'[y] = NoRefresh
           /\ InFlight' = Serving \cup {x}
<1>1. refresh \in [Refreshes -> RefreshRecords]
  BY Types
<1>2. Slot \in Free /\ Slot \in Refreshes
  BY DEF Reload, Slot, Free
<1> HIDE DEF Slot
<1>3. Asking(Page) \in RefreshRecords /\ Asking(Page).pc = "sent"
  BY Records
<1> DEFINE left == [x \in Refreshes |->
                       IF x \in Serving THEN [refresh[x] EXCEPT !.by = Nobody] ELSE NoRefresh]
<1>4. \A y \in Refreshes :
         /\ [refresh[y] EXCEPT !.by = Nobody] \in RefreshRecords
         /\ [refresh[y] EXCEPT !.by = Nobody].by = Nobody
         /\ [refresh[y] EXCEPT !.by = Nobody].pc = refresh[y].pc
         /\ [refresh[y] EXCEPT !.by = Nobody].old = refresh[y].old
         /\ [refresh[y] EXCEPT !.by = Nobody].new = refresh[y].new
  BY <1>1 DEF RefreshRecords
<1>5. NoRefresh \in RefreshRecords /\ NoRefresh.pc = "idle"
  BY Records
<1>6. left \in [Refreshes -> RefreshRecords]
  BY <1>4, <1>5
<1>7. refresh' = [left EXCEPT ![Slot] = Asking(Page)]
  BY DEF Reload
<1>8. /\ refresh'[Slot] = Asking(Page)
      /\ \A y \in Refreshes : y # Slot => refresh'[y] = left[y]
      /\ refresh' \in [Refreshes -> RefreshRecords]
  <2> HIDE DEF left
  <2> QED  BY <1>2, <1>3, <1>6, <1>7
<1>9. \A y \in Refreshes : y # Slot => IF y \in Serving
         THEN /\ refresh'[y].by = Nobody /\ refresh'[y].pc = refresh[y].pc
              /\ refresh'[y].old = refresh[y].old /\ refresh'[y].new = refresh[y].new
         ELSE refresh'[y] = NoRefresh
  BY <1>4, <1>8
<1>10. InFlight' = Serving \cup {Slot}
  <2> HIDE DEF left
  <2>1. \A y \in Refreshes : y # Slot => (refresh'[y].pc # "idle" <=> y \in Serving)
    BY <1>5, <1>9 DEF Serving
  <2> QED  BY <1>2, <1>3, <1>8, <2>1 DEF InFlight, Serving
<1> QED  BY <1>2, <1>8, <1>9, <1>10

-----------------------------------------------------------------------------
(***************************************************************************)
(* The kinds of all values are kept.                                       *)
(***************************************************************************)

(* A client has one refresh in flight at most.                               *)
Dedup == \A x, y \in InFlight :
    refresh[x].by = refresh[y].by /\ refresh[x].by \in Clients => x = y

(* The type invariant of the next state, from its parts.                     *)
LEMMA TypesMake ==
    ASSUME row' \in [Tokens \cup {Other} -> RowStates],
           refresh' \in [Refreshes -> RefreshRecords],
           call' \in [Calls -> CallRecords],
           cookie' \in Tokens \cup {NoToken}, access' \in BOOLEAN,
           signout' \in [pc : {"idle", "sent", "revoked", "cut"}, token : Tokens \cup {NoToken}],
           faults' \in Nat, overlaps' \in Nat, faults' + overlaps' <= MaxTroubles,
           Dedup'
    PROVE  TypeOK'
BY DEF TypeOK, RowStates, RefreshRecords, RefreshStates, CallRecords, Dedup

(* Nobody is signed in at first, and no token is used.                       *)
LEMMA KindsInit == Init => KindsInv
<1> SUFFICES ASSUME Init PROVE KindsInv
  OBVIOUS
<1>1. \A x \in Refreshes : refresh[x] = NoRefresh
  BY DEF Init
<1>2. InFlight = {} /\ Reading = {}
  BY <1>1 DEF InFlight, Reading, NoRefresh
<1>3. /\ row \in [Tokens \cup {Other} -> {"none", "live", "revoked", "lapsed"}]
      /\ refresh \in [Refreshes -> [pc : {"idle", "sent", "read", "reuse", "inserted",
                                       "granted", "refused"},
                                 by : Clients \cup {Page, Nobody},
                                 old : Tokens \cup {NoToken}, new : Tokens \cup {NoToken}]]
      /\ call \in [Calls -> [pc : {"idle", "sent", "waiting"}, via : Clients \cup {Nobody}]]
  BY DEF Init, NoRefresh, NoCall
<1>4. TypeOK
  <2>1. \A x, y \in InFlight : refresh[x].by = refresh[y].by /\ refresh[x].by \in Clients => x = y
    BY <1>2
  <2>2. faults \in Nat /\ overlaps \in Nat /\ faults + overlaps <= MaxTroubles
    BY SessionRotationAssumption DEF Init
  <2>3. /\ cookie \in Tokens \cup {NoToken} /\ access \in BOOLEAN
        /\ signout \in [pc : {"idle", "sent", "revoked", "cut"}, token : Tokens \cup {NoToken}]
    BY DEF Init, NoSignOut
  <2> QED  BY <1>3, <2>1, <2>2, <2>3 DEF TypeOK
<1>5. Answered /\ Brings
  BY <1>1 DEF Answered, Brings, NoRefresh
<1>6. Sent
  BY DEF Init, Sent, NoCall
<1>7. Enough
  BY <1>2, Counts, FS_EmptySet DEF Enough
<1> QED  BY <1>4, <1>5, <1>6, <1>7 DEF KindsInv

(* A statement of the service keeps the tokens that others hold as they are. *)
LEMMA ServesKeeps ==
    ASSUME KindsInv, NEW x \in Refreshes, Serves(x),
           refresh'[x].pc \in {"granted", "refused"} =>
               refresh[x].old = NoToken \/ row'[refresh[x].old] # "live",
           refresh'[x].pc \notin {"inserted", "granted"} => refresh'[x].new = NoToken,
           Enough'
    PROVE  KindsInv'
<1>1. Dedup'
  <2>1. \A y \in Refreshes : refresh'[y].by = refresh[y].by
    BY DEF Serves
  <2>2. Dedup
    BY DEF KindsInv, TypeOK, Dedup
  <2>3. InFlight' = InFlight /\ InFlight \subseteq Refreshes
    BY DEF Serves, InFlight
  <2> QED  BY <2>1, <2>2, <2>3 DEF Dedup
<1>2. TypeOK
  BY DEF KindsInv
<1>3. TypeOK'
  <2>1. /\ call' \in [Calls -> CallRecords] /\ cookie' \in Tokens \cup {NoToken}
        /\ faults' \in Nat /\ overlaps' \in Nat
    BY <1>2, Types DEF Serves
  <2>2. /\ access' \in BOOLEAN /\ faults' + overlaps' <= MaxTroubles
        /\ signout' \in [pc : {"idle", "sent", "revoked", "cut"}, token : Tokens \cup {NoToken}]
    BY <1>2 DEF Serves, TypeOK
  <2> QED  BY <1>1, <2>1, <2>2, TypesMake DEF Serves
<1>4. Answered'
  <2> SUFFICES ASSUME NEW y \in Refreshes, y # x, refresh[y].pc \in {"granted", "refused"},
                      refresh[y].old # NoToken
               PROVE  row'[refresh[y].old] # "live"
    BY DEF Serves, Answered
  <2>1. y \in InFlight
    BY DEF InFlight
  <2>2. refresh[y].old \in Held /\ refresh[y].old \in Tokens
    BY <1>2, <2>1, Types, HeldBy DEF RefreshRecords
  <2>3. row[refresh[y].old] # "live"
    BY DEF KindsInv, Answered
  <2> QED  BY <2>2, <2>3 DEF Serves
<1>5. Brings'
  BY DEF KindsInv, Brings, Serves
<1>6. Sent'
  BY DEF KindsInv, Sent, Serves
<1> QED  BY <1>3, <1>4, <1>5, <1>6 DEF KindsInv

(* What is held after a statement of the service.                            *)
LEMMA ServesHolds ==
    ASSUME NEW x \in Refreshes, Serves(x)
    PROVE  Held' \subseteq Held \cup {refresh'[x].new}
<1> SUFFICES ASSUME NEW t \in Held', t # refresh'[x].new PROVE t \in Held
  OBVIOUS
<1>1. CASE t = cookie' \/ t = signout'.token
  BY <1>1, HeldBy DEF Serves
<1>2. CASE \E y \in InFlight' : t = refresh'[y].old \/ t = refresh'[y].new
  <2>1. PICK y \in InFlight : t = refresh'[y].old \/ t = refresh'[y].new
    BY <1>2 DEF Serves
  <2>2. y \in Refreshes
    BY DEF InFlight
  <2>3. t = refresh[y].old \/ t = refresh[y].new
    BY <2>1, <2>2 DEF Serves
  <2> QED  BY <2>1, <2>3, HeldBy
<1> QED  BY <1>1, <1>2, NextHeldBy

(* The service's statements of one refresh.                                  *)
LEMMA ServiceKeepsKinds ==
    ASSUME KindsInv, NEW x \in Refreshes,
           Look(x) \/ RevokeAll(x) \/ Insert(x) \/ Revoke(x)
    PROVE  KindsInv' /\ Serves(x)
<1>1. TypeOK /\ Enough /\ Brings
  BY DEF KindsInv
<1>2. ASSUME Serves(x), refresh'[x].new = refresh[x].new, refresh'[x].pc # "read"
      PROVE  Enough'
  <2>1. x \in InFlight
    BY <1>2 DEF Serves, Serving, InFlight
  <2>2. Held' \subseteq Held
    BY <1>2, <2>1, ServesHolds, HeldBy
  <2>3. Reading' \subseteq Reading
    BY <1>2 DEF Serves, Reading
  <2>4. \A u \in Tokens : row'[u] = "live" => row[u] = "live"
    BY <1>2, <2>1, HeldBy DEF Serves
  <2> QED  BY <1>1, <2>2, <2>3, <2>4, EnoughKeeps
<1>3. CASE Look(x)
  <2>1. /\ Serves(x) /\ refresh[x].pc = "sent" /\ refresh'[x].new = refresh[x].new
        /\ refresh'[x].pc \in {"read", "reuse", "refused"}
        /\ refresh'[x].pc = "read" => Spare /\ row' = row
        /\ refresh'[x].pc = "refused" => refresh[x].old = NoToken \/ row'[refresh[x].old] # "live"
    BY <1>1, <1>3, LookFacts
  <2>2. refresh[x].new = NoToken
    BY <1>1, <2>1 DEF Brings
  <2>3. CASE refresh'[x].pc = "read"
    <3>1. x \in InFlight
      BY <2>1 DEF InFlight
    <3>2. Held' \subseteq Held
      BY <2>1, <3>1, ServesHolds, HeldBy
    <3>3. Unused \subseteq Unused'
      BY <2>1, <2>3, <3>2 DEF Unused
    <3>4. Reading' \subseteq Reading \cup {x}
      BY <2>1 DEF Serves, Reading
    <3> QED  BY <2>1, <2>2, <2>3, <3>3, <3>4, SpareIsEnough, ServesKeeps
  <2>4. CASE refresh'[x].pc # "read"
    BY <1>2, <2>1, <2>2, <2>4, ServesKeeps
  <2> QED  BY <2>3, <2>4
<1>4. CASE RevokeAll(x)
  <2>1. /\ Serves(x) /\ refresh[x].pc = "reuse" /\ refresh'[x].pc = "refused"
        /\ refresh'[x].new = refresh[x].new
        /\ \A u \in Tokens \cup {Other} : row'[u] # "live"
    BY <1>1, <1>4, RevokeAllFacts
  <2>2. refresh[x].new = NoToken /\ refresh[x].old \in Tokens \cup {NoToken}
    BY <1>1, <2>1, Types DEF Brings, RefreshRecords
  <2> QED  BY <1>2, <2>1, <2>2, ServesKeeps
<1>5. CASE Insert(x)
  <2>1. /\ Serves(x) /\ refresh[x].pc = "read" /\ refresh'[x].pc = "inserted"
        /\ refresh'[x].new \in Tokens
        /\ \A u \in Tokens \cup {Other} : u # refresh'[x].new => row'[u] = row[u]
    BY <1>5, InsertFacts
  <2>2. Unused \ {refresh'[x].new} \subseteq Unused'
    BY <2>1, ServesHolds DEF Unused
  <2>3. Cardinality(Unused) <= Cardinality(Unused') + 1
    <3>1. Unused \subseteq Unused' \cup {refresh'[x].new}
      BY <2>2
    <3> QED  BY <3>1, NextCounts, AtMostOneMore
  <2>4. x \in Reading /\ Reading' \subseteq Reading \ {x}
    BY <2>1 DEF Serves, Reading
  <2>5. Cardinality(Reading') + 1 <= Cardinality(Reading)
    BY <2>4, Counts, AtLeastOneLess
  <2>6. Enough'
    BY <1>1, <2>3, <2>5, Counts, NextCounts DEF Enough
  <2> QED  BY <2>1, <2>6, ServesKeeps
<1>6. CASE Revoke(x)
  <2>1. /\ Serves(x) /\ refresh[x].pc = "inserted" /\ refresh'[x].pc = "granted"
        /\ refresh'[x].new = refresh[x].new
        /\ refresh[x].old = NoToken \/ row'[refresh[x].old] = "revoked"
    BY <1>1, <1>6, RevokeFacts
  <2> QED  BY <1>2, <2>1, ServesKeeps
<1> QED  BY <1>3, <1>4, <1>5, <1>6

(* Calls that are settled are idle, the others are where they were.          *)
LEMMA SettledFacts ==
    ASSUME TypeOK, Sent, NEW by, call' = Settled(by)
    PROVE  /\ call' \in [Calls -> CallRecords] /\ Sent'
           /\ \A c \in Calls : IF call[c].pc = "waiting" /\ call[c].via = by
                               THEN call'[c] = NoCall ELSE call'[c] = call[c]
<1>1. call \in [Calls -> CallRecords] /\ NoCall \in CallRecords
  BY Types DEF NoCall, CallRecords
<1>2. \A c \in Calls : IF call[c].pc = "waiting" /\ call[c].via = by
                        THEN call'[c] = NoCall ELSE call'[c] = call[c]
  BY DEF Settled
<1>3. call' \in [Calls -> CallRecords]
  BY <1>1 DEF Settled
<1>4. Sent'
  BY <1>2 DEF Sent, NoCall
<1> QED  BY <1>2, <1>3, <1>4

(* A refresh ends, or its party gives it up: the calls that waited for it    *)
(* are settled.                                                              *)
Leaves(x) ==
    /\ x \in InFlight
    /\ call' = Settled(refresh[x].by) \/ call' = call
    /\ access' \in BOOLEAN /\ UNCHANGED <<row, signout>>
    /\ faults' \in Nat /\ overlaps' \in Nat /\ faults' + overlaps' <= MaxTroubles

(* What the answer of a refresh, or its loss, is to the page.                *)
LEMMA EndIsLeaving ==
    ASSUME TypeOK, NEW x \in Refreshes,
           Granted(x) \/ Denied(x) \/ Ignored(x) \/ Lost(x)
    PROVE  /\ Leaves(x) /\ refresh' = [refresh EXCEPT ![x] = NoRefresh]
           /\ cookie' \in {cookie, refresh[x].new}
           /\ faults' = faults \/ (Lost(x) /\ faults' = faults + 1)
           /\ overlaps' = overlaps
<1>1. x \in InFlight /\ refresh' = [refresh EXCEPT ![x] = NoRefresh]
  BY DEF Granted, Denied, Ignored, Lost, InFlight
<1>2. call' = Settled(refresh[x].by) \/ call' = call
  BY DEF Granted, Denied, Ignored, Lost, Fails, Rejected
<1>3. access \in BOOLEAN /\ faults \in Nat /\ overlaps \in Nat /\ MaxTroubles \in Nat
      /\ faults + overlaps <= MaxTroubles
  BY SessionRotationAssumption DEF TypeOK
<1>4. access' \in BOOLEAN
  BY <1>3 DEF Granted, Denied, Ignored, Lost, Fails
<1>5. UNCHANGED <<row, signout, overlaps>>
  BY DEF Granted, Denied, Ignored, Lost
<1>6. \/ faults' = faults
      \/ Lost(x) /\ faults' = faults + 1 /\ faults + overlaps < MaxTroubles
  BY DEF Granted, Denied, Ignored, Lost, Fault, Bound
<1>7. faults' \in Nat /\ overlaps' \in Nat /\ faults' + overlaps' <= MaxTroubles
  BY <1>3, <1>5, <1>6
<1>8. cookie' \in {cookie, refresh[x].new}
  BY DEF Granted, Denied, Ignored, Lost
<1> QED  BY <1>1, <1>2, <1>4, <1>5, <1>6, <1>7, <1>8 DEF Leaves

(* The same when the page gives up.                                          *)
LEMMA TimeOutIsLeaving ==
    ASSUME TypeOK, NEW x \in Refreshes, TimesOut(x)
    PROVE  Leaves(x) /\ cookie' = cookie /\ faults' = faults + 1 /\ overlaps' = overlaps
<1>1. x \in InFlight /\ call' = Settled(refresh[x].by) /\ access' \in BOOLEAN
  BY DEF TimesOut, Serving, InFlight, Fails, Rejected
<1>2. faults \in Nat /\ overlaps \in Nat /\ MaxTroubles \in Nat
  BY SessionRotationAssumption DEF TypeOK
<1>3. /\ faults' = faults + 1 /\ faults + overlaps < MaxTroubles
      /\ UNCHANGED <<row, cookie, signout, overlaps>>
  BY DEF TimesOut, Fault, Bound
<1>4. faults' \in Nat /\ overlaps' \in Nat /\ faults' + overlaps' <= MaxTroubles
  BY <1>2, <1>3
<1> QED  BY <1>1, <1>3, <1>4 DEF Leaves

(* A refresh that is over, or left to nobody, keeps the kinds.               *)
LEMMA LeavingKeepsKinds ==
    ASSUME KindsInv, NEW x \in Refreshes,
           Granted(x) \/ Denied(x) \/ Ignored(x) \/ Lost(x) \/ TimesOut(x)
    PROVE  KindsInv'
<1>1. TypeOK /\ Answered /\ Brings /\ Sent /\ Enough /\ Dedup
  BY DEF KindsInv, TypeOK, Dedup
<1>2. Leaves(x) /\ cookie' \in {cookie, refresh[x].new}
  BY <1>1, EndIsLeaving, TimeOutIsLeaving
<1>3. refresh \in [Refreshes -> RefreshRecords]
  BY <1>1, Types
<1>4. /\ refresh' \in [Refreshes -> RefreshRecords]
      /\ \A y \in Refreshes : y # x => refresh'[y] = refresh[y]
      /\ InFlight' \subseteq InFlight
      /\ \/ refresh'[x] = NoRefresh /\ x \notin InFlight'
         \/ /\ refresh'[x].by = Nobody /\ refresh'[x].pc = refresh[x].pc
            /\ refresh'[x].old = refresh[x].old /\ refresh'[x].new = refresh[x].new
  <2>1. CASE TimesOut(x)
    BY <1>1, <2>1, TimeOutFacts
  <2>2. CASE Granted(x) \/ Denied(x) \/ Ignored(x) \/ Lost(x)
    BY <1>1, <2>2, EndIsLeaving, EndFacts
  <2> QED  BY <2>1, <2>2
<1>5. InFlight \subseteq Refreshes
  BY DEF InFlight
<1>6. Dedup'
  <2>1. \A y \in InFlight' : y # x => refresh'[y] = refresh[y]
    BY <1>4, <1>5
  <2>2. x \in InFlight' => refresh'[x].by \notin Clients
    BY <1>4, SessionRotationAssumption
  <2> QED  BY <1>1, <1>4, <2>1, <2>2 DEF Dedup
<1>7. call' \in [Calls -> CallRecords] /\ Sent'
  <2>1. CASE call' = call
    BY <1>1, <2>1, Types DEF Sent
  <2> QED  BY <1>1, <1>2, <2>1, SettledFacts DEF Leaves
<1>8. TypeOK'
  <2>1. cookie' \in Tokens \cup {NoToken}
    BY <1>1, <1>2, <1>3, Types DEF RefreshRecords
  <2>2. /\ row' \in [Tokens \cup {Other} -> RowStates]
        /\ signout' \in [pc : {"idle", "sent", "revoked", "cut"}, token : Tokens \cup {NoToken}]
    BY <1>1, <1>2, Types DEF Leaves, TypeOK
  <2> QED  BY <1>2, <1>4, <1>6, <1>7, <2>1, <2>2, TypesMake DEF Leaves
<1>9. Answered' /\ Brings'
  <2>1. NoRefresh.pc = "idle" /\ NoRefresh.new = NoToken
    BY DEF NoRefresh
  <2> QED  BY <1>1, <1>2, <1>4, <2>1 DEF Answered, Brings, Leaves
<1>10. Enough'
  <2>1. Held' \subseteq Held \cup {NoToken}
    <3> SUFFICES ASSUME NEW t \in Held' PROVE t \in Held
      OBVIOUS
    <3>1. \A y \in InFlight' : y \in InFlight /\ refresh'[y].old = refresh[y].old
                                              /\ refresh'[y].new = refresh[y].new
      BY <1>4, <1>5
    <3>2. x \in InFlight /\ signout' = signout
      BY <1>2 DEF Leaves
    <3> QED  BY <1>2, <3>1, <3>2, HeldBy, NextHeldBy
  <2>2. Reading' \subseteq Reading
    BY <1>4 DEF Reading, NoRefresh
  <2> QED  BY <1>1, <1>2, <2>1, <2>2, EnoughKeeps DEF Leaves
<1> QED  BY <1>7, <1>8, <1>9, <1>10 DEF KindsInv

(* A sign-in takes a token that nobody holds.                                *)
LEMMA SignInFacts ==
    ASSUME TypeOK, SignIn
    PROVE  /\ cookie' \in Tokens /\ cookie' \notin Held /\ row[cookie'] # "live"
           /\ row' \in [Tokens \cup {Other} -> RowStates]
           /\ row'[cookie'] \in {"live", "none"}
           /\ \A u \in Tokens \cup {Other} : u # cookie' => row'[u] = row[u]
<1>1. row \in [Tokens \cup {Other} -> RowStates]
  BY Types
<1>2. Fresh \in Tokens /\ row[Fresh] # "live" /\ Fresh \notin Held
  BY FreshIsUnused DEF SignIn
<1> HIDE DEF Fresh
<1>3. cookie' = Fresh
  BY DEF SignIn
<1> QED  BY <1>1, <1>2, <1>3, StoreFacts DEF SignIn

(* Overlaps are counted up to the bound.                                     *)
LEMMA OverlapFacts ==
    ASSUME TypeOK, NEW S, Overlap(S)
    PROVE  /\ overlaps' \in Nat /\ overlaps' >= overlaps
           /\ faults' = faults => faults' + overlaps' <= MaxTroubles
           /\ S # {} => overlaps' = overlaps + 1
           /\ S = {} => overlaps' = overlaps
<1>1. faults \in Nat /\ overlaps \in Nat /\ MaxTroubles \in Nat /\ faults + overlaps <= MaxTroubles
  BY SessionRotationAssumption DEF TypeOK
<1>2. CASE S = {} /\ overlaps' = overlaps
  BY <1>1, <1>2
<1>3. CASE S # {} /\ faults + overlaps < MaxTroubles /\ overlaps' = overlaps + 1
  BY <1>1, <1>3
<1> QED  BY <1>2, <1>3 DEF Overlap, Bound

(* Steps of the page that leave the refreshes alone.                         *)
LEMMA AloneKeepsKinds ==
    ASSUME KindsInv, TypeOK', Sent', refresh' = refresh,
           \A u \in Tokens : row'[u] = "live" => row[u] = "live",
           cookie' \in {cookie, NoToken}, signout'.token \in {signout.token, cookie, NoToken}
    PROVE  KindsInv'
<1>1. refresh \in [Refreshes -> RefreshRecords]
  BY Types DEF KindsInv
<1>2. Answered' /\ Brings'
  <2>1. \A x \in Refreshes : refresh[x].old \in Tokens \cup {NoToken}
    BY <1>1 DEF RefreshRecords
  <2> QED  BY <2>1 DEF KindsInv, Answered, Brings
<1>3. InFlight' = InFlight /\ Reading' = Reading
  BY DEF InFlight, Reading
<1>4. Held' \subseteq Held \cup {NoToken}
  BY <1>3, HeldBy, NextHeldBy
<1>5. Enough'
  BY <1>3, <1>4, EnoughKeeps DEF KindsInv
<1> QED  BY <1>2, <1>5 DEF KindsInv

(* Of these, the ones that leave the rows alone too, or revoke one.          *)
LEMMA PageKeepsKinds ==
    ASSUME KindsInv, \/ Cleared \/ SignOut \/ SignOutRevoke \/ SignOutAnswer \/ SignOutLost
                     \/ \E c \in Calls : Served(c) \/ \E cl \in Clients : Send(c, cl)
    PROVE  KindsInv'
<1>1. TypeOK /\ Sent /\ Dedup
  BY DEF KindsInv, TypeOK, Dedup
<1>2. /\ row \in [Tokens \cup {Other} -> RowStates] /\ refresh \in [Refreshes -> RefreshRecords]
      /\ call \in [Calls -> CallRecords] /\ cookie \in Tokens \cup {NoToken}
      /\ faults \in Nat /\ overlaps \in Nat /\ faults + overlaps <= MaxTroubles
      /\ access \in BOOLEAN /\ MaxTroubles \in Nat
      /\ signout \in [pc : {"idle", "sent", "revoked", "cut"}, token : Tokens \cup {NoToken}]
  BY <1>1, Types, SessionRotationAssumption DEF TypeOK
<1>3. refresh' = refresh /\ overlaps' = overlaps
  BY DEF Cleared, SignOut, SignOutRevoke, SignOutAnswer, SignOutLost, Served, Send
<1>4. Dedup'
  BY <1>1, <1>3 DEF Dedup, InFlight
<1>5. faults' \in Nat /\ faults' + overlaps' <= MaxTroubles
  BY <1>2, <1>3 DEF Cleared, SignOut, SignOutRevoke, SignOutAnswer, SignOutLost, Served, Send,
                    Fault, Bound
<1>6. /\ row' \in [Tokens \cup {Other} -> RowStates]
      /\ \A u \in Tokens : row'[u] = "live" => row[u] = "live"
  <2>1. CASE SignOutRevoke
    BY <1>2, <2>1 DEF SignOutRevoke, RowStates
  <2>2. CASE row' = row
    BY <1>2, <2>2
  <2> QED  BY <2>1, <2>2 DEF Cleared, SignOut, SignOutAnswer, SignOutLost, Served, Send
<1>7. access' \in BOOLEAN /\ cookie' \in {cookie, NoToken}
  BY <1>2 DEF Cleared, SignOut, SignOutRevoke, SignOutAnswer, SignOutLost, Served, Send
<1>8. /\ signout' \in [pc : {"idle", "sent", "revoked", "cut"}, token : Tokens \cup {NoToken}]
      /\ signout'.token \in {signout.token, cookie, NoToken}
  BY <1>2 DEF Cleared, SignOut, SignOutRevoke, SignOutAnswer, SignOutLost, Served, Send, NoSignOut
<1>9. call' \in [Calls -> CallRecords] /\ Sent'
  <2>1. ASSUME NEW c \in Calls, Served(c) PROVE call' \in [Calls -> CallRecords] /\ Sent'
    <3>1. NoCall \in CallRecords /\ NoCall.pc = "idle"
      BY DEF NoCall, CallRecords
    <3>2. call' = [call EXCEPT ![c] = NoCall]
      BY <2>1 DEF Served
    <3> QED  BY <1>1, <1>2, <3>1, <3>2 DEF Sent
  <2>2. ASSUME NEW c \in Calls, NEW cl \in Clients, Send(c, cl)
        PROVE  call' \in [Calls -> CallRecords] /\ Sent'
    <3> DEFINE r == [pc |-> "sent", via |-> cl]
    <3>1. r \in CallRecords /\ r.via \in Clients
      BY DEF CallRecords
    <3>2. call' = [call EXCEPT ![c] = r]
      BY <2>2 DEF Send
    <3> HIDE DEF r
    <3> QED  BY <1>1, <1>2, <3>1, <3>2 DEF Sent
  <2>3. CASE call' = call
    BY <1>1, <1>2, <2>3 DEF Sent
  <2> QED  BY <2>1, <2>2, <2>3 DEF Cleared, SignOut, SignOutRevoke, SignOutAnswer, SignOutLost
<1>10. TypeOK'
  <2>1. cookie' \in Tokens \cup {NoToken} /\ overlaps' \in Nat /\ refresh' \in [Refreshes -> RefreshRecords]
    BY <1>2, <1>3, <1>7
  <2> QED  BY <1>4, <1>5, <1>6, <1>7, <1>8, <1>9, <2>1, TypesMake
<1> QED  BY <1>3, <1>6, <1>7, <1>8, <1>9, <1>10, AloneKeepsKinds

(* Steps that begin a session or a refresh.                                  *)
LEMMA BeginKeepsKinds ==
    ASSUME KindsInv, SignIn \/ Reload \/ \E c \in Calls : Refused(c)
    PROVE  KindsInv'
<1>1. TypeOK /\ Answered /\ Brings /\ Sent /\ Enough /\ Dedup
  BY DEF KindsInv, TypeOK, Dedup
<1>2. /\ row \in [Tokens \cup {Other} -> RowStates] /\ refresh \in [Refreshes -> RefreshRecords]
      /\ call \in [Calls -> CallRecords] /\ cookie \in Tokens \cup {NoToken}
      /\ faults \in Nat /\ overlaps \in Nat /\ faults + overlaps <= MaxTroubles
      /\ access \in BOOLEAN
      /\ signout \in [pc : {"idle", "sent", "revoked", "cut"}, token : Tokens \cup {NoToken}]
  BY <1>1, Types DEF TypeOK
<1>3. CASE SignIn
  <2>1. /\ cookie' \in Tokens /\ cookie' \notin Held
        /\ row' \in [Tokens \cup {Other} -> RowStates]
        /\ \A u \in Tokens \cup {Other} : u # cookie' => row'[u] = row[u]
    BY <1>1, <1>3, SignInFacts
  <2>2. /\ UNCHANGED <<refresh, call, signout, faults>> /\ access' = TRUE /\ Spare
        /\ Overlap(InFlight)
    BY <1>3 DEF SignIn
  <2>3. overlaps' \in Nat /\ faults' + overlaps' <= MaxTroubles
    BY <1>1, <2>2, OverlapFacts
  <2>4. InFlight' = InFlight /\ Reading' = Reading
    BY <2>2 DEF InFlight, Reading
  <2>5. Dedup'
    BY <1>1, <2>2, <2>4 DEF Dedup
  <2>6. TypeOK'
    BY <1>2, <2>1, <2>2, <2>3, <2>5, TypesMake
  <2>7. Answered'
    <3> SUFFICES ASSUME NEW y \in Refreshes, refresh[y].pc \in {"granted", "refused"},
                        refresh[y].old # NoToken
                 PROVE  row'[refresh[y].old] # "live"
      BY <2>2 DEF Answered
    <3>1. y \in InFlight
      BY DEF InFlight
    <3>2. refresh[y].old \in Held /\ refresh[y].old \in Tokens
      BY <1>2, <3>1, HeldBy DEF RefreshRecords
    <3> QED  BY <1>1, <2>1, <3>2 DEF Answered
  <2>8. Brings' /\ Sent'
    BY <1>1, <2>2 DEF Brings, Sent
  <2>9. Enough'
    <3>1. Held' \subseteq Held \cup {cookie'}
      BY <2>2, <2>4, HeldBy, NextHeldBy
    <3>2. Unused \ {cookie'} \subseteq Unused'
      BY <2>1, <3>1 DEF Unused
    <3> QED  BY <2>2, <2>4, <3>2, SpareIsEnough
  <2> QED  BY <2>6, <2>7, <2>8, <2>9 DEF KindsInv
<1>4. CASE Reload
  <2>1. PICK x \in Free :
           /\ refresh' \in [Refreshes -> RefreshRecords] /\ refresh'[x] = Asking(Page)
           /\ \A y \in Refreshes : y # x => IF y \in Serving
                  THEN /\ refresh'[y].by = Nobody /\ refresh'[y].pc = refresh[y].pc
                       /\ refresh'[y].old = refresh[y].old /\ refresh'[y].new = refresh[y].new
                  ELSE refresh'[y] = NoRefresh
           /\ InFlight' = Serving \cup {x}
    BY <1>1, <1>4, ReloadFacts
  <2>2. /\ UNCHANGED <<row, cookie, access, faults>> /\ Overlap(InFlight)
        /\ call' = [c \in Calls |-> NoCall]
        /\ signout' \in {[signout EXCEPT !.pc = "cut"], NoSignOut}
    BY <1>4 DEF Reload
  <2>3. /\ Asking(Page).pc = "sent" /\ Asking(Page).by = Page
        /\ Asking(Page).old = cookie /\ Asking(Page).new = NoToken
        /\ NoRefresh.pc = "idle" /\ NoRefresh.new = NoToken
    BY <1>1, Records
  <2>4. overlaps' \in Nat /\ faults' + overlaps' <= MaxTroubles
    BY <1>1, <2>2, OverlapFacts
  <2>5. Dedup'
    <3>1. \A y \in InFlight' : refresh'[y].by \notin Clients
      <4>1. Serving \subseteq Refreshes
        BY DEF Serving
      <4> QED  BY <2>1, <2>3, <4>1, SessionRotationAssumption
    <3> QED  BY <3>1 DEF Dedup
  <2>6. /\ call' \in [Calls -> CallRecords] /\ Sent'
        /\ signout' \in [pc : {"idle", "sent", "revoked", "cut"}, token : Tokens \cup {NoToken}]
        /\ signout'.token \in {signout.token, NoToken}
    BY <1>2, <2>2 DEF NoCall, CallRecords, Sent, NoSignOut
  <2>7. TypeOK'
    BY <1>2, <2>1, <2>2, <2>4, <2>5, <2>6, TypesMake
  <2>8. Answered'
    <3> SUFFICES ASSUME NEW y \in Refreshes, refresh'[y].pc \in {"granted", "refused"}
                 PROVE  FALSE
      BY DEF Answered
    <3>1. y # x
      BY <2>1, <2>3
    <3>2. y \in Serving /\ refresh[y].pc \in {"granted", "refused"}
      BY <2>1, <2>3, <3>1
    <3> QED  BY <3>2 DEF Serving
  <2>9. Brings'
    <3> SUFFICES ASSUME NEW y \in Refreshes, refresh'[y].pc \notin {"inserted", "granted"}
                 PROVE  refresh'[y].new = NoToken
      BY DEF Brings
    <3>1. CASE y = x
      BY <2>1, <2>3, <3>1
    <3>2. CASE y # x /\ y \in Serving
      BY <1>1, <2>1, <3>2 DEF Brings
    <3>3. CASE y # x /\ y \notin Serving
      BY <2>1, <2>3, <3>3
    <3> QED  BY <3>1, <3>2, <3>3
  <2>10. Enough'
    <3>1. Held' \subseteq Held \cup {NoToken}
      <4> SUFFICES ASSUME NEW t \in Held', t # NoToken PROVE t \in Held
        OBVIOUS
      <4>1. CASE t = cookie' \/ t = signout'.token
        BY <2>2, <2>6, <4>1, HeldBy
      <4>2. CASE t = refresh'[x].old \/ t = refresh'[x].new
        BY <2>1, <2>3, <4>2, HeldBy
      <4>3. ASSUME NEW y \in Serving, y # x, t = refresh'[y].old \/ t = refresh'[y].new
            PROVE  t \in Held
        <5>1. y \in InFlight /\ y \in Refreshes
          BY DEF Serving, InFlight
        <5> QED  BY <2>1, <4>3, <5>1, HeldBy
      <4> QED  BY <2>1, <4>1, <4>2, <4>3, NextHeldBy
    <3>2. Reading' \subseteq Reading
      <4> SUFFICES ASSUME NEW y \in Refreshes, refresh'[y].pc = "read" PROVE refresh[y].pc = "read"
        BY DEF Reading
      <4>1. y # x
        BY <2>1, <2>3
      <4> QED  BY <2>1, <2>3, <4>1
    <3> QED  BY <1>1, <2>2, <3>1, <3>2, EnoughKeeps
  <2> QED  BY <2>6, <2>7, <2>8, <2>9, <2>10 DEF KindsInv
<1>5. ASSUME NEW c \in Calls, Refused(c) PROVE KindsInv'
  <2>1. /\ call' = [call EXCEPT ![c].pc = "waiting"] /\ call[c].pc = "sent"
        /\ UNCHANGED <<row, cookie, access, signout, faults>>
    BY <1>5 DEF Refused
  <2>2. call' \in [Calls -> CallRecords] /\ Sent'
    <3>1. call[c] \in CallRecords
      BY <1>2
    <3>2. [call[c] EXCEPT !.pc = "waiting"] \in CallRecords
      BY <3>1 DEF CallRecords
    <3>3. call' = [call EXCEPT ![c] = [call[c] EXCEPT !.pc = "waiting"]]
      BY <2>1
    <3>4. call' \in [Calls -> CallRecords]
      BY <1>2, <3>2, <3>3
    <3>5. call'[c].via = call[c].via
      BY <1>2, <3>1, <3>3 DEF CallRecords
    <3> QED  BY <1>1, <1>2, <2>1, <3>3, <3>4, <3>5 DEF Sent
  <2>3. CASE Busy(call[c].via)
    <3>1. refresh' = refresh /\ overlaps' = overlaps
      BY <1>5, <2>3 DEF Refused
    <3>2. Dedup'
      BY <1>1, <3>1 DEF Dedup, InFlight
    <3>3. TypeOK'
      BY <1>2, <2>1, <2>2, <3>1, <3>2, TypesMake
    <3> QED  BY <2>1, <2>2, <3>1, <3>3, AloneKeepsKinds
  <2>4. CASE ~Busy(call[c].via)
    <3>1. PICK x \in Free :
           /\ call[c].via \in Clients
           /\ refresh' \in [Refreshes -> RefreshRecords] /\ refresh'[x] = Asking(call[c].via)
           /\ \A y \in Refreshes : y # x => refresh'[y] = refresh[y]
           /\ InFlight' = InFlight \cup {x}
      BY <1>1, <1>5, <2>4, StartFacts
    <3> DEFINE cl == call[c].via
    <3>2. /\ Asking(cl).pc = "sent" /\ Asking(cl).by = cl
          /\ Asking(cl).old = cookie /\ Asking(cl).new = NoToken
      BY <1>1, <3>1, Records
    <3>3. Overlap({y \in InFlight : refresh[y].by # cl})
      BY <1>5, <2>4 DEF Refused
    <3>4. overlaps' \in Nat /\ faults' + overlaps' <= MaxTroubles
      BY <1>1, <2>1, <3>3, OverlapFacts
    <3>5. \A y \in InFlight : refresh[y].by # cl /\ y # x /\ y \in Refreshes
      BY <2>4 DEF Busy, Free, InFlight
    <3> HIDE DEF cl
    <3>6. Dedup'
      <4>1. \A y \in InFlight : refresh'[y] = refresh[y]
        BY <3>1, <3>5
      <4>2. refresh'[x].by = cl
        BY <3>1, <3>2 DEF cl
      <4> QED  BY <1>1, <3>1, <3>5, <4>1, <4>2 DEF Dedup
    <3>7. TypeOK'
      BY <1>2, <2>1, <2>2, <3>1, <3>4, <3>6, TypesMake
    <3>8. Answered' /\ Brings'
      <4>1. refresh'[x].pc = "sent" /\ refresh'[x].new = NoToken
        BY <3>1, <3>2 DEF cl
      <4> QED  BY <1>1, <2>1, <3>1, <4>1 DEF Answered, Brings
    <3>9. Held' \subseteq Held \cup {NoToken}
      <4> SUFFICES ASSUME NEW t \in Held', t # NoToken PROVE t \in Held
        OBVIOUS
      <4>1. CASE t = cookie' \/ t = signout'.token
        BY <2>1, <4>1, HeldBy
      <4>2. CASE t = refresh'[x].old \/ t = refresh'[x].new
        BY <3>1, <3>2, <4>2, HeldBy DEF cl
      <4>3. ASSUME NEW y \in InFlight, t = refresh'[y].old \/ t = refresh'[y].new
            PROVE  t \in Held
        BY <3>1, <3>5, <4>3, HeldBy
      <4> QED  BY <3>1, <4>1, <4>2, <4>3, NextHeldBy
    <3>10. Reading' \subseteq Reading
      <4>1. refresh'[x].pc = "sent"
        BY <3>1, <3>2 DEF cl
      <4> QED  BY <3>1, <4>1 DEF Reading
    <3>11. Enough'
      BY <1>1, <2>1, <3>9, <3>10, EnoughKeeps
    <3> QED  BY <2>2, <3>7, <3>8, <3>11 DEF KindsInv
  <2> QED  BY <2>3, <2>4
<1> QED  BY <1>3, <1>4, <1>5

(* The invariant holds of the specification.                                 *)
LEMMA KindsInvariant == Spec => []KindsInv
<1>1. KindsInv /\ [Next]_vars => KindsInv'
  <2> SUFFICES ASSUME KindsInv, [Next]_vars PROVE KindsInv'
    OBVIOUS
  <2>1. CASE UNCHANGED vars
    <3>1. TypeOK'
      BY <2>1 DEF vars, KindsInv, TypeOK, InFlight
    <3>2. Answered' /\ Brings' /\ Sent'
      BY <2>1 DEF vars, KindsInv, Answered, Brings, Sent
    <3>3. Enough'
      BY <2>1 DEF vars, KindsInv, Enough, Unused, Held, InFlight, Reading
    <3> QED  BY <3>1, <3>2, <3>3 DEF KindsInv
  <2> QED  BY <2>1, ServiceKeepsKinds, LeavingKeepsKinds, PageKeepsKinds, BeginKeepsKinds
           DEF Next, RefreshStep, Answer
<1> QED  BY <1>1, KindsInit, PTL DEF Spec

(* Rows, requests, calls and counters stay of their kinds, and no HTTP       *)
(* client ever has two refreshes in flight, for any number of clients.       *)
THEOREM SessionTypeCorrect == Spec => []TypeOK
<1>1. KindsInv => TypeOK
  BY DEF KindsInv
<1> QED  BY <1>1, KindsInvariant, PTL

-----------------------------------------------------------------------------
(***************************************************************************)
(* While nothing overlaps and nothing is lost, the browser presents every  *)
(* token once.                                                             *)
(***************************************************************************)

(* A token that would not count as reused.                                   *)
Good(t) == t = NoToken \/ row[t] # "revoked"

(* A refresh that will not be taken for a reuse, and brings a token that     *)
(* will not be.                                                              *)
Presents(x) ==
    /\ refresh[x].by # Nobody /\ refresh[x].old = cookie /\ refresh[x].pc # "reuse"
    /\ refresh[x].pc = "granted" \/ Good(cookie)
    /\ Good(refresh[x].new)
    /\ refresh[x].new = NoToken \/ refresh[x].new # cookie

Calm ==
    /\ row[Other] = "live" /\ signout.pc = "idle"
    /\ \A x, y \in InFlight : x = y
    /\ \A x \in InFlight : Presents(x)
    /\ InFlight = {} => Good(cookie)

CalmInv == faults = 0 /\ overlaps = 0 => Calm

(* Neither counter goes down.                                                *)
LEMMA TroublesStay ==
    ASSUME TypeOK, Next
    PROVE  /\ faults' = 0 => faults = 0
           /\ overlaps' = 0 => overlaps = 0
<1>1. faults \in Nat /\ overlaps \in Nat
  BY DEF TypeOK
<1>2. faults' = faults \/ faults' = faults + 1
  BY DEF Next, RefreshStep, Answer, SignIn, Reload, Cleared, SignOut, SignOutRevoke,
         SignOutAnswer, SignOutLost, Send, Served, Refused, Look, RevokeAll, Insert, Revoke,
         Granted, Denied, Ignored, Lost, TimesOut, Fault
<1>3. overlaps' = overlaps \/ overlaps' = overlaps + 1
  BY DEF Next, RefreshStep, Answer, SignIn, Reload, Cleared, SignOut, SignOutRevoke,
         SignOutAnswer, SignOutLost, Send, Served, Refused, Look, RevokeAll, Insert, Revoke,
         Granted, Denied, Ignored, Lost, TimesOut, Overlap
<1> QED  BY <1>1, <1>2, <1>3

(* The statements of the service.                                            *)
LEMMA ServiceKeepsCalm ==
    ASSUME KindsInv, Calm, NEW x \in Refreshes,
           Look(x) \/ RevokeAll(x) \/ Insert(x) \/ Revoke(x)
    PROVE  Calm'
<1>1. Serves(x) /\ TypeOK
  BY ServiceKeepsKinds DEF KindsInv
<1>2. /\ row \in [Tokens \cup {Other} -> RowStates] /\ refresh \in [Refreshes -> RefreshRecords]
      /\ cookie \in Tokens \cup {NoToken}
  BY <1>1, Types
<1>3. /\ InFlight' = InFlight /\ x \in InFlight
      /\ UNCHANGED <<cookie, signout>>
      /\ refresh'[x].by = refresh[x].by /\ refresh'[x].old = refresh[x].old
  BY <1>1 DEF Serves, Serving, InFlight
<1>4. /\ Presents(x) /\ InFlight = {x} /\ row[Other] = "live"
      /\ cookie # Other /\ refresh[x].old = cookie
  BY <1>2, <1>3, SessionRotationAssumption DEF Calm, Presents
<1>5. refresh[x].new \in Tokens \cup {NoToken} /\ refresh[x].old \in Tokens \cup {NoToken}
  BY <1>2 DEF RefreshRecords
<1>6. ASSUME row'[Other] = "live", Presents(x)' PROVE Calm'
  BY <1>3, <1>4, <1>6 DEF Calm
<1>7. ~RevokeAll(x)
  BY <1>4 DEF RevokeAll, Presents
<1>8. CASE Look(x)
  <2>1. /\ refresh[x].pc = "sent" /\ refresh'[x].new = refresh[x].new
        /\ \/ refresh'[x].pc = "read" /\ row' = row
           \/ row' = row /\ refresh[x].old # NoToken /\ row[refresh[x].old] = "revoked"
           \/ /\ refresh'[x].pc = "refused"
              /\ \A u \in Tokens \cup {Other} : row'[u] = row[u] \/
                    (u = refresh[x].old /\ row[u] = "live" /\ row'[u] = "lapsed")
    BY <1>1, <1>8, LookFacts
  <2>2. Good(cookie)
    BY <1>4, <2>1 DEF Presents
  <2>3. /\ refresh'[x].pc \in {"read", "refused"}
        /\ \A u \in Tokens \cup {Other} : row'[u] = row[u] \/
              (u = cookie /\ row[u] = "live" /\ row'[u] = "lapsed")
    BY <1>4, <2>1, <2>2 DEF Good
  <2>4. row'[Other] = "live"
    BY <1>4, <2>3
  <2>5. \A u \in Tokens \cup {NoToken} : Good(u) => Good(u)'
    BY <2>3 DEF Good
  <2>6. Presents(x)'
    BY <1>2, <1>3, <1>4, <1>5, <2>1, <2>2, <2>3, <2>5 DEF Presents
  <2> QED  BY <1>6, <2>4, <2>6
<1>9. CASE Insert(x)
  <2>1. /\ refresh[x].pc = "read" /\ refresh'[x].pc = "inserted"
        /\ refresh'[x].new \in Tokens /\ refresh'[x].new \notin Held
        /\ row'[refresh'[x].new] \in {"live", "none"}
        /\ \A u \in Tokens \cup {Other} : u # refresh'[x].new => row'[u] = row[u]
    BY <1>9, InsertFacts
  <2>2. refresh'[x].new # cookie
    BY <2>1, HeldBy
  <2>3. row'[Other] = "live"
    BY <1>4, <2>1, SessionRotationAssumption
  <2>4. Good(cookie) => Good(cookie)'
    BY <1>2, <1>3, <2>1, <2>2 DEF Good
  <2>5. Presents(x)'
    BY <1>3, <1>4, <2>1, <2>2, <2>4 DEF Presents, Good
  <2> QED  BY <1>6, <2>3, <2>5
<1>10. CASE Revoke(x)
  <2>1. /\ refresh'[x].pc = "granted" /\ refresh'[x].new = refresh[x].new
        /\ \A u \in Tokens \cup {Other} : u # refresh[x].old => row'[u] = row[u]
    BY <1>1, <1>10, RevokeFacts
  <2>2. row'[Other] = "live"
    BY <1>4, <2>1
  <2>3. Good(refresh[x].new) => Good(refresh[x].new)'
    <3>1. refresh[x].new = NoToken \/ (refresh[x].new \in Tokens /\ refresh[x].new # refresh[x].old)
      BY <1>4, <1>5 DEF Presents
    <3>2. refresh'[x].new = refresh[x].new
      BY <2>1
    <3>3. refresh[x].new = NoToken \/ row'[refresh[x].new] = row[refresh[x].new]
      BY <2>1, <3>1
    <3> QED  BY <3>2, <3>3 DEF Good
  <2>4. Presents(x)'
    BY <1>3, <1>4, <2>1, <2>3 DEF Presents, Good
  <2> QED  BY <1>6, <2>2, <2>4
<1> QED  BY <1>7, <1>8, <1>9, <1>10

(* The answer: the cookie is the new token, or was refused and is not        *)
(* revoked.                                                                  *)
LEMMA AnswerKeepsCalm ==
    ASSUME KindsInv, Calm, NEW x \in Refreshes,
           Granted(x) \/ Denied(x) \/ Ignored(x)
    PROVE  Calm'
<1>1. TypeOK
  BY DEF KindsInv
<1>2. Leaves(x) /\ InFlight' = InFlight \ {x} /\ signout' = signout /\ row' = row
  BY <1>1, EndIsLeaving, EndFacts DEF Leaves
<1>3. Presents(x) /\ InFlight = {x} /\ x \in InFlight
  BY <1>2 DEF Leaves, Calm
<1>4. Good(cookie)'
  <2>1. CASE Granted(x)
    BY <1>2, <1>3, <2>1 DEF Granted, Presents, Good
  <2>2. CASE Denied(x) \/ Ignored(x)
    <3>1. cookie' = cookie /\ refresh[x].pc # "granted"
      BY <1>3, <2>2 DEF Denied, Ignored, Presents
    <3> QED  BY <1>2, <1>3, <3>1 DEF Presents, Good
  <2> QED  BY <2>1, <2>2
<1>5. InFlight' = {}
  BY <1>2, <1>3
<1> QED  BY <1>2, <1>4, <1>5 DEF Calm

(* What begins when nothing is in flight begins with the cookie.             *)
LEMMA BeginKeepsCalm ==
    ASSUME KindsInv, Calm, overlaps' = 0,
           SignIn \/ Reload \/ \E c \in Calls : Refused(c)
    PROVE  Calm'
<1>1. TypeOK /\ Sent /\ overlaps \in Nat
  BY DEF KindsInv, TypeOK
<1>2. ASSUME NEW S, Overlap(S) PROVE S = {}
  BY <1>1, <1>2 DEF Overlap
<1>3. Good(cookie) => Good(cookie)' \/ row' # row \/ cookie' # cookie
  BY DEF Good
<1>4. ASSUME NEW x, InFlight' = {x}, InFlight = {}, UNCHANGED <<row, cookie>>,
             signout'.pc = "idle", NEW by \in Clients \cup {Page}, refresh'[x] = Asking(by)
      PROVE  Calm'
  <2>1. /\ Asking(by).pc = "sent" /\ Asking(by).by = by
        /\ Asking(by).old = cookie /\ Asking(by).new = NoToken
    BY <1>1, Records
  <2>2. by # Nobody
    BY SessionRotationAssumption
  <2>3. Good(cookie)'
    BY <1>3, <1>4 DEF Calm
  <2>4. Presents(x)'
    BY <1>4, <2>1, <2>2, <2>3 DEF Presents, Good
  <2> QED  BY <1>4, <2>4 DEF Calm
<1>5. CASE SignIn
  <2>1. InFlight = {} /\ UNCHANGED <<refresh, signout>>
    BY <1>2, <1>5 DEF SignIn
  <2>2. InFlight' = {}
    BY <2>1 DEF InFlight
  <2>3. /\ cookie' \in Tokens /\ row'[cookie'] \in {"live", "none"}
        /\ \A u \in Tokens \cup {Other} : u # cookie' => row'[u] = row[u]
    BY <1>1, <1>5, SignInFacts
  <2>4. row'[Other] = "live"
    BY <2>3, SessionRotationAssumption DEF Calm
  <2> QED  BY <2>1, <2>2, <2>3, <2>4 DEF Calm, Good
<1>6. CASE Reload
  <2>1. InFlight = {} /\ UNCHANGED <<row, cookie>>
    BY <1>2, <1>6 DEF Reload
  <2>2. signout'.pc = "idle"
    BY <1>6 DEF Reload, Calm, NoSignOut
  <2>3. PICK x \in Free : refresh'[x] = Asking(Page) /\ InFlight' = Serving \cup {x}
    BY <1>1, <1>6, ReloadFacts
  <2>4. InFlight' = {x}
    BY <2>1, <2>3 DEF Serving, InFlight
  <2> QED  BY <1>4, <2>1, <2>2, <2>3, <2>4
<1>7. ASSUME NEW c \in Calls, Refused(c) PROVE Calm'
  <2>1. UNCHANGED <<row, cookie, signout>>
    BY <1>7 DEF Refused
  <2>2. CASE Busy(call[c].via)
    <3>1. refresh' = refresh
      BY <1>7, <2>2 DEF Refused
    <3> QED  BY <2>1, <3>1 DEF Calm, Presents, Good, InFlight
  <2>3. CASE ~Busy(call[c].via)
    <3>1. {y \in InFlight : refresh[y].by # call[c].via} = {}
      BY <1>2, <1>7, <2>3 DEF Refused
    <3>2. InFlight = {}
      BY <2>3, <3>1 DEF Busy
    <3>3. PICK x \in Free : /\ call[c].via \in Clients
                            /\ refresh'[x] = Asking(call[c].via)
                            /\ InFlight' = InFlight \cup {x}
      BY <1>1, <1>7, <2>3, StartFacts
    <3>4. signout'.pc = "idle"
      BY <2>1 DEF Calm
    <3> QED  BY <1>4, <2>1, <3>2, <3>3, <3>4
  <2> QED  BY <2>2, <2>3
<1> QED  BY <1>5, <1>6, <1>7

(* The invariant holds of the specification.                                 *)
LEMMA CalmInvariant == Spec => []CalmInv
<1>1. Init => CalmInv
  <2> SUFFICES ASSUME Init PROVE Calm
    BY DEF CalmInv
  <2>1. InFlight = {}
    BY DEF Init, InFlight, NoRefresh
  <2> QED  BY <2>1 DEF Init, Calm, Good, NoSignOut
<1>2. KindsInv /\ CalmInv /\ [Next]_vars => CalmInv'
  <2> SUFFICES ASSUME KindsInv, CalmInv, [Next]_vars, faults' = 0, overlaps' = 0
               PROVE  Calm'
    BY DEF CalmInv
  <2>1. CASE UNCHANGED vars
    BY <2>1 DEF vars, CalmInv, Calm, Presents, Good, InFlight
  <2>2. CASE Next
    <3>1. TypeOK /\ faults = 0 /\ overlaps = 0
      BY <2>2, TroublesStay DEF KindsInv
    <3>2. Calm
      BY <3>1 DEF CalmInv
    <3>3. ~Cleared /\ ~SignOut /\ \A x \in Refreshes : ~Lost(x) /\ ~TimesOut(x)
      BY <3>1 DEF Cleared, SignOut, Lost, TimesOut, Fault
    <3>4. ~SignOutRevoke /\ ~SignOutAnswer /\ ~SignOutLost
      BY <3>2 DEF Calm, SignOutRevoke, SignOutAnswer, SignOutLost
    <3>5. CASE \E c \in Calls : Served(c) \/ \E cl \in Clients : Send(c, cl)
      <4>1. UNCHANGED <<row, cookie, refresh, signout>>
        BY <3>5 DEF Served, Send
      <4> QED  BY <3>2, <4>1 DEF Calm, Presents, Good, InFlight
    <3> QED  BY <2>2, <3>2, <3>3, <3>4, <3>5, ServiceKeepsCalm, AnswerKeepsCalm, BeginKeepsCalm
             DEF Next, RefreshStep, Answer
  <2> QED  BY <2>1, <2>2
<1> QED  BY <1>1, <1>2, KindsInvariant, PTL DEF Spec

(* However many HTTP clients a page has and however often it is loaded, it   *)
(* does not end the user's session on another device, unless an answer is    *)
(* lost or the user signs out, or refreshes of two parties overlap.          *)
THEOREM OtherDeviceKept == Spec => []OtherDeviceStaysIn
<1>1. CalmInv => OtherDeviceStaysIn
  BY DEF CalmInv, Calm, OtherDeviceStaysIn
<1> QED  BY <1>1, CalmInvariant, PTL

-----------------------------------------------------------------------------
(***************************************************************************)
(* A browser can lose hold of a session in two ways: a refresh in flight   *)
(* ends without the browser's having both its tokens, or the cookie is     *)
(* replaced while it still is good.  Risk counts what is lost and what may *)
(* be: no step adds to it for nothing.                                     *)
(***************************************************************************)

(* The page will sign in again though the cookie is good; the page waits for *)
(* a refresh of the cookie; a sign-out may take the cookie.                  *)
Unclaimed == /\ ~access /\ cookie # NoToken /\ row[cookie] = "live"
             /\ \A x \in InFlight : refresh[x].old # cookie
Asked     == \E x \in InFlight : refresh[x].by # Nobody /\ refresh[x].old = cookie
Leaving   == signout.pc \in {"sent", "revoked"}

One(b) == IF b THEN 1 ELSE 0

Risk ==
    Cardinality(Strays) + Cardinality(InFlight) + One(Unclaimed) + One(Leaving)
        <= overlaps + 2 * faults + One(Asked)

(* The sets that are counted are finite, now and after a step.               *)
LEMMA RiskCounts ==
    /\ IsFiniteSet(Strays) /\ Cardinality(Strays) \in Nat
    /\ IsFiniteSet(InFlight) /\ Cardinality(InFlight) \in Nat
    /\ IsFiniteSet(Strays') /\ Cardinality(Strays') \in Nat
    /\ IsFiniteSet(InFlight') /\ Cardinality(InFlight') \in Nat
<1>1. /\ Strays \subseteq Tokens /\ Strays' \subseteq Tokens
      /\ InFlight \subseteq Refreshes /\ InFlight' \subseteq Refreshes
  BY DEF Strays, InFlight
<1>2. /\ IsFiniteSet(Strays) /\ IsFiniteSet(Strays')
      /\ IsFiniteSet(InFlight) /\ IsFiniteSet(InFlight')
  BY <1>1, SessionRotationAssumption, FS_Subset
<1> QED  BY <1>2, FS_CardinalityType

(* How many more strays there can be.                                        *)
LEMMA MoreStrays ==
    /\ Strays' \subseteq Strays => Cardinality(Strays') <= Cardinality(Strays)
    /\ \A t : Strays' \subseteq Strays \cup {t} => Cardinality(Strays') <= Cardinality(Strays) + 1
    /\ \A t, u : Strays' \subseteq Strays \cup {t, u} => Cardinality(Strays') <= Cardinality(Strays) + 2
<1>1. Strays' \subseteq Strays => Cardinality(Strays') <= Cardinality(Strays)
  BY RiskCounts, FS_Subset
<1>2. ASSUME NEW t, Strays' \subseteq Strays \cup {t}
      PROVE  Cardinality(Strays') <= Cardinality(Strays) + 1
  BY <1>2, RiskCounts, AtMostOneMore
<1>3. ASSUME NEW t, NEW u, Strays' \subseteq Strays \cup {t, u}
      PROVE  Cardinality(Strays') <= Cardinality(Strays) + 2
  <2>1. IsFiniteSet(Strays \cup {t}) /\ Cardinality(Strays \cup {t}) \in Nat
    BY RiskCounts, FS_AddElement, FS_CardinalityType
  <2>2. Cardinality(Strays \cup {t}) <= Cardinality(Strays) + 1
    BY RiskCounts, AtMostOneMore
  <2>3. Strays' \subseteq (Strays \cup {t}) \cup {u}
    BY <1>3
  <2>4. Cardinality(Strays') <= Cardinality(Strays \cup {t}) + 1
    BY <2>1, <2>3, AtMostOneMore
  <2> QED  BY <2>1, <2>2, <2>4, RiskCounts
<1> QED  BY <1>1, <1>2, <1>3

(* A stray of the next state, and one of this.                               *)
LEMMA StrayBy ==
    ASSUME NEW t
    PROVE  /\ t \in Strays <=> /\ t \in Tokens /\ row[t] = "live" /\ t # cookie
                               /\ \A x \in InFlight : t # refresh[x].old /\ t # refresh[x].new
           /\ t \in Strays' <=> /\ t \in Tokens /\ row'[t] = "live" /\ t # cookie'
                                /\ \A x \in InFlight' : t # refresh'[x].old /\ t # refresh'[x].new
BY DEF Strays

(* The numbers of the rest.                                                  *)
LEMMA RiskNumbers ==
    ASSUME TypeOK
    PROVE  faults \in Nat /\ overlaps \in Nat
BY DEF TypeOK

(* The statements of the service lose nothing.                               *)
LEMMA ServiceKeepsRisk ==
    ASSUME KindsInv, Risk, NEW x \in Refreshes,
           Look(x) \/ RevokeAll(x) \/ Insert(x) \/ Revoke(x)
    PROVE  Risk'
<1>1. Serves(x) /\ TypeOK
  BY ServiceKeepsKinds DEF KindsInv
<1>2. /\ UNCHANGED <<cookie, access, signout, faults, overlaps>>
      /\ InFlight' = InFlight /\ x \in InFlight
      /\ \A y \in InFlight : /\ refresh'[y].by = refresh[y].by /\ refresh'[y].old = refresh[y].old
                             /\ refresh[y].new \in {refresh'[y].new, NoToken}
  BY <1>1 DEF Serves, Serving, InFlight
<1>3. Strays' \subseteq Strays
  <2> SUFFICES ASSUME NEW t \in Strays' PROVE t \in Strays
    OBVIOUS
  <2>1. t \in Tokens /\ t # NoToken
    BY StrayBy, SessionRotationAssumption
  <2>2. row[t] = "live"
    BY <1>1, <1>2, <2>1, StrayBy DEF Serves
  <2> QED  BY <1>2, <2>1, <2>2, StrayBy
<1>4. Unclaimed' => Unclaimed
  <2> SUFFICES ASSUME Unclaimed' PROVE row[cookie] = "live"
    BY <1>2 DEF Unclaimed
  <2>1. cookie \in Tokens /\ row'[cookie] = "live"
    BY <1>1, <1>2, Types DEF Unclaimed
  <2> QED  BY <1>1, <2>1, HeldBy DEF Serves
<1>5. Asked' <=> Asked
  BY <1>2 DEF Asked
<1>6. Leaving' <=> Leaving
  BY <1>2 DEF Leaving
<1> QED  BY <1>1, <1>2, <1>3, <1>4, <1>5, <1>6, MoreStrays, RiskCounts, RiskNumbers DEF Risk, One

(* Each end of a refresh loses as much as the refresh was counted for, or as *)
(* a fault is.                                                               *)
LEMMA EndKeepsRisk ==
    ASSUME KindsInv, Risk, NEW x \in Refreshes,
           Granted(x) \/ Denied(x) \/ Ignored(x) \/ Lost(x)
    PROVE  Risk'
<1>1. TypeOK /\ Answered /\ Brings
  BY DEF KindsInv
<1>2. /\ Leaves(x) /\ overlaps' = overlaps
      /\ InFlight' = InFlight \ {x}
      /\ \A y \in Refreshes : y # x => refresh'[y] = refresh[y]
  BY <1>1, EndIsLeaving, EndFacts
<1>3. x \in InFlight /\ row' = row /\ signout' = signout
  BY <1>2 DEF Leaves
<1>4. \A y \in InFlight' : y \in InFlight /\ y # x /\ refresh'[y] = refresh[y]
  BY <1>2 DEF InFlight
<1>5. Cardinality(InFlight') + 1 <= Cardinality(InFlight)
  BY <1>2, <1>3, RiskCounts, AtLeastOneLess
<1>6. Leaving' <=> Leaving
  BY <1>3 DEF Leaving
<1>7. \A t \in Strays' : t \in Strays \cup {cookie, refresh[x].old, refresh[x].new}
  <2> SUFFICES ASSUME NEW t \in Strays', t \notin {cookie, refresh[x].old, refresh[x].new}
               PROVE  t \in Strays
    OBVIOUS
  <2>1. \A y \in InFlight : y # x => y \in InFlight' /\ refresh'[y] = refresh[y]
    BY <1>2, <1>4
  <2> QED  BY <1>3, <2>1, StrayBy
<1>8. refresh[x].pc \in {"granted", "refused"} => refresh[x].old \notin Strays'
  <2>1. \A t \in Strays' : t # NoToken /\ row[t] = "live"
    BY <1>3, StrayBy, SessionRotationAssumption
  <2> QED  BY <1>1, <2>1 DEF Answered
<1>9. refresh[x].pc \notin {"inserted", "granted"} => refresh[x].new \notin Strays'
  <2>1. \A t \in Strays' : t # NoToken
    BY StrayBy, SessionRotationAssumption
  <2> QED  BY <1>1, <2>1 DEF Brings
<1>10. cookie' \notin Strays'
  BY StrayBy
<1>11. cookie' = cookie /\ refresh[x].old # cookie => (Asked => Asked')
  BY <1>2, <1>4 DEF Asked
<1> USE RiskCounts
<1>12. CASE Granted(x)
  <2>1. refresh[x].pc = "granted" /\ cookie' = refresh[x].new /\ access' = TRUE /\ faults' = faults
    BY <1>12 DEF Granted
  <2>2. Strays' \subseteq Strays \cup {cookie}
    BY <1>7, <1>8, <1>10, <2>1
  <2>3. Asked => Strays' \subseteq Strays
    <3> SUFFICES ASSUME NEW y \in InFlight, refresh[y].old = cookie PROVE cookie \notin Strays'
      BY <2>2 DEF Asked
    <3>1. CASE y = x
      BY <1>8, <2>1, <3>1
    <3>2. CASE y # x
      BY <1>2, <1>4, <3>2, StrayBy
    <3> QED  BY <3>1, <3>2
  <2>4. ~Unclaimed'
    BY <2>1 DEF Unclaimed
  <2>5. /\ Cardinality(Strays') <= Cardinality(Strays) + 1
        /\ Asked => Cardinality(Strays') <= Cardinality(Strays)
    BY <2>2, <2>3, MoreStrays
  <2> QED  BY <1>1, <1>2, <1>5, <1>6, <2>1, <2>4, <2>5, RiskNumbers DEF Risk, One
<1>13. CASE Denied(x)
  <2>1. refresh[x].pc = "refused" /\ cookie' = cookie /\ faults' = faults
    BY <1>13 DEF Denied
  <2>2. Strays' \subseteq Strays
    BY <1>7, <1>8, <1>9, <1>10, <2>1
  <2>3. refresh[x].old = cookie => ~Unclaimed'
    BY <1>1, <1>3, <2>1 DEF Answered, Unclaimed
  <2> QED  BY <1>1, <1>2, <1>5, <1>6, <1>11, <2>1, <2>2, <2>3, MoreStrays, RiskNumbers DEF Risk, One
<1>14. CASE Ignored(x)
  <2>1. /\ refresh[x].pc \in {"granted", "refused"} /\ refresh[x].by = Nobody
        /\ UNCHANGED <<cookie, access, faults>>
    BY <1>14 DEF Ignored
  <2>2. Strays' \subseteq Strays \cup {refresh[x].new}
    BY <1>7, <1>8, <1>10, <2>1
  <2>3. Asked => Asked'
    <3> SUFFICES ASSUME NEW y \in InFlight, refresh[y].by # Nobody, refresh[y].old = cookie
                 PROVE  Asked'
      BY DEF Asked
    <3>1. y # x
      BY <2>1
    <3>2. y \in InFlight' /\ refresh'[y] = refresh[y]
      BY <1>2, <1>4, <3>1
    <3> QED  BY <2>1, <3>2 DEF Asked
  <2>4. Unclaimed' => Unclaimed
    <3>1. refresh[x].old = cookie => ~Unclaimed'
      BY <1>1, <1>3, <2>1 DEF Answered, Unclaimed
    <3>2. \A y \in InFlight : y # x => y \in InFlight' /\ refresh'[y] = refresh[y]
      BY <1>2, <1>4
    <3> QED  BY <1>3, <2>1, <3>1, <3>2 DEF Unclaimed
  <2>5. Cardinality(Strays') <= Cardinality(Strays) + 1
    BY <2>2, MoreStrays
  <2> QED  BY <1>1, <1>2, <1>5, <1>6, <2>1, <2>3, <2>4, <2>5, RiskNumbers DEF Risk, One
<1>15. CASE Lost(x)
  <2>1. cookie' = cookie
    BY <1>15 DEF Lost
  <2>2. faults' = faults + 1
    BY <1>15 DEF Lost, Fault
  <2>3. Strays' \subseteq Strays \cup {refresh[x].old, refresh[x].new}
    BY <1>7, <1>10, <2>1
  <2>4. refresh[x].old = cookie => Strays' \subseteq Strays \cup {refresh[x].new}
    BY <1>10, <2>1, <2>3
  <2>5. /\ Cardinality(Strays') <= Cardinality(Strays) + 2
        /\ refresh[x].old = cookie => Cardinality(Strays') <= Cardinality(Strays) + 1
    BY <2>3, <2>4, MoreStrays
  <2> QED  BY <1>1, <1>2, <1>5, <1>6, <1>11, <2>1, <2>2, <2>5, RiskNumbers DEF Risk, One
<1> QED  BY <1>12, <1>13, <1>14, <1>15

(* A page that gives up waiting may sign in again, with the cookie good.     *)
LEMMA TimeOutKeepsRisk ==
    ASSUME KindsInv, Risk, NEW x \in Refreshes, TimesOut(x)
    PROVE  Risk'
<1>1. TypeOK
  BY DEF KindsInv
<1>2. /\ InFlight' = InFlight
      /\ \A y \in InFlight : refresh'[y].old = refresh[y].old /\ refresh'[y].new = refresh[y].new
  BY <1>1, TimeOutFacts DEF InFlight
<1>3. UNCHANGED <<row, cookie, signout, overlaps>> /\ faults' = faults + 1
  BY DEF TimesOut, Fault
<1>4. Strays' \subseteq Strays
  BY <1>2, <1>3, StrayBy
<1>5. Leaving' <=> Leaving
  BY <1>3 DEF Leaving
<1> QED  BY <1>1, <1>2, <1>3, <1>4, <1>5, MoreStrays, RiskCounts, RiskNumbers DEF Risk, One

(* A sign-in replaces a cookie that is still good only when the page has     *)
(* forgotten it, or while it is being refreshed.                             *)
LEMMA SignInKeepsRisk ==
    ASSUME KindsInv, Risk, SignIn
    PROVE  Risk'
<1>1. TypeOK
  BY DEF KindsInv
<1>2. /\ ~access /\ access' = TRUE /\ UNCHANGED <<refresh, signout, faults>>
      /\ Overlap(InFlight)
  BY DEF SignIn
<1>3. InFlight' = InFlight
  BY <1>2 DEF InFlight
<1>4. /\ overlaps' \in Nat /\ overlaps' >= overlaps
      /\ InFlight # {} => overlaps' = overlaps + 1
  BY <1>1, <1>2, OverlapFacts
<1>5. \A u \in Tokens \cup {Other} : u # cookie' => row'[u] = row[u]
  BY <1>1, SignInFacts
<1>6. Strays' \subseteq Strays \cup {cookie}
  <2> SUFFICES ASSUME NEW t \in Strays', t # cookie PROVE t \in Strays
    OBVIOUS
  <2>1. t \in Tokens /\ t # cookie' /\ row'[t] = "live"
    BY StrayBy
  <2> QED  BY <1>2, <1>3, <1>5, <2>1, StrayBy
<1>7. cookie \in Strays' => Unclaimed
  <2> SUFFICES ASSUME cookie \in Strays' PROVE Unclaimed
    OBVIOUS
  <2>1. /\ cookie \in Tokens /\ cookie # cookie' /\ row'[cookie] = "live"
        /\ \A x \in InFlight : refresh[x].old # cookie
    BY <1>2, <1>3, StrayBy
  <2>2. cookie # NoToken /\ row[cookie] = "live"
    BY <1>5, <2>1, SessionRotationAssumption
  <2> QED  BY <1>2, <2>1, <2>2 DEF Unclaimed
<1>8. Unclaimed => ~Asked
  BY DEF Unclaimed, Asked
<1>9. Asked => overlaps' = overlaps + 1
  BY <1>4 DEF Asked
<1>10. ~Unclaimed' /\ (Leaving' <=> Leaving)
  BY <1>2 DEF Unclaimed, Leaving
<1>11. /\ Cardinality(Strays') <= Cardinality(Strays) + 1
       /\ ~Unclaimed => Cardinality(Strays') <= Cardinality(Strays)
  BY <1>6, <1>7, MoreStrays
<1> QED  BY <1>1, <1>2, <1>3, <1>4, <1>8, <1>9, <1>10, <1>11, RiskCounts, RiskNumbers DEF Risk, One

(* A client that starts a refresh risks the cookie, alone or as an overlap.  *)
LEMMA StartKeepsRisk ==
    ASSUME KindsInv, Risk, NEW c \in Calls, Refused(c), ~Busy(call[c].via)
    PROVE  Risk'
<1>1. TypeOK /\ Sent
  BY DEF KindsInv
<1> DEFINE cl == call[c].via
<1>2. PICK x \in Free :
           /\ cl \in Clients /\ refresh'[x] = Asking(cl)
           /\ \A y \in Refreshes : y # x => refresh'[y] = refresh[y]
           /\ InFlight' = InFlight \cup {x}
  BY <1>1, StartFacts
<1>3. Asking(cl).by = cl /\ Asking(cl).old = cookie
  BY <1>1, <1>2, Records
<1>4. /\ UNCHANGED <<row, cookie, access, signout, faults>>
      /\ Overlap({y \in InFlight : refresh[y].by # cl})
  BY DEF Refused
<1>5. \A y \in InFlight : y # x /\ refresh'[y] = refresh[y] /\ refresh[y].by # cl
  BY <1>2 DEF InFlight, Free, Busy
<1>6. Asked'
  <2>1. cl # Nobody
    BY <1>2, SessionRotationAssumption
  <2>2. x \in InFlight' /\ refresh'[x].by = cl /\ refresh'[x].old = cookie'
    BY <1>2, <1>3, <1>4
  <2> QED  BY <2>1, <2>2 DEF Asked
<1>7. ~Unclaimed' /\ (Leaving' <=> Leaving)
  <2>1. x \in InFlight' /\ refresh'[x].old = cookie'
    BY <1>2, <1>3, <1>4
  <2> QED  BY <1>4, <2>1 DEF Unclaimed, Leaving
<1>8. /\ overlaps' \in Nat /\ overlaps' >= overlaps
      /\ Asked => overlaps' = overlaps + 1
  <2>1. Asked => {y \in InFlight : refresh[y].by # cl} # {}
    BY <1>5 DEF Asked
  <2> QED  BY <1>1, <1>4, <2>1, OverlapFacts
<1>9. Strays' \subseteq Strays
  <2> SUFFICES ASSUME NEW t \in Strays' PROVE t \in Strays
    OBVIOUS
  <2>1. \A y \in InFlight : y \in InFlight' /\ refresh'[y] = refresh[y]
    BY <1>2, <1>5
  <2> QED  BY <1>4, <2>1, StrayBy
<1>10. Cardinality(InFlight') <= Cardinality(InFlight) + 1
  BY <1>2, RiskCounts, AtMostOneMore
<1>11. Cardinality(Strays') <= Cardinality(Strays)
  BY <1>9, MoreStrays
<1> HIDE DEF cl
<1> QED  BY <1>1, <1>4, <1>6, <1>7, <1>8, <1>10, <1>11, RiskCounts, RiskNumbers DEF Risk, One

(* A page that is loaded lets go of the answers on their way.                *)
LEMMA ReloadKeepsRisk ==
    ASSUME KindsInv, Risk, Reload
    PROVE  Risk'
<1>1. TypeOK /\ Answered /\ Brings
  BY DEF KindsInv
<1>2. PICK x \in Free :
           /\ refresh'[x] = Asking(Page)
           /\ \A y \in Refreshes : y # x => IF y \in Serving
                  THEN /\ refresh'[y].by = Nobody /\ refresh'[y].pc = refresh[y].pc
                       /\ refresh'[y].old = refresh[y].old /\ refresh'[y].new = refresh[y].new
                  ELSE refresh'[y] = NoRefresh
           /\ InFlight' = Serving \cup {x}
  BY <1>1, ReloadFacts
<1>3. Asking(Page).by = Page /\ Asking(Page).old = cookie
  BY <1>1, Records
<1>4. /\ UNCHANGED <<row, cookie, access, faults>> /\ Overlap(InFlight)
      /\ signout'.pc \in {"cut", "idle"}
  <2>1. signout \in [pc : {"idle", "sent", "revoked", "cut"}, token : Tokens \cup {NoToken}]
    BY <1>1 DEF TypeOK
  <2> QED  BY <2>1 DEF Reload, NoSignOut
<1>5. Asked' /\ ~Unclaimed' /\ ~Leaving'
  <2>1. x \in InFlight' /\ refresh'[x].by = Page /\ refresh'[x].old = cookie'
    BY <1>2, <1>3, <1>4
  <2>2. Page # Nobody
    BY SessionRotationAssumption
  <2> QED  BY <1>4, <2>1, <2>2 DEF Asked, Unclaimed, Leaving
<1>6. /\ overlaps' \in Nat /\ overlaps' >= overlaps
      /\ Asked => overlaps' = overlaps + 1
  BY <1>1, <1>4, OverlapFacts DEF Asked
<1> DEFINE D == InFlight \ Serving
           N == {refresh[y].new : y \in D}
<1>7. Strays' \subseteq Strays \cup N
  <2> SUFFICES ASSUME NEW t \in Strays', t \notin N PROVE t \in Strays
    OBVIOUS
  <2>1. t \in Tokens /\ row[t] = "live" /\ t # cookie /\ t # NoToken
    BY <1>4, StrayBy, SessionRotationAssumption
  <2>2. ASSUME NEW y \in InFlight PROVE t # refresh[y].old /\ t # refresh[y].new
    <3>1. y \in Refreshes /\ y # x
      BY DEF InFlight, Free
    <3>2. CASE y \in Serving
      BY <1>2, <3>1, <3>2, StrayBy
    <3>3. CASE y \in D
      <4>1. refresh[y].pc \in {"granted", "refused"}
        <5>1. refresh[y].pc \in RefreshStates
          BY <1>1, <3>1, Types DEF RefreshRecords
        <5> QED  BY <3>1, <3>3, <5>1 DEF RefreshStates, Serving, InFlight
      <4>2. t # refresh[y].old
        BY <1>1, <2>1, <3>1, <4>1 DEF Answered
      <4> QED  BY <3>3, <4>2
    <3> QED  BY <3>2, <3>3
  <2> QED  BY <2>1, <2>2, StrayBy
<1>8. IsFiniteSet(D) /\ Cardinality(D) \in Nat
  <2>1. D \subseteq InFlight
    OBVIOUS
  <2> HIDE DEF D
  <2> QED  BY <2>1, RiskCounts, FS_Subset, FS_CardinalityType
<1>9. IsFiniteSet(N) /\ Cardinality(N) <= Cardinality(D) /\ Cardinality(N) \in Nat
  <2> DEFINE f == [y \in D |-> refresh[y].new]
  <2>1. f \in Surjection(D, N)
    BY DEF Surjection
  <2> HIDE DEF D, N, f
  <2> QED  BY <1>8, <2>1, FS_Surjection, FS_CardinalityType
<1>10. IsFiniteSet(Serving) /\ Cardinality(Serving) \in Nat
  <2>1. Serving \subseteq Refreshes
    BY DEF Serving
  <2> QED  BY <2>1, SessionRotationAssumption, FS_Subset, FS_CardinalityType
<1>11. Cardinality(InFlight) = Cardinality(Serving) + Cardinality(D)
  <2>1. InFlight \cap Serving = Serving /\ D = InFlight \ Serving
    BY DEF Serving, InFlight
  <2>2. Cardinality(InFlight \ Serving) = Cardinality(InFlight) - Cardinality(InFlight \cap Serving)
    BY RiskCounts, FS_Difference
  <2> HIDE DEF D
  <2> QED  BY <1>8, <1>10, <2>1, <2>2, RiskCounts
<1>12. Cardinality(InFlight') <= Cardinality(Serving) + 1
  BY <1>2, <1>10, AtMostOneMore
<1> HIDE DEF D, N
<1>13. Cardinality(Strays') <= Cardinality(Strays) + Cardinality(N)
  <2>1. IsFiniteSet(Strays \cup N) /\ Cardinality(Strays \cup N) <= Cardinality(Strays) + Cardinality(N)
    <3>1. IsFiniteSet(Strays \cap N) /\ Cardinality(Strays \cap N) \in Nat
      BY RiskCounts, FS_Subset, FS_CardinalityType
    <3> QED  BY <1>9, <3>1, RiskCounts, FS_Union
  <2>2. Cardinality(Strays') <= Cardinality(Strays \cup N)
    BY <1>7, <2>1, FS_Subset
  <2>3. Cardinality(Strays \cup N) \in Nat
    BY <2>1, FS_CardinalityType
  <2> QED  BY <1>9, <2>1, <2>2, <2>3, RiskCounts
<1> QED  BY <1>1, <1>4, <1>5, <1>6, <1>8, <1>9, <1>10, <1>11, <1>12, <1>13, RiskCounts, RiskNumbers
         DEF Risk, One

(* The rest of the page's steps.                                             *)
LEMMA PageKeepsRisk ==
    ASSUME KindsInv, Risk, refresh' = refresh,
           \/ Cleared \/ SignOut \/ SignOutRevoke \/ SignOutAnswer \/ SignOutLost
           \/ \E c \in Calls : Answer(c) \/ \E cl \in Clients : Send(c, cl)
    PROVE  Risk'
<1>1. TypeOK
  BY DEF KindsInv
<1>2. InFlight' = InFlight
  BY DEF InFlight
<1>3. \A t \in Tokens : row'[t] = "live" => row[t] = "live"
  <2>1. CASE SignOutRevoke
    BY <1>1, <2>1, Types DEF SignOutRevoke
  <2> QED  BY <2>1 DEF Cleared, SignOut, SignOutAnswer, SignOutLost, Answer, Served, Refused, Send
<1>4. Strays' \subseteq Strays \cup {cookie} /\ (cookie' = cookie => Strays' \subseteq Strays)
  <2>1. ASSUME NEW t \in Strays', t # cookie \/ cookie' = cookie PROVE t \in Strays
    BY <1>2, <1>3, <2>1, StrayBy
  <2> QED  BY <2>1
<1>5. /\ Cardinality(Strays') <= Cardinality(Strays) + 1
      /\ cookie' = cookie => Cardinality(Strays') <= Cardinality(Strays)
      /\ Strays' \subseteq Strays => Cardinality(Strays') <= Cardinality(Strays)
  BY <1>4, MoreStrays
<1>6. cookie' = cookie => (Asked' <=> Asked)
  BY <1>2 DEF Asked
<1>7. cookie' = cookie /\ access' = access => (Unclaimed' => Unclaimed)
  <2> SUFFICES ASSUME cookie' = cookie, access' = access, Unclaimed' PROVE Unclaimed
    OBVIOUS
  <2>1. cookie \in Tokens
    BY <1>1, Types DEF Unclaimed
  <2> QED  BY <1>2, <1>3, <2>1 DEF Unclaimed
<1> USE RiskCounts, RiskNumbers
<1>8. CASE Cleared \/ SignOut
  <2>1. UNCHANGED <<cookie, overlaps>> /\ faults' = faults + 1
    BY <1>8 DEF Cleared, SignOut, Fault
  <2>2. (Cleared /\ (Leaving' <=> Leaving)) \/ (SignOut /\ access' = access)
    BY <1>8 DEF Cleared, SignOut, Leaving
  <2> QED  BY <1>1, <1>2, <1>5, <1>6, <1>7, <2>1, <2>2 DEF Risk, One
<1>9. CASE SignOutRevoke
  <2>1. UNCHANGED <<cookie, access, faults, overlaps>>
    BY <1>9 DEF SignOutRevoke
  <2>2. Leaving' => Leaving
    BY <1>9 DEF SignOutRevoke, Leaving, NoSignOut
  <2> QED  BY <1>1, <1>2, <1>5, <1>6, <1>7, <2>1, <2>2 DEF Risk, One
<1>10. CASE SignOutAnswer
  <2>1. cookie' = NoToken /\ UNCHANGED <<faults, overlaps>> /\ Leaving /\ ~Leaving' /\ ~Unclaimed'
    BY <1>10 DEF SignOutAnswer, Leaving, NoSignOut, Unclaimed
  <2>2. Asked => Cardinality(Strays') <= Cardinality(Strays)
    <3> SUFFICES ASSUME NEW y \in InFlight, refresh[y].old = cookie PROVE Strays' \subseteq Strays
      BY <1>5 DEF Asked
    <3>1. cookie \notin Strays'
      BY <1>2, StrayBy
    <3> QED  BY <1>4, <3>1
  <2> QED  BY <1>1, <1>2, <1>5, <2>1, <2>2 DEF Risk, One
<1>11. CASE SignOutLost
  <2>1. UNCHANGED <<cookie, faults, overlaps>> /\ Leaving /\ ~Leaving'
    BY <1>11 DEF SignOutLost, Leaving, NoSignOut
  <2> QED  BY <1>1, <1>2, <1>5, <1>6, <2>1 DEF Risk, One
<1>12. CASE \E c \in Calls : Answer(c) \/ \E cl \in Clients : Send(c, cl)
  <2>1. UNCHANGED <<cookie, access, signout, faults>>
    BY <1>12 DEF Answer, Served, Refused, Send
  <2>2. overlaps' \in Nat /\ overlaps' >= overlaps
    BY <1>1, <1>12, OverlapFacts DEF Answer, Served, Refused, Send
  <2>3. Leaving' <=> Leaving
    BY <2>1 DEF Leaving
  <2> QED  BY <1>1, <1>2, <1>5, <1>6, <1>7, <2>1, <2>2, <2>3 DEF Risk, One
<1> QED  BY <1>8, <1>9, <1>10, <1>11, <1>12

(* The invariant holds of the specification.                                 *)
LEMMA RiskInvariant == Spec => []Risk
<1>1. Init => Risk
  <2> SUFFICES ASSUME Init PROVE Risk
    OBVIOUS
  <2>1. InFlight = {}
    BY DEF Init, InFlight, NoRefresh
  <2>2. Strays = {}
    BY SessionRotationAssumption DEF Init, Strays
  <2>3. ~Unclaimed /\ ~Leaving /\ ~Asked
    BY <2>1 DEF Init, Unclaimed, Leaving, Asked, NoSignOut
  <2>4. Cardinality(Strays) = 0 /\ Cardinality(InFlight) = 0
    BY <2>1, <2>2, FS_EmptySet
  <2> QED  BY <2>3, <2>4 DEF Init, Risk, One
<1>2. KindsInv /\ Risk /\ [Next]_vars => Risk'
  <2> SUFFICES ASSUME KindsInv, Risk, [Next]_vars PROVE Risk'
    OBVIOUS
  <2>1. CASE UNCHANGED vars
    <3>1. /\ Strays' = Strays /\ InFlight' = InFlight /\ faults' = faults /\ overlaps' = overlaps
          /\ (Unclaimed' <=> Unclaimed) /\ (Leaving' <=> Leaving) /\ (Asked' <=> Asked)
      BY <2>1 DEF vars, Strays, InFlight, Unclaimed, Leaving, Asked
    <3> QED  BY <3>1 DEF Risk, One
  <2>2. CASE Next
    <3>1. ASSUME NEW c \in Calls, Refused(c) PROVE Risk'
      <4>1. CASE Busy(call[c].via)
        <5>1. refresh' = refresh
          BY <3>1, <4>1 DEF Refused
        <5> QED  BY <3>1, <5>1, PageKeepsRisk DEF Answer
      <4> QED  BY <3>1, <4>1, StartKeepsRisk
    <3>2. ASSUME NEW c \in Calls, NEW cl \in Clients, Served(c) \/ Send(c, cl) PROVE Risk'
      <4>1. refresh' = refresh
        BY <3>2 DEF Served, Send
      <4> QED  BY <3>2, <4>1, PageKeepsRisk DEF Answer
    <3>3. CASE Cleared \/ SignOut \/ SignOutRevoke \/ SignOutAnswer \/ SignOutLost
      <4>1. refresh' = refresh
        BY <3>3 DEF Cleared, SignOut, SignOutRevoke, SignOutAnswer, SignOutLost
      <4> QED  BY <3>3, <4>1, PageKeepsRisk
    <3>4. ASSUME NEW c \in Calls, Served(c) PROVE Risk'
      <4>1. refresh' = refresh
        BY <3>4 DEF Served
      <4> QED  BY <3>4, <4>1, PageKeepsRisk DEF Answer
    <3> QED  BY <2>2, <3>1, <3>2, <3>3, <3>4, ServiceKeepsRisk, EndKeepsRisk, TimeOutKeepsRisk,
                SignInKeepsRisk, ReloadKeepsRisk DEF Next, RefreshStep, Answer
  <2> QED  BY <2>1, <2>2
<1> QED  BY <1>1, <1>2, KindsInvariant, PTL DEF Spec

(* The live sessions a browser has lost hold of are at most one for every    *)
(* overlap and two for every fault, for every number of refreshes in flight. *)
THEOREM StraysCounted == Spec => []StraysAreBounded
<1>1. KindsInv /\ Risk => StraysAreBounded
  <2> SUFFICES ASSUME KindsInv, Risk PROVE StraysAreBounded
    OBVIOUS
  <2>1. faults \in Nat /\ overlaps \in Nat
    BY RiskNumbers DEF KindsInv
  <2>2. Asked => Cardinality(InFlight) # 0
    BY RiskCounts, FS_EmptySet DEF Asked
  <2> QED  BY <2>1, <2>2, RiskCounts DEF Risk, One, StraysAreBounded
<1> QED  BY <1>1, KindsInvariant, RiskInvariant, PTL

-----------------------------------------------------------------------------
(***************************************************************************)
(* Nobody waits in vain: what CallsEnd adds to these two theorems is only  *)
(* that the service answers.                                               *)
(***************************************************************************)

(* A call that was put aside waits for a refresh that its own client has in  *)
(* flight.                                                                   *)
WaitIsForRefresh == \A c \in Calls : call[c].pc = "waiting" => Busy(call[c].via)
Behind(c)        == Busy(call[c].via)

(* When a client's refresh is over, however it ends, or when the page gives  *)
(* it up, no call is left waiting for it.                                    *)
EndFreesCalls ==
    \A cl \in Clients : Busy(cl) /\ ~Busy(cl)' =>
        \A c \in Calls : call[c].pc = "waiting" /\ call[c].via = cl => call'[c].pc = "idle"

(* What keeps the refreshes, and leaves no other call waiting.               *)
LEMMA SameKeepsWait ==
    ASSUME WaitIsForRefresh,
           \A c \in Calls : call'[c].pc = "waiting" => call'[c] = call[c],
           InFlight \subseteq InFlight', \A x \in InFlight : refresh'[x].by = refresh[x].by
    PROVE  WaitIsForRefresh' /\ EndFreesCalls
<1>1. \A cl : Busy(cl) => Busy(cl)'
  BY DEF Busy
<1>2. EndFreesCalls
  BY <1>1 DEF EndFreesCalls
<1>3. ASSUME NEW c \in Calls, call'[c].pc = "waiting" PROVE Behind(c)'
  <2>1. call'[c] = call[c] /\ Busy(call[c].via)
    BY <1>3 DEF WaitIsForRefresh
  <2>2. PICK x \in InFlight : refresh[x].by = call[c].via
    BY <2>1 DEF Busy
  <2>3. x \in InFlight' /\ refresh'[x].by = call'[c].via
    BY <2>1, <2>2
  <2> QED  BY <2>3 DEF Busy, Behind
<1>4. WaitIsForRefresh'
  BY <1>3 DEF WaitIsForRefresh, Behind
<1> QED  BY <1>2, <1>4

(* The end of a refresh, whatever the answer, and the page's giving it up    *)
(* end the wait for it.                                                      *)
LEMMA EndKeepsWait ==
    ASSUME KindsInv, WaitIsForRefresh, NEW x \in Refreshes,
           Granted(x) \/ Denied(x) \/ Ignored(x) \/ Lost(x) \/ TimesOut(x)
    PROVE  WaitIsForRefresh' /\ EndFreesCalls
<1>1. TypeOK /\ Sent
  BY DEF KindsInv
<1>2. /\ \A y \in InFlight : y # x => y \in InFlight' /\ refresh'[y] = refresh[y]
      /\ InFlight \subseteq Refreshes /\ x \in InFlight
  <2>1. CASE TimesOut(x)
    BY <1>1, <2>1, TimeOutFacts DEF InFlight
  <2>2. CASE Granted(x) \/ Denied(x) \/ Ignored(x) \/ Lost(x)
    BY <1>1, <2>2, EndIsLeaving, EndFacts DEF InFlight, Leaves
  <2> QED  BY <2>1, <2>2
<1>3. CASE refresh[x].by = Nobody
  <2>1. call' = call
    BY <1>3 DEF Granted, Denied, Ignored, Lost, TimesOut
  <2>2. \A cl \in Clients : Busy(cl) => Busy(cl)'
    <3> SUFFICES ASSUME NEW cl \in Clients, NEW y \in InFlight, refresh[y].by = cl
                 PROVE  Busy(cl)'
      BY DEF Busy
    <3>1. y # x
      BY <1>3, SessionRotationAssumption
    <3>2. y \in InFlight' /\ refresh'[y].by = cl
      BY <1>2, <3>1
    <3> QED  BY <3>2 DEF Busy
  <2>3. ASSUME NEW c \in Calls, call'[c].pc = "waiting" PROVE Behind(c)'
    <3>1. call[c].via \in Clients /\ Busy(call[c].via)
      BY <1>1, <2>1, <2>3 DEF Sent, WaitIsForRefresh
    <3>2. PICK v \in Clients : v = call[c].via
      BY <3>1
    <3>3. Busy(v)' /\ v = call'[c].via
      BY <2>1, <2>2, <3>1, <3>2
    <3> QED  BY <3>3 DEF Busy, Behind
  <2> QED  BY <2>2, <2>3 DEF WaitIsForRefresh, EndFreesCalls, Behind
<1>4. CASE refresh[x].by # Nobody
  <2>1. call' = Settled(refresh[x].by)
    BY <1>4 DEF Granted, Denied, Ignored, Lost, TimesOut, Fails, Rejected
  <2>2. \A c \in Calls : IF call[c].pc = "waiting" /\ call[c].via = refresh[x].by
                          THEN call'[c] = NoCall ELSE call'[c] = call[c]
    BY <1>1, <2>1, SettledFacts
  <2>3. \A cl \in Clients : cl # refresh[x].by /\ Busy(cl) => Busy(cl)'
    <3> SUFFICES ASSUME NEW cl \in Clients, cl # refresh[x].by, NEW y \in InFlight, refresh[y].by = cl
                 PROVE  Busy(cl)'
      BY DEF Busy
    <3>1. y \in InFlight' /\ refresh'[y].by = cl
      BY <1>2
    <3> QED  BY <3>1 DEF Busy
  <2>4. ASSUME NEW c \in Calls, call'[c].pc = "waiting" PROVE Behind(c)'
    <3>1. call'[c] = call[c] /\ call[c].via # refresh[x].by /\ call[c].pc = "waiting"
      BY <2>2, <2>4 DEF NoCall
    <3>2. PICK v \in Clients : v = call[c].via
      BY <1>1, <3>1 DEF Sent
    <3>3. Busy(v)' /\ v = call'[c].via
      BY <2>3, <3>1, <3>2 DEF WaitIsForRefresh
    <3> QED  BY <3>3 DEF Busy, Behind
  <2>5. EndFreesCalls
    BY <2>2, <2>3 DEF EndFreesCalls, NoCall
  <2> QED  BY <2>4, <2>5 DEF WaitIsForRefresh, Behind
<1> QED  BY <1>3, <1>4

(* A call is put aside behind a refresh that is in flight, or that it        *)
(* starts; a page that is loaded has no calls.                               *)
LEMMA PageKeepsWait ==
    ASSUME KindsInv, WaitIsForRefresh,
           \/ SignIn \/ Reload \/ Cleared
           \/ SignOut \/ SignOutRevoke \/ SignOutAnswer \/ SignOutLost
           \/ \E c \in Calls : Answer(c) \/ \E cl \in Clients : Send(c, cl)
    PROVE  WaitIsForRefresh' /\ EndFreesCalls
<1>1. TypeOK /\ Sent
  BY DEF KindsInv
<1>2. call \in [Calls -> CallRecords]
  BY <1>1, Types
<1>3. ASSUME refresh' = refresh, \A c \in Calls : call'[c].pc = "waiting" => call'[c] = call[c]
      PROVE  WaitIsForRefresh' /\ EndFreesCalls
  <2>1. InFlight' = InFlight
    BY <1>3 DEF InFlight
  <2> QED  BY <1>3, <2>1, SameKeepsWait
<1>4. CASE SignIn \/ Cleared \/ SignOut \/ SignOutRevoke \/ SignOutAnswer \/ SignOutLost
  BY <1>3, <1>4 DEF SignIn, Cleared, SignOut, SignOutRevoke, SignOutAnswer, SignOutLost
<1>5. CASE Reload
  <2>1. \A c \in Calls : call'[c].pc = "idle"
    BY <1>5 DEF Reload, NoCall
  <2> QED  BY <2>1 DEF WaitIsForRefresh, EndFreesCalls
<1>6. ASSUME NEW c \in Calls, Served(c) PROVE WaitIsForRefresh' /\ EndFreesCalls
  <2>1. \A d \in Calls : call'[d].pc = "waiting" => call'[d] = call[d]
    BY <1>2, <1>6 DEF Served, NoCall
  <2> QED  BY <1>3, <1>6, <2>1 DEF Served
<1>7. ASSUME NEW c \in Calls, NEW cl \in Clients, Send(c, cl) PROVE WaitIsForRefresh' /\ EndFreesCalls
  <2>1. \A d \in Calls : call'[d].pc = "waiting" => call'[d] = call[d]
    BY <1>2, <1>7 DEF Send
  <2> QED  BY <1>3, <1>7, <2>1 DEF Send
<1>8. ASSUME NEW c \in Calls, Refused(c) PROVE WaitIsForRefresh' /\ EndFreesCalls
  <2>1. PICK v \in Clients : v = call[c].via
    BY <1>1, <1>8 DEF Refused, Sent
  <2>2. /\ \A d \in Calls : d # c => call'[d] = call[d]
        /\ call'[c].via = v
    <3>1. call[c] \in CallRecords
      BY <1>2
    <3>2. call' = [call EXCEPT ![c] = [call[c] EXCEPT !.pc = "waiting"]]
      BY <1>8 DEF Refused
    <3> QED  BY <1>2, <2>1, <3>1, <3>2 DEF CallRecords
  <2>3. Busy(v)' /\ \A cl : Busy(cl) => Busy(cl)'
    <3>1. CASE Busy(v)
      <4>1. refresh' = refresh
        BY <1>8, <2>1, <3>1 DEF Refused
      <4> QED  BY <3>1, <4>1 DEF Busy, InFlight
    <3>2. CASE ~Busy(v)
      <4>1. PICK x \in Free : /\ refresh'[x] = Asking(v)
                              /\ \A y \in Refreshes : y # x => refresh'[y] = refresh[y]
                              /\ InFlight' = InFlight \cup {x}
        BY <1>1, <1>8, <2>1, <3>2, StartFacts
      <4>2. refresh'[x].by = v
        BY <4>1 DEF Asking
      <4>3. \A y \in InFlight : y \in InFlight' /\ refresh'[y] = refresh[y]
        BY <4>1 DEF InFlight, Free
      <4>4. x \in InFlight'
        BY <4>1
      <4> QED  BY <4>2, <4>3, <4>4 DEF Busy
    <3> QED  BY <3>1, <3>2
  <2>4. ASSUME NEW d \in Calls, call'[d].pc = "waiting" PROVE Behind(d)'
    <3>1. CASE d = c
      BY <2>2, <2>3, <3>1 DEF Busy, Behind
    <3>2. CASE d # c
      <4>1. call'[d] = call[d] /\ call[d].pc = "waiting"
        BY <2>2, <2>4, <3>2
      <4>2. PICK w \in Clients : w = call[d].via
        BY <1>1, <4>1 DEF Sent
      <4>3. Busy(w)' /\ w = call'[d].via
        BY <2>3, <4>1, <4>2 DEF WaitIsForRefresh
      <4> QED  BY <4>3 DEF Busy, Behind
    <3> QED  BY <3>1, <3>2
  <2> QED  BY <2>3, <2>4 DEF WaitIsForRefresh, EndFreesCalls, Behind
<1> QED  BY <1>4, <1>5, <1>6, <1>7, <1>8 DEF Answer

(* One step, whichever.                                                      *)
LEMMA WaitStep ==
    ASSUME KindsInv, WaitIsForRefresh, [Next]_vars
    PROVE  WaitIsForRefresh' /\ EndFreesCalls
<1>1. CASE UNCHANGED vars
  <2>1. UNCHANGED <<refresh, call>>
    BY <1>1 DEF vars
  <2> QED  BY <2>1 DEF WaitIsForRefresh, EndFreesCalls, Busy, InFlight
<1>2. ASSUME NEW x \in Refreshes, Look(x) \/ RevokeAll(x) \/ Insert(x) \/ Revoke(x)
      PROVE  WaitIsForRefresh' /\ EndFreesCalls
  <2>1. Serves(x)
    BY <1>2, ServiceKeepsKinds
  <2>2. /\ call' = call /\ InFlight' = InFlight
        /\ \A y \in InFlight : refresh'[y].by = refresh[y].by
    BY <2>1 DEF Serves, InFlight
  <2> QED  BY <2>2, SameKeepsWait
<1> QED  BY <1>1, <1>2, EndKeepsWait, PageKeepsWait DEF Next, RefreshStep

(* With any number of clients, and whatever is lost or reloaded, no call     *)
(* waits without a refresh of its client in flight.                          *)
THEOREM NobodyWaitsInVain == Spec => []WaitIsForRefresh
<1>1. Init => WaitIsForRefresh
  BY DEF Init, WaitIsForRefresh, NoCall
<1> QED  BY <1>1, WaitStep, KindsInvariant, PTL DEF Spec

(* Whether a refresh is granted, denied, lost or given up, its end leaves no *)
(* call behind in the queue.                                                 *)
THEOREM QueueIsEmptied == Spec => [][EndFreesCalls]_vars
<1>1. KindsInv /\ WaitIsForRefresh /\ [Next]_vars => [EndFreesCalls]_vars
  BY WaitStep
<1> QED  BY <1>1, NobodyWaitsInVain, KindsInvariant, PTL DEF Spec
=============================================================================
